---------------------------- MODULE PhonePlayer ----------------------------
(***************************************************************************)
(* The phone as the playback service sees it: the music app, which belongs to *)
(* the person, and the guard the client keeps beside it                      *)
(* (NeteasePlaybackGuard.java), which pauses the app at the end of the song   *)
(* it is armed for and then shows a receipt with the token it was armed with. *)
(* A command of the service is handled by NeteaseMusicController.java, one at *)
(* a time and as one step.                                                   *)
(***************************************************************************)
EXTENDS Integers, Sequences

CONSTANTS
  Queue,      \* the songs of a list the service plays, without repetition
  Wild,       \* a title the person picks in the app
  MaxTokens   \* bound: commands that arm the guard

NoTitle == "no title"
Listed == {Queue[k] : k \in DOMAIN Queue}
Titles == Listed \cup {Wild}
Tokens == 1 .. MaxTokens

ASSUME PhoneAssumption ==
  /\ Queue \in Seq(STRING) /\ Queue # <<>>
  /\ \A i, j \in DOMAIN Queue : Queue[i] = Queue[j] => i = j
  /\ Wild \in STRING /\ Wild \notin Listed /\ NoTitle \notin Titles
  /\ MaxTokens \in Nat

VARIABLES
  app,     \* the media session of the app
  guard    \* the guard: the song and token it is armed for, and how far it is

phoneVars == <<app, guard>>

App == [shows : Titles \cup {NoTitle}, playing : BOOLEAN]

NoGuard == [song |-> NoTitle, token |-> 0, at |-> "off"]
Armed(song, token) == [song |-> song, token |-> token, at |-> "armed"]
Guard == [song : Titles \cup {NoTitle}, token : Tokens \cup {0},
          at : {"off", "armed", "done"}]

(* The metadata of a reading.  Without a media session there is none. *)
Unseen == [available |-> FALSE, title |-> NoTitle, playing |-> FALSE, end |-> 0]
Seen == [available |-> TRUE, title |-> app.shows, playing |-> app.playing, end |-> 0]
NowPlaying ==
  IF app.shows = NoTitle THEN Unseen
  ELSE [Seen EXCEPT !.end = IF guard.at = "done" THEN guard.token ELSE 0]

Readings ==
  {Unseen} \cup [available : {TRUE}, title : Titles, playing : BOOLEAN, end : Tokens \cup {0}]

-----------------------------------------------------------------------------
(* The app.  A person, or the app at the end of a song, changes what it plays; a link
   that was opened may be followed a while later. *)

AppChanges ==
  \E t \in Titles \cup {NoTitle}, p \in BOOLEAN :
    /\ t = NoTitle => ~p
    /\ app' = [shows |-> t, playing |-> p]
    /\ UNCHANGED guard

AppOpens ==
  /\ guard.at = "armed"
  /\ app' = [shows |-> guard.song, playing |-> TRUE]
  /\ UNCHANGED guard

-----------------------------------------------------------------------------
(* The guard *)

(* At the end of its song it pauses the app, which may show the next title by then, and
   keeps a receipt. *)
GuardFinishes ==
  /\ guard.at = "armed" /\ app.shows = guard.song /\ app.playing
  /\ \E t \in Titles : app' = [shows |-> t, playing |-> FALSE]
  /\ guard' = [guard EXCEPT !.at = "done"]

(* It gives up a song that did not begin in time or that the person has left, and
   forgets its receipt after a minute. *)
GuardReleases ==
  /\ \/ guard.at = "armed" /\ ~(app.shows = guard.song /\ app.playing)
     \/ guard.at = "done"
  /\ guard' = NoGuard
  /\ UNCHANGED app

-----------------------------------------------------------------------------
(* The commands *)

(* play_song hands a link to the app, waits a few seconds for the song to play, arms the
   guard and tells what it sees.  The link of a song that has no number is refused. *)
PlaysSong(song, token) ==
  /\ \/ app' = [shows |-> song, playing |-> TRUE]
     \/ UNCHANGED app
  /\ guard' = Armed(song, token)

SaysPlaying(song) == app'.shows = song /\ app'.playing

(* arm_guard, play and pause do nothing to a song the person has turned to. *)
ArmsGuard(song, token) == app.shows = song /\ guard' = Armed(song, token)

Transports(song, playing) == app.shows = song /\ app' = [app EXCEPT !.playing = playing]

PausesSong(song) == Transports(song, FALSE) /\ UNCHANGED guard
ResumesSong(song, token) == ArmsGuard(song, token) /\ Transports(song, TRUE)

GuardTicks == GuardFinishes \/ GuardReleases

=============================================================================
