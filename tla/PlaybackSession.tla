-------------------------- MODULE PlaybackSession --------------------------
(***************************************************************************)
(* The playback session of the music cochlea (music_system/service.py,       *)
(* store.py, integration.py, devices.py) over the phone of PhonePlayer.  One  *)
(* asyncio lock serializes the requests of a person with the observation that *)
(* the polling loop hands in; whoever holds it may await a command to the     *)
(* phone, which fails when it is not answered in time.  The loop itself reads *)
(* the phone without the lock, so that what it hands in may be old.  A        *)
(* session and an event of it are saved in a transaction each.               *)
(***************************************************************************)
EXTENDS PhonePlayer

CONSTANTS
  Modes,         \* the modes of play in use
  MaxSessions,   \* bound: sessions
  MaxDisturbances  \* bound: changes the person makes in the app and pauses, modes and
                   \* follow flags set in MIRROW, commands and readings that are lost,
                   \* deaths of the process, all together

ASSUME PlaybackAssumption ==
  /\ Modes \subseteq {"single", "list", "loop", "one"}
  /\ MaxSessions \in Nat
  /\ MaxDisturbances \in Nat

VARIABLES
  rows,      \* playback_sessions in the order of their creation
  heard,     \* the heard events of playback_events, in their order
  finished,  \* its finished and track_finished events
  live,      \* volatile: _session, its number in rows and its values
  memory,    \* volatile: what else the service remembers
  holder,    \* volatile: who holds _lock, and which command is awaited
  poll,      \* volatile: the polling loop and the reading it carries
  used,      \* history: how many tokens there have been
  drawn,     \* history: how many episodes there have been
  sounding,  \* history: the episode drawn when the song of the session was put on
  asked,     \* history: whether a person has asked for music since the process took up a
             \* session it found
  disturbances

episodes == <<drawn, sounding>>

vars == <<rows, heard, finished, live, memory, holder, poll, used, episodes, asked,
          disturbances, phoneVars>>

-----------------------------------------------------------------------------
(* Rows *)

(* over stands for ended, external and superseded *)
Claims == {"starting", "playing", "paused"}
Statuses == Claims \cup {"unknown", "waiting", "over"}

(* A song the person picked is the only one of its session's queue.  since is
   pause_since: not set, set, or set as long ago as the time-out. *)
Session == [song : Titles, at : DOMAIN Queue, manual : BOOLEAN, mode : Modes \cup {"single"},
            follow : BOOLEAN, status : Statuses, since : {"no", "set", "due"}]

(* grace: a song is starting whose command was given less than half a minute ago *)
Lives(id, s) == [id |-> id, s |-> s, grace |-> s.status = "starting"]
Over ==
  [song |-> Queue[1], at |-> 1, manual |-> FALSE, mode |-> "single", follow |-> FALSE,
   status |-> "over", since |-> "no"]
NoLive == Lives(0, Over)
Alive == live.id # 0
S == live.s
LiveSays(s) == [id |-> live.id, s |-> s, grace |-> live.grace /\ s.status = "starting"]

Songs(s) == IF s.manual THEN <<s.song>> ELSE Queue

Stopped(s, status) == [s EXCEPT !.status = status, !.since = "no"]
Doubt(s) == Stopped(s, "unknown")

SavedAlone(id, s) ==
  [i \in 1 .. (IF id > Len(rows) THEN id ELSE Len(rows)) |-> IF i = id THEN s ELSE rows[i]]

(* save_session supersedes every other session.  Of a session that is over the model keeps
   nothing else. *)
Saved(id, s) ==
  [i \in 1 .. (IF id > Len(rows) THEN id ELSE Len(rows)) |-> IF i = id THEN s ELSE Over]

-----------------------------------------------------------------------------
(* Memory *)

(* What a new process remembers: whether the queue may go on, the receipts it has taken,
   the episode under way and those heard, the title that may be followed. *)
Remembers(allow, episode, sung) ==
  [allow |-> allow, receipts |-> {}, episode |-> episode, sung |-> sung, candidate |-> NoTitle]

Holds(op) == [op |-> op, mode |-> "single", to |-> 0, by |-> "person", token |-> 0]
Free == Holds("free")
Dead == Holds("dead")
IsFree == holder = Free
Idle == [at |-> "idle", id |-> 0, reading |-> Unseen]

(* expire_paused finds something to look at only when a pause is on record. *)
PollGoesOn ==
  poll' = IF live'.s.since = "no" THEN Idle
          ELSE [poll EXCEPT !.at = "expire", !.reading = Unseen]

Init ==
  /\ app = [shows |-> NoTitle, playing |-> FALSE]
  /\ guard = NoGuard
  /\ rows = <<>> /\ heard = <<>> /\ finished = {}
  /\ live = NoLive /\ memory = Remembers(TRUE, 0, {})
  /\ holder = Free /\ poll = Idle
  /\ used = 0 /\ drawn = 0 /\ sounding = 0 /\ asked = TRUE /\ disturbances = 0

(* _record_heard, of a reading that names the song and has it playing *)
Hears(m, s, r) == r.available /\ r.playing /\ r.title = s.song /\ m.episode \notin m.sung
Heard(m, id, s, r, play) ==
  IF Hears(m, s, r)
  THEN Append(heard, [id |-> id, episode |-> m.episode, play |-> play])
  ELSE heard
Sung(m, s, r) == IF Hears(m, s, r) THEN [m EXCEPT !.sung = @ \cup {m.episode}] ELSE m

MayDie == disturbances < MaxDisturbances
Disturbs == MayDie /\ disturbances' = disturbances + 1

(* The last two steps of most handlers: the events of the session are committed, then its
   row; the process may die between them. *)
Commits(h, f, s) ==
  /\ heard' = h /\ finished' = f
  /\ \/ rows' = Saved(live.id, s) /\ holder' = Free
     \/ MayDie /\ <<h, f>> # <<heard, finished>> /\ UNCHANGED rows /\ holder' = Dead

(* A handler that only saves the session *)
Saves(s) == Commits(heard, finished, s) /\ live' = LiveSays(s)

(* A session that is over leaves the memory. *)
Closes(f) == Commits(heard, f, Over) /\ live' = NoLive

(* A song that is put on, or followed, gets an episode of its own. *)
Drawn == drawn + 1
Draws == drawn' = Drawn /\ sounding' = Drawn

(* A command that arms the guard comes with a token of its own. *)
MaySend == used < MaxTokens
SendsToken(h) == holder' = [h EXCEPT !.token = used + 1] /\ used' = used + 1

-----------------------------------------------------------------------------
(* start_song *)

Start(mode) ==
  /\ IsFree /\ MaySend /\ Len(rows) < MaxSessions
  /\ SendsToken([Holds("start") EXCEPT !.mode = mode])
  /\ asked' = TRUE
  /\ UNCHANGED <<rows, heard, finished, live, memory, poll, episodes, disturbances, phoneVars>>

(* What a play command says of its song, the metadata it comes back with *)
PlayReply(song) == IF SaysPlaying(song) THEN Seen' ELSE Unseen
StatusOf(song) == IF SaysPlaying(song) THEN "playing" ELSE "starting"

Started ==
  /\ holder.op = "start"
  /\ PlaysSong(Queue[1], holder.token)
  /\ LET id == Len(rows) + 1
         s == [song |-> Queue[1], at |-> 1, manual |-> FALSE, mode |-> holder.mode,
               follow |-> Alive /\ S.follow, status |-> StatusOf(Queue[1]), since |-> "no"]
         r == PlayReply(Queue[1])
         m == [memory EXCEPT !.allow = TRUE, !.episode = Drawn, !.candidate = NoTitle]
     IN  /\ rows' = Saved(id, s)
         /\ live' = Lives(id, s)
         /\ memory' = Sung(m, s, r)
         /\ \/ heard' = Heard(m, id, s, r, Drawn) /\ holder' = Free
            \/ MayDie /\ Hears(m, s, r) /\ UNCHANGED heard /\ holder' = Dead
  /\ Draws
  /\ UNCHANGED <<finished, poll, used, asked, disturbances>>

-----------------------------------------------------------------------------
(* control *)

Managed == S.status # "waiting" /\ ~S.manual

Pause ==
  /\ Disturbs
  /\ IsFree /\ Alive /\ Managed
  /\ holder' = Holds("pause")
  /\ UNCHANGED <<rows, heard, finished, live, memory, poll, used, episodes, asked, phoneVars>>

Paused ==
  /\ holder.op = "pause"
  /\ PausesSong(S.song)
  /\ Saves([S EXCEPT !.status = "paused", !.since = "set"])
  /\ UNCHANGED <<memory, poll, used, episodes, asked, disturbances>>

(* Asking to go on is what lets the queue go on, whether or not it is refused. *)
Resume ==
  /\ IsFree /\ Alive
  /\ asked' = TRUE
  /\ memory' = [memory EXCEPT !.allow = TRUE]
  /\ \/ Managed /\ MaySend /\ SendsToken(Holds("resume"))
     \/ ~Managed /\ UNCHANGED <<used, holder>>
  /\ UNCHANGED <<rows, heard, finished, live, poll, episodes, disturbances, phoneVars>>

Resumed ==
  /\ holder.op = "resume"
  /\ ResumesSong(S.song, holder.token)
  /\ Saves(Stopped(S, "playing"))
  /\ UNCHANGED <<memory, poll, used, episodes, asked, disturbances>>

(* _advance: where the queue goes next, 0 when it is over *)
NextAt(s, automatic) ==
  IF s.mode = "one" /\ automatic THEN s.at
  ELSE IF s.at < Len(Songs(s)) THEN s.at + 1
  ELSE IF s.mode = "loop" THEN 1
  ELSE 0

PlaysNext(to, by) == SendsToken([Holds("advance") EXCEPT !.to = to, !.by = by])

Skip ==
  /\ IsFree /\ Alive
  /\ asked' = TRUE
  /\ memory' = [memory EXCEPT !.allow = TRUE]
  /\ LET to == NextAt(S, FALSE)
         refused == ~Managed \/ S.mode = "single" \/ Len(Songs(S)) < 2 \/ to = 0
     IN  \/ ~refused /\ MaySend /\ PlaysNext(to, "person")
         \/ refused /\ UNCHANGED <<used, holder>>
  /\ UNCHANGED <<rows, heard, finished, live, poll, episodes, disturbances, phoneVars>>

Advanced ==
  /\ holder.op = "advance" /\ ~S.manual
  /\ PlaysSong(Queue[holder.to], holder.token)
  /\ LET to == holder.to
         s == [Stopped(S, StatusOf(Queue[to])) EXCEPT !.song = Queue[to], !.at = to]
         r == PlayReply(Queue[to])
         m == [memory EXCEPT !.episode = Drawn]
     IN  /\ live' = Lives(live.id, s)
         /\ Commits(Heard(m, live.id, s, r, Drawn), finished, s)
         /\ memory' = Sung(m, s, r)
  /\ Draws
  /\ IF holder.by = "poll" THEN PollGoesOn ELSE UNCHANGED poll
  /\ UNCHANGED <<used, asked, disturbances>>

(* A song the person picked is not stopped when the session ends. *)
End ==
  /\ IsFree /\ Alive
  /\ \/ /\ ~S.manual
        /\ holder' = Holds("end")
        /\ UNCHANGED <<rows, heard, finished, live, memory>>
     \/ /\ S.manual
        /\ Closes(finished)
        /\ memory' = [memory EXCEPT !.candidate = NoTitle]
  /\ UNCHANGED <<poll, used, episodes, asked, disturbances, phoneVars>>

Ended ==
  /\ holder.op = "end"
  /\ PausesSong(S.song)
  /\ Closes(finished)
  /\ memory' = [memory EXCEPT !.candidate = NoTitle]
  /\ UNCHANGED <<poll, used, episodes, asked, disturbances>>

(* The device refuses, or does not answer in time, although it may have done what it was
   told, or the first half of it.  The session is then in doubt, whatever was asked for. *)
Did ==
  \/ holder.op = "start" /\ PlaysSong(Queue[1], holder.token)
  \/ holder.op = "advance" /\ ~S.manual /\ PlaysSong(Queue[holder.to], holder.token)
  \/ holder.op \in {"pause", "end"} /\ PausesSong(S.song)
  \/ holder.op = "resume" /\ ArmsGuard(S.song, holder.token) /\ UNCHANGED app
  \/ holder.op = "resume" /\ ResumesSong(S.song, holder.token)

Refuses ==
  \/ holder.op \in {"pause", "end", "resume"} /\ app.shows # S.song
  \/ holder.op = "advance" /\ S.manual

CommandFails ==
  /\ holder.op \notin {"free", "dead"}
  /\ \/ Refuses /\ UNCHANGED <<disturbances, phoneVars>>
     \/ Disturbs /\ UNCHANGED phoneVars
     \/ Disturbs /\ Did
  /\ IF Alive THEN Saves(Doubt(S))
     ELSE holder' = Free /\ UNCHANGED <<rows, heard, finished, live>>
  /\ poll' = IF holder.by = "poll" THEN Idle ELSE poll
  /\ UNCHANGED <<memory, used, episodes, asked>>

(* update_session *)
SetsMode(mode) ==
  /\ Disturbs
  /\ IsFree /\ Alive /\ S.status # "waiting"
  /\ Saves([S EXCEPT !.mode = mode])
  /\ UNCHANGED <<memory, poll, used, episodes, asked, phoneVars>>

SetsFollow(follow) ==
  /\ Disturbs
  /\ IsFree /\ Alive
  /\ IF ~follow /\ (S.status = "waiting" \/ S.manual)
     THEN Closes(finished) /\ memory' = [memory EXCEPT !.candidate = NoTitle]
     ELSE Saves([S EXCEPT !.follow = follow]) /\ UNCHANGED memory
  /\ UNCHANGED <<poll, used, episodes, asked, phoneVars>>

Person ==
  \/ \E mode \in Modes : Start(mode) \/ SetsMode(mode)
  \/ Pause \/ Resume \/ Skip \/ End
  \/ \E follow \in BOOLEAN : SetsFollow(follow)

Awaited ==
  \/ Started \/ Paused \/ Resumed \/ Advanced \/ Ended \/ CommandFails

-----------------------------------------------------------------------------
(* The loop of integration.py: it reads the phone, hands the reading to observe and lets
   expire_paused look at the session.  What a failed reading hands in is Unseen. *)

PollReads ==
  /\ poll.at = "idle" /\ holder # Dead /\ Alive
  /\ \/ poll' = [at |-> "read", id |-> live.id, reading |-> NowPlaying] /\ UNCHANGED disturbances
     \/ poll' = [at |-> "read", id |-> live.id, reading |-> Unseen] /\ Disturbs
  /\ UNCHANGED <<rows, heard, finished, live, memory, holder, used, episodes, asked, phoneVars>>

R == poll.reading
HandedIn == poll.at = "read" /\ IsFree
Ours == Alive /\ poll.id = live.id
Repeated == R.end # 0 /\ R.end \in memory.receipts
Boundary == R.end # 0 /\ R.end \notin memory.receipts
Matches == R.title = S.song

ObserveEnds ==
  /\ PollGoesOn
  /\ UNCHANGED <<asked, disturbances, phoneVars>>

(* A reading of another session, or the receipt of a boundary that has been taken. *)
ObserveNothing ==
  /\ HandedIn
  /\ ~Ours \/ (Repeated /\ ~R.playing /\ ~Matches)
  /\ UNCHANGED <<rows, heard, finished, live, memory, holder, used, episodes>>
  /\ ObserveEnds

Looks(m, s) ==
  /\ Saves(s) /\ memory' = m
  /\ ObserveEnds
  /\ UNCHANGED <<used, episodes>>

Unfollowed == [memory EXCEPT !.candidate = NoTitle]

(* The end of a track, before a restart has been answered by a person. *)
BoundaryUnasked == HandedIn /\ Ours /\ Boundary /\ ~memory.allow /\ Looks(memory, Doubt(S))

FinishedAtLast ==
  IF NextAt(S, TRUE) # 0 THEN finished
  ELSE finished \cup {[id |-> live.id, song |-> S.song]}

(* finished, or track_finished *)
Finished == finished \cup {[id |-> live.id, song |-> S.song]}

BoundaryTaken ==
  /\ HandedIn /\ Ours /\ Boundary /\ memory.allow
  /\ memory' = [memory EXCEPT !.receipts = @ \cup {R.end}]
  /\ LET to == IF S.mode = "single" THEN 0 ELSE NextAt(S, TRUE)
     IN  \/ /\ to = 0 /\ S.mode = "single" /\ S.follow
            /\ LET s == [S EXCEPT !.status = "waiting", !.since = "set"]
               IN  Commits(heard, Finished, s) /\ live' = LiveSays(s)
            /\ PollGoesOn
            /\ UNCHANGED used
         \/ /\ to = 0 /\ ~(S.mode = "single" /\ S.follow)
            /\ Closes(Finished)
            /\ PollGoesOn
            /\ UNCHANGED used
         \/ /\ to # 0 /\ MaySend
            /\ finished' = Finished /\ UNCHANGED <<rows, heard, live>>
            /\ PlaysNext(to, "poll")
            /\ UNCHANGED poll
         \/ /\ to # 0 /\ ~MaySend  \* no more tokens: as if the phone refused the song
            /\ Commits(heard, Finished, Doubt(S)) /\ live' = LiveSays(Doubt(S))
            /\ poll' = Idle
            /\ UNCHANGED used
  /\ UNCHANGED <<episodes, asked, disturbances, phoneVars>>

InGrace == live.grace

ObserveUnavailable ==
  /\ HandedIn /\ Ours /\ R.end = 0 /\ ~R.available
  /\ Looks(Unfollowed, Stopped(S, IF InGrace THEN "starting" ELSE "unknown"))

(* A reading of the phone that is not, or no longer, a boundary *)
Seeing ==
  /\ HandedIn /\ Ours /\ R.available /\ ~Boundary
  /\ ~(Repeated /\ ~R.playing /\ ~Matches)

ObserveBeforeSong == Seeing /\ ~Matches /\ InGrace /\ Looks(Unfollowed, S)

Followed ==
  \/ ~InGrace /\ S.follow /\ ~Matches
  \/ S.status = "waiting" /\ Matches

(* Another song is followed when it is seen playing twice. *)
ObserveCandidate ==
  /\ Seeing /\ Followed /\ R.playing /\ memory.candidate # R.title
  /\ Looks([memory EXCEPT !.candidate = R.title],
           IF S.status = "waiting" THEN S ELSE Doubt(S))

ObserveFollowed ==
  /\ Seeing /\ Followed /\ R.playing /\ memory.candidate = R.title
  /\ LET s == [Stopped(S, "playing") EXCEPT !.song = R.title, !.at = 1, !.manual = TRUE,
                                            !.mode = "single"]
         m == [Unfollowed EXCEPT !.episode = Drawn]
     IN  /\ Commits(Heard(m, live.id, s, R, Drawn), finished, s)
         /\ live' = LiveSays(s)
         /\ memory' = Sung(m, s, R)
  /\ Draws
  /\ ObserveEnds
  /\ UNCHANGED used

ObserveAnotherStopped ==
  /\ Seeing /\ Followed /\ ~R.playing
  /\ Looks(Unfollowed, IF S.status = "waiting" THEN S ELSE Doubt(S))

(* Without following, another song ends the session. *)
ObserveTakeover ==
  /\ Seeing /\ ~Matches /\ ~InGrace /\ ~S.follow
  /\ Closes(finished) /\ UNCHANGED memory
  /\ ObserveEnds
  /\ UNCHANGED <<used, episodes>>

ObserveUnasked ==
  /\ Seeing /\ Matches /\ S.status # "waiting" /\ ~memory.allow
  /\ Looks(Unfollowed, Doubt(S))

ObserveSong ==
  /\ Seeing /\ Matches /\ S.status # "waiting" /\ memory.allow
  /\ LET s == IF R.playing THEN Stopped(S, "playing")
              ELSE [S EXCEPT !.status = "paused", !.since = IF @ = "no" THEN "set" ELSE @]
     IN  /\ Commits(Heard(Unfollowed, live.id, S, R, sounding), finished, s)
         /\ live' = LiveSays(s)
         /\ memory' = Sung(Unfollowed, S, R)
  /\ ObserveEnds
  /\ UNCHANGED <<used, episodes>>

Observe ==
  \/ ObserveNothing \/ BoundaryUnasked \/ BoundaryTaken \/ ObserveUnavailable
  \/ ObserveBeforeSong \/ ObserveCandidate \/ ObserveFollowed \/ ObserveAnotherStopped
  \/ ObserveTakeover \/ ObserveUnasked \/ ObserveSong

TimedOutPaused == Ours /\ S.status = "paused" /\ S.since = "due"

TimedOut == Ours /\ S.status \in {"paused", "waiting"} /\ S.since = "due"

(* expire_paused ends a session that was paused, or waited for a song, all the time-out. *)
Expire ==
  /\ poll.at = "expire" /\ IsFree
  /\ IF TimedOut
     THEN Closes(finished)
     ELSE UNCHANGED <<rows, heard, finished, live, holder>>
  /\ poll' = Idle
  /\ UNCHANGED <<memory, used, episodes, asked, disturbances, phoneVars>>

-----------------------------------------------------------------------------
(* Time, and the death of the process *)

PauseLasts ==
  /\ IsFree /\ Alive /\ S.since = "set"
  /\ live' = [live EXCEPT !.s.since = "due"]
  /\ rows' = [rows EXCEPT ![live.id].since = "due"]
  /\ UNCHANGED <<heard, finished, memory, holder, poll, used, episodes, asked, disturbances,
                 phoneVars>>

GraceEnds ==
  /\ IsFree /\ Alive /\ live.grace
  /\ live' = [live EXCEPT !.grace = FALSE]
  /\ UNCHANGED <<rows, heard, finished, memory, holder, poll, used, episodes, asked, disturbances,
                 phoneVars>>

ClaimKept(i) == rows[i]

(* The store no longer claims to control the phone, and the service takes up the session
   it finds with the episode last heard in it, or a new one. *)
Unclaimed(i) == IF rows[i].status \in Claims THEN Doubt(rows[i]) ELSE rows[i]

ReloadsAfresh(heardIn) == memory' = Remembers(FALSE, Drawn, {}) /\ drawn' = Drawn

Reloads(heardIn) ==
  \/ heardIn = {} /\ memory' = Remembers(FALSE, Drawn, {}) /\ drawn' = Drawn
  \/ \E k \in heardIn :
       /\ \A j \in heardIn : k >= j
       /\ memory' = Remembers(FALSE, heard[k].episode, {heard[k].episode})
       /\ UNCHANGED drawn

Restart ==
  /\ Disturbs
  /\ rows' = [i \in DOMAIN rows |-> Unclaimed(i)]
  /\ LET open == {i \in DOMAIN rows : rows[i] # Over}
     IN  \/ /\ open = {}
           /\ live' = NoLive /\ memory' = Remembers(TRUE, 0, {}) /\ asked' = TRUE
           /\ UNCHANGED drawn
        \/ \E id \in open :
             /\ \A i \in open : id >= i
             /\ live' = Lives(id, Unclaimed(id)) /\ asked' = FALSE
             /\ Reloads({k \in DOMAIN heard : heard[k].id = id})
  /\ holder' = Free /\ poll' = Idle
  /\ UNCHANGED <<heard, finished, used, sounding, phoneVars>>

Phone ==
  /\ holder # Dead
  /\ \/ AppChanges /\ Disturbs
     \/ (AppOpens \/ GuardTicks) /\ UNCHANGED disturbances
  /\ UNCHANGED <<rows, heard, finished, live, memory, holder, poll, used, episodes, asked>>

Polls == PollReads \/ Observe \/ Expire
Time == PauseLasts \/ GraceEnds

Next == Person \/ Awaited \/ Polls \/ Time \/ Restart \/ Phone

Spec == Init /\ [][Next]_vars

(* Under fairness the person and the phone do as they please; the loop goes on and gets the
   lock, whose waiters are served in their order, an awaited command returns or is given
   up, and a process that died is started again. *)
FairSpec ==
  /\ Spec
  /\ SF_vars(Polls)
  /\ WF_vars(Awaited \/ (holder = Dead /\ Restart))

-----------------------------------------------------------------------------
(* Properties *)

(* The type invariant of the phone, the store and the memory of the service. *)
Commands ==
  [op : {"free", "dead", "start", "pause", "resume", "advance", "end"},
   mode : Modes \cup {"single"}, to : DOMAIN Queue \cup {0}, by : {"person", "poll"},
   token : Tokens \cup {0}]

Memories ==
  [allow : BOOLEAN, receipts : SUBSET Tokens, episode : Nat, sung : SUBSET Nat,
   candidate : Titles \cup {NoTitle}]

TypeOK ==
  /\ app \in App /\ guard \in Guard
  /\ rows \in Seq(Session)
  /\ heard \in Seq([id : Nat, episode : Nat, play : Nat])
  /\ finished \subseteq [id : Nat, song : Titles]
  /\ live \in [id : DOMAIN rows \cup {0}, s : Session, grace : BOOLEAN]
  /\ memory \in Memories
  /\ holder \in Commands /\ (holder.op = "advance" => holder.to # 0)
  /\ poll \in [at : {"idle", "read", "expire"}, id : Nat, reading : Readings]
  /\ used \in 0 .. MaxTokens
  /\ drawn \in Nat /\ sounding \in 0 .. drawn
  /\ asked \in BOOLEAN /\ disturbances \in 0 .. MaxDisturbances

(* Whenever nobody holds the lock, the session in memory is the one session in the store
   that is not over, and its row says what the memory says: a command that failed, a song
   taken over or a session that ended by itself is never forgotten on one of the two
   sides (service.py _save, store.py save_session, active_session). *)
StoredIsLive ==
  IsFree =>
    /\ \A i \in DOMAIN rows : rows[i].status # "over" => i = live.id
    /\ Alive => rows[live.id] = S /\ S.status # "over"

(* A song that was put on, or followed, is recorded as heard at most once, however often
   it is observed, paused and resumed, and across every restart (_record_heard,
   last_episode). *)
HeardOnce == \A i, j \in DOMAIN heard : heard[i].play = heard[j].play => i = j

(* After a restart the service puts on nothing by itself, and does not say that its
   song is playing, before a person has asked for music: receipts that the phone has
   kept and readings of a song that goes on do not suffice (store.py:123, _allow_advance). *)
RestartIsSilent ==
  ~asked => /\ holder.op # "advance"
            /\ Alive /\ ~S.manual => S.status \notin {"starting", "playing"}

(* What a step that leaves a song has on record *)
SongsLeftAreFinished ==
  \A i \in DOMAIN rows :
    LET before == rows[i]
    IN  /\ \/ rows'[i].at # before.at
           \/ rows'[i].status = "waiting" /\ before.status # "waiting"
        /\ holder.by = "poll" \/ holder = Free
        /\ ~rows'[i].manual /\ rows'[i].status # "over"
        => \E f \in finished' : f.id = i /\ f.song = before.song

(* The session never goes on by itself to another song before the end of the song is on
   record, whatever fails or dies in between: who waits for that song finds it finished
   and not gone (_advance, playback_receipt, node_execution_adapter.py:799). *)
FinishIsRecorded == [][SongsLeftAreFinished]_vars

(* A pause that has lasted ends: somebody resumes, the phone is seen doing something else,
   or the session is closed (expire_paused). *)
PausesEnd == (Alive /\ S.since = "due") ~> ~(Alive /\ S.since = "due")

=============================================================================
