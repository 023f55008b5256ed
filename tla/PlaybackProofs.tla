--------------------------- MODULE PlaybackProofs ---------------------------
(***************************************************************************)
(* Proofs about PlaybackSession, for every queue, set of modes and bound: the *)
(* types, that what is stored is what is remembered, that a restarted service *)
(* is silent, that no song is left before its end is on record, and that a    *)
(* song is heard once.                                                        *)
(***************************************************************************)
EXTENDS PlaybackSession, TLAPS

-----------------------------------------------------------------------------
(* Types *)

HeardRow == [id : Nat, episode : Nat, play : Nat]
FinishedRow == [id : Nat, song : Titles]

LEMMA QueueTyped ==
  /\ 1 \in DOMAIN Queue /\ DOMAIN Queue = 1 .. Len(Queue) /\ Len(Queue) \in Nat
  /\ \A k \in DOMAIN Queue : Queue[k] \in Titles
  <1>1. Queue \in Seq(STRING) /\ Queue # <<>>
    BY PhoneAssumption
  <1>2. DOMAIN Queue = 1 .. Len(Queue) /\ Len(Queue) \in Nat /\ 1 \in DOMAIN Queue
    BY <1>1
  <1>3. \A k \in DOMAIN Queue : Queue[k] \in Titles
    BY DEF Titles, Listed
  <1> QED BY <1>2, <1>3

LEMMA ConstantsTyped ==
  /\ Over \in Session
  /\ Free \in Commands /\ Dead \in Commands
  /\ Free.op = "free" /\ Dead.op = "dead" /\ Free # Dead
  /\ Idle \in [at : {"idle", "read", "expire"}, id : Nat, reading : Readings]
  /\ NoGuard \in Guard
  BY QueueTyped
  DEF Over, Session, Statuses, Claims, Free, Dead, Holds, Commands, Idle, Unseen, Readings,
      NoGuard, Guard

(* Saving the session in memory keeps the table in shape, and leaves no other row open. *)
LEMMA SavedTyped ==
  ASSUME rows \in Seq(Session), NEW id \in Nat, id <= Len(rows) + 1, NEW s \in Session
  PROVE  /\ Saved(id, s) \in Seq(Session)
         /\ Len(Saved(id, s)) = IF id > Len(rows) THEN id ELSE Len(rows)
         /\ DOMAIN Saved(id, s) = 1 .. (IF id > Len(rows) THEN id ELSE Len(rows))
         /\ id # 0 => Saved(id, s)[id] = s
         /\ \A i \in DOMAIN Saved(id, s) : i # id => Saved(id, s)[i] = Over
  BY ConstantsTyped DEF Saved

LEMMA CommitsTyped ==
  ASSUME TypeOK, NEW h \in Seq(HeardRow), NEW f \in SUBSET FinishedRow, NEW s \in Session,
         Commits(h, f, s)
  PROVE  /\ rows' \in Seq(Session) /\ Len(rows') = Len(rows) /\ DOMAIN rows' = DOMAIN rows
         /\ heard' = h /\ finished' = f
         /\ heard' \in Seq([id : Nat, episode : Nat, play : Nat])
         /\ finished' \subseteq [id : Nat, song : Titles]
         /\ holder' \in Commands /\ holder'.op # "advance"
         /\ \/ holder' = Free /\ rows' = Saved(live.id, s)
            \/ holder' = Dead /\ rows' = rows
  <1>1. rows \in Seq(Session) /\ live.id \in Nat /\ live.id <= Len(rows)
    BY DEF TypeOK
  <1>a. DOMAIN rows = 1 .. Len(rows) /\ Len(rows) \in Nat /\ live.id <= Len(rows) + 1
        /\ ~(live.id > Len(rows))
    BY <1>1
  <1>2. /\ Saved(live.id, s) \in Seq(Session) /\ Len(Saved(live.id, s)) = Len(rows)
        /\ DOMAIN Saved(live.id, s) = DOMAIN rows
    <2>1. /\ Saved(live.id, s) \in Seq(Session)
          /\ Len(Saved(live.id, s)) = IF live.id > Len(rows) THEN live.id ELSE Len(rows)
          /\ DOMAIN Saved(live.id, s) = 1 .. (IF live.id > Len(rows) THEN live.id ELSE Len(rows))
      BY <1>1, <1>a, SavedTyped
    <2> QED BY <1>a, <2>1
  <1>3. heard' = h /\ finished' = f
    BY DEF Commits
  <1>4. \/ holder' = Free /\ rows' = Saved(live.id, s)
        \/ holder' = Dead /\ rows' = rows
    BY DEF Commits
  <1>5. /\ rows' \in Seq(Session) /\ Len(rows') = Len(rows) /\ DOMAIN rows' = DOMAIN rows
        /\ holder' \in Commands /\ holder'.op # "advance"
    BY <1>1, <1>2, <1>4, ConstantsTyped
  <1> QED BY <1>3, <1>4, <1>5 DEF HeardRow, FinishedRow

LEMMA SavesTyped ==
  ASSUME TypeOK, NEW s \in Session, Saves(s)
  PROVE  /\ rows' \in Seq(Session) /\ Len(rows') = Len(rows) /\ DOMAIN rows' = DOMAIN rows
         /\ heard' = heard /\ finished' = finished
         /\ holder' = Free
         /\ rows' = Saved(live.id, s)
         /\ live' = LiveSays(s)
         /\ live' \in [id : DOMAIN rows' \cup {0}, s : Session, grace : BOOLEAN]
         /\ live'.id = live.id /\ live'.s = s
         /\ live'.grace => live.grace /\ s.status = "starting"
  <1>1. Commits(heard, finished, s) /\ live' = LiveSays(s)
    BY DEF Saves
  <1>2. heard \in Seq(HeardRow) /\ finished \in SUBSET FinishedRow
    BY DEF TypeOK, HeardRow, FinishedRow
  <1>3. /\ rows' \in Seq(Session) /\ Len(rows') = Len(rows) /\ DOMAIN rows' = DOMAIN rows
        /\ holder' = Free /\ rows' = Saved(live.id, s)
        /\ heard' = heard /\ finished' = finished
    BY <1>1, <1>2, CommitsTyped DEF Commits
  <1>4. live \in [id : DOMAIN rows \cup {0}, s : Session, grace : BOOLEAN]
    BY DEF TypeOK
  <1>5. /\ live' \in [id : DOMAIN rows' \cup {0}, s : Session, grace : BOOLEAN]
        /\ live'.id = live.id /\ live'.s = s
        /\ live'.grace => live.grace /\ s.status = "starting"
    BY <1>1, <1>3, <1>4 DEF LiveSays
  <1> QED BY <1>1, <1>3, <1>5

LEMMA SessionTyped ==
  ASSUME TypeOK
  PROVE  /\ S \in Session /\ Doubt(S) \in Session
         /\ \A status \in Statuses : Stopped(S, status) \in Session
         /\ live.id \in DOMAIN rows \cup {0} /\ live.grace \in BOOLEAN
  BY DEF TypeOK, S, Doubt, Stopped, Session, Statuses, Claims

LEMMA SendTyped ==
  ASSUME TypeOK, MaySend
  PROVE  used + 1 \in Tokens /\ used + 1 \in 0 .. MaxTokens
  BY PhoneAssumption DEF TypeOK, MaySend, Tokens

LEMMA DisturbsTyped ==
  ASSUME TypeOK, Disturbs PROVE disturbances' \in 0 .. MaxDisturbances
  BY PlaybackAssumption DEF TypeOK, Disturbs, MayDie

(* A new phone, a new memory *)

LEMMA HeardTyped ==
  ASSUME TypeOK, NEW m \in Memories, NEW id \in Nat, NEW s, NEW r, NEW play \in Nat
  PROVE  Heard(m, id, s, r, play) \in Seq(HeardRow) /\ Sung(m, s, r) \in Memories
  <1>1. heard \in Seq(HeardRow)
    BY DEF TypeOK, HeardRow
  <1>2. [id |-> id, episode |-> m.episode, play |-> play] \in HeardRow
    BY DEF HeardRow, Memories
  <1>3. Heard(m, id, s, r, play) \in Seq(HeardRow)
    BY <1>1, <1>2 DEF Heard
  <1>4. m.sung \cup {m.episode} \in SUBSET Nat
    BY DEF Memories
  <1>5. [m EXCEPT !.sung = @ \cup {m.episode}] \in Memories
    BY <1>4 DEF Memories
  <1> QED BY <1>3, <1>5 DEF Sung

LEMMA PlaysTyped ==
  ASSUME TypeOK, NEW song \in Titles, NEW token \in Tokens \cup {0}, PlaysSong(song, token)
  PROVE  app' \in App /\ guard' \in Guard
  <1>1. app \in App
    BY DEF TypeOK
  <1>2. [shows |-> song, playing |-> TRUE] \in App
    BY DEF App
  <1>3. app' \in App
    BY <1>1, <1>2 DEF PlaysSong
  <1> QED BY <1>3 DEF PlaysSong, Armed, Guard

LEMMA TransportsTyped ==
  ASSUME TypeOK, NEW song \in Titles, NEW playing \in BOOLEAN, Transports(song, playing)
  PROVE  app' \in App
  BY DEF TypeOK, Transports, App

LEMMA ArmsTyped ==
  ASSUME TypeOK, NEW song \in Titles, NEW token \in Tokens \cup {0}, ArmsGuard(song, token)
  PROVE  guard' \in Guard
  BY DEF TypeOK, ArmsGuard, Armed, Guard

LEMMA PollTyped ==
  ASSUME TypeOK, PollGoesOn
  PROVE  poll' \in [at : {"idle", "read", "expire"}, id : Nat, reading : Readings]
  BY ConstantsTyped DEF TypeOK, PollGoesOn, Idle, Readings, Unseen

LEMMA ClosesTyped ==
  ASSUME TypeOK, NEW f \in SUBSET FinishedRow, Closes(f)
  PROVE  /\ rows' \in Seq(Session) /\ Len(rows') = Len(rows) /\ DOMAIN rows' = DOMAIN rows
         /\ heard' = heard /\ finished' = f /\ finished' \subseteq [id : Nat, song : Titles]
         /\ holder' \in Commands /\ holder'.op # "advance"
         /\ \/ holder' = Free /\ rows' = Saved(live.id, Over)
            \/ holder' = Dead /\ rows' = rows
         /\ live' = NoLive
         /\ live' \in [id : DOMAIN rows' \cup {0}, s : Session, grace : BOOLEAN]
  <1>1. Commits(heard, f, Over) /\ live' = NoLive
    BY DEF Closes
  <1>2. heard \in Seq(HeardRow) /\ Over \in Session
    BY ConstantsTyped DEF TypeOK, HeardRow
  <1>3. NoLive \in [id : {0}, s : Session, grace : BOOLEAN]
    BY <1>2 DEF NoLive, Lives
  <1> QED BY <1>1, <1>2, <1>3, CommitsTyped DEF FinishedRow

LEMMA FinishedTyped ==
  ASSUME TypeOK
  PROVE  /\ finished \in SUBSET FinishedRow /\ Finished \in SUBSET FinishedRow
         /\ heard \in Seq(HeardRow)
  BY SessionTyped DEF TypeOK, Finished, FinishedRow, HeardRow, Session

LEMMA NextTyped ==
  ASSUME TypeOK, NEW automatic \in BOOLEAN
  PROVE  NextAt(S, automatic) \in DOMAIN Queue \cup {0}
  <1>1. S.at \in DOMAIN Queue
    BY SessionTyped DEF Session
  <1>2. Len(Songs(S)) <= Len(Queue)
    BY QueueTyped DEF Songs
  <1> QED BY <1>1, <1>2, QueueTyped DEF NextAt

LEMMA PlaysNextTyped ==
  ASSUME TypeOK, MaySend, NEW to \in DOMAIN Queue, NEW by \in {"person", "poll"},
         PlaysNext(to, by)
  PROVE  /\ holder' \in Commands /\ holder'.op = "advance" /\ holder'.to # 0
         /\ holder'.by = by
         /\ used' \in 0 .. MaxTokens
  <1>1. /\ used' = used + 1
        /\ holder' = [op |-> "advance", mode |-> "single", to |-> to, by |-> by,
                      token |-> used + 1]
    BY DEF PlaysNext, SendsToken, Holds
  <1>2. to # 0
    BY QueueTyped
  <1> QED BY <1>1, <1>2, SendTyped DEF Commands

(* Every step keeps the types.  The person *)

LEMMA StartTyped == ASSUME TypeOK, NEW mode \in Modes, Start(mode) PROVE TypeOK'
  <1>1. MaySend /\ used' = used + 1
        /\ holder' = [[Holds("start") EXCEPT !.mode = mode] EXCEPT !.token = used + 1]
    BY DEF Start, SendsToken
  <1>2. used' \in 0 .. MaxTokens /\ used + 1 \in Tokens
    BY <1>1, SendTyped
  <1>3. holder' \in Commands /\ holder'.op # "advance"
    BY <1>1, <1>2 DEF Holds, Commands
  <1> QED BY <1>2, <1>3 DEF TypeOK, Start, episodes, phoneVars


LEMMA PauseTyped == ASSUME TypeOK, Pause PROVE TypeOK'
  <1>1. holder' = Holds("pause") /\ disturbances' \in 0 .. MaxDisturbances
    BY DisturbsTyped DEF Pause
  <1>2. holder' \in Commands /\ holder'.op # "advance"
    BY <1>1 DEF Holds, Commands
  <1> QED BY <1>1, <1>2 DEF TypeOK, Pause, episodes, phoneVars

LEMMA PausedTyped == ASSUME TypeOK, Paused PROVE TypeOK'
  <1>1. S.song \in Titles /\ [S EXCEPT !.status = "paused", !.since = "set"] \in Session
    BY SessionTyped DEF Session, Statuses, Claims
  <1>2. app' \in App /\ guard' = guard
    BY <1>1, TransportsTyped DEF Paused, PausesSong
  <1>3. Saves([S EXCEPT !.status = "paused", !.since = "set"])
    BY DEF Paused
  <1>4. /\ rows' \in Seq(Session) /\ heard' = heard /\ finished' = finished
        /\ holder' = Free
        /\ live' \in [id : DOMAIN rows' \cup {0}, s : Session, grace : BOOLEAN]
    BY <1>1, <1>3, SavesTyped
  <1> QED BY <1>2, <1>4, ConstantsTyped DEF TypeOK, Paused, episodes, phoneVars

LEMMA ResumeTyped == ASSUME TypeOK, Resume PROVE TypeOK'
  <1>1. memory' \in Memories
    BY DEF TypeOK, Resume, Memories
  <1>2. CASE MaySend /\ SendsToken(Holds("resume"))
    <2>1. holder' = [Holds("resume") EXCEPT !.token = used + 1] /\ used' = used + 1
      BY <1>2 DEF SendsToken
    <2>2. holder' \in Commands /\ holder'.op # "advance" /\ used' \in 0 .. MaxTokens
      BY <1>2, <2>1, SendTyped DEF Holds, Commands
    <2> QED BY <1>1, <2>2 DEF TypeOK, Resume, phoneVars, episodes
  <1>3. CASE UNCHANGED <<used, holder>>
    BY <1>1, <1>3 DEF TypeOK, Resume, phoneVars, episodes
  <1> QED BY <1>2, <1>3 DEF Resume

LEMMA SkipTyped == ASSUME TypeOK, Skip PROVE TypeOK'
  <1>1. memory' \in Memories
    BY DEF TypeOK, Skip, Memories
  <1>2. CASE UNCHANGED <<used, holder>>
    BY <1>1, <1>2 DEF TypeOK, Skip, phoneVars, episodes
  <1>3. CASE MaySend /\ NextAt(S, FALSE) # 0 /\ PlaysNext(NextAt(S, FALSE), "person")
    <2>1. NextAt(S, FALSE) \in DOMAIN Queue
      BY <1>3, NextTyped
    <2>2. holder' \in Commands /\ holder'.to # 0 /\ used' \in 0 .. MaxTokens
      BY <1>3, <2>1, PlaysNextTyped
    <2> QED BY <1>1, <2>2 DEF TypeOK, Skip, phoneVars, episodes
  <1> QED BY <1>2, <1>3 DEF Skip

LEMMA EndTyped == ASSUME TypeOK, End PROVE TypeOK'
  <1>1. CASE holder' = Holds("end") /\ UNCHANGED <<rows, heard, finished, live, memory>>
    <2>1. holder' \in Commands /\ holder'.op # "advance"
      BY <1>1 DEF Holds, Commands
    <2> QED BY <1>1, <2>1 DEF TypeOK, End, phoneVars, episodes
  <1>2. CASE Closes(finished) /\ memory' = [memory EXCEPT !.candidate = NoTitle]
    <2>1. memory' \in Memories
      BY <1>2 DEF TypeOK, Memories
    <2> QED BY <1>2, <2>1, ClosesTyped, FinishedTyped DEF TypeOK, End, phoneVars, episodes
  <1> QED BY <1>1, <1>2 DEF End

LEMMA EndedTyped == ASSUME TypeOK, Ended PROVE TypeOK'
  <1>1. app' \in App /\ guard' = guard
    BY SessionTyped, TransportsTyped DEF Ended, PausesSong, Session
  <1>2. memory' \in Memories
    BY DEF Ended, TypeOK, Memories
  <1>3. Closes(finished)
    BY DEF Ended
  <1> QED BY <1>1, <1>2, <1>3, ClosesTyped, FinishedTyped DEF TypeOK, Ended, episodes

LEMMA StartedTyped == ASSUME TypeOK, Started PROVE TypeOK'
  <1> DEFINE id == Len(rows) + 1
             s == [song |-> Queue[1], at |-> 1, manual |-> FALSE, mode |-> holder.mode,
                   follow |-> Alive /\ S.follow, status |-> StatusOf(Queue[1]), since |-> "no"]
             r == PlayReply(Queue[1])
             m == [memory EXCEPT !.allow = TRUE, !.episode = Drawn, !.candidate = NoTitle]
  <1>1. /\ rows \in Seq(Session) /\ Len(rows) \in Nat /\ memory \in Memories
        /\ holder \in Commands /\ Drawn \in Nat /\ drawn \in Nat /\ Drawn \in 0 .. Drawn
    BY DEF TypeOK, Drawn
  <1>2. app' \in App /\ guard' \in Guard
    BY <1>1, QueueTyped, PlaysTyped DEF Started, Commands
  <1>3. StatusOf(Queue[1]) \in Statuses
    BY DEF StatusOf, Statuses, Claims
  <1>4. (Alive /\ S.follow) \in BOOLEAN
    OBVIOUS
  <1>5. s \in Session
    BY <1>1, <1>3, <1>4, QueueTyped DEF Session, Commands
  <1>6. m \in Memories
    BY <1>1 DEF Memories
  <1>7. Heard(m, id, s, r, Drawn) \in Seq(HeardRow) /\ Sung(m, s, r) \in Memories
    <2>1. id \in Nat /\ Drawn \in Nat
      BY <1>1
    <2> HIDE DEF id, s, r, m
    <2> QED BY <1>6, <2>1, HeardTyped
  <1>8. rows' = Saved(id, s) /\ live' = Lives(id, s) /\ memory' = Sung(m, s, r)
    BY DEF Started
  <1>9. rows' \in Seq(Session) /\ DOMAIN rows' = 1 .. id /\ id \in DOMAIN rows'
    <2>1. id \in Nat /\ id <= Len(rows) + 1 /\ id > Len(rows)
      BY <1>1
    <2>2. Saved(id, s) \in Seq(Session) /\ DOMAIN Saved(id, s) = 1 .. id
      BY <1>1, <1>5, <2>1, SavedTyped
    <2> QED BY <1>1, <1>8, <2>2
  <1>10. live' \in [id : DOMAIN rows' \cup {0}, s : Session, grace : BOOLEAN]
    BY <1>5, <1>8, <1>9 DEF Lives
  <1>11. /\ heard' \in Seq([id : Nat, episode : Nat, play : Nat])
         /\ holder' \in Commands /\ holder'.op # "advance"
    <2>1. \/ heard' = Heard(m, id, s, r, Drawn) /\ holder' = Free
          \/ heard' = heard /\ holder' = Dead
      BY DEF Started
    <2>2. heard \in Seq(HeardRow)
      BY FinishedTyped
    <2> QED BY <1>7, <2>1, <2>2, ConstantsTyped DEF HeardRow
  <1>12. drawn' = Drawn /\ sounding' = Drawn
    BY DEF Started, Draws
  <1>13. memory' \in Memories
    BY <1>7, <1>8
  <1>14. UNCHANGED <<finished, poll, used, asked, disturbances>>
    BY DEF Started
  <1> HIDE DEF id, s, r, m
  <1> QED BY <1>1, <1>2, <1>9, <1>10, <1>11, <1>12, <1>13, <1>14 DEF TypeOK

LEMMA ResumedTyped == ASSUME TypeOK, Resumed PROVE TypeOK'
  <1>1. /\ holder \in Commands /\ S.song \in Titles
        /\ Stopped(S, "playing") \in Session
    BY SessionTyped DEF TypeOK, Session, Statuses, Claims
  <1>2. app' \in App /\ guard' \in Guard
    BY <1>1, TransportsTyped, ArmsTyped DEF Resumed, ResumesSong, Commands
  <1>3. Saves(Stopped(S, "playing"))
    BY DEF Resumed
  <1> QED BY <1>1, <1>2, <1>3, SavesTyped, ConstantsTyped DEF TypeOK, Resumed, episodes

LEMMA AdvancedTyped == ASSUME TypeOK, Advanced PROVE TypeOK'
  <1> DEFINE to == holder.to
             s == [Stopped(S, StatusOf(Queue[to])) EXCEPT !.song = Queue[to], !.at = to]
             r == PlayReply(Queue[to])
             m == [memory EXCEPT !.episode = Drawn]
  <1>1. /\ memory \in Memories /\ live.id \in Nat /\ live.id \in DOMAIN rows \cup {0}
        /\ holder \in Commands /\ Drawn \in Nat /\ drawn \in Nat /\ Drawn \in 0 .. Drawn
    BY DEF TypeOK, Drawn
  <1>2. to \in DOMAIN Queue /\ Queue[to] \in Titles
    BY <1>1, QueueTyped DEF TypeOK, Advanced, Commands
  <1>3. app' \in App /\ guard' \in Guard
    BY <1>1, <1>2, PlaysTyped DEF Advanced, Commands
  <1>4. s \in Session
    <2>1. StatusOf(Queue[to]) \in Statuses
      BY DEF StatusOf, Statuses, Claims
    <2>2. Stopped(S, StatusOf(Queue[to])) \in Session
      BY <2>1, SessionTyped
    <2> QED BY <1>2, <2>2 DEF Session
  <1>5. m \in Memories
    BY <1>1 DEF Memories
  <1>6. Heard(m, live.id, s, r, Drawn) \in Seq(HeardRow) /\ Sung(m, s, r) \in Memories
    BY <1>1, <1>5, HeardTyped
  <1>7. /\ live' = Lives(live.id, s) /\ memory' = Sung(m, s, r)
        /\ Commits(Heard(m, live.id, s, r, Drawn), finished, s)
        /\ drawn' = Drawn /\ sounding' = Drawn
    BY DEF Advanced, Draws
  <1>8. /\ rows' \in Seq(Session) /\ DOMAIN rows' = DOMAIN rows
        /\ heard' \in Seq([id : Nat, episode : Nat, play : Nat])
        /\ finished' \subseteq [id : Nat, song : Titles]
        /\ holder' \in Commands /\ holder'.op # "advance"
    BY <1>4, <1>6, <1>7, CommitsTyped, FinishedTyped
  <1>9. live' \in [id : DOMAIN rows' \cup {0}, s : Session, grace : BOOLEAN]
    BY <1>1, <1>4, <1>7, <1>8 DEF Lives
  <1>10. poll' \in [at : {"idle", "read", "expire"}, id : Nat, reading : Readings]
    BY PollTyped DEF Advanced, TypeOK
  <1>11. memory' \in Memories
    BY <1>6, <1>7
  <1>12. UNCHANGED <<used, asked, disturbances>>
    BY DEF Advanced
  <1> HIDE DEF to, s, r, m
  <1> QED BY <1>1, <1>3, <1>7, <1>8, <1>9, <1>10, <1>11, <1>12 DEF TypeOK

LEMMA CommandFailsTyped == ASSUME TypeOK, CommandFails PROVE TypeOK'
  <1>1. app' \in App /\ guard' \in Guard
    <2>1. CASE UNCHANGED phoneVars
      BY <2>1 DEF TypeOK, phoneVars
    <2>2. CASE Did
      <3>1. holder.token \in Tokens \cup {0} /\ S.song \in Titles
        BY SessionTyped DEF TypeOK, Commands, Session
      <3>2. CASE holder.op = "start" /\ PlaysSong(Queue[1], holder.token)
        BY <3>1, <3>2, QueueTyped, PlaysTyped
      <3>3. CASE holder.op = "advance" /\ PlaysSong(Queue[holder.to], holder.token)
        <4>1. Queue[holder.to] \in Titles
          BY <3>3, QueueTyped DEF TypeOK, Commands
        <4> QED BY <3>1, <3>3, <4>1, PlaysTyped
      <3>4. CASE PausesSong(S.song)
        BY <3>1, <3>4, TransportsTyped DEF PausesSong, TypeOK
      <3>5. CASE ArmsGuard(S.song, holder.token) /\ UNCHANGED app
        BY <3>1, <3>5, ArmsTyped DEF TypeOK
      <3>6. CASE ResumesSong(S.song, holder.token)
        BY <3>1, <3>6, ArmsTyped, TransportsTyped DEF ResumesSong
      <3> QED BY <2>2, <3>2, <3>3, <3>4, <3>5, <3>6 DEF Did
    <2> QED BY <2>1, <2>2 DEF CommandFails
  <1>2. disturbances' \in 0 .. MaxDisturbances
    BY DisturbsTyped DEF CommandFails, TypeOK
  <1>3. /\ rows' \in Seq(Session) /\ heard' = heard /\ finished' = finished /\ holder' = Free
        /\ live' \in [id : DOMAIN rows' \cup {0}, s : Session, grace : BOOLEAN]
    <2>1. CASE Saves(Doubt(S))
      BY <2>1, SessionTyped, SavesTyped
    <2>2. CASE holder' = Free /\ UNCHANGED <<rows, heard, finished, live>>
      BY <2>2 DEF TypeOK
    <2> QED BY <2>1, <2>2 DEF CommandFails
  <1>4. poll' \in [at : {"idle", "read", "expire"}, id : Nat, reading : Readings]
    BY ConstantsTyped DEF CommandFails, TypeOK
  <1> QED BY <1>1, <1>2, <1>3, <1>4, ConstantsTyped DEF TypeOK, CommandFails, episodes

LEMMA SetsModeTyped == ASSUME TypeOK, NEW mode \in Modes, SetsMode(mode) PROVE TypeOK'
  <1>1. [S EXCEPT !.mode = mode] \in Session
    BY SessionTyped DEF Session
  <1>2. Saves([S EXCEPT !.mode = mode])
    BY DEF SetsMode
  <1>3. disturbances' \in 0 .. MaxDisturbances
    BY DisturbsTyped DEF SetsMode
  <1> QED BY <1>1, <1>2, <1>3, SavesTyped, ConstantsTyped
          DEF TypeOK, SetsMode, episodes, phoneVars

LEMMA SetsFollowTyped == ASSUME TypeOK, NEW follow \in BOOLEAN, SetsFollow(follow) PROVE TypeOK'
  <1>1. [S EXCEPT !.follow = follow] \in Session
    BY SessionTyped DEF Session
  <1>2. disturbances' \in 0 .. MaxDisturbances
    BY DisturbsTyped DEF SetsFollow
  <1>3. CASE Closes(finished) /\ memory' = [memory EXCEPT !.candidate = NoTitle]
    <2>1. memory' \in Memories
      BY <1>3 DEF TypeOK, Memories
    <2> QED BY <1>2, <1>3, <2>1, ClosesTyped, FinishedTyped
            DEF TypeOK, SetsFollow, episodes, phoneVars
  <1>4. CASE Saves([S EXCEPT !.follow = follow]) /\ UNCHANGED memory
    BY <1>1, <1>2, <1>4, SavesTyped, ConstantsTyped
    DEF TypeOK, SetsFollow, episodes, phoneVars
  <1> QED BY <1>3, <1>4 DEF SetsFollow

LEMMA PersonTyped == ASSUME TypeOK, Person PROVE TypeOK'
  BY StartTyped, SetsModeTyped, SetsFollowTyped, PauseTyped, ResumeTyped, SkipTyped, EndTyped
  DEF Person

LEMMA AwaitedTyped == ASSUME TypeOK, Awaited PROVE TypeOK'
  BY StartedTyped, PausedTyped, ResumedTyped, AdvancedTyped, EndedTyped, CommandFailsTyped
  DEF Awaited

(* The loop *)

LEMMA ReadingTyped ==
  ASSUME TypeOK PROVE NowPlaying \in Readings /\ Unseen \in Readings
  BY DEF TypeOK, NowPlaying, Seen, Unseen, Readings, App, Guard


LEMMA PollReadsTyped == ASSUME TypeOK, PollReads PROVE TypeOK'
  <1>1. poll' \in [at : {"idle", "read", "expire"}, id : Nat, reading : Readings]
    BY ReadingTyped DEF PollReads, TypeOK
  <1>2. disturbances' \in 0 .. MaxDisturbances
    BY DisturbsTyped DEF PollReads, TypeOK
  <1> QED BY <1>1, <1>2 DEF TypeOK, PollReads, episodes, phoneVars

LEMMA ObserveNothingTyped == ASSUME TypeOK, ObserveNothing PROVE TypeOK'
  BY PollTyped DEF TypeOK, ObserveNothing, ObserveEnds, episodes, phoneVars

LEMMA LooksTyped ==
  ASSUME TypeOK, NEW m \in Memories, NEW s \in Session, Looks(m, s) PROVE TypeOK'
  <1>1. Saves(s) /\ memory' = m
    BY DEF Looks
  <1>2. poll' \in [at : {"idle", "read", "expire"}, id : Nat, reading : Readings]
    BY PollTyped DEF Looks, ObserveEnds
  <1> QED BY <1>1, <1>2, SavesTyped, ConstantsTyped
          DEF TypeOK, Looks, ObserveEnds, episodes, phoneVars

LEMMA MemoryTyped ==
  ASSUME TypeOK
  PROVE  /\ memory \in Memories /\ Unfollowed \in Memories
         /\ R.available => R.title \in Titles
         /\ R.title \in Titles \cup {NoTitle} /\ R.end \in Tokens \cup {0}
         /\ \A title \in Titles \cup {NoTitle} :
              [memory EXCEPT !.candidate = title] \in Memories
  <1>1. memory \in Memories
    BY DEF TypeOK
  <1>2. poll.reading \in Readings
    BY DEF TypeOK
  <1>3. /\ R.available => R.title \in Titles
        /\ R.title \in Titles \cup {NoTitle} /\ R.end \in Tokens \cup {0}
    <2>1. CASE R = Unseen
      BY <2>1 DEF Unseen
    <2>2. CASE R \in [available : {TRUE}, title : Titles, playing : BOOLEAN, end : Tokens \cup {0}]
      BY <2>2
    <2> QED BY <1>2, <2>1, <2>2 DEF R, Readings
  <1>4. \A title \in Titles \cup {NoTitle} : [memory EXCEPT !.candidate = title] \in Memories
    BY <1>1 DEF Memories
  <1> QED BY <1>1, <1>3, <1>4 DEF Unfollowed

LEMMA BoundaryUnaskedTyped == ASSUME TypeOK, BoundaryUnasked PROVE TypeOK'
  BY LooksTyped, MemoryTyped, SessionTyped DEF BoundaryUnasked

LEMMA BoundaryTakenTyped == ASSUME TypeOK, BoundaryTaken PROVE TypeOK'
  <1> DEFINE to == IF S.mode = "single" THEN 0 ELSE NextAt(S, TRUE)
             w == [S EXCEPT !.status = "waiting", !.since = "set"]
  <1>1. memory' \in Memories
    <2>1. R.end \in Tokens
      BY MemoryTyped DEF BoundaryTaken, Boundary
    <2> QED BY <2>1 DEF TypeOK, BoundaryTaken, Memories
  <1>2. UNCHANGED <<episodes, asked, disturbances, phoneVars>>
    BY DEF BoundaryTaken
  <1>3. CASE Commits(heard, Finished, w) /\ live' = LiveSays(w) /\ PollGoesOn /\ UNCHANGED used
    <2>1. w \in Session
      BY SessionTyped DEF Session, Statuses, Claims
    <2>2. /\ rows' \in Seq(Session) /\ DOMAIN rows' = DOMAIN rows
          /\ heard' \in Seq([id : Nat, episode : Nat, play : Nat])
          /\ finished' \subseteq [id : Nat, song : Titles]
          /\ holder' \in Commands /\ holder'.op # "advance"
      BY <1>3, <2>1, CommitsTyped, FinishedTyped
    <2>3. live' \in [id : DOMAIN rows' \cup {0}, s : Session, grace : BOOLEAN]
      BY <1>3, <2>1, <2>2, SessionTyped DEF LiveSays
    <2> QED BY <1>1, <1>2, <1>3, <2>2, <2>3, PollTyped DEF TypeOK, episodes, phoneVars
  <1>4. CASE Closes(Finished) /\ PollGoesOn /\ UNCHANGED used
    BY <1>1, <1>2, <1>4, ClosesTyped, FinishedTyped, PollTyped DEF TypeOK, episodes, phoneVars
  <1>5. CASE /\ to # 0 /\ MaySend
             /\ finished' = Finished /\ UNCHANGED <<rows, heard, live>>
             /\ PlaysNext(to, "poll")
             /\ UNCHANGED poll
    <2>1. to \in DOMAIN Queue
      BY <1>5, NextTyped
    <2>2. holder' \in Commands /\ holder'.to # 0 /\ used' \in 0 .. MaxTokens
      BY <1>5, <2>1, PlaysNextTyped
    <2> QED BY <1>1, <1>2, <1>5, <2>2, FinishedTyped DEF TypeOK, episodes, phoneVars, FinishedRow
  <1>6. CASE /\ Commits(heard, Finished, Doubt(S)) /\ live' = LiveSays(Doubt(S))
             /\ poll' = Idle
             /\ UNCHANGED used
    <2>1. Doubt(S) \in Session
      BY SessionTyped
    <2>2. /\ rows' \in Seq(Session) /\ DOMAIN rows' = DOMAIN rows
          /\ heard' \in Seq([id : Nat, episode : Nat, play : Nat])
          /\ finished' \subseteq [id : Nat, song : Titles]
          /\ holder' \in Commands /\ holder'.op # "advance"
      BY <1>6, <2>1, CommitsTyped, FinishedTyped
    <2>3. live' \in [id : DOMAIN rows' \cup {0}, s : Session, grace : BOOLEAN]
      BY <1>6, <2>1, <2>2, SessionTyped DEF LiveSays
    <2> QED BY <1>1, <1>2, <1>6, <2>2, <2>3, ConstantsTyped DEF TypeOK, episodes, phoneVars
  <1> QED BY <1>3, <1>4, <1>5, <1>6 DEF BoundaryTaken

LEMMA ObserveUnavailableTyped == ASSUME TypeOK, ObserveUnavailable PROVE TypeOK'
  BY LooksTyped, MemoryTyped, SessionTyped DEF ObserveUnavailable, Statuses, Claims

LEMMA ObserveBeforeSongTyped == ASSUME TypeOK, ObserveBeforeSong PROVE TypeOK'
  BY LooksTyped, MemoryTyped, SessionTyped DEF ObserveBeforeSong

LEMMA ObserveCandidateTyped == ASSUME TypeOK, ObserveCandidate PROVE TypeOK'
  BY LooksTyped, MemoryTyped, SessionTyped DEF ObserveCandidate

LEMMA ObserveAnotherStoppedTyped == ASSUME TypeOK, ObserveAnotherStopped PROVE TypeOK'
  BY LooksTyped, MemoryTyped, SessionTyped DEF ObserveAnotherStopped

LEMMA ObserveUnaskedTyped == ASSUME TypeOK, ObserveUnasked PROVE TypeOK'
  BY LooksTyped, MemoryTyped, SessionTyped DEF ObserveUnasked

LEMMA ObserveFollowedTyped == ASSUME TypeOK, ObserveFollowed PROVE TypeOK'
  <1> DEFINE s == [Stopped(S, "playing") EXCEPT !.song = R.title, !.at = 1, !.manual = TRUE,
                                               !.mode = "single"]
             m == [Unfollowed EXCEPT !.episode = Drawn]
  <1>1. /\ live.id \in Nat /\ drawn \in Nat /\ Drawn \in Nat /\ Drawn \in 0 .. Drawn
    BY DEF TypeOK, Drawn
  <1>2. s \in Session
    <2>1. Stopped(S, "playing") \in Session
      BY SessionTyped DEF Statuses, Claims
    <2>2. R.title \in Titles
      BY MemoryTyped DEF ObserveFollowed, Seeing
    <2> QED BY <2>1, <2>2, QueueTyped DEF Session
  <1>3. m \in Memories
    BY <1>1, MemoryTyped DEF Memories
  <1>4. Heard(m, live.id, s, R, Drawn) \in Seq(HeardRow) /\ Sung(m, s, R) \in Memories
    <2> HIDE DEF s, m
    <2> QED BY <1>1, <1>3, HeardTyped
  <1>5. /\ Commits(Heard(m, live.id, s, R, Drawn), finished, s)
        /\ live' = LiveSays(s) /\ memory' = Sung(m, s, R)
        /\ drawn' = Drawn /\ sounding' = Drawn
        /\ PollGoesOn /\ UNCHANGED <<used, asked, disturbances, phoneVars>>
    BY DEF ObserveFollowed, Draws, ObserveEnds
  <1>6. /\ rows' \in Seq(Session) /\ DOMAIN rows' = DOMAIN rows
        /\ heard' \in Seq([id : Nat, episode : Nat, play : Nat])
        /\ finished' \subseteq [id : Nat, song : Titles]
        /\ holder' \in Commands /\ holder'.op # "advance"
    BY <1>2, <1>4, <1>5, CommitsTyped, FinishedTyped
  <1>7. live' \in [id : DOMAIN rows' \cup {0}, s : Session, grace : BOOLEAN]
    BY <1>2, <1>5, <1>6, SessionTyped DEF LiveSays
  <1>8. memory' \in Memories
    BY <1>4, <1>5
  <1> HIDE DEF s, m
  <1> QED BY <1>1, <1>5, <1>6, <1>7, <1>8, PollTyped DEF TypeOK, phoneVars

LEMMA ObserveTakeoverTyped == ASSUME TypeOK, ObserveTakeover PROVE TypeOK'
  <1>1. Closes(finished)
    BY DEF ObserveTakeover
  <1> QED BY <1>1, ClosesTyped, FinishedTyped, PollTyped
          DEF TypeOK, ObserveTakeover, ObserveEnds, episodes, phoneVars

LEMMA ObserveSongTyped == ASSUME TypeOK, ObserveSong PROVE TypeOK'
  <1> DEFINE s == IF R.playing THEN Stopped(S, "playing")
                  ELSE [S EXCEPT !.status = "paused", !.since = IF @ = "no" THEN "set" ELSE @]
  <1>1. live.id \in Nat /\ sounding \in Nat
    BY DEF TypeOK
  <1>2. s \in Session
    <2>1. Stopped(S, "playing") \in Session /\ S \in Session
      BY SessionTyped DEF Statuses, Claims
    <2>2. [S EXCEPT !.status = "paused", !.since = IF @ = "no" THEN "set" ELSE @] \in Session
      BY <2>1 DEF Session, Statuses, Claims
    <2> QED BY <2>1, <2>2
  <1>3. /\ Heard(Unfollowed, live.id, S, R, sounding) \in Seq(HeardRow)
        /\ Sung(Unfollowed, S, R) \in Memories
    BY <1>1, MemoryTyped, HeardTyped
  <1>4. /\ Commits(Heard(Unfollowed, live.id, S, R, sounding), finished, s)
        /\ live' = LiveSays(s) /\ memory' = Sung(Unfollowed, S, R)
        /\ PollGoesOn /\ UNCHANGED <<used, episodes, asked, disturbances, phoneVars>>
    BY DEF ObserveSong, ObserveEnds
  <1>5. /\ rows' \in Seq(Session) /\ DOMAIN rows' = DOMAIN rows
        /\ heard' \in Seq([id : Nat, episode : Nat, play : Nat])
        /\ finished' \subseteq [id : Nat, song : Titles]
        /\ holder' \in Commands /\ holder'.op # "advance"
    BY <1>2, <1>3, <1>4, CommitsTyped, FinishedTyped
  <1>6. live' \in [id : DOMAIN rows' \cup {0}, s : Session, grace : BOOLEAN]
    BY <1>2, <1>4, <1>5, SessionTyped DEF LiveSays
  <1> HIDE DEF s
  <1> QED BY <1>3, <1>4, <1>5, <1>6, PollTyped DEF TypeOK, episodes, phoneVars

LEMMA ExpireTyped == ASSUME TypeOK, Expire PROVE TypeOK'
  <1>1. poll' \in [at : {"idle", "read", "expire"}, id : Nat, reading : Readings]
    BY ConstantsTyped DEF Expire
  <1>2. CASE Closes(finished)
    BY <1>1, <1>2, ClosesTyped, FinishedTyped DEF TypeOK, Expire, episodes, phoneVars
  <1>3. CASE UNCHANGED <<rows, heard, finished, live, holder>>
    BY <1>1, <1>3 DEF TypeOK, Expire, episodes, phoneVars
  <1> QED BY <1>2, <1>3 DEF Expire

LEMMA PollsTyped == ASSUME TypeOK, Polls PROVE TypeOK'
  BY PollReadsTyped, ObserveNothingTyped, BoundaryUnaskedTyped, BoundaryTakenTyped,
     ObserveUnavailableTyped, ObserveBeforeSongTyped, ObserveCandidateTyped,
     ObserveFollowedTyped, ObserveAnotherStoppedTyped, ObserveTakeoverTyped,
     ObserveUnaskedTyped, ObserveSongTyped, ExpireTyped
  DEF Polls, Observe

(* Time, the death of the process, the phone *)


LEMMA PauseLastsTyped == ASSUME TypeOK, PauseLasts PROVE TypeOK'
  <1>1. live \in [id : DOMAIN rows \cup {0}, s : Session, grace : BOOLEAN]
        /\ rows \in Seq(Session) /\ live.id # 0
    BY DEF TypeOK, PauseLasts, Alive
  <1>2. live.id \in DOMAIN rows /\ rows[live.id] \in Session
    BY <1>1
  <1>3. [S EXCEPT !.since = "due"] \in Session /\ [rows[live.id] EXCEPT !.since = "due"] \in Session
    BY <1>2, SessionTyped DEF Session
  <1>4. rows' = [rows EXCEPT ![live.id] = [rows[live.id] EXCEPT !.since = "due"]]
        /\ live' = [live EXCEPT !.s = [S EXCEPT !.since = "due"]]
    BY DEF PauseLasts, S
  <1>5. rows' \in Seq(Session) /\ DOMAIN rows' = DOMAIN rows
    BY <1>1, <1>2, <1>3, <1>4
  <1>6. live' \in [id : DOMAIN rows' \cup {0}, s : Session, grace : BOOLEAN]
    BY <1>1, <1>3, <1>4, <1>5
  <1> QED BY <1>5, <1>6 DEF TypeOK, PauseLasts, episodes, phoneVars

LEMMA GraceEndsTyped == ASSUME TypeOK, GraceEnds PROVE TypeOK'
  BY DEF TypeOK, GraceEnds, episodes, phoneVars

LEMMA UnclaimedTyped ==
  ASSUME TypeOK, NEW i \in DOMAIN rows PROVE Unclaimed(i) \in Session
  <1>1. rows[i] \in Session
    BY DEF TypeOK
  <1>2. [rows[i] EXCEPT !.status = "unknown", !.since = "no"] \in Session
    BY <1>1 DEF Session, Statuses
  <1> QED BY <1>1, <1>2 DEF Unclaimed, Doubt, Stopped


LEMMA RestartTyped == ASSUME TypeOK, Restart PROVE TypeOK'
  <1>1. rows' \in Seq(Session) /\ DOMAIN rows' = DOMAIN rows /\ Len(rows') = Len(rows)
    <2>1. rows \in Seq(Session) /\ rows' = [i \in DOMAIN rows |-> Unclaimed(i)]
      BY DEF TypeOK, Restart
    <2> QED BY <2>1, UnclaimedTyped
  <1>2. live' \in [id : DOMAIN rows' \cup {0}, s : Session, grace : BOOLEAN]
    <2>1. CASE live' = NoLive
      BY <2>1, ConstantsTyped DEF NoLive, Lives
    <2>2. CASE \E id \in DOMAIN rows : live' = Lives(id, Unclaimed(id))
      <3>1. PICK id \in DOMAIN rows : live' = Lives(id, Unclaimed(id))
        BY <2>2
      <3>2. Unclaimed(id) \in Session
        BY UnclaimedTyped
      <3> QED BY <1>1, <3>1, <3>2 DEF Lives
    <2> QED BY <2>1, <2>2 DEF Restart
  <1>3. memory' \in Memories /\ drawn' \in Nat /\ sounding' \in 0 .. drawn'
    <2>1. drawn \in Nat /\ sounding \in 0 .. drawn /\ sounding' = sounding
      BY DEF TypeOK, Restart
    <2>2. CASE memory' = Remembers(TRUE, 0, {}) /\ UNCHANGED drawn
      BY <2>1, <2>2 DEF Remembers, Memories
    <2>3. CASE memory' = Remembers(FALSE, Drawn, {}) /\ drawn' = Drawn
      BY <2>1, <2>3 DEF Remembers, Memories, Drawn
    <2>4. CASE \E k \in DOMAIN heard :
                 memory' = Remembers(FALSE, heard[k].episode, {heard[k].episode})
                 /\ UNCHANGED drawn
      <3>1. PICK k \in DOMAIN heard :
              memory' = Remembers(FALSE, heard[k].episode, {heard[k].episode})
              /\ UNCHANGED drawn
        BY <2>4
      <3>2. heard[k].episode \in Nat
        <4>1. heard \in Seq(HeardRow)
          BY FinishedTyped
        <4>2. heard[k] \in HeardRow
          BY <4>1
        <4> QED BY <4>2 DEF HeardRow
      <3> QED BY <2>1, <3>1, <3>2 DEF Remembers, Memories
    <2> QED BY <2>2, <2>3, <2>4 DEF Restart, Reloads
  <1>4. asked' \in BOOLEAN /\ disturbances' \in 0 .. MaxDisturbances
    BY DisturbsTyped DEF Restart
  <1> QED BY <1>1, <1>2, <1>3, <1>4, ConstantsTyped DEF TypeOK, Restart, phoneVars

LEMMA PhoneTyped == ASSUME TypeOK, Phone PROVE TypeOK'
  <1>1. app' \in App /\ guard' \in Guard
    <2>1. app \in App /\ guard \in Guard
      BY DEF TypeOK
    <2>2. CASE AppChanges
      BY <2>1, <2>2 DEF AppChanges, App
    <2>3. CASE GuardFinishes
      <3>1. app' \in App
        BY <2>3 DEF GuardFinishes, App
      <3>2. guard' = [guard EXCEPT !.at = "done"]
        BY <2>3 DEF GuardFinishes
      <3> QED BY <2>1, <3>1, <3>2 DEF Guard
    <2>4. CASE GuardReleases
      BY <2>1, <2>4, ConstantsTyped DEF GuardReleases
    <2>5. CASE AppOpens
      BY <2>1, <2>5 DEF AppOpens, App, Guard
    <2> QED BY <2>2, <2>3, <2>4, <2>5 DEF Phone, GuardTicks
  <1>2. disturbances' \in 0 .. MaxDisturbances
    BY DisturbsTyped DEF Phone, TypeOK
  <1> QED BY <1>1, <1>2 DEF TypeOK, Phone, episodes

LEMMA InitTyped == Init => TypeOK
  <1> SUFFICES ASSUME Init PROVE TypeOK
    OBVIOUS
  <1>1. rows = <<>> /\ heard = <<>> /\ finished = {} /\ live = NoLive
    BY DEF Init
  <1>2. live \in [id : DOMAIN rows \cup {0}, s : Session, grace : BOOLEAN]
    BY <1>1, ConstantsTyped DEF NoLive, Lives
  <1> QED BY <1>1, <1>2, ConstantsTyped, PhoneAssumption, PlaybackAssumption
          DEF Init, TypeOK, App, Memories, Remembers

LEMMA NextTypedStep == ASSUME TypeOK, [Next]_vars PROVE TypeOK'
  <1>1. CASE UNCHANGED vars
    BY <1>1 DEF TypeOK, vars, episodes, phoneVars
  <1> QED BY <1>1, PersonTyped, AwaitedTyped, PollsTyped, PauseLastsTyped, GraceEndsTyped,
             RestartTyped, PhoneTyped
          DEF Next, Time

(* The phone, the store and the memory of the service keep their types. *)
THEOREM TypeCorrect == Spec => []TypeOK
  BY InitTyped, NextTypedStep, PTL DEF Spec

-----------------------------------------------------------------------------
(* What is stored is what is remembered *)

(* Only the newest row may be open, whether or not the process is alive. *)
OneOpen ==
  \A i \in DOMAIN rows :
    /\ rows[i] # Over => i = Len(rows)
    /\ rows[i].status = "over" => rows[i] = Over

(* While the process is alive the session in memory is that row. *)
Agree ==
  holder.op # "dead" =>
    /\ \A i \in DOMAIN rows : rows[i] # Over => i = live.id
    /\ Alive => rows[live.id] = S /\ S.status # "over"

Stored == OneOpen /\ Agree

LEMMA DeadOrAlive ==
  ASSUME TypeOK
  PROVE  /\ rows \in Seq(Session) /\ DOMAIN rows = 1 .. Len(rows) /\ Len(rows) \in Nat
         /\ live.id \in DOMAIN rows \cup {0} /\ live.id \in Nat /\ ~(live.id > Len(rows))
         /\ Over.status = "over"
  <1>1. rows \in Seq(Session) /\ live.id \in DOMAIN rows \cup {0}
    BY DEF TypeOK
  <1>2. DOMAIN rows = 1 .. Len(rows) /\ Len(rows) \in Nat
    BY <1>1
  <1> QED BY <1>1, <1>2 DEF Over

(* The session in memory is the newest row. *)
LEMMA LiveIsNewest ==
  ASSUME TypeOK, Stored, holder.op # "dead", Alive
  PROVE  live.id = Len(rows) /\ live.id \in DOMAIN rows /\ rows[live.id] = S
         /\ S.status # "over"
  BY DeadOrAlive DEF Stored, OneOpen, Agree, Alive

LEMMA Untouched ==
  ASSUME TypeOK, Stored, UNCHANGED rows, live'.id = live.id, live'.s = live.s,
         holder'.op # "dead" => holder.op # "dead"
  PROVE  Stored'
  BY DEF Stored, OneOpen, Agree, Alive, S

LEMMA WrittenAgrees ==
  ASSUME TypeOK, Stored, holder.op # "dead", NEW h \in Seq(HeardRow),
         NEW f \in SUBSET FinishedRow, NEW s \in Session, s.status # "over",
         Commits(h, f, s), live'.id = live.id, live'.s = s
  PROVE  Stored'
  <1>1. /\ DOMAIN rows' = DOMAIN rows /\ Len(rows') = Len(rows)
        /\ \/ holder' = Free /\ rows' = Saved(live.id, s)
           \/ holder' = Dead /\ rows' = rows
    BY CommitsTyped
  <1>2. CASE holder' = Dead /\ rows' = rows
    BY <1>2, ConstantsTyped DEF Stored, OneOpen, Agree
  <1>3. CASE holder' = Free /\ rows' = Saved(live.id, s)
    <2>1. /\ live.id # 0 => rows'[live.id] = s
          /\ \A i \in DOMAIN rows' : i # live.id => rows'[i] = Over
      <3>1. live.id \in Nat /\ live.id <= Len(rows) + 1 /\ rows \in Seq(Session)
        BY DeadOrAlive
      <3> QED BY <1>3, <3>1, SavedTyped
    <2>2. s # Over
      BY DeadOrAlive
    <2>3. live.id # 0 => live.id = Len(rows)
      BY LiveIsNewest DEF Alive
    <2> QED BY <1>1, <2>1, <2>2, <2>3, DeadOrAlive DEF Stored, OneOpen, Agree, Alive, S
  <1> QED BY <1>1, <1>2, <1>3

LEMMA SavedAgrees ==
  ASSUME TypeOK, Stored, holder.op # "dead", NEW s \in Session, s.status # "over", Saves(s)
  PROVE  Stored'
  <1>1. Commits(heard, finished, s) /\ live'.id = live.id /\ live'.s = s
    BY SavesTyped DEF Saves
  <1> QED BY <1>1, WrittenAgrees, FinishedTyped

LEMMA ClosedAgrees ==
  ASSUME TypeOK, Stored, NEW f \in SUBSET FinishedRow, Closes(f) PROVE Stored'
  <1>1. /\ DOMAIN rows' = DOMAIN rows /\ live' = NoLive
        /\ \/ holder' = Free /\ rows' = Saved(live.id, Over)
           \/ holder' = Dead /\ rows' = rows
    BY ClosesTyped
  <1>2. CASE holder' = Dead /\ rows' = rows
    BY <1>2, ConstantsTyped DEF Stored, OneOpen, Agree
  <1>3. CASE holder' = Free /\ rows' = Saved(live.id, Over)
    <2>1. live.id \in Nat /\ live.id <= Len(rows) + 1 /\ rows \in Seq(Session)
      BY DeadOrAlive
    <2>2. \A i \in DOMAIN rows' : rows'[i] = Over
      BY <1>3, <2>1, SavedTyped, ConstantsTyped
    <2>3. live'.id = 0
      BY <1>1 DEF NoLive, Lives
    <2> QED BY <2>2, <2>3 DEF Stored, OneOpen, Agree, Alive
  <1> QED BY <1>1, <1>2, <1>3

LEMMA FreeIsAlive == ASSUME IsFree PROVE holder.op = "free" /\ holder.op # "dead"
  BY ConstantsTyped DEF IsFree

LEMMA PersonStored == ASSUME TypeOK, Stored, Person PROVE Stored'
  <1>1. ASSUME NEW mode \in Modes, Start(mode) PROVE Stored'
    BY <1>1, Untouched, FreeIsAlive DEF Start
  <1>2. ASSUME NEW mode \in Modes, SetsMode(mode) PROVE Stored'
    <2>1. /\ [S EXCEPT !.mode = mode] \in Session /\ [S EXCEPT !.mode = mode].status # "over"
          /\ Saves([S EXCEPT !.mode = mode]) /\ holder.op # "dead"
      BY <1>2, SessionTyped, LiveIsNewest, FreeIsAlive DEF SetsMode, Session
    <2> QED BY <2>1, SavedAgrees
  <1>3. CASE Pause \/ Resume \/ Skip
    BY <1>3, Untouched, FreeIsAlive DEF Pause, Resume, Skip
  <1>4. CASE End
    <2>1. CASE UNCHANGED <<rows, heard, finished, live, memory>>
      BY <1>4, <2>1, Untouched, FreeIsAlive DEF End
    <2>2. CASE Closes(finished)
      BY <2>2, ClosedAgrees, FinishedTyped
    <2> QED BY <1>4, <2>1, <2>2 DEF End
  <1>5. ASSUME NEW follow \in BOOLEAN, SetsFollow(follow) PROVE Stored'
    <2>1. CASE Closes(finished)
      BY <2>1, ClosedAgrees, FinishedTyped
    <2>2. CASE Saves([S EXCEPT !.follow = follow])
      <3>1. /\ [S EXCEPT !.follow = follow] \in Session
            /\ [S EXCEPT !.follow = follow].status # "over" /\ holder.op # "dead"
        BY <1>5, SessionTyped, LiveIsNewest, FreeIsAlive DEF SetsFollow, Session
      <3> QED BY <2>2, <3>1, SavedAgrees
    <2> QED BY <1>5, <2>1, <2>2 DEF SetsFollow
  <1> QED BY <1>1, <1>2, <1>3, <1>4, <1>5 DEF Person

LEMMA StartedStored == ASSUME TypeOK, Stored, Started PROVE Stored'
  <1> DEFINE id == Len(rows) + 1
             s == [song |-> Queue[1], at |-> 1, manual |-> FALSE, mode |-> holder.mode,
                   follow |-> Alive /\ S.follow, status |-> StatusOf(Queue[1]), since |-> "no"]
  <1>1. rows' = Saved(id, s) /\ live' = Lives(id, s)
    BY DEF Started
  <1>2. StatusOf(Queue[1]) \in Statuses \ {"over"} /\ (Alive /\ S.follow) \in BOOLEAN
    BY DEF StatusOf, Statuses, Claims
  <1>3. s \in Session /\ s.status # "over" /\ s # Over
    <2>1. holder.mode \in Modes \cup {"single"}
      BY DEF TypeOK, Commands
    <2>2. s \in Session
      BY <1>2, <2>1, QueueTyped DEF Session
    <2> QED BY <1>2, <2>2, DeadOrAlive
  <1>4. /\ id \in Nat /\ id # 0 /\ id <= Len(rows) + 1 /\ id > Len(rows)
        /\ rows \in Seq(Session)
    BY DeadOrAlive
  <1>5. /\ DOMAIN rows' = 1 .. id /\ Len(rows') = id /\ rows'[id] = s
        /\ \A i \in DOMAIN rows' : i # id => rows'[i] = Over
    <2> HIDE DEF id, s
    <2> QED BY <1>1, <1>3, <1>4, SavedTyped
  <1>6. live'.id = id /\ live'.s = s
    BY <1>1 DEF Lives
  <1> HIDE DEF id, s
  <1> QED BY <1>3, <1>5, <1>6 DEF Stored, OneOpen, Agree, Alive, S

LEMMA AwaitedStored == ASSUME TypeOK, Stored, Awaited PROVE Stored'
  <1>1. CASE Started BY <1>1, StartedStored
  <1>2. CASE Paused
    <2>1. [S EXCEPT !.status = "paused", !.since = "set"] \in Session
      BY SessionTyped DEF Session, Statuses, Claims
    <2>2. [S EXCEPT !.status = "paused", !.since = "set"].status = "paused"
      BY SessionTyped DEF Session
    <2> QED BY <1>2, <2>1, <2>2, SavedAgrees DEF Paused
  <1>3. CASE Resumed
    <2>1. Stopped(S, "playing") \in Session /\ Stopped(S, "playing").status = "playing"
      BY SessionTyped DEF Session, Statuses, Claims, Stopped
    <2> QED BY <1>3, <2>1, SavedAgrees DEF Resumed
  <1>4. CASE Advanced
    <2> DEFINE to == holder.to
               s == [Stopped(S, StatusOf(Queue[to])) EXCEPT !.song = Queue[to], !.at = to]
               r == PlayReply(Queue[to])
               m == [memory EXCEPT !.episode = Drawn]
    <2>1. /\ Commits(Heard(m, live.id, s, r, Drawn), finished, s)
          /\ live' = Lives(live.id, s) /\ holder.op # "dead"
      BY <1>4 DEF Advanced
    <2>2. StatusOf(Queue[to]) \in Statuses \ {"over"} /\ Drawn \in Nat /\ live.id \in Nat
      BY DeadOrAlive DEF StatusOf, Statuses, Claims, TypeOK, Drawn
    <2>3. to \in DOMAIN Queue /\ Queue[to] \in Titles
      BY <1>4, QueueTyped DEF TypeOK, Advanced, Commands
    <2>4. s \in Session /\ s.status # "over"
      BY <2>2, <2>3, SessionTyped DEF Session, Stopped
    <2>5. m \in Memories
      BY <2>2 DEF TypeOK, Memories
    <2>6. Heard(m, live.id, s, r, Drawn) \in Seq(HeardRow)
      <3> HIDE DEF s, r, m
      <3> QED BY <2>2, <2>5, HeardTyped
    <2>7. live'.id = live.id /\ live'.s = s
      BY <2>1 DEF Lives
    <2> HIDE DEF s, r, m
    <2> QED BY <2>1, <2>4, <2>6, <2>7, WrittenAgrees, FinishedTyped
  <1>5. CASE Ended BY <1>5, ClosedAgrees, FinishedTyped DEF Ended
  <1>6. CASE CommandFails
    <2>1. CASE Saves(Doubt(S))
      <3>1. Doubt(S) \in Session /\ Doubt(S).status = "unknown"
        BY SessionTyped DEF Doubt, Stopped, Session
      <3> QED BY <1>6, <2>1, <3>1, SavedAgrees DEF CommandFails
    <2>2. CASE holder' = Free /\ UNCHANGED <<rows, heard, finished, live>>
      BY <1>6, <2>2, Untouched DEF CommandFails
    <2> QED BY <1>6, <2>1, <2>2 DEF CommandFails
  <1> QED BY <1>1, <1>2, <1>3, <1>4, <1>5, <1>6 DEF Awaited

LEMMA LooksStored ==
  ASSUME TypeOK, Stored, IsFree, NEW m, NEW s \in Session, s.status # "over", Looks(m, s)
  PROVE  Stored'
  BY SavedAgrees, FreeIsAlive DEF Looks

(* What a look at the phone makes of the session *)
LEMMA LooksAtSession ==
  ASSUME TypeOK, Stored, IsFree, Alive
  PROVE  /\ S \in Session /\ S.status # "over"
         /\ Doubt(S) \in Session /\ Doubt(S).status = "unknown" /\ Doubt(S).manual = S.manual
         /\ \A status \in Statuses \ {"over"} :
              /\ Stopped(S, status) \in Session /\ Stopped(S, status).status = status
              /\ Stopped(S, status).manual = S.manual
         /\ "unknown" \in Statuses \ {"over"} /\ "starting" \in Statuses \ {"over"}
         /\ "playing" \in Statuses \ {"over"}
  BY SessionTyped, LiveIsNewest, FreeIsAlive DEF Doubt, Stopped, Session, Statuses, Claims

LEMMA SeenIsSession ==
  ASSUME TypeOK
  PROVE  LET s == IF R.playing THEN Stopped(S, "playing")
                  ELSE [S EXCEPT !.status = "paused", !.since = IF @ = "no" THEN "set" ELSE @]
         IN  /\ s \in Session /\ s.status \in {"playing", "paused"}
             /\ s.at = S.at /\ s.song = S.song /\ s.manual = S.manual
  BY SessionTyped DEF Stopped, Session, Statuses, Claims

LEMMA BoundaryTakenStored == ASSUME TypeOK, Stored, BoundaryTaken PROVE Stored'
  <1> DEFINE to == IF S.mode = "single" THEN 0 ELSE NextAt(S, TRUE)
             w == [S EXCEPT !.status = "waiting", !.since = "set"]
  <1>1. holder.op # "dead"
    BY FreeIsAlive DEF BoundaryTaken, HandedIn
  <1>2. CASE Commits(heard, Finished, w) /\ live' = LiveSays(w)
    <2>1. w \in Session /\ w.status # "over" /\ live'.id = live.id /\ live'.s = w
      BY <1>2, SessionTyped DEF Session, Statuses, Claims, LiveSays
    <2> HIDE DEF w
    <2> QED BY <1>1, <1>2, <2>1, WrittenAgrees, FinishedTyped
  <1>3. CASE Closes(Finished)
    BY <1>3, ClosedAgrees, FinishedTyped
  <1>4. CASE UNCHANGED <<rows, heard, live>>
    BY <1>1, <1>4, Untouched
  <1>5. CASE Commits(heard, Finished, Doubt(S)) /\ live' = LiveSays(Doubt(S))
    <2>1. Doubt(S) \in Session /\ Doubt(S).status = "unknown"
          /\ live'.id = live.id /\ live'.s = Doubt(S)
      BY <1>5, SessionTyped DEF Doubt, Stopped, Session, LiveSays
    <2> QED BY <1>1, <1>5, <2>1, WrittenAgrees, FinishedTyped
  <1> QED BY <1>2, <1>3, <1>4, <1>5 DEF BoundaryTaken

LEMMA ObserveFollowedStored == ASSUME TypeOK, Stored, ObserveFollowed PROVE Stored'
  <1> DEFINE s == [Stopped(S, "playing") EXCEPT !.song = R.title, !.at = 1, !.manual = TRUE,
                                               !.mode = "single"]
             m == [Unfollowed EXCEPT !.episode = Drawn]
  <1>1. live.id \in Nat /\ Drawn \in Nat /\ holder.op # "dead"
    BY FreeIsAlive DEF TypeOK, Drawn, ObserveFollowed, Seeing, HandedIn
  <1>2. s \in Session /\ s.status # "over"
    <2>1. R.title \in Titles
      BY MemoryTyped DEF ObserveFollowed, Seeing
    <2> QED BY <2>1, QueueTyped, SessionTyped DEF Session, Stopped, Statuses, Claims
  <1>3. m \in Memories
    BY <1>1, MemoryTyped DEF Memories
  <1>4. Heard(m, live.id, s, R, Drawn) \in Seq(HeardRow)
    <2> HIDE DEF s, m
    <2> QED BY <1>1, <1>3, HeardTyped
  <1>5. Commits(Heard(m, live.id, s, R, Drawn), finished, s) /\ live' = LiveSays(s)
    BY DEF ObserveFollowed
  <1>6. live'.id = live.id /\ live'.s = s
    BY <1>5 DEF LiveSays
  <1> HIDE DEF s, m
  <1> QED BY <1>1, <1>2, <1>4, <1>5, <1>6, WrittenAgrees, FinishedTyped

LEMMA ObserveSongStored == ASSUME TypeOK, Stored, ObserveSong PROVE Stored'
  <1> DEFINE s == IF R.playing THEN Stopped(S, "playing")
                  ELSE [S EXCEPT !.status = "paused", !.since = IF @ = "no" THEN "set" ELSE @]
  <1>1. live.id \in Nat /\ sounding \in Nat /\ holder.op # "dead"
    BY FreeIsAlive DEF TypeOK, ObserveSong, Seeing, HandedIn
  <1>2. s \in Session /\ s.status # "over"
    BY SeenIsSession
  <1>3. Heard(Unfollowed, live.id, S, R, sounding) \in Seq(HeardRow)
    BY <1>1, MemoryTyped, HeardTyped
  <1>4. /\ Commits(Heard(Unfollowed, live.id, S, R, sounding), finished, s)
        /\ live' = LiveSays(s)
    BY DEF ObserveSong
  <1>5. live'.id = live.id /\ live'.s = s
    BY <1>4 DEF LiveSays
  <1> HIDE DEF s
  <1> QED BY <1>1, <1>2, <1>3, <1>4, <1>5, WrittenAgrees, FinishedTyped

LEMMA PollsStored == ASSUME TypeOK, Stored, Polls PROVE Stored'
  <1>1. CASE PollReads \/ ObserveNothing
    BY <1>1, Untouched DEF PollReads, ObserveNothing
  <1>2. CASE BoundaryUnasked
    BY <1>2, LooksStored, LooksAtSession DEF BoundaryUnasked, HandedIn, Ours
  <1>3. CASE ObserveUnavailable
    BY <1>3, LooksStored, LooksAtSession DEF ObserveUnavailable, HandedIn, Ours
  <1>4. CASE ObserveBeforeSong
    BY <1>4, LooksStored, LooksAtSession DEF ObserveBeforeSong, Seeing, HandedIn, Ours
  <1>5. CASE ObserveCandidate
    BY <1>5, LooksStored, LooksAtSession DEF ObserveCandidate, Seeing, HandedIn, Ours
  <1>6. CASE ObserveAnotherStopped
    BY <1>6, LooksStored, LooksAtSession DEF ObserveAnotherStopped, Seeing, HandedIn, Ours
  <1>7. CASE ObserveUnasked
    BY <1>7, LooksStored, LooksAtSession DEF ObserveUnasked, Seeing, HandedIn, Ours
  <1>8. CASE ObserveTakeover
    BY <1>8, ClosedAgrees, FinishedTyped DEF ObserveTakeover
  <1>9. CASE Expire
    <2>1. CASE Closes(finished)
      BY <2>1, ClosedAgrees, FinishedTyped
    <2>2. CASE UNCHANGED <<rows, heard, finished, live, holder>>
      BY <2>2, Untouched
    <2> QED BY <1>9, <2>1, <2>2 DEF Expire
  <1> QED BY <1>1, <1>2, <1>3, <1>4, <1>5, <1>6, <1>7, <1>8, <1>9, BoundaryTakenStored,
             ObserveFollowedStored, ObserveSongStored
          DEF Polls, Observe

LEMMA TimeStored == ASSUME TypeOK, Stored, Time PROVE Stored'
  <1>1. CASE GraceEnds
    <2>1. live' = [live EXCEPT !.grace = FALSE] /\ rows' = rows /\ holder' = holder
      BY <1>1 DEF GraceEnds
    <2>2. live'.id = live.id /\ live'.s = live.s
      BY <2>1 DEF TypeOK
    <2> QED BY <2>1, <2>2, Untouched
  <1>2. CASE PauseLasts
    <2>1. /\ live.id = Len(rows) /\ live.id \in DOMAIN rows /\ rows[live.id] = S
          /\ S.status # "over" /\ holder' = holder
      BY <1>2, LiveIsNewest, FreeIsAlive DEF PauseLasts
    <2> DEFINE s == [S EXCEPT !.since = "due"]
    <2>2. s.status # "over" /\ s # Over
      BY <2>1, SessionTyped, DeadOrAlive DEF Session
    <2>3. /\ rows' = [rows EXCEPT ![live.id] = s]
          /\ live' = [live EXCEPT !.s = s]
      BY <1>2, <2>1 DEF PauseLasts, S
    <2>4. live'.id = live.id /\ live'.s = s
      BY <2>3 DEF TypeOK
    <2>5. /\ DOMAIN rows' = DOMAIN rows /\ Len(rows') = Len(rows) /\ rows'[live.id] = s
          /\ \A i \in DOMAIN rows : i # live.id => rows'[i] = rows[i]
      BY <2>1, <2>3, DeadOrAlive
    <2> HIDE DEF s
    <2> QED BY <2>1, <2>2, <2>4, <2>5 DEF Stored, OneOpen, Agree, Alive, S
  <1> QED BY <1>1, <1>2 DEF Time

LEMMA UnclaimedOpen ==
  ASSUME TypeOK, NEW i \in DOMAIN rows
  PROVE  /\ Unclaimed(i) # Over <=> rows[i] # Over
         /\ Unclaimed(i).status = "over" <=> rows[i].status = "over"
         /\ Unclaimed(i).status \notin Claims
         /\ Unclaimed(i).at = rows[i].at
  <1>1. rows[i] \in Session
    BY DEF TypeOK
  <1>2. Doubt(rows[i]).status = "unknown" /\ Doubt(rows[i]).at = rows[i].at
    BY <1>1 DEF Doubt, Stopped, Session
  <1> QED BY <1>2, DeadOrAlive DEF Unclaimed, Claims

LEMMA RestartStored == ASSUME TypeOK, Stored, Restart PROVE Stored'
  <1>1. /\ DOMAIN rows' = DOMAIN rows /\ Len(rows') = Len(rows)
        /\ \A i \in DOMAIN rows : rows'[i] = Unclaimed(i)
    <2>1. rows' = [i \in DOMAIN rows |-> Unclaimed(i)]
      BY DEF Restart
    <2> QED BY <2>1, RestartTyped, DeadOrAlive DEF TypeOK
  <1>2. OneOpen'
    BY <1>1, UnclaimedOpen DEF Stored, OneOpen
  <1>3. CASE {i \in DOMAIN rows : rows[i] # Over} = {} /\ live' = NoLive
    <2>1. \A i \in DOMAIN rows : rows'[i] = Over
      BY <1>1, <1>3, UnclaimedOpen
    <2> QED BY <1>1, <1>2, <1>3, <2>1 DEF Stored, Agree, Alive, NoLive, Lives
  <1>4. ASSUME NEW id \in {i \in DOMAIN rows : rows[i] # Over}, live' = Lives(id, Unclaimed(id))
        PROVE  Stored'
    <2>1. live'.id = id /\ live'.s = Unclaimed(id)
      BY <1>4 DEF Lives
    <2>2. Unclaimed(id).status # "over"
      BY UnclaimedOpen DEF Stored, OneOpen
    <2>3. \A i \in DOMAIN rows : rows'[i] # Over => i = id
      BY <1>1, UnclaimedOpen DEF Stored, OneOpen
    <2> QED BY <1>1, <1>2, <2>1, <2>2, <2>3 DEF Stored, Agree, Alive, S
  <1> QED BY <1>3, <1>4 DEF Restart

LEMMA StoredInit == Init => Stored
  <1> SUFFICES ASSUME Init PROVE Stored
    OBVIOUS
  <1>1. rows = <<>> /\ live.id = 0
    BY DEF Init, NoLive, Lives
  <1> QED BY <1>1 DEF Stored, OneOpen, Agree, Alive

LEMMA StoredStep == ASSUME TypeOK, Stored, [Next]_vars PROVE Stored'
  <1>1. CASE UNCHANGED vars
    BY <1>1, Untouched DEF vars
  <1>2. CASE Phone
    BY <1>2, Untouched DEF Phone
  <1> QED BY <1>1, <1>2, PersonStored, AwaitedStored, PollsStored, TimeStored, RestartStored
          DEF Next

(* What the store says of the sessions is what the service remembers, whatever fails or
   dies in between. *)
THEOREM StoredIsLiveHolds == Spec => []StoredIsLive
  <1>1. TypeOK /\ Stored => StoredIsLive
    BY DeadOrAlive, FreeIsAlive DEF StoredIsLive, Stored, OneOpen, Agree
  <1> QED BY <1>1, InitTyped, NextTypedStep, StoredInit, StoredStep, PTL DEF Spec
-----------------------------------------------------------------------------
(* A restarted service is silent *)

(* The queue is held back as long as nobody has asked. *)
Held ==
  ~asked =>
    /\ ~memory.allow /\ ~live.grace
    /\ holder.op \notin {"start", "resume", "advance"}
    /\ Alive /\ ~S.manual => S.status \notin {"starting", "playing"}

LEMMA HeldInit == Init => Held
  BY DEF Init, Held

LEMMA HeldBySave ==
  ASSUME TypeOK, Held, NEW s \in Session, Saves(s), asked' = asked,
         memory'.allow = memory.allow,
         \/ s.manual
         \/ s.status \notin {"starting", "playing"}
         \/ s.status = S.status /\ Alive /\ s.manual = S.manual
  PROVE  Held'
  BY SavesTyped, ConstantsTyped DEF Held, Alive, S

LEMMA HeldByRefusal ==
  ASSUME TypeOK, Held, NEW s \in Session, Saves(s), asked' = asked,
         memory'.allow = memory.allow, s.status \notin {"starting", "playing"}
  PROVE  Held'
  BY SavesTyped, ConstantsTyped DEF Held, Alive, S

LEMMA HeldByClose ==
  ASSUME TypeOK, Held, NEW f \in SUBSET FinishedRow, Closes(f), asked' = asked,
         memory'.allow = memory.allow
  PROVE  Held'
  <1>1. live' = NoLive /\ (holder' = Free \/ holder' = Dead)
    BY ClosesTyped
  <1>2. live'.id = 0 /\ ~live'.grace
    BY <1>1 DEF NoLive, Lives, Over
  <1> QED BY <1>1, <1>2, ConstantsTyped DEF Held, Alive

LEMMA HeldByRest ==
  ASSUME TypeOK, Held, asked' = asked, memory'.allow = memory.allow, live'.id = live.id,
         live'.s = live.s, live'.grace => live.grace,
         holder' = holder \/ holder'.op \notin {"start", "resume", "advance"}
  PROVE  Held'
  BY DEF Held, Alive, S

(* Only asking lets the queue go on. *)
LEMMA AllowKept ==
  ASSUME TypeOK
  PROVE  /\ Unfollowed.allow = memory.allow
         /\ \A t : [memory EXCEPT !.candidate = t].allow = memory.allow
         /\ \A m \in Memories : \A s, r : Sung(m, s, r).allow = m.allow
         /\ \A m \in Memories : [m EXCEPT !.episode = Drawn].allow = m.allow
  BY DEF TypeOK, Memories, Unfollowed, Sung

LEMMA HeldPerson == ASSUME TypeOK, Stored, Held, Person PROVE Held'
  <1>1. ASSUME NEW mode \in Modes, Start(mode) PROVE Held'
    BY <1>1 DEF Start, Held
  <1>2. CASE Resume \/ Skip
    BY <1>2 DEF Resume, Skip, Held
  <1>3. ASSUME NEW mode \in Modes, SetsMode(mode) PROVE Held'
    <2>1. LET s == [S EXCEPT !.mode = mode]
          IN  s \in Session /\ s.status = S.status /\ s.manual = S.manual
      BY SessionTyped DEF Session
    <2> QED BY <1>3, <2>1, HeldBySave DEF SetsMode
  <1>4. CASE Pause
    BY <1>4, HeldByRest DEF Pause, Holds
  <1>5. CASE End
    <2>1. CASE holder' = Holds("end") /\ UNCHANGED <<rows, heard, finished, live, memory>>
      BY <1>5, <2>1, HeldByRest DEF End, Holds
    <2>2. CASE Closes(finished) /\ memory' = [memory EXCEPT !.candidate = NoTitle]
      BY <1>5, <2>2, HeldByClose, FinishedTyped, AllowKept DEF End
    <2> QED BY <1>5, <2>1, <2>2 DEF End
  <1>6. ASSUME NEW follow \in BOOLEAN, SetsFollow(follow) PROVE Held'
    <2>1. CASE Closes(finished) /\ memory' = [memory EXCEPT !.candidate = NoTitle]
      BY <1>6, <2>1, HeldByClose, FinishedTyped, AllowKept DEF SetsFollow
    <2>2. CASE Saves([S EXCEPT !.follow = follow]) /\ UNCHANGED memory
      <3>1. LET s == [S EXCEPT !.follow = follow]
            IN  s \in Session /\ s.status = S.status /\ s.manual = S.manual
        BY SessionTyped DEF Session
      <3> QED BY <1>6, <2>2, <3>1, HeldBySave DEF SetsFollow
    <2> QED BY <1>6, <2>1, <2>2 DEF SetsFollow
  <1> QED BY <1>1, <1>2, <1>3, <1>4, <1>5, <1>6 DEF Person

LEMMA HeldAwaited == ASSUME TypeOK, Stored, Held, Awaited PROVE Held'
  <1>1. CASE Started \/ Resumed \/ Advanced
    BY <1>1 DEF Started, Resumed, Advanced, Held
  <1>2. CASE Paused
    <2> DEFINE s == [S EXCEPT !.status = "paused", !.since = "set"]
    <2>1. s \in Session /\ s.status = "paused"
      BY SessionTyped DEF Session, Statuses, Claims
    <2>2. Saves(s) /\ asked' = asked /\ memory'.allow = memory.allow
      BY <1>2 DEF Paused
    <2>3. s.status \notin {"starting", "playing"}
      BY <2>1
    <2> HIDE DEF s
    <2> QED BY <2>1, <2>2, <2>3, HeldByRefusal
  <1>3. CASE Ended
    BY <1>3, HeldByClose, FinishedTyped, AllowKept DEF Ended
  <1>4. CASE CommandFails
    <2>1. CASE Saves(Doubt(S))
      <3>1. Doubt(S) \in Session /\ Doubt(S).status = "unknown"
        BY SessionTyped DEF Doubt, Stopped, Session
      <3>2. asked' = asked /\ memory'.allow = memory.allow
        BY <1>4 DEF CommandFails
      <3>3. Doubt(S).status \notin {"starting", "playing"}
        BY <3>1
      <3> QED BY <2>1, <3>1, <3>2, <3>3, HeldByRefusal
    <2>2. CASE holder' = Free /\ UNCHANGED <<rows, heard, finished, live>>
      BY <1>4, <2>2, HeldByRest, ConstantsTyped DEF CommandFails
    <2> QED BY <1>4, <2>1, <2>2 DEF CommandFails
  <1> QED BY <1>1, <1>2, <1>3, <1>4 DEF Awaited

LEMMA HeldLooks ==
  ASSUME TypeOK, Held, NEW m \in Memories, NEW s \in Session, Looks(m, s),
         m.allow = memory.allow,
         \/ s.manual
         \/ s.status \notin {"starting", "playing"}
         \/ s.status = S.status /\ Alive /\ s.manual = S.manual
  PROVE  Held'
  BY HeldBySave DEF Looks, ObserveEnds

LEMMA HeldPolls == ASSUME TypeOK, Stored, Held, Polls PROVE Held'
  <1>1. CASE PollReads \/ ObserveNothing
    BY <1>1, HeldByRest DEF PollReads, ObserveNothing, ObserveEnds
  <1>2. CASE BoundaryTaken \/ ObserveSong
    BY <1>2 DEF BoundaryTaken, ObserveSong, ObserveEnds, Held
  <1>3. CASE BoundaryUnasked
    BY <1>3, HeldLooks, LooksAtSession, MemoryTyped DEF BoundaryUnasked, HandedIn, Ours
  <1>4. CASE ObserveUnavailable
    <2>1. CASE InGrace
      BY <1>4, <2>1 DEF ObserveUnavailable, Looks, ObserveEnds, Held, InGrace
    <2>2. CASE ~InGrace
      BY <1>4, <2>2, HeldLooks, LooksAtSession, MemoryTyped, AllowKept
      DEF ObserveUnavailable, HandedIn, Ours
    <2> QED BY <2>1, <2>2
  <1>5. CASE ObserveBeforeSong
    BY <1>5, HeldLooks, LooksAtSession, MemoryTyped, AllowKept
    DEF ObserveBeforeSong, Seeing, HandedIn, Ours
  <1>6. CASE ObserveCandidate
    BY <1>6, HeldLooks, LooksAtSession, MemoryTyped, AllowKept
    DEF ObserveCandidate, Seeing, HandedIn, Ours
  <1>7. CASE ObserveAnotherStopped
    BY <1>7, HeldLooks, LooksAtSession, MemoryTyped, AllowKept
    DEF ObserveAnotherStopped, Seeing, HandedIn, Ours
  <1>8. CASE ObserveUnasked
    BY <1>8, HeldLooks, LooksAtSession, MemoryTyped, AllowKept
    DEF ObserveUnasked, Seeing, HandedIn, Ours
  <1>9. CASE ObserveTakeover
    BY <1>9, HeldByClose, FinishedTyped DEF ObserveTakeover, ObserveEnds
  <1>10. CASE Expire
    <2>1. CASE Closes(finished)
      BY <1>10, <2>1, HeldByClose, FinishedTyped DEF Expire
    <2>2. CASE UNCHANGED <<rows, heard, finished, live, holder>>
      BY <1>10, <2>2, HeldByRest DEF Expire
    <2> QED BY <1>10, <2>1, <2>2 DEF Expire
  <1>11. CASE ObserveFollowed
    <2> DEFINE s == [Stopped(S, "playing") EXCEPT !.song = R.title, !.at = 1, !.manual = TRUE,
                                                 !.mode = "single"]
               m == [Unfollowed EXCEPT !.episode = Drawn]
               h == Heard(m, live.id, s, R, Drawn)
    <2>1. s.manual /\ s.status = "playing"
      BY SessionTyped DEF Session, Stopped
    <2>2. /\ live' = LiveSays(s) /\ memory' = Sung(m, s, R) /\ asked' = asked
          /\ Commits(h, finished, s)
      BY <1>11 DEF ObserveFollowed, ObserveEnds
    <2>3. m \in Memories
      <3>1. Drawn \in Nat
        BY DEF TypeOK, Drawn
      <3> QED BY <3>1, MemoryTyped DEF Memories
    <2>4. m.allow = memory.allow
      BY MemoryTyped, AllowKept
    <2>5. memory'.allow = memory.allow
      <3> HIDE DEF s, m
      <3> QED BY <2>2, <2>3, <2>4, AllowKept
    <2>6. holder'.op \notin {"start", "resume", "advance"}
      BY <2>2, ConstantsTyped DEF Commits
    <2>7. live'.s = s /\ ~live'.grace
      BY <2>1, <2>2 DEF LiveSays
    <2> HIDE DEF s, m, h
    <2> QED BY <2>1, <2>2, <2>5, <2>6, <2>7 DEF Held, S
  <1> QED BY <1>1, <1>2, <1>3, <1>4, <1>5, <1>6, <1>7, <1>8, <1>9, <1>10, <1>11
          DEF Polls, Observe

LEMMA HeldTime == ASSUME TypeOK, Held, Time PROVE Held'
  <1>1. CASE GraceEnds
    <2>1. live' = [live EXCEPT !.grace = FALSE]
      BY <1>1 DEF GraceEnds
    <2>2. live'.id = live.id /\ live'.s = live.s /\ ~live'.grace
      BY <2>1 DEF TypeOK
    <2> QED BY <1>1, <2>2, HeldByRest DEF GraceEnds
  <1>2. CASE PauseLasts
    <2>1. live' = [live EXCEPT !.s = [S EXCEPT !.since = "due"]]
      BY <1>2 DEF PauseLasts, S
    <2>2. /\ live'.id = live.id /\ live'.grace = live.grace
          /\ live'.s.status = S.status /\ live'.s.manual = S.manual
      BY <2>1, SessionTyped DEF TypeOK, Session
    <2> QED BY <1>2, <2>2 DEF PauseLasts, Held, Alive, S
  <1> QED BY <1>1, <1>2 DEF Time

LEMMA HeldRestart == ASSUME TypeOK, Held, Restart PROVE Held'
  <1>1. CASE asked'
    BY <1>1 DEF Held
  <1>2. CASE ~asked'
    <2>1. PICK id \in DOMAIN rows :
            /\ live' = Lives(id, Unclaimed(id))
            /\ Reloads({k \in DOMAIN heard : heard[k].id = id})
      BY <1>2 DEF Restart
    <2>2. ~memory'.allow
      BY <2>1 DEF Reloads, Remembers
    <2>3. live'.s = Unclaimed(id) /\ Unclaimed(id).status \notin Claims /\ ~live'.grace
      BY <2>1, UnclaimedOpen DEF Lives, Claims
    <2>4. holder' = Free
      BY DEF Restart
    <2> QED BY <2>2, <2>3, <2>4, ConstantsTyped DEF Held, Claims, S
  <1> QED BY <1>1, <1>2

LEMMA HeldStep == ASSUME TypeOK, Stored, Held, [Next]_vars PROVE Held'
  <1>1. CASE UNCHANGED vars
    BY <1>1, HeldByRest DEF vars
  <1>2. CASE Phone
    BY <1>2, HeldByRest DEF Phone
  <1> QED BY <1>1, <1>2, HeldPerson, HeldAwaited, HeldPolls, HeldTime, HeldRestart DEF Next

(* After a restart nothing is put on and nothing claimed to be playing before a person asks
   for it. *)
THEOREM RestartIsSilentHolds == Spec => []RestartIsSilent
  <1>1. Held => RestartIsSilent
    BY DEF Held, RestartIsSilent
  <1> QED BY <1>1, InitTyped, NextTypedStep, StoredInit, StoredStep, HeldInit, HeldStep, PTL
          DEF Spec

-----------------------------------------------------------------------------
(* The end of a song is on record before the queue goes on *)

(* While the loop puts on the next song the end of the one in memory is on record. *)
Recorded ==
  holder.op = "advance" =>
    Alive /\ (holder.by = "poll" => [id |-> live.id, song |-> S.song] \in finished)

LEMMA RecordedByRest ==
  ASSUME Recorded, \/ holder'.op # "advance"
                   \/ holder'.by # "poll" /\ Alive'
                   \/ holder' = holder /\ live' = live /\ finished' = finished
  PROVE  Recorded'
  BY DEF Recorded, S, Alive

LEMMA RecordedPerson == ASSUME TypeOK, Recorded, Person PROVE Recorded'
  <1>1. ASSUME NEW mode \in Modes, Start(mode) PROVE Recorded'
    BY <1>1, RecordedByRest DEF Start, SendsToken, Holds
  <1>2. ASSUME NEW mode \in Modes, SetsMode(mode) PROVE Recorded'
    BY <1>2, RecordedByRest, ConstantsTyped DEF SetsMode, Saves, Commits
  <1>3. CASE Pause
    BY <1>3, RecordedByRest DEF Pause, Holds
  <1>4. CASE Resume
    BY <1>4, RecordedByRest DEF Resume, SendsToken, Holds
  <1>5. CASE Skip
    <2>1. CASE UNCHANGED holder
      BY <1>5, <2>1, RecordedByRest DEF Skip
    <2>2. CASE PlaysNext(NextAt(S, FALSE), "person")
      <3>1. holder'.by = "person" /\ Alive'
        BY <1>5, <2>2 DEF Skip, Alive, PlaysNext, SendsToken, Holds
      <3> QED BY <3>1, RecordedByRest
    <2> QED BY <1>5, <2>1, <2>2 DEF Skip
  <1>6. CASE End
    BY <1>6, RecordedByRest, ConstantsTyped DEF End, Closes, Commits, Holds
  <1>7. ASSUME NEW follow \in BOOLEAN, SetsFollow(follow) PROVE Recorded'
    BY <1>7, RecordedByRest, ConstantsTyped DEF SetsFollow, Closes, Saves, Commits
  <1> QED BY <1>1, <1>2, <1>3, <1>4, <1>5, <1>6, <1>7 DEF Person

LEMMA RecordedAwaited == ASSUME TypeOK, Recorded, Awaited PROVE Recorded'
  <1>1. holder' = Free \/ holder' = Dead
    BY DEF Awaited, Started, Paused, Resumed, Advanced, Ended, CommandFails, Closes, Saves, Commits
  <1> QED BY <1>1, ConstantsTyped, RecordedByRest

LEMMA RecordedPolls == ASSUME TypeOK, Recorded, Polls PROVE Recorded'
  <1>1. CASE PollReads \/ ObserveNothing
    BY <1>1, RecordedByRest DEF PollReads, ObserveNothing
  <1>2. CASE BoundaryTaken
    <2>1. CASE \E s : Commits(heard, Finished, s)
      BY <2>1, ConstantsTyped, RecordedByRest DEF Commits
    <2>2. CASE finished' = Finished /\ UNCHANGED live
      BY <1>2, <2>2 DEF Recorded, BoundaryTaken, Ours, Alive, Finished, S
    <2> QED BY <1>2, <2>1, <2>2 DEF BoundaryTaken, Closes
  <1>3. CASE BoundaryUnasked \/ ObserveUnavailable \/ ObserveBeforeSong \/ ObserveCandidate
               \/ ObserveAnotherStopped \/ ObserveUnasked
    <2>1. \E m, s : Looks(m, s)
      BY <1>3 DEF BoundaryUnasked, ObserveUnavailable, ObserveBeforeSong, ObserveCandidate,
                  ObserveAnotherStopped, ObserveUnasked
    <2> QED BY <2>1, ConstantsTyped, RecordedByRest DEF Looks, Saves, Commits
  <1>4. CASE ObserveFollowed \/ ObserveTakeover \/ ObserveSong
    <2>1. holder' = Free \/ holder' = Dead
      BY <1>4 DEF ObserveFollowed, ObserveTakeover, ObserveSong, Closes, Commits
    <2> QED BY <2>1, ConstantsTyped, RecordedByRest
  <1>5. CASE Expire
    <2>1. CASE Closes(finished)
      BY <2>1, ConstantsTyped, RecordedByRest DEF Closes, Commits
    <2>2. CASE UNCHANGED <<rows, heard, finished, live, holder>>
      BY <2>2, RecordedByRest
    <2> QED BY <1>5, <2>1, <2>2 DEF Expire
  <1> QED BY <1>1, <1>2, <1>3, <1>4, <1>5 DEF Polls, Observe

LEMMA RecordedStep == ASSUME TypeOK, Recorded, [Next]_vars PROVE Recorded'
  <1>1. CASE UNCHANGED vars
    BY <1>1, RecordedByRest DEF vars
  <1>2. CASE Phone
    BY <1>2, RecordedByRest DEF Phone
  <1>3. CASE Time
    <2>1. holder'.op # "advance"
      BY <1>3, ConstantsTyped DEF Time, GraceEnds, PauseLasts, IsFree
    <2> QED BY <2>1, RecordedByRest
  <1>4. CASE Restart
    BY <1>4, ConstantsTyped, RecordedByRest DEF Restart
  <1> QED BY <1>1, <1>2, <1>3, <1>4, RecordedPerson, RecordedAwaited, RecordedPolls DEF Next

(* A step that saves the session where it is, or a song that is over or the person's own,
   leaves no song. *)
LEMMA StaysAtSong ==
  ASSUME TypeOK, Stored, holder.op # "dead", NEW s \in Session,
         rows' = rows \/ rows' = Saved(live.id, s),
         \/ s.manual = TRUE
         \/ s.status = "over"
         \/ s.at = S.at /\ (s.status = "waiting" => S.status = "waiting")
         \/ [id |-> live.id, song |-> S.song] \in finished'
  PROVE  SongsLeftAreFinished
  <1> SUFFICES ASSUME NEW i \in DOMAIN rows, rows'[i].manual # TRUE, rows'[i].status # "over",
                      \/ rows'[i].at # rows[i].at
                      \/ rows'[i].status = "waiting" /\ rows[i].status # "waiting"
               PROVE  \E f \in finished' : f.id = i /\ f.song = rows[i].song
    BY DEF SongsLeftAreFinished
  <1>1. rows' = Saved(live.id, s)
    OBVIOUS
  <1>2. i = live.id /\ rows'[i] = s /\ Alive
    <2>1. rows \in Seq(Session) /\ live.id \in Nat /\ live.id <= Len(rows) + 1 /\ i # 0
          /\ i \in 1 .. Len(rows) /\ ~(live.id > Len(rows)) /\ Over.status = "over"
      BY DeadOrAlive
    <2>2. /\ i \in DOMAIN rows'
          /\ live.id # 0 => rows'[live.id] = s
          /\ \A k \in DOMAIN rows' : k # live.id => rows'[k] = Over
      BY <1>1, <2>1, SavedTyped
    <2> QED BY <2>1, <2>2 DEF Alive
  <1>3. rows[i] = S
    BY <1>2, LiveIsNewest
  <1> QED BY <1>2, <1>3

LEMMA StaysBySave ==
  ASSUME TypeOK, Stored, holder.op # "dead", NEW s \in Session, Saves(s), s.at = S.at,
         s.status = "waiting" => S.status = "waiting"
  PROVE  SongsLeftAreFinished
  BY StaysAtSong, SavesTyped

LEMMA StaysByClose ==
  ASSUME TypeOK, Stored, holder.op # "dead", NEW f \in SUBSET FinishedRow, Closes(f)
  PROVE  SongsLeftAreFinished
  BY StaysAtSong, ClosesTyped, ConstantsTyped DEF Over

LEMMA StaysByRest == ASSUME UNCHANGED rows PROVE SongsLeftAreFinished
  BY DEF SongsLeftAreFinished

LEMMA StaysPerson == ASSUME TypeOK, Stored, Person PROVE SongsLeftAreFinished
  <1>1. ASSUME NEW mode \in Modes, Start(mode) PROVE SongsLeftAreFinished
    BY <1>1, StaysByRest DEF Start
  <1>2. ASSUME NEW mode \in Modes, SetsMode(mode) PROVE SongsLeftAreFinished
    <2> DEFINE s == [S EXCEPT !.mode = mode]
    <2>1. s \in Session /\ s.at = S.at /\ s.status = S.status
      BY SessionTyped DEF Session
    <2>2. Saves(s) /\ holder.op # "dead"
      BY <1>2, FreeIsAlive DEF SetsMode
    <2> HIDE DEF s
    <2> QED BY <2>1, <2>2, StaysBySave
  <1>3. CASE Pause \/ Resume \/ Skip
    BY <1>3, StaysByRest DEF Pause, Resume, Skip
  <1>4. CASE End
    BY <1>4, StaysByRest, StaysByClose, FreeIsAlive, FinishedTyped DEF End
  <1>5. ASSUME NEW follow \in BOOLEAN, SetsFollow(follow) PROVE SongsLeftAreFinished
    <2> DEFINE s == [S EXCEPT !.follow = follow]
    <2>1. s \in Session /\ s.at = S.at /\ s.status = S.status
      BY SessionTyped DEF Session
    <2>2. holder.op # "dead" /\ (Closes(finished) \/ Saves(s))
      BY <1>5, FreeIsAlive DEF SetsFollow
    <2> HIDE DEF s
    <2> QED BY <2>1, <2>2, StaysBySave, StaysByClose, FinishedTyped
  <1> QED BY <1>1, <1>2, <1>3, <1>4, <1>5 DEF Person

LEMMA StaysAdvanced == ASSUME TypeOK, Stored, Recorded, Advanced PROVE SongsLeftAreFinished
  <1>1. CASE holder.by # "poll"
    <2>1. holder # Free
      BY ConstantsTyped DEF Advanced
    <2> QED BY <1>1, <2>1 DEF SongsLeftAreFinished
  <1>2. CASE holder.by = "poll"
    <2> DEFINE to == holder.to
               s == [Stopped(S, StatusOf(Queue[to])) EXCEPT !.song = Queue[to], !.at = to]
    <2>1. \E h : Commits(h, finished, s)
      BY DEF Advanced
    <2>2. (rows' = rows \/ rows' = Saved(live.id, s)) /\ finished' = finished
      BY <2>1 DEF Commits
    <2>3. [id |-> live.id, song |-> S.song] \in finished'
      BY <1>2, <2>2 DEF Recorded, Advanced
    <2>4. to \in DOMAIN Queue /\ Queue[to] \in Titles /\ holder.op # "dead"
      BY QueueTyped DEF TypeOK, Advanced, Commands
    <2>5. StatusOf(Queue[to]) \in Statuses
      BY DEF StatusOf, Statuses, Claims
    <2>6. s \in Session
      BY <2>4, <2>5, SessionTyped DEF Session, Stopped
    <2> HIDE DEF s
    <2> QED BY <2>2, <2>3, <2>4, <2>6, StaysAtSong
  <1> QED BY <1>1, <1>2

LEMMA StaysStarted == ASSUME TypeOK, Stored, Started PROVE SongsLeftAreFinished
  <1> DEFINE id == Len(rows) + 1
             s == [song |-> Queue[1], at |-> 1, manual |-> FALSE, mode |-> holder.mode,
                   follow |-> Alive /\ S.follow, status |-> StatusOf(Queue[1]), since |-> "no"]
  <1>1. rows' = Saved(id, s)
    BY DEF Started
  <1>2. \A i \in DOMAIN rows : i # id /\ i \in 1 .. id
    BY DeadOrAlive
  <1>3. \A i \in DOMAIN rows : rows'[i] = Over
    <2>1. id > Len(rows)
      BY DeadOrAlive
    <2> HIDE DEF id, s
    <2> QED BY <1>1, <1>2, <2>1 DEF Saved
  <1> QED BY <1>3, DeadOrAlive DEF SongsLeftAreFinished

LEMMA StaysAwaited == ASSUME TypeOK, Stored, Recorded, Awaited PROVE SongsLeftAreFinished
  <1>1. CASE Paused
    <2> DEFINE s == [S EXCEPT !.status = "paused", !.since = "set"]
    <2>1. s \in Session /\ s.at = S.at /\ s.status = "paused"
      BY SessionTyped DEF Session, Statuses, Claims
    <2>2. Saves(s) /\ holder.op # "dead"
      BY <1>1 DEF Paused
    <2> HIDE DEF s
    <2> QED BY <2>1, <2>2, StaysBySave
  <1>2. CASE Resumed
    <2>1. /\ Stopped(S, "playing") \in Session /\ Stopped(S, "playing").at = S.at
          /\ Stopped(S, "playing").status = "playing"
      BY SessionTyped DEF Session, Statuses, Claims, Stopped
    <2>2. Saves(Stopped(S, "playing")) /\ holder.op # "dead"
      BY <1>2 DEF Resumed
    <2> QED BY <2>1, <2>2, StaysBySave
  <1>3. CASE Ended
    <2>1. Closes(finished) /\ holder.op # "dead"
      BY <1>3 DEF Ended
    <2> QED BY <2>1, StaysByClose, FinishedTyped
  <1>4. CASE CommandFails
    <2>1. CASE UNCHANGED rows
      BY <2>1, StaysByRest
    <2>2. CASE Saves(Doubt(S))
      <3>1. /\ Doubt(S) \in Session /\ Doubt(S).at = S.at /\ Doubt(S).status = "unknown"
            /\ holder.op # "dead"
        BY <1>4, SessionTyped DEF CommandFails, Doubt, Stopped, Session
      <3> QED BY <2>2, <3>1, StaysBySave
    <2> QED BY <1>4, <2>1, <2>2 DEF CommandFails
  <1> QED BY <1>1, <1>2, <1>3, <1>4, StaysStarted, StaysAdvanced DEF Awaited

LEMMA StaysLooking ==
  ASSUME TypeOK, Stored, HandedIn, NEW m, NEW s \in Session, Looks(m, s), s.at = S.at,
         s.status = "waiting" => S.status = "waiting"
  PROVE  SongsLeftAreFinished
  BY StaysBySave, FreeIsAlive DEF Looks, HandedIn

LEMMA PlaceKept ==
  ASSUME TypeOK
  PROVE  /\ Doubt(S).at = S.at /\ Doubt(S).status = "unknown" /\ Doubt(S) \in Session
         /\ S \in Session
         /\ \A status \in Statuses :
              /\ Stopped(S, status).at = S.at /\ Stopped(S, status).status = status
              /\ Stopped(S, status) \in Session
         /\ {"starting", "unknown", "playing"} \subseteq Statuses
  BY SessionTyped DEF Doubt, Stopped, Session, Statuses, Claims

LEMMA StaysPolls == ASSUME TypeOK, Stored, Recorded, Polls PROVE SongsLeftAreFinished
  <1>1. CASE PollReads \/ ObserveNothing
    BY <1>1, StaysByRest DEF PollReads, ObserveNothing
  <1>2. CASE BoundaryTaken
    <2>1. holder.op # "dead"
      BY <1>2, FreeIsAlive DEF BoundaryTaken, HandedIn
    <2>2. ASSUME NEW s \in Session, Commits(heard, Finished, s) PROVE SongsLeftAreFinished
      <3>1. (rows' = rows \/ rows' = Saved(live.id, s)) /\ finished' = Finished
        BY <2>2 DEF Commits
      <3>2. [id |-> live.id, song |-> S.song] \in finished'
        BY <3>1 DEF Finished
      <3> QED BY <2>1, <3>1, <3>2, StaysAtSong
    <2>3. /\ [S EXCEPT !.status = "waiting", !.since = "set"] \in Session
          /\ Doubt(S) \in Session /\ Over \in Session
      BY SessionTyped, ConstantsTyped DEF Session, Statuses, Claims
    <2> QED BY <1>2, <2>2, <2>3, StaysByRest DEF BoundaryTaken, Closes
  <1>3. CASE BoundaryUnasked
    BY <1>3, StaysLooking, PlaceKept DEF BoundaryUnasked
  <1>4. CASE ObserveUnavailable
    BY <1>4, StaysLooking, PlaceKept DEF ObserveUnavailable
  <1>5. CASE ObserveBeforeSong
    BY <1>5, StaysLooking, PlaceKept DEF ObserveBeforeSong, Seeing
  <1>6. CASE ObserveCandidate
    BY <1>6, StaysLooking, PlaceKept DEF ObserveCandidate, Seeing
  <1>7. CASE ObserveAnotherStopped
    BY <1>7, StaysLooking, PlaceKept DEF ObserveAnotherStopped, Seeing
  <1>8. CASE ObserveUnasked
    BY <1>8, StaysLooking, PlaceKept DEF ObserveUnasked, Seeing
  <1>9. CASE ObserveTakeover
    <2>1. Closes(finished) /\ holder.op # "dead"
      BY <1>9, FreeIsAlive DEF ObserveTakeover, Seeing, HandedIn
    <2> QED BY <2>1, StaysByClose, FinishedTyped
  <1>10. CASE Expire
    <2>1. holder.op # "dead" /\ (Closes(finished) \/ UNCHANGED rows)
      BY <1>10, FreeIsAlive DEF Expire
    <2> QED BY <2>1, StaysByRest, StaysByClose, FinishedTyped
  <1>11. CASE ObserveFollowed
    <2> DEFINE s == [Stopped(S, "playing") EXCEPT !.song = R.title, !.at = 1, !.manual = TRUE,
                                                 !.mode = "single"]
    <2>1. holder.op # "dead" /\ R.title \in Titles
      BY <1>11, FreeIsAlive, MemoryTyped DEF ObserveFollowed, Seeing, HandedIn
    <2>2. s \in Session /\ s.manual = TRUE
      BY <2>1, QueueTyped, SessionTyped DEF Session, Stopped, Statuses, Claims
    <2>3. \E h : Commits(h, finished, s)
      BY <1>11 DEF ObserveFollowed
    <2>4. rows' = rows \/ rows' = Saved(live.id, s)
      BY <2>3 DEF Commits
    <2> HIDE DEF s
    <2> QED BY <2>1, <2>2, <2>4, StaysAtSong
  <1>12. CASE ObserveSong
    <2> DEFINE s == IF R.playing THEN Stopped(S, "playing")
                    ELSE [S EXCEPT !.status = "paused", !.since = IF @ = "no" THEN "set" ELSE @]
    <2>1. holder.op # "dead"
      BY <1>12, FreeIsAlive DEF ObserveSong, Seeing, HandedIn
    <2>2. s \in Session /\ s.at = S.at /\ s.status # "waiting"
      BY SeenIsSession
    <2>3. \E h : Commits(h, finished, s)
      BY <1>12 DEF ObserveSong
    <2>4. rows' = rows \/ rows' = Saved(live.id, s)
      BY <2>3 DEF Commits
    <2> HIDE DEF s
    <2> QED BY <2>1, <2>2, <2>4, StaysAtSong
  <1> QED BY <1>1, <1>2, <1>3, <1>4, <1>5, <1>6, <1>7, <1>8, <1>9, <1>10, <1>11, <1>12
          DEF Polls, Observe

LEMMA StaysInTime == ASSUME TypeOK, Stored, Time \/ Restart PROVE SongsLeftAreFinished
  <1>1. ASSUME NEW i \in DOMAIN rows
        PROVE  /\ rows'[i].at = rows[i].at
               /\ rows'[i].status = rows[i].status \/ rows'[i].status = "unknown"
    <2>1. rows \in Seq(Session) /\ rows[i] \in Session
      BY DEF TypeOK
    <2>2. CASE GraceEnds
      BY <2>2 DEF GraceEnds
    <2>3. CASE PauseLasts
      <3>1. rows' = [rows EXCEPT ![live.id].since = "due"]
        BY <2>3 DEF PauseLasts
      <3>2. rows'[i] = IF i = live.id THEN [rows[i] EXCEPT !.since = "due"] ELSE rows[i]
        BY <2>1, <3>1
      <3> QED BY <2>1, <3>2 DEF Session
    <2>4. CASE Restart
      <3>1. rows'[i] = Unclaimed(i)
        BY <2>4 DEF Restart
      <3> QED BY <2>1, <3>1 DEF Unclaimed, Doubt, Stopped, Session
    <2> QED BY <2>2, <2>3, <2>4 DEF Time
  <1> QED BY <1>1 DEF SongsLeftAreFinished

LEMMA StaysStep ==
  ASSUME TypeOK, Stored, Recorded, [Next]_vars PROVE [SongsLeftAreFinished]_vars
  <1>1. CASE UNCHANGED vars
    BY <1>1
  <1>2. CASE Phone
    BY <1>2, StaysByRest DEF Phone
  <1> QED BY <1>1, <1>2, StaysPerson, StaysAwaited, StaysPolls, StaysInTime DEF Next

(* The queue does not go on by itself before the end of the song is on record. *)
THEOREM FinishIsRecordedHolds == Spec => FinishIsRecorded
  <1>1. Init => Recorded
    BY ConstantsTyped DEF Init, Recorded
  <1>2. TypeOK /\ Stored /\ Recorded /\ [Next]_vars => [SongsLeftAreFinished]_vars
    BY StaysStep
  <1> QED BY <1>1, <1>2, InitTyped, NextTypedStep, StoredInit, StoredStep, RecordedStep, PTL
          DEF Spec, FinishIsRecorded

-----------------------------------------------------------------------------
(* A song is heard once *)

(* What was heard last of the song that sounds was heard in the newest session. *)
Numbered ==
  \A k \in DOMAIN heard :
    /\ heard[k].play <= drawn
    /\ heard[k].play = sounding => heard[k].id = Len(rows)

(* An episode the service has not heard of was not recorded. *)
Unheard ==
  Alive /\ memory.episode \notin memory.sung => \A k \in DOMAIN heard : heard[k].play # sounding

OnceSoFar == HeardOnce /\ Numbered /\ Unheard

LEMMA OnceByRest ==
  ASSUME TypeOK, OnceSoFar, UNCHANGED <<heard, episodes>>, Len(rows') = Len(rows),
         Alive' => /\ Alive
                   /\ memory'.episode = memory.episode /\ memory'.sung = memory.sung
  PROVE  OnceSoFar'
  BY DEF OnceSoFar, HeardOnce, Numbered, Unheard, episodes

LEMMA AppendTyped ==
  ASSUME TypeOK, NEW e \in HeardRow
  PROVE  /\ DOMAIN heard = 1 .. Len(heard) /\ Len(heard) \in Nat
         /\ \A k \in DOMAIN heard : heard[k] \in HeardRow
         /\ DOMAIN Append(heard, e) = DOMAIN heard \cup {Len(heard) + 1}
         /\ Append(heard, e)[Len(heard) + 1] = e
         /\ \A k \in DOMAIN heard : Append(heard, e)[k] = heard[k] /\ k # Len(heard) + 1
  <1>1. heard \in Seq(HeardRow)
    BY FinishedTyped
  <1>2. /\ DOMAIN heard = 1 .. Len(heard) /\ Len(heard) \in Nat
        /\ \A k \in DOMAIN heard : heard[k] \in HeardRow
    BY <1>1
  <1>3. Append(heard, e) \in Seq(HeardRow) /\ Len(Append(heard, e)) = Len(heard) + 1
    BY <1>1
  <1>4. DOMAIN Append(heard, e) = 1 .. Len(heard) + 1
    BY <1>3
  <1> QED BY <1>1, <1>2, <1>4

(* A song that is put on gets an episode of its own, and may be heard at once. *)
LEMMA OnceByPutOn ==
  ASSUME TypeOK, OnceSoFar, NEW m \in Memories, NEW s, NEW r, NEW id \in Nat, Draws,
         Len(rows') = id, memory' = Sung(m, s, r),
         heard' = heard \/ heard' = Heard(m, id, s, r, Drawn)
  PROVE  OnceSoFar'
  <1>1. drawn \in Nat /\ Drawn \in Nat /\ Drawn > drawn /\ drawn' = Drawn /\ sounding' = Drawn
    BY DEF TypeOK, Drawn, Draws
  <1>2. \A k \in DOMAIN heard : heard[k].play <= Drawn /\ heard[k].play # Drawn
    <2> SUFFICES ASSUME NEW k \in DOMAIN heard
                 PROVE  heard[k].play <= Drawn /\ heard[k].play # Drawn
      OBVIOUS
    <2>1. heard \in Seq(HeardRow)
      BY FinishedTyped
    <2>2. heard[k] \in HeardRow
      BY <2>1
    <2>3. heard[k].play \in Nat
      BY <2>2 DEF HeardRow
    <2>4. heard[k].play <= drawn
      BY DEF OnceSoFar, Numbered
    <2> QED BY <1>1, <2>3, <2>4
  <1>3. CASE heard' = heard
    BY <1>1, <1>2, <1>3 DEF OnceSoFar, HeardOnce, Numbered, Unheard
  <1>4. CASE heard' # heard
    <2> DEFINE e == [id |-> id, episode |-> m.episode, play |-> Drawn]
    <2>1. Hears(m, s, r) /\ heard' = Append(heard, e)
      BY <1>4 DEF Heard
    <2>2. memory'.episode \in memory'.sung
      BY <2>1 DEF Sung, Memories
    <2>3. e \in HeardRow /\ e.play = Drawn /\ e.id = id
      BY <1>1 DEF HeardRow, Memories
    <2> HIDE DEF e
    <2>4. HeardOnce'
      <3> SUFFICES ASSUME NEW i \in DOMAIN heard', NEW j \in DOMAIN heard',
                          heard'[i].play = heard'[j].play
                   PROVE  i = j
        BY DEF HeardOnce
      <3>1. CASE i \in DOMAIN heard /\ j \in DOMAIN heard
        BY <2>1, <2>3, <3>1, AppendTyped DEF OnceSoFar, HeardOnce
      <3>2. CASE ~(i \in DOMAIN heard /\ j \in DOMAIN heard)
        BY <1>2, <2>1, <2>3, <3>2, AppendTyped
      <3> QED BY <3>1, <3>2
    <2>5. Numbered'
      <3> SUFFICES ASSUME NEW k \in DOMAIN heard'
                   PROVE  /\ heard'[k].play <= drawn'
                          /\ heard'[k].play = sounding' => heard'[k].id = Len(rows')
        BY DEF Numbered
      <3>1. CASE k \in DOMAIN heard
        BY <1>1, <1>2, <2>1, <2>3, <3>1, AppendTyped
      <3>2. CASE k \notin DOMAIN heard
        BY <1>1, <2>1, <2>3, <3>2, AppendTyped
      <3> QED BY <3>1, <3>2
    <2> QED BY <2>2, <2>4, <2>5 DEF OnceSoFar, Unheard
  <1> QED BY <1>3, <1>4

(* Of a song that sounds what is heard is recorded unless it was before. *)
LEMMA OnceByHearing ==
  ASSUME TypeOK, OnceSoFar, Alive, live.id = Len(rows), UNCHANGED episodes,
         Len(rows') = Len(rows), live'.id = live.id, NEW m \in Memories, NEW s, NEW r,
         m.episode = memory.episode, m.sung = memory.sung, memory' = Sung(m, s, r),
         heard' = Heard(m, live.id, s, r, sounding)
  PROVE  OnceSoFar'
  <1>1. drawn' = drawn /\ sounding' = sounding /\ sounding \in Nat /\ drawn \in Nat
        /\ sounding <= drawn
    BY DEF episodes, TypeOK
  <1>2. CASE ~Hears(m, s, r)
    <2>1. heard' = heard /\ memory' = m
      BY <1>2 DEF Heard, Sung
    <2> QED BY <2>1, OnceByRest
  <1>3. CASE Hears(m, s, r)
    <2> DEFINE e == [id |-> live.id, episode |-> m.episode, play |-> sounding]
    <2>1. heard' = Append(heard, e)
      BY <1>3 DEF Heard
    <2>2. memory'.episode \in memory'.sung
      BY <1>3 DEF Sung, Memories
    <2>3. e \in HeardRow /\ e.play = sounding /\ e.id = live.id
      BY <1>1, DeadOrAlive DEF HeardRow, Memories
    <2>4. \A k \in DOMAIN heard : heard[k].play # sounding
      BY <1>3 DEF OnceSoFar, Unheard, Hears
    <2> HIDE DEF e
    <2>5. HeardOnce'
      <3> SUFFICES ASSUME NEW i \in DOMAIN heard', NEW j \in DOMAIN heard',
                          heard'[i].play = heard'[j].play
                   PROVE  i = j
        BY DEF HeardOnce
      <3>1. CASE i \in DOMAIN heard /\ j \in DOMAIN heard
        BY <2>1, <2>3, <3>1, AppendTyped DEF OnceSoFar, HeardOnce
      <3>2. CASE ~(i \in DOMAIN heard /\ j \in DOMAIN heard)
        BY <2>1, <2>3, <2>4, <3>2, AppendTyped
      <3> QED BY <3>1, <3>2
    <2>6. Numbered'
      <3> SUFFICES ASSUME NEW k \in DOMAIN heard'
                   PROVE  /\ heard'[k].play <= drawn'
                          /\ heard'[k].play = sounding' => heard'[k].id = Len(rows')
        BY DEF Numbered
      <3>1. CASE k \in DOMAIN heard
        <4>1. heard'[k] = heard[k]
          BY <2>1, <2>3, <3>1, AppendTyped
        <4>2. heard[k].play <= drawn /\ (heard[k].play = sounding => heard[k].id = Len(rows))
          BY <3>1 DEF OnceSoFar, Numbered
        <4> QED BY <1>1, <4>1, <4>2
      <3>2. CASE k \notin DOMAIN heard
        BY <1>1, <2>1, <2>3, <3>2, AppendTyped
      <3> QED BY <3>1, <3>2
    <2> QED BY <2>2, <2>5, <2>6 DEF OnceSoFar, Unheard
  <1> QED BY <1>2, <1>3

LEMMA OnceInit == Init => OnceSoFar
  <1> SUFFICES ASSUME Init PROVE OnceSoFar
    OBVIOUS
  <1>1. heard = <<>> /\ live.id = 0
    BY DEF Init, NoLive, Lives
  <1> QED BY <1>1 DEF OnceSoFar, HeardOnce, Numbered, Unheard, Alive

(* The title that may be followed is no part of it. *)
LEMMA EpisodeKept ==
  ASSUME TypeOK
  PROVE  /\ Unfollowed.episode = memory.episode /\ Unfollowed.sung = memory.sung
         /\ \A t :
              /\ [memory EXCEPT !.candidate = t].episode = memory.episode
              /\ [memory EXCEPT !.candidate = t].sung = memory.sung
              /\ [memory EXCEPT !.allow = t].episode = memory.episode
              /\ [memory EXCEPT !.allow = t].sung = memory.sung
  BY DEF TypeOK, Memories, Unfollowed

LEMMA OnceBySave ==
  ASSUME TypeOK, OnceSoFar, NEW s \in Session, Saves(s), UNCHANGED episodes,
         memory'.episode = memory.episode, memory'.sung = memory.sung
  PROVE  OnceSoFar'
  BY OnceByRest, SavesTyped DEF Alive

LEMMA OnceByClose ==
  ASSUME TypeOK, OnceSoFar, NEW f \in SUBSET FinishedRow, Closes(f), UNCHANGED episodes
  PROVE  OnceSoFar'
  <1>1. heard' = heard /\ Len(rows') = Len(rows) /\ live' = NoLive
    BY ClosesTyped
  <1>2. ~Alive'
    BY <1>1 DEF Alive, NoLive, Lives
  <1> QED BY <1>1, <1>2, OnceByRest

LEMMA OncePerson == ASSUME TypeOK, Stored, OnceSoFar, Person PROVE OnceSoFar'
  <1>1. ASSUME NEW mode \in Modes, Start(mode) PROVE OnceSoFar'
    BY <1>1, OnceByRest DEF Start, Alive
  <1>2. ASSUME NEW mode \in Modes, SetsMode(mode) PROVE OnceSoFar'
    <2>1. [S EXCEPT !.mode = mode] \in Session
      BY SessionTyped DEF Session
    <2>2. Saves([S EXCEPT !.mode = mode]) /\ memory' = memory /\ UNCHANGED episodes
      BY <1>2 DEF SetsMode
    <2> QED BY <2>1, <2>2, OnceBySave
  <1>3. CASE Pause
    BY <1>3, OnceByRest DEF Pause, Alive
  <1>4. CASE Resume \/ Skip
    <2>1. memory' = [memory EXCEPT !.allow = TRUE] /\ UNCHANGED <<rows, heard, live, episodes>>
      BY <1>4 DEF Resume, Skip
    <2> QED BY <2>1, EpisodeKept, OnceByRest DEF Alive
  <1>5. CASE End
    <2>1. CASE UNCHANGED <<rows, heard, finished, live, memory>>
      BY <1>5, <2>1, OnceByRest DEF End, Alive
    <2>2. CASE Closes(finished)
      BY <1>5, <2>2, OnceByClose, FinishedTyped DEF End
    <2> QED BY <1>5, <2>1, <2>2 DEF End
  <1>6. ASSUME NEW follow \in BOOLEAN, SetsFollow(follow) PROVE OnceSoFar'
    <2>1. CASE Closes(finished)
      BY <1>6, <2>1, OnceByClose, FinishedTyped DEF SetsFollow
    <2>2. CASE Saves([S EXCEPT !.follow = follow]) /\ UNCHANGED memory
      <3>1. [S EXCEPT !.follow = follow] \in Session /\ UNCHANGED episodes
        BY <1>6, SessionTyped DEF Session, SetsFollow
      <3> QED BY <2>2, <3>1, OnceBySave
    <2> QED BY <1>6, <2>1, <2>2 DEF SetsFollow
  <1> QED BY <1>1, <1>2, <1>3, <1>4, <1>5, <1>6 DEF Person

LEMMA OnceStarted == ASSUME TypeOK, Stored, OnceSoFar, Started PROVE OnceSoFar'
  <1> DEFINE id == Len(rows) + 1
             s == [song |-> Queue[1], at |-> 1, manual |-> FALSE, mode |-> holder.mode,
                   follow |-> Alive /\ S.follow, status |-> StatusOf(Queue[1]), since |-> "no"]
             r == PlayReply(Queue[1])
             m == [memory EXCEPT !.allow = TRUE, !.episode = Drawn, !.candidate = NoTitle]
  <1>1. memory \in Memories /\ Drawn \in Nat
    BY DEF TypeOK, Drawn
  <1>2. m \in Memories
    BY <1>1 DEF Memories
  <1>3. rows' = Saved(id, s) /\ memory' = Sung(m, s, r) /\ Draws
        /\ (heard' = heard \/ heard' = Heard(m, id, s, r, Drawn))
    BY DEF Started
  <1>4. id \in Nat /\ id > Len(rows)
    BY DeadOrAlive
  <1>5. Len(rows') = id
    <2> HIDE DEF id, s
    <2>1. rows' = [i \in 1 .. id |-> IF i = id THEN s ELSE Over]
      BY <1>3, <1>4 DEF Saved
    <2> QED BY <1>4, <2>1
  <1> HIDE DEF id, s, r, m
  <1> QED BY <1>2, <1>3, <1>4, <1>5, OnceByPutOn

(* The song goes on, or another is put on, in the same session. *)
LEMMA OnceInSession ==
  ASSUME TypeOK, Stored, OnceSoFar, Alive, holder.op # "dead", NEW m \in Memories,
         NEW s \in Session, NEW r, Draws, memory' = Sung(m, s, r),
         Commits(Heard(m, live.id, s, r, Drawn), finished, s)
  PROVE  OnceSoFar'
  <1>1. Drawn \in Nat /\ live.id \in Nat /\ live.id = Len(rows)
    BY LiveIsNewest, DeadOrAlive DEF TypeOK, Drawn
  <1>2. Heard(m, live.id, s, r, Drawn) \in Seq(HeardRow)
    BY <1>1, HeardTyped
  <1>3. Len(rows') = live.id /\ heard' = Heard(m, live.id, s, r, Drawn)
    BY <1>1, <1>2, CommitsTyped, FinishedTyped
  <1> QED BY <1>1, <1>3, OnceByPutOn

LEMMA OnceAwaited == ASSUME TypeOK, Stored, Recorded, OnceSoFar, Awaited PROVE OnceSoFar'
  <1>1. CASE Paused
    <2>1. [S EXCEPT !.status = "paused", !.since = "set"] \in Session
      BY SessionTyped DEF Session, Statuses, Claims
    <2>2. Saves([S EXCEPT !.status = "paused", !.since = "set"]) /\ memory' = memory
          /\ UNCHANGED episodes
      BY <1>1 DEF Paused
    <2> QED BY <2>1, <2>2, OnceBySave
  <1>2. CASE Resumed
    <2>1. Saves(Stopped(S, "playing")) /\ memory' = memory /\ UNCHANGED episodes
      BY <1>2 DEF Resumed
    <2> QED BY <2>1, PlaceKept, OnceBySave
  <1>3. CASE Ended
    BY <1>3, OnceByClose, FinishedTyped DEF Ended
  <1>4. CASE CommandFails
    <2>1. CASE Saves(Doubt(S))
      <3>1. memory' = memory /\ UNCHANGED episodes
        BY <1>4 DEF CommandFails
      <3> QED BY <2>1, <3>1, PlaceKept, OnceBySave
    <2>2. CASE holder' = Free /\ UNCHANGED <<rows, heard, finished, live>>
      BY <1>4, <2>2, OnceByRest DEF CommandFails, Alive
    <2> QED BY <1>4, <2>1, <2>2 DEF CommandFails
  <1>5. CASE Advanced
    <2> DEFINE to == holder.to
               s == [Stopped(S, StatusOf(Queue[to])) EXCEPT !.song = Queue[to], !.at = to]
               r == PlayReply(Queue[to])
               m == [memory EXCEPT !.episode = Drawn]
    <2>1. /\ Commits(Heard(m, live.id, s, r, Drawn), finished, s) /\ memory' = Sung(m, s, r)
          /\ Draws /\ holder.op # "dead"
      BY <1>5 DEF Advanced
    <2>2. to \in DOMAIN Queue /\ Queue[to] \in Titles
      BY <1>5, QueueTyped DEF TypeOK, Advanced, Commands
    <2>3. s \in Session
      <3>1. StatusOf(Queue[to]) \in Statuses
        BY DEF StatusOf, Statuses, Claims
      <3>2. Stopped(S, StatusOf(Queue[to])) \in Session
        BY <3>1, SessionTyped
      <3> QED BY <2>2, <3>2 DEF Session
    <2>4. m \in Memories
      <3>1. Drawn \in Nat /\ memory \in Memories
        BY DEF TypeOK, Drawn
      <3> QED BY <3>1 DEF Memories
    <2> HIDE DEF s, r, m
    <2>5. Alive
      BY <1>5 DEF Advanced, Recorded
    <2> QED BY <2>1, <2>3, <2>4, <2>5, OnceInSession
  <1> QED BY <1>1, <1>2, <1>3, <1>4, <1>5, OnceStarted DEF Awaited

LEMMA OnceLooks ==
  ASSUME TypeOK, OnceSoFar, NEW m, NEW s \in Session, Looks(m, s),
         m.episode = memory.episode, m.sung = memory.sung
  PROVE  OnceSoFar'
  BY OnceBySave DEF Looks, episodes

LEMMA OncePolls == ASSUME TypeOK, Stored, OnceSoFar, Polls PROVE OnceSoFar'
  <1>1. CASE PollReads \/ ObserveNothing
    BY <1>1, OnceByRest DEF PollReads, ObserveNothing, Alive
  <1>2. CASE BoundaryTaken
    <2>1. UNCHANGED episodes /\ memory'.episode = memory.episode /\ memory'.sung = memory.sung
      BY <1>2 DEF BoundaryTaken, TypeOK, Memories
    <2>2. ASSUME NEW s \in Session, Commits(heard, Finished, s), live' = LiveSays(s)
          PROVE  OnceSoFar'
      <3>1. heard' = heard /\ Len(rows') = Len(rows) /\ live'.id = live.id
        BY <2>2, CommitsTyped, FinishedTyped DEF LiveSays
      <3> QED BY <2>1, <3>1, OnceByRest DEF Alive
    <2>3. [S EXCEPT !.status = "waiting", !.since = "set"] \in Session /\ Doubt(S) \in Session
      BY SessionTyped DEF Session, Statuses, Claims
    <2>4. CASE Closes(Finished)
      BY <2>1, <2>4, OnceByClose, FinishedTyped
    <2>5. CASE UNCHANGED <<rows, heard, live>>
      BY <2>1, <2>5, OnceByRest DEF Alive
    <2> QED BY <1>2, <2>2, <2>3, <2>4, <2>5 DEF BoundaryTaken
  <1>3. CASE BoundaryUnasked
    BY <1>3, OnceLooks, PlaceKept, EpisodeKept DEF BoundaryUnasked
  <1>4. CASE ObserveUnavailable
    BY <1>4, OnceLooks, PlaceKept, EpisodeKept DEF ObserveUnavailable
  <1>5. CASE ObserveBeforeSong
    BY <1>5, OnceLooks, PlaceKept, EpisodeKept DEF ObserveBeforeSong
  <1>6. CASE ObserveCandidate
    BY <1>6, OnceLooks, PlaceKept, EpisodeKept DEF ObserveCandidate
  <1>7. CASE ObserveAnotherStopped
    BY <1>7, OnceLooks, PlaceKept, EpisodeKept DEF ObserveAnotherStopped
  <1>8. CASE ObserveUnasked
    BY <1>8, OnceLooks, PlaceKept, EpisodeKept DEF ObserveUnasked
  <1>9. CASE ObserveTakeover
    BY <1>9, OnceByClose, FinishedTyped DEF ObserveTakeover, episodes
  <1>10. CASE Expire
    <2>1. CASE Closes(finished)
      BY <1>10, <2>1, OnceByClose, FinishedTyped DEF Expire
    <2>2. CASE UNCHANGED <<rows, heard, finished, live, holder>>
      BY <1>10, <2>2, OnceByRest DEF Expire, Alive
    <2> QED BY <1>10, <2>1, <2>2 DEF Expire
  <1>11. CASE ObserveFollowed
    <2> DEFINE s == [Stopped(S, "playing") EXCEPT !.song = R.title, !.at = 1, !.manual = TRUE,
                                                 !.mode = "single"]
               m == [Unfollowed EXCEPT !.episode = Drawn]
    <2>1. Alive /\ holder.op # "dead" /\ R.title \in Titles
      BY <1>11, FreeIsAlive, MemoryTyped DEF ObserveFollowed, Seeing, HandedIn, Ours
    <2>2. s \in Session
      BY <2>1, QueueTyped, SessionTyped DEF Session, Stopped, Statuses, Claims
    <2>3. m \in Memories
      <3>1. Drawn \in Nat
        BY DEF TypeOK, Drawn
      <3> QED BY <3>1, MemoryTyped DEF Memories
    <2>4. /\ Commits(Heard(m, live.id, s, R, Drawn), finished, s)
          /\ memory' = Sung(m, s, R) /\ Draws
      BY <1>11 DEF ObserveFollowed
    <2> HIDE DEF s, m
    <2> QED BY <2>1, <2>2, <2>3, <2>4, OnceInSession
  <1>12. CASE ObserveSong
    <2> DEFINE s == IF R.playing THEN Stopped(S, "playing")
                    ELSE [S EXCEPT !.status = "paused", !.since = IF @ = "no" THEN "set" ELSE @]
    <2>1. /\ Alive /\ holder.op # "dead" /\ live.id \in Nat /\ live.id = Len(rows)
          /\ sounding \in Nat
      BY <1>12, FreeIsAlive, LiveIsNewest, DeadOrAlive
      DEF ObserveSong, Seeing, HandedIn, Ours, TypeOK
    <2>2. s \in Session
      BY SeenIsSession
    <2>3. /\ Commits(Heard(Unfollowed, live.id, S, R, sounding), finished, s)
          /\ live' = LiveSays(s) /\ memory' = Sung(Unfollowed, S, R) /\ UNCHANGED episodes
      BY <1>12 DEF ObserveSong
    <2>4. Heard(Unfollowed, live.id, S, R, sounding) \in Seq(HeardRow)
      BY <2>1, MemoryTyped, HeardTyped
    <2>5. live'.id = live.id
      BY <2>3 DEF LiveSays
    <2> HIDE DEF s
    <2>6. Len(rows') = Len(rows) /\ heard' = Heard(Unfollowed, live.id, S, R, sounding)
      BY <2>2, <2>3, <2>4, CommitsTyped, FinishedTyped
    <2> QED BY <2>1, <2>3, <2>5, <2>6, MemoryTyped, EpisodeKept, OnceByHearing
  <1> QED BY <1>1, <1>2, <1>3, <1>4, <1>5, <1>6, <1>7, <1>8, <1>9, <1>10, <1>11, <1>12
          DEF Polls, Observe

LEMMA OnceInTime == ASSUME TypeOK, Stored, OnceSoFar, Time PROVE OnceSoFar'
  <1>1. CASE GraceEnds
    <2>1. live'.id = live.id
      BY <1>1 DEF GraceEnds, TypeOK
    <2> QED BY <1>1, <2>1, OnceByRest DEF GraceEnds, Alive
  <1>2. CASE PauseLasts
    <2>1. live' = [live EXCEPT !.s.since = "due"]
          /\ rows' = [rows EXCEPT ![live.id].since = "due"]
      BY <1>2 DEF PauseLasts
    <2>2. live'.id = live.id
      BY <2>1 DEF TypeOK
    <2>3. Len(rows') = Len(rows)
      BY <2>1, DeadOrAlive
    <2> QED BY <1>2, <2>2, <2>3, OnceByRest DEF PauseLasts, Alive
  <1> QED BY <1>1, <1>2 DEF Time

(* A service that takes up a session has heard of it, or no song of it was heard. *)
LEMMA OnceRestart == ASSUME TypeOK, Stored, OnceSoFar, Restart PROVE OnceSoFar'
  <1>1. rows' = [i \in DOMAIN rows |-> Unclaimed(i)] /\ heard' = heard /\ sounding' = sounding
    BY DEF Restart
  <1>2. Len(rows') = Len(rows)
    BY <1>1, DeadOrAlive
  <1>3. drawn \in Nat /\ sounding \in Nat /\ heard \in Seq(HeardRow)
    BY FinishedTyped DEF TypeOK
  <1>4. drawn' = drawn \/ drawn' = drawn + 1
    BY DEF Restart, Reloads, Drawn
  <1>5. Numbered'
    <2> SUFFICES ASSUME NEW k \in DOMAIN heard
                 PROVE  /\ heard[k].play <= drawn'
                        /\ heard[k].play = sounding => heard[k].id = Len(rows)
      BY <1>1, <1>2 DEF Numbered
    <2>1. heard[k] \in HeardRow
      BY <1>3
    <2>2. heard[k].play \in Nat
      BY <2>1 DEF HeardRow
    <2>3. heard[k].play <= drawn /\ (heard[k].play = sounding => heard[k].id = Len(rows))
      BY DEF OnceSoFar, Numbered
    <2> QED BY <1>3, <1>4, <2>2, <2>3
  <1>6. Unheard'
    <2>1. CASE live' = NoLive
      BY <2>1 DEF Unheard, Alive, NoLive, Lives
    <2>2. ASSUME NEW id \in {i \in DOMAIN rows : rows[i] # Over},
                 Reloads({k \in DOMAIN heard : heard[k].id = id})
          PROVE  Unheard'
      <3>1. id = Len(rows)
        BY DEF Stored, OneOpen
      <3>2. CASE {k \in DOMAIN heard : heard[k].id = id} = {}
        <4>1. \A k \in DOMAIN heard : heard[k].play # sounding
          BY <3>1, <3>2 DEF OnceSoFar, Numbered
        <4> QED BY <1>1, <4>1 DEF Unheard
      <3>3. CASE {k \in DOMAIN heard : heard[k].id = id} # {}
        <4>1. memory'.episode \in memory'.sung
          BY <2>2, <3>3 DEF Reloads, Remembers
        <4> QED BY <4>1 DEF Unheard
      <3> QED BY <3>2, <3>3
    <2> QED BY <2>1, <2>2 DEF Restart
  <1> QED BY <1>1, <1>5, <1>6 DEF OnceSoFar, HeardOnce

LEMMA OnceStep == ASSUME TypeOK, Stored, Recorded, OnceSoFar, [Next]_vars PROVE OnceSoFar'
  <1>1. CASE UNCHANGED vars
    BY <1>1, OnceByRest DEF vars, Alive
  <1>2. CASE Phone
    BY <1>2, OnceByRest DEF Phone, Alive
  <1> QED BY <1>1, <1>2, OncePerson, OnceAwaited, OncePolls, OnceInTime, OnceRestart DEF Next

(* A song that was put on or followed is recorded as heard at most once. *)
THEOREM HeardOnceHolds == Spec => []HeardOnce
  <1>1. Init => Recorded
    BY ConstantsTyped DEF Init, Recorded
  <1>2. OnceSoFar => HeardOnce
    BY DEF OnceSoFar
  <1> QED BY <1>1, <1>2, InitTyped, NextTypedStep, StoredInit, StoredStep, RecordedStep, OnceInit,
             OnceStep, PTL DEF Spec

=============================================================================
