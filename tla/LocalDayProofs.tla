---------------------------- MODULE LocalDayProofs ----------------------------
(***************************************************************************)
(* The conversation and its days, for any number of dates, requests,         *)
(* activities and sentinel messages, with and without torn writes: what the  *)
(* foreground, the wander and the sentinel may never do to them.             *)
(***************************************************************************)
EXTENDS LocalDay, TLAPS

-----------------------------------------------------------------------------
(* The inductive invariant *)

DayStates == {"none", "open", "closed"}

(* Only days that have begun are there, and only the last of them may be open. *)
Follow(f) ==
  /\ \A d \in Days : f[d] # "none" => d <= today
  /\ \A c, d \in Days : c < d /\ f[d] # "none" => f[c] # "open"
DaysFit == Follow(days)

(* Messages are of days that were opened, in their order. *)
MessagesFit ==
  /\ \A i \in 1..Len(messages) : days[messages[i].day] # "none"
  /\ \A i, j \in 1..Len(messages) : i < j => messages[i].day <= messages[j].day

(* Requests begin in their order, each with its message; the newest exists. *)
UsersFit ==
  /\ \A i \in UserMessages :
       messages[i].of \in Requests /\ request[messages[i].of] # "none"
  /\ \A i, j \in UserMessages : i < j => messages[i].of < messages[j].of
  /\ UserMessages # {} => \E i \in UserMessages : \A j \in UserMessages : j <= i
  /\ \A q, r \in Requests : q < r /\ request[r] # "none" => request[q] # "none"
  /\ \A r \in Requests : request[r] = "running" => holder = Replying(r)

RepliesFit ==
  \A i \in 1..Len(messages) : messages[i].kind = "reply" =>
    /\ i > 1
    /\ messages[i - 1] = Message("user", messages[i].of, messages[i].day)
    /\ messages[i].of \in Requests
    /\ request[messages[i].of] = "complete"

(* What the holder of the lock carries across its await holds still. *)
Waits(r) ==
  /\ r \in Requests /\ request[r] = "none"
  /\ \A q \in Requests : q < r => request[q] # "none"
HolderFits ==
  /\ holder.at = "none" => holder = Free
  /\ holder.at = "closing" =>
       /\ holder.day \in Days /\ days[holder.day] = "open"
       /\ holder.who \in {"chat", "tick"}
       /\ holder.who = "chat" => Waits(holder.r)
  /\ holder.at = "stopping" =>
       /\ holder = Stopping(holder.who, holder.r)
       /\ holder.who = "chat" => Waits(holder.r) /\ ~NoneActive
  /\ holder.at = "model" =>
       /\ holder = Replying(holder.r)
       /\ holder.r \in Requests /\ request[holder.r] = "running"
       /\ ~NoneActive
       /\ Len(messages) > 0
       /\ messages[Len(messages)] = Message("user", holder.r, ActiveDay)

(* The wander runs only while a day is open. *)
WanderFits ==
  /\ wander.at # "off" => ~NoneActive
  /\ wander.at \in {"act", "settled"} =>
       wander.a \in Acts /\ acts[wander.a].state # "none"

(* An open activity is of the open day, and one of a closed day is captured. *)
ActsFit ==
  \A a \in Acts : acts[a].state # "none" =>
    /\ acts[a].day \in Days /\ acts[a].day <= acts[a].born
    /\ days[acts[a].day] # "none"
    /\ acts[a].state = "open" => days[acts[a].day] = "open"
    /\ days[acts[a].day] = "closed" => captured[a] = acts[a].day

Rows == DaysFit /\ MessagesFit /\ UsersFit /\ RepliesFit /\ SentinelFresh
LocalInv == TypeOK /\ Rows /\ HolderFits /\ WanderFits /\ ActsFit

(* What a step may do to a closed day: nothing. *)
Frozen ==
  \A d \in Days : days[d] = "closed" =>
    /\ days'[d] = "closed"
    /\ RowsOf(d)' = RowsOf(d)
    /\ \A a \in Acts : captured[a] = d <=> captured'[a] = d

-----------------------------------------------------------------------------
(* Days *)

(* The open day is the last there is. *)
LEMMA ActiveIsLast ==
  ASSUME TypeOK, DaysFit, ~NoneActive
  PROVE  /\ ActiveDay \in Days /\ days[ActiveDay] = "open" /\ ActiveDay <= today
         /\ \A d \in Days : days[d] = "open" => d = ActiveDay
         /\ \A d \in Days : days[d] # "none" => d <= ActiveDay
<1>1. PICK d \in Days : days[d] = "open" BY DEF NoneActive
<1>2. IsActive(d) BY <1>1 DEF IsActive, DaysFit, Follow, Days, TypeOK
<1>3. ActiveDay \in Days /\ IsActive(ActiveDay) BY <1>2 DEF ActiveDay
<1> HIDE DEF ActiveDay
<1>4. days[ActiveDay] = "open" BY <1>3 DEF IsActive
<1>5. ASSUME NEW c \in Days, days[c] # "none", c > ActiveDay PROVE FALSE
  BY <1>3, <1>4, <1>5 DEF DaysFit, Follow, Days
<1> QED BY <1>3, <1>4, <1>5 DEF DaysFit, Follow, Days, TypeOK

LEMMA NoDay == ASSUME NoneActive PROVE ActiveDay = 0
  BY DEF ActiveDay

(* Opening today leaves the days in their order, and one of them open. *)
LEMMA OpenedFollows ==
  ASSUME TypeOK, NEW f \in [Days -> DayStates], Follow(f), ~OpenRaises(f)
  PROVE  /\ Opened(f) \in [Days -> DayStates]
         /\ Follow(Opened(f))
         /\ \E d \in Days : Opened(f)[d] = "open"
         /\ \A d \in Days : f[d] # "none" => Opened(f)[d] = f[d]
         /\ \A d \in Days : Opened(f)[d] = "closed" => f[d] = "closed"
<1>1. today \in Days BY DEF TypeOK
<1>2. CASE \E d \in Days : f[d] = "open"
  BY <1>2 DEF Opened
<1>3. CASE \A d \in Days : f[d] # "open"
  <2>1. Opened(f) = [f EXCEPT ![today] = "open"] BY <1>3 DEF Opened
  <2>2. f[today] = "none" BY <1>1, <1>3 DEF OpenRaises, DayStates
  <2> QED BY <1>1, <1>3, <2>1, <2>2 DEF Follow, Days, DayStates
<1> QED BY <1>2, <1>3

LEMMA ClosedFollows ==
  ASSUME TypeOK, DaysFit, NEW e \in Days, days[e] = "open",
         NEW f, f = [days EXCEPT ![e] = "closed"]
  PROVE  /\ f \in [Days -> DayStates] /\ Follow(f)
         /\ \A d \in Days : f[d] # "open"
         /\ \A d \in Days : days[d] # "none" => f[d] # "none"
         /\ \A d \in Days : d # e => f[d] = days[d]
         /\ f[e] = "closed"
<1>1. ~NoneActive BY DEF NoneActive
<1>2. \A d \in Days : days[d] = "open" => d = e BY <1>1, ActiveIsLast
<1> QED BY <1>2 DEF TypeOK, DaysFit, Follow, DayStates, Days

-----------------------------------------------------------------------------
(* Messages *)

LEMMA MessageTyped ==
  ASSUME TypeOK
  PROVE  /\ Len(messages) \in Nat
         /\ \A i \in 1..Len(messages) : /\ messages[i] \in MessageRows
                                       /\ messages[i].day \in Days
<1>1. messages \in Seq(MessageRows) BY DEF TypeOK
<1>2. Len(messages) \in Nat /\ \A i \in 1..Len(messages) : messages[i] \in MessageRows
  BY <1>1
<1> QED BY <1>2 DEF MessageRows

(* What an appended message leaves of what was there. *)
LEMMA Appending ==
  ASSUME TypeOK, NEW m \in MessageRows, messages' = Append(messages, m)
  PROVE  /\ messages' \in Seq(MessageRows)
         /\ Len(messages) \in Nat /\ Len(messages') = Len(messages) + 1
         /\ messages'[Len(messages) + 1] = m
         /\ \A i \in 1..Len(messages) : messages'[i] = messages[i]
         /\ \A d : m.day # d => RowsOf(d)' = RowsOf(d)
<1>1. messages \in Seq(MessageRows) BY DEF TypeOK
<1>2. /\ messages' \in Seq(MessageRows)
      /\ Len(messages) \in Nat /\ Len(messages') = Len(messages) + 1
      /\ messages'[Len(messages) + 1] = m
      /\ \A i \in 1..Len(messages) : messages'[i] = messages[i]
  BY <1>1
<1>3. ASSUME NEW d, m.day # d PROVE RowsOf(d)' = RowsOf(d)
  <2>1. {j \in 1..Len(messages') : messages'[j].day = d}
        = {j \in 1..Len(messages) : messages[j].day = d}
    <3>1. 1..Len(messages') = (1..Len(messages)) \cup {Len(messages) + 1} BY <1>2
    <3> QED BY <1>2, <1>3, <3>1
  <2> QED BY <1>2, <2>1 DEF RowsOf
<1> QED BY <1>2, <1>3

(* The days of a step: none is lost, none opened again, and they still follow. *)
DaysGoOn ==
  /\ today' \in Days /\ today <= today'
  /\ days' \in [Days -> DayStates] /\ Follow(days')
  /\ \A d \in Days : days[d] # "none" => days'[d] # "none"
  /\ \A d \in Days : days[d] = "closed" => days'[d] = "closed"

LEMMA SameDays ==
  ASSUME TypeOK, DaysFit, today' = today, days' = days
  PROVE  DaysGoOn /\ ActiveDay' = ActiveDay /\ NoneActive' = NoneActive
<1>1. DaysGoOn BY DEF DaysGoOn, TypeOK, DaysFit, DayStates, Days
<1>2. NoneActive' = NoneActive BY DEF NoneActive
<1>3. ActiveDay' = ActiveDay BY DEF ActiveDay, NoneActive, IsActive
<1> QED BY <1>1, <1>2, <1>3

(* A step that adds no message keeps what the rows promise. *)
LEMMA RowsKept ==
  ASSUME TypeOK, Rows, DaysGoOn, UNCHANGED <<messages, request>>,
         \A r \in Requests : request[r] = "running" => holder' = Replying(r)
  PROVE  Rows'
<1>1. DaysFit' BY DEF DaysGoOn, DaysFit, Follow, TypeOK, Days
<1>2. MessagesFit'
  BY MessageTyped DEF Rows, MessagesFit, DaysGoOn
<1>3. UsersFit' BY DEF Rows, UsersFit, UserMessages, Replying
<1>4. RepliesFit' BY DEF Rows, RepliesFit
<1>5. SentinelFresh' BY DEF Rows, SentinelFresh, SentinelMessages, UserMessages
<1> QED BY <1>1, <1>2, <1>3, <1>4, <1>5 DEF Rows

(* And a closed day is as it was. *)
LEMMA FrozenKept ==
  ASSUME DaysGoOn, messages' = messages, captured' = captured
  PROVE  Frozen
BY DEF DaysGoOn, Frozen, RowsOf

LEMMA NoneRunning ==
  ASSUME Rows, holder.at # "model"
  PROVE  \A r \in Requests : request[r] # "running"
BY DEF Rows, UsersFit, Replying

(* A message of the open day comes last. *)
LEMMA MessagesGrow ==
  ASSUME TypeOK, DaysFit, MessagesFit, ~NoneActive, days' = days,
         NEW m \in MessageRows, messages' = Append(messages, m), m.day = ActiveDay
  PROVE  MessagesFit'
<1>1. \A i \in 1..Len(messages) : messages[i].day \in Days BY MessageTyped
<1>2. ActiveDay \in Days /\ days[ActiveDay] = "open"
      /\ \A d \in Days : days[d] # "none" => d <= ActiveDay
  BY ActiveIsLast
<1> HIDE DEF ActiveDay
<1>3. Len(messages) \in Nat /\ Len(messages') = Len(messages) + 1
      /\ messages'[Len(messages) + 1] = m
      /\ \A i \in 1..Len(messages) : messages'[i] = messages[i]
  BY Appending
<1>4. \A i \in 1..Len(messages') : i \in 1..Len(messages) \/ i = Len(messages) + 1
  BY <1>3
<1>5. \A i \in 1..Len(messages') : days[messages'[i].day] # "none"
  BY <1>2, <1>3, <1>4 DEF MessagesFit
<1>6. ASSUME NEW i \in 1..Len(messages'), NEW j \in 1..Len(messages'), i < j
      PROVE  messages'[i].day <= messages'[j].day
  <2>1. i \in 1..Len(messages) BY <1>3, <1>4, <1>6
  <2>2. CASE j \in 1..Len(messages) BY <1>3, <1>6, <2>1, <2>2 DEF MessagesFit
  <2>3. CASE j = Len(messages) + 1
    BY <1>1, <1>2, <1>3, <2>1, <2>3 DEF MessagesFit
  <2> QED BY <1>4, <2>2, <2>3
<1> QED BY <1>5, <1>6 DEF MessagesFit

-----------------------------------------------------------------------------
(* What the actions have in common *)

(* No day is closed by this step. *)
NoneCloses == \A d \in Days : days'[d] = "closed" => days[d] = "closed"

LEMMA OpenStays ==
  ASSUME TypeOK, DaysGoOn, NoneCloses
  PROVE  /\ \A d \in Days : days[d] = "open" => days'[d] = "open"
         /\ ~NoneActive => ~NoneActive'
<1>1. \A d \in Days : days[d] = "open" => days'[d] = "open"
  BY DEF DaysGoOn, NoneCloses, DayStates
<1> QED BY <1>1 DEF NoneActive

LEMMA ActsKept ==
  ASSUME TypeOK, DaysGoOn, NoneCloses, ActsFit, UNCHANGED <<acts, captured>>
  PROVE  ActsFit'
<1>1. \A d \in Days : days[d] = "open" => days'[d] = "open" BY OpenStays
<1> QED BY <1>1 DEF ActsFit, DaysGoOn, NoneCloses

LEMMA FreeFits == ASSUME holder' = Free PROVE HolderFits'
BY DEF HolderFits, Free

LEMMA HolderKept ==
  ASSUME TypeOK, DaysFit, HolderFits, today' = today,
         UNCHANGED <<days, holder, request, messages>>
  PROVE  HolderFits'
<1>1. ActiveDay' = ActiveDay /\ NoneActive' = NoneActive BY SameDays
<1> QED BY <1>1 DEF HolderFits, Waits

LEMMA StoppedTyped ==
  ASSUME TypeOK
  PROVE  /\ WanderStopped \in Wanders /\ Off \in Wanders
         /\ WanderStopped.at = wander.at /\ WanderStopped.a = wander.a
<1>1. Off \in Wanders BY LocalAssumption DEF Off, Wanders
<1>2. wander \in Wanders BY DEF TypeOK
<1>3. CASE wander.at = "off" BY <1>1, <1>2, <1>3 DEF WanderStopped
<1>4. CASE wander.at # "off"
  <2>1. WanderStopped = [wander EXCEPT !.stopping = TRUE] BY <1>4 DEF WanderStopped
  <2> QED BY <1>1, <1>2, <2>1 DEF Wanders
<1> QED BY <1>3, <1>4

LEMMA WanderMoves ==
  ASSUME TypeOK, NEW a \in 0..MaxActs, NEW at \in {"off", "idle", "act", "settled"}
  PROVE  /\ [wander EXCEPT !.at = at, !.a = a] \in Wanders
         /\ [wander EXCEPT !.at = at, !.a = a].at = at
         /\ [wander EXCEPT !.at = at, !.a = a].a = a
<1>1. wander \in Wanders BY DEF TypeOK
<1> QED BY <1>1 DEF Wanders

(* The wander goes on with what it had, or less. *)
WanderGoesOn ==
  wander'.at # "off" =>
    /\ wander.at # "off"
    /\ wander'.at \in {"act", "settled"} =>
         wander.at \in {"act", "settled"} /\ wander'.a = wander.a

LEMMA WanderKept ==
  ASSUME TypeOK, WanderFits, DaysGoOn, NoneCloses, WanderGoesOn,
         \A a \in Acts : acts[a].state # "none" => acts'[a].state # "none"
  PROVE  WanderFits'
BY OpenStays DEF WanderFits, WanderGoesOn

LEMMA WanderStoppedGoesOn ==
  ASSUME TypeOK, wander' \in {wander, WanderStopped, Off}
  PROVE  wander' \in Wanders /\ WanderGoesOn
<1>1. CASE wander' = wander BY <1>1 DEF TypeOK, WanderGoesOn
<1>2. CASE wander' = WanderStopped BY <1>2, StoppedTyped DEF WanderGoesOn
<1>3. CASE wander' = Off BY <1>3, StoppedTyped DEF WanderGoesOn, Off
<1> QED BY <1>1, <1>2, <1>3

(* A step that leaves the tables of days, messages and evidence alone. *)
SameTables == UNCHANGED <<days, messages, request, acts, captured>>

LEMMA Quietly ==
  ASSUME LocalInv, SameTables, TypeOK', today <= today', HolderFits', WanderGoesOn,
         \A r \in Requests : request[r] = "running" => holder' = Replying(r)
  PROVE  LocalInv' /\ Frozen
<1> USE DEF LocalInv, SameTables
<1>1. DaysGoOn BY DEF DaysGoOn, TypeOK, Rows, DaysFit, DayStates
<1>2. NoneCloses BY DEF NoneCloses
<1>3. Rows' BY <1>1, RowsKept
<1>4. WanderFits' BY <1>1, <1>2, WanderKept
<1>5. ActsFit' BY <1>1, <1>2, ActsKept
<1>6. Frozen BY <1>1, FrozenKept
<1> QED BY <1>3, <1>4, <1>5, <1>6

(* In particular one that does not touch the lock. *)
LEMMA QuietlyBeside ==
  ASSUME LocalInv, SameTables, TypeOK', today' = today, holder' = holder, WanderGoesOn
  PROVE  LocalInv' /\ Frozen
<1>1. HolderFits' BY HolderKept DEF LocalInv, Rows, SameTables
<1>2. \A r \in Requests : request[r] = "running" => holder' = Replying(r)
  BY DEF LocalInv, Rows, UsersFit
<1>3. today <= today' BY DEF LocalInv, TypeOK, Days
<1> QED BY <1>1, <1>2, <1>3, Quietly

(* wander.stop settles the activities; what it captures, it captures for the open
   day, and without a conflict it captures all of that day. *)
LEMMA Settling ==
  ASSUME TypeOK, DaysFit, ActsFit, StopSettles
  PROVE  /\ acts' \in [Acts -> ActRows] /\ captured' \in [Acts -> 0..MaxDay]
         /\ \A a \in Acts :
              /\ acts'[a].state = "none" <=> acts[a].state = "none"
              /\ acts'[a].state # "open"
              /\ acts'[a].day = acts[a].day /\ acts'[a].born = acts[a].born
         /\ \A a \in Acts : captured'[a] # captured[a] =>
              ~NoneActive /\ captured[a] = 0 /\ captured'[a] = ActiveDay
         /\ ~NoneActive /\ ~StopRaises =>
              \A a \in Acts : acts[a].state # "none" /\ acts[a].day = ActiveDay
                              => captured'[a] = ActiveDay
<1>1. acts' \in [Acts -> ActRows]
      /\ \A a \in Acts :
           /\ acts'[a].state = "none" <=> acts[a].state = "none"
           /\ acts'[a].state # "open"
           /\ acts'[a].day = acts[a].day /\ acts'[a].born = acts[a].born
  BY DEF StopSettles, ActsStopped, TypeOK, ActRows
<1>2. CASE NoneActive
  BY <1>1, <1>2 DEF StopSettles, TypeOK
<1>3. CASE ~NoneActive
  <2>1. ActiveDay \in Days BY <1>3, ActiveIsLast
  <2> HIDE DEF ActiveDay
  <2>2. captured' = CapturedBy(ActiveDay) BY <1>3 DEF StopSettles
  <2>3. captured' \in [Acts -> 0..MaxDay]
        /\ \A a \in Acts : captured'[a] # captured[a] =>
             captured[a] = 0 /\ captured'[a] = ActiveDay
    BY <2>1, <2>2 DEF CapturedBy, TypeOK, Days
  <2>4. ASSUME ~StopRaises, NEW a \in Acts, acts[a].state # "none",
               acts[a].day = ActiveDay
        PROVE  captured'[a] = ActiveDay
    <3>1. InRange(a, ActiveDay)
      BY <2>4 DEF InRange, ActsFit
    <3>2. \A c \in Acts : ~Conflict(c, ActiveDay)
      BY <1>3, <2>4 DEF StopRaises, CaptureRaises
    <3>3. captured[a] \in {0, ActiveDay} BY <3>1, <3>2 DEF Conflict
    <3> QED BY <2>2, <3>1, <3>2, <3>3 DEF CapturedBy
  <2> QED BY <1>1, <1>3, <2>3, <2>4
<1> QED BY <1>2, <1>3

EvidenceFrozen ==
  \A d \in Days : days[d] = "closed" =>
    \A a \in Acts : captured[a] = d <=> captured'[a] = d

(* So evidence is complete before a day is closed, and closed days keep theirs. *)
LEMMA Settled ==
  ASSUME TypeOK, DaysFit, ActsFit, StopSettles, DaysGoOn,
         \A d \in Days : days'[d] = "closed" /\ days[d] # "closed" =>
            ~NoneActive /\ d = ActiveDay /\ ~StopRaises
  PROVE  ActsFit' /\ EvidenceFrozen
<1>1. ~NoneActive => ActiveDay \in Days /\ days[ActiveDay] = "open"
  BY ActiveIsLast
<1> HIDE DEF ActiveDay
<1>2. \A a \in Acts :
        /\ acts'[a].state = "none" <=> acts[a].state = "none"
        /\ acts'[a].state # "open"
        /\ acts'[a].day = acts[a].day /\ acts'[a].born = acts[a].born
        /\ captured'[a] # captured[a] =>
             ~NoneActive /\ captured[a] = 0 /\ captured'[a] = ActiveDay
  BY Settling
<1>3. ~NoneActive /\ ~StopRaises =>
        \A a \in Acts : acts[a].state # "none" /\ acts[a].day = ActiveDay
                        => captured'[a] = ActiveDay
  BY Settling
<1>4. ASSUME NEW a \in Acts, acts'[a].state # "none" PROVE
        /\ acts'[a].day \in Days /\ acts'[a].day <= acts'[a].born
        /\ days'[acts'[a].day] # "none"
        /\ days'[acts'[a].day] = "closed" => captured'[a] = acts'[a].day
  <2>1. acts[a].state # "none" /\ acts'[a].day = acts[a].day
        /\ acts'[a].born = acts[a].born
    BY <1>2, <1>4
  <2>2. acts[a].day \in Days /\ acts[a].day <= acts[a].born
        /\ days[acts[a].day] # "none"
        /\ (days[acts[a].day] = "closed" => captured[a] = acts[a].day)
    BY <2>1 DEF ActsFit
  <2>3. acts[a].day # 0 BY <2>2 DEF Days
  <2>4. ASSUME days'[acts[a].day] = "closed" PROVE captured'[a] = acts[a].day
    <3>1. CASE days[acts[a].day] = "closed" BY <1>2, <2>2, <2>3, <3>1
    <3>2. CASE days[acts[a].day] # "closed" BY <1>3, <2>1, <2>2, <2>4, <3>2
    <3> QED BY <3>1, <3>2
  <2> QED BY <2>1, <2>2, <2>4 DEF DaysGoOn
<1>5. ActsFit' BY <1>2, <1>4 DEF ActsFit
<1>6. ASSUME NEW d \in Days, days[d] = "closed"
      PROVE  \A a \in Acts : captured[a] = d <=> captured'[a] = d
  <2>1. d # 0 /\ (~NoneActive => d # ActiveDay) BY <1>1, <1>6 DEF Days
  <2> QED BY <1>2, <2>1
<1> QED BY <1>5, <1>6 DEF EvidenceFrozen

-----------------------------------------------------------------------------
(* The foreground *)

LEMMA HoldersTyped ==
  ASSUME NEW r \in 0..MaxRequests, NEW d \in 0..MaxDay, NEW b \in BOOLEAN,
         NEW w \in {"none", "chat", "tick", "api"}
  PROVE  /\ Free \in Holders /\ Closing(w, r, d, b) \in Holders
         /\ Stopping(w, r) \in Holders /\ Replying(r) \in Holders
<1>1. 0 \in 0..MaxRequests /\ 0 \in 0..MaxDay BY LocalAssumption
<1> QED BY <1>1 DEF Free, Closing, Stopping, Replying, Holders

LEMMA StoppingTyped ==
  ASSUME NEW r \in 0..MaxRequests, NEW w \in {"none", "chat", "tick", "api"}
  PROVE  Free \in Holders /\ Stopping(w, r) \in Holders /\ Replying(r) \in Holders
<1>1. 0 \in 0..MaxDay /\ TRUE \in BOOLEAN BY LocalAssumption
<1> QED BY <1>1, HoldersTyped

(* A torn handler leaves the lock free and the process dead; a whole one leaves
   what it meant to. *)
LEMMA LeftTyped ==
  ASSUME TypeOK, NEW all \in BOOLEAN, NEW h \in Holders, NEW w \in Wanders,
         Left(all, h, w)
  PROVE  /\ holder' \in Holders /\ wander' \in Wanders /\ sentinel' \in Sentinels
         /\ holder' \in {h, Free} /\ wander' \in {w, Off}
         /\ ~all => holder' = Free
         /\ all => holder' = h
<1>1. 0 \in 0..MaxRequests /\ 0 \in 0..MaxDay /\ 0 \in 0..MaxActs BY LocalAssumption
<1>2. Free \in Holders /\ Off \in Wanders /\ Quiet \in Sentinels
  BY <1>1 DEF Free, Holders, Off, Wanders, Quiet, Sentinels
<1> QED BY <1>2 DEF Left, TypeOK

LEMMA ChatEntersFits ==
  ASSUME LocalInv, NEW r \in Requests, ChatEnters(r)
  PROVE  LocalInv' /\ Frozen
<1> USE DEF LocalInv
<1>0. Unlocked /\ request[r] = "none" /\ (\A q \in Requests : q < r => request[q] # "none")
      /\ UNCHANGED <<today, late, messages, request, acts, captured>>
  BY DEF ChatEnters
<1>1. \A q \in Requests : request[q] # "running"
  BY <1>0, NoneRunning DEF Unlocked, Free
<1>2. ~NoneActive => ActiveDay \in Days /\ days[ActiveDay] = "open"
  BY ActiveIsLast DEF Rows
<1> HIDE DEF ActiveDay
<1>3. r \in 0..MaxRequests /\ NoReservation \in Reservations /\ today <= today'
  BY <1>0, LocalAssumption DEF Requests, NoReservation, Reservations, TypeOK, Days
<1>4. CASE days' = days /\ UNCHANGED <<status, sentinel>> /\ wander' = WanderStopped
           /\ ~NoneActive
           /\ \E asleep \in BOOLEAN : holder' = Closing("chat", r, ActiveDay, asleep)
           /\ reservation' \in Reservations
  <2>1. PICK asleep \in BOOLEAN : holder' = Closing("chat", r, ActiveDay, asleep)
    BY <1>4
  <2>2. ActiveDay \in 0..MaxDay BY <1>2, <1>4 DEF Days
  <2>3. holder' \in Holders BY <2>1, <2>2, <1>3, HoldersTyped
  <2>4. HolderFits'
    BY <1>0, <1>2, <1>4, <2>1 DEF HolderFits, Closing, Waits, NoneActive
  <2>5. wander' \in Wanders /\ WanderGoesOn BY <1>4, WanderStoppedGoesOn
  <2>6. TypeOK' BY <1>0, <1>4, <2>3, <2>5 DEF TypeOK
  <2>7. SameTables BY <1>0, <1>4 DEF SameTables
  <2> QED BY <1>1, <1>3, <2>4, <2>5, <2>6, <2>7, Quietly
<1>5. CASE UNCHANGED <<days, status, holder, wander, sentinel>>
           /\ reservation' \in Reservations
  <2>1. TypeOK' BY <1>0, <1>5 DEF TypeOK
  <2>2. SameTables BY <1>0, <1>5 DEF SameTables
  <2>3. WanderGoesOn BY <1>5 DEF WanderGoesOn
  <2> QED BY <1>0, <1>5, <2>1, <2>2, <2>3, QuietlyBeside
<1>6. CASE /\ ~OpenRaises(days) /\ reservation' \in Reservations
           /\ \E saved \in Saves(3) :
                /\ days' = IF saved >= 2 THEN Opened(days) ELSE days
                /\ status' \in IF saved = 3 THEN {"awake", status} ELSE {status}
                /\ Left(saved = 3, Stopping("chat", r), WanderStopped)
  <2>1. PICK saved \in Saves(3) :
          /\ days' = IF saved >= 2 THEN Opened(days) ELSE days
          /\ status' \in IF saved = 3 THEN {"awake", status} ELSE {status}
          /\ Left(saved = 3, Stopping("chat", r), WanderStopped)
    BY <1>6
  <2>2. /\ Opened(days) \in [Days -> DayStates] /\ Follow(Opened(days))
        /\ \E d \in Days : Opened(days)[d] = "open"
        /\ \A d \in Days : days[d] # "none" => Opened(days)[d] = days[d]
        /\ \A d \in Days : Opened(days)[d] = "closed" => days[d] = "closed"
    <3>1. days \in [Days -> DayStates] BY DEF TypeOK, DayStates
    <3> QED BY <1>6, <3>1, OpenedFollows DEF Rows, DaysFit
  <2> HIDE DEF Opened
  <2>3. DaysGoOn /\ NoneCloses
    BY <1>0, <1>3, <2>1, <2>2 DEF DaysGoOn, NoneCloses, TypeOK, Rows, DaysFit, DayStates
  <2>4. /\ holder' \in Holders /\ wander' \in Wanders /\ sentinel' \in Sentinels
        /\ holder' \in {Stopping("chat", r), Free} /\ wander' \in {WanderStopped, Off}
        /\ saved # 3 => holder' = Free
    <3>1. Stopping("chat", r) \in Holders /\ WanderStopped \in Wanders
      BY <1>3, StoppingTyped, StoppedTyped
    <3>2. (saved = 3) \in BOOLEAN OBVIOUS
    <3>3. Left(saved = 3, Stopping("chat", r), WanderStopped) BY <2>1
    <3> HIDE DEF LocalInv
    <3> QED BY <3>1, <3>2, <3>3, LeftTyped DEF LocalInv
  <2>5. TypeOK'
    BY <1>0, <1>6, <2>1, <2>3, <2>4 DEF TypeOK, DaysGoOn, DayStates
  <2>6. HolderFits'
    <3>1. CASE holder' = Free BY <3>1, FreeFits
    <3>2. CASE holder' # Free
      <4>1. saved = 3 /\ holder' = Stopping("chat", r) BY <2>4, <3>2
      <4>2. ~NoneActive' BY <2>1, <2>2, <4>1 DEF NoneActive
      <4> QED BY <1>0, <4>1, <4>2 DEF HolderFits, Stopping, Waits
    <3> QED BY <3>1, <3>2
  <2>7. Rows' BY <1>0, <1>1, <2>3, RowsKept
  <2>8. WanderGoesOn BY <2>4, WanderStoppedGoesOn
  <2>9. WanderFits' BY <1>0, <2>3, <2>8, WanderKept
  <2>10. ActsFit' BY <1>0, <2>3, ActsKept
  <2>11. Frozen BY <1>0, <2>3, FrozenKept
  <2> QED BY <2>5, <2>6, <2>7, <2>9, <2>10, <2>11
<1>7. reservation' \in Reservations
  BY <1>3 DEF ChatEnters, TypeOK
<1>8. CASE reservation.state = "due" /\ ~NoneActive
  BY <1>4, <1>7, <1>8 DEF ChatEnters
<1>9. CASE ~(reservation.state = "due" /\ ~NoneActive) /\ Overdue
  BY <1>4, <1>7, <1>9 DEF ChatEnters, Overdue
<1>10. CASE ~(reservation.state = "due" /\ ~NoneActive) /\ ~Overdue
  BY <1>5, <1>6, <1>7, <1>10 DEF ChatEnters
<1> QED BY <1>8, <1>9, <1>10

(* What is common to the steps that come back from wander.stop. *)
LEMMA StopStep ==
  ASSUME LocalInv, holder.at # "model", StopReturned, StopSettles,
         wander' \in {wander, Off}, UNCHANGED <<today, messages, request>>,
         DaysGoOn, TypeOK', HolderFits',
         \A d \in Days : days'[d] = "closed" /\ days[d] # "closed" =>
            ~NoneActive /\ d = ActiveDay /\ ~StopRaises
  PROVE  LocalInv' /\ Frozen
<1> USE DEF LocalInv
<1>1. \A q \in Requests : request[q] # "running" BY NoneRunning
<1>2. Rows' BY <1>1, RowsKept
<1>3. ActsFit' /\ EvidenceFrozen BY Settled DEF Rows
<1>4. WanderFits' BY DEF WanderFits, StopReturned, Off
<1>5. Frozen BY <1>3 DEF Frozen, EvidenceFrozen, DaysGoOn, RowsOf
<1> QED BY <1>2, <1>3, <1>4, <1>5

(* The day a close is for is the active one. *)
LEMMA ClosingDay ==
  ASSUME LocalInv, holder.at = "closing"
  PROVE  /\ ~NoneActive /\ holder.day \in Days
         /\ holder.day = ActiveDay /\ days[holder.day] = "open"
<1> USE DEF LocalInv
<1>1. holder.day \in Days /\ days[holder.day] = "open" BY DEF HolderFits
<1>2. ~NoneActive BY <1>1 DEF NoneActive
<1> QED BY <1>1, <1>2, ActiveIsLast DEF Rows

LEMMA ChatClosesFits ==
  ASSUME LocalInv, NEW r \in Requests, ChatCloses(r)
  PROVE  LocalInv' /\ Frozen
<1> DEFINE then == [days EXCEPT ![holder.day] = "closed"]
           raises == OpenRaises(then)
           all == IF raises THEN 3 ELSE 5
           next == IF raises THEN Free ELSE Stopping("chat", r)
<1>1. /\ holder.at = "closing" /\ holder.who = "chat" /\ holder.r = r
      /\ StopReturned /\ ~StopRaises /\ StopSettles
      /\ UNCHANGED <<today, late, messages, request>>
  BY DEF ChatCloses
<1>2. PICK saved \in Saves(all) :
        /\ days' = IF saved >= 4 THEN Opened(then) ELSE then
        /\ reservation' = IF saved >= 2 THEN NoReservation ELSE reservation
        /\ status' \in IF saved = 5 THEN IF holder.asleep THEN {"awake"} ELSE {"awake", status}
                      ELSE IF saved >= 3 /\ holder.asleep THEN {"asleep"} ELSE {status}
        /\ Left(saved = all, next, wander)
  BY DEF ChatCloses
<1>3. saved >= 4 => ~raises BY <1>2 DEF Saves
<1>4. saved = all /\ ~raises => saved >= 4 OBVIOUS
<1>5. ~NoneActive /\ holder.day \in Days /\ holder.day = ActiveDay /\ days[holder.day] = "open"
  BY <1>1, ClosingDay
<1> HIDE DEF ActiveDay
<1>6. /\ then \in [Days -> DayStates] /\ Follow(then)
      /\ \A d \in Days : days[d] # "none" => then[d] # "none"
      /\ \A d \in Days : d # holder.day => then[d] = days[d]
      /\ then[holder.day] = "closed"
  BY <1>5, ClosedFollows DEF LocalInv, Rows
<1> HIDE DEF then
<1>7. ~raises =>
      /\ Opened(then) \in [Days -> DayStates] /\ Follow(Opened(then))
      /\ \E d \in Days : Opened(then)[d] = "open"
      /\ \A d \in Days : then[d] # "none" => Opened(then)[d] = then[d]
      /\ \A d \in Days : Opened(then)[d] = "closed" => then[d] = "closed"
  BY <1>6, OpenedFollows DEF LocalInv
<1> HIDE DEF Opened
<1>8. days' = then \/ (~raises /\ days' = Opened(then)) BY <1>2, <1>3
<1>9. today \in Days /\ today <= today' BY <1>1 DEF LocalInv, TypeOK, Days
<1>10. DaysGoOn
  BY <1>1, <1>5, <1>6, <1>7, <1>8, <1>9 DEF DaysGoOn, DayStates
<1>11. \A d \in Days : days'[d] = "closed" /\ days[d] # "closed" =>
         ~NoneActive /\ d = ActiveDay /\ ~StopRaises
  BY <1>1, <1>5, <1>6, <1>7, <1>8
<1>12. next \in Holders /\ wander \in Wanders
  BY StoppingTyped, LocalAssumption DEF Requests, LocalInv, TypeOK
<1>13. /\ holder' \in Holders /\ wander' \in Wanders /\ sentinel' \in Sentinels
       /\ holder' \in {next, Free} /\ wander' \in {wander, Off}
       /\ saved # all => holder' = Free
  <2>1. (saved = all) \in BOOLEAN OBVIOUS
  <2>2. Left(saved = all, next, wander) BY <1>2
  <2> HIDE DEF all, next
  <2> QED BY <1>12, <2>1, <2>2, LeftTyped DEF LocalInv
<1>14. TypeOK'
  <2>1. NoReservation \in Reservations
    BY LocalAssumption DEF NoReservation, Reservations
  <2>2. reservation' \in Reservations /\ status' \in {"awake", "asleep"}
    BY <1>2, <2>1 DEF LocalInv, TypeOK
  <2>3. acts' \in [Acts -> ActRows] /\ captured' \in [Acts -> 0..MaxDay]
    BY <1>1, Settling DEF LocalInv, Rows
  <2> QED BY <1>1, <1>10, <1>13, <2>2, <2>3 DEF LocalInv, TypeOK, DaysGoOn, DayStates
<1>15. HolderFits'
  <2>1. CASE holder' = Free BY <2>1, FreeFits
  <2>2. CASE holder' # Free
    <3>1. ~raises /\ saved >= 4 /\ holder' = Stopping("chat", r) BY <1>4, <1>13, <2>2
    <3>2. ~NoneActive' BY <1>2, <1>7, <3>1 DEF NoneActive
    <3>3. Waits(r)' BY <1>1 DEF LocalInv, HolderFits, Waits
    <3> QED BY <3>1, <3>2, <3>3 DEF HolderFits, Stopping
  <2> QED BY <2>1, <2>2
<1> QED BY <1>1, <1>10, <1>11, <1>13, <1>14, <1>15, StopStep

LEMMA TickClosesFits ==
  ASSUME LocalInv, TickCloses
  PROVE  LocalInv' /\ Frozen
<1> DEFINE then == [days EXCEPT ![holder.day] = "closed"]
<1>1. /\ holder.at = "closing" /\ StopReturned /\ ~StopRaises /\ StopSettles
      /\ UNCHANGED <<today, late, messages, request>> /\ days' = then
  BY DEF TickCloses
<1>2. PICK saved \in Saves(3) :
        /\ reservation' = IF saved >= 2 THEN NoReservation ELSE reservation
        /\ status' = IF saved = 3 /\ holder.asleep THEN "asleep" ELSE status
        /\ Left(saved = 3, Free, wander)
  BY DEF TickCloses
<1>3. ~NoneActive /\ holder.day \in Days /\ holder.day = ActiveDay /\ days[holder.day] = "open"
  BY <1>1, ClosingDay
<1> HIDE DEF ActiveDay
<1>4. /\ then \in [Days -> DayStates] /\ Follow(then)
      /\ \A d \in Days : days[d] # "none" => then[d] # "none"
      /\ \A d \in Days : d # holder.day => then[d] = days[d]
      /\ then[holder.day] = "closed"
  BY <1>3, ClosedFollows DEF LocalInv, Rows
<1> HIDE DEF then
<1>5. DaysGoOn
  BY <1>1, <1>3, <1>4 DEF DaysGoOn, DayStates, LocalInv, TypeOK, Days
<1>6. \A d \in Days : days'[d] = "closed" /\ days[d] # "closed" =>
        ~NoneActive /\ d = ActiveDay /\ ~StopRaises
  BY <1>1, <1>3, <1>4
<1>7. /\ holder' = Free /\ wander' \in Wanders /\ wander' \in {wander, Off}
      /\ sentinel' \in Sentinels /\ Free \in Holders
  <2>0. 0 \in 0..MaxRequests /\ "none" \in {"none", "chat", "tick", "api"} BY LocalAssumption
  <2>1. Free \in Holders /\ wander \in Wanders /\ (saved = 3) \in BOOLEAN
    BY <2>0, StoppingTyped DEF LocalInv, TypeOK
  <2> QED BY <1>2, <2>1, LeftTyped DEF LocalInv
<1>8. TypeOK'
  <2>1. NoReservation \in Reservations
    BY LocalAssumption DEF NoReservation, Reservations
  <2>2. reservation' \in Reservations /\ status' \in {"awake", "asleep"}
    BY <1>2, <2>1 DEF LocalInv, TypeOK
  <2>3. acts' \in [Acts -> ActRows] /\ captured' \in [Acts -> 0..MaxDay]
    BY <1>1, Settling DEF LocalInv, Rows
  <2> QED BY <1>1, <1>5, <1>7, <2>2, <2>3 DEF LocalInv, TypeOK, DaysGoOn, DayStates
<1>9. HolderFits' BY <1>7, FreeFits
<1> QED BY <1>1, <1>5, <1>6, <1>7, <1>8, <1>9, StopStep

(* Whoever awaited a stop that closes nothing gives the lock up. *)
LEMMA GivesUpFits ==
  ASSUME LocalInv, holder.at \in {"closing", "stopping"}, StopReturned, StopSettles,
         holder' = Free,
         UNCHANGED <<today, late, days, reservation, status, messages, request, wander,
                     sentinel>>
  PROVE  LocalInv' /\ Frozen
<1>1. DaysGoOn BY SameDays DEF LocalInv, Rows
<1>2. HolderFits' BY FreeFits
<1>3. TypeOK'
  <2>1. acts' \in [Acts -> ActRows] /\ captured' \in [Acts -> 0..MaxDay]
    BY Settling DEF LocalInv, Rows
  <2>2. 0 \in 0..MaxRequests /\ "none" \in {"none", "chat", "tick", "api"} BY LocalAssumption
  <2>3. Free \in Holders BY <2>2, StoppingTyped
  <2> QED BY <2>1, <2>3 DEF LocalInv, TypeOK
<1> QED BY <1>1, <1>2, <1>3, StopStep

-----------------------------------------------------------------------------
(* The steps that add a message *)

MessagesFrozen ==
  \A d \in Days : days[d] = "closed" => RowsOf(d)' = RowsOf(d)

(* A message of the open day leaves the closed ones alone, and is one more. *)
LEMMA Appended ==
  ASSUME TypeOK, Rows, ~NoneActive, days' = days, today' = today,
         NEW m \in MessageRows, messages' = Append(messages, m), m.day = ActiveDay
  PROVE  /\ MessagesFrozen /\ MessagesFit' /\ DaysFit'
         /\ UserMessages' = IF m.kind = "user" THEN UserMessages \cup {Len(messages) + 1}
                                               ELSE UserMessages
         /\ SentinelMessages' = IF m.kind = "sentinel"
                                  THEN SentinelMessages \cup {Len(messages) + 1}
                                  ELSE SentinelMessages
         /\ UserMessages \in SUBSET (1..Len(messages))
         /\ SentinelMessages \in SUBSET (1..Len(messages))
<1>1. days[ActiveDay] = "open" /\ ActiveDay \in Days BY ActiveIsLast DEF Rows
<1>2. MessagesFit' BY MessagesGrow DEF Rows
<1> HIDE DEF ActiveDay
<1>3. /\ Len(messages) \in Nat /\ Len(messages') = Len(messages) + 1
      /\ messages'[Len(messages) + 1] = m
      /\ \A i \in 1..Len(messages) : messages'[i] = messages[i]
      /\ \A d : m.day # d => RowsOf(d)' = RowsOf(d)
  BY Appending
<1>4. MessagesFrozen BY <1>1, <1>3 DEF MessagesFrozen
<1>5. 1..Len(messages') = (1..Len(messages)) \cup {Len(messages) + 1} BY <1>3
<1>6. UserMessages' = IF m.kind = "user" THEN UserMessages \cup {Len(messages) + 1}
                                        ELSE UserMessages
  BY <1>3, <1>5 DEF UserMessages
<1>7. SentinelMessages' = IF m.kind = "sentinel"
                           THEN SentinelMessages \cup {Len(messages) + 1}
                           ELSE SentinelMessages
  BY <1>3, <1>5 DEF SentinelMessages
<1>8. DaysFit' BY DEF Rows, DaysFit, Follow
<1> QED BY <1>2, <1>4, <1>6, <1>7, <1>8 DEF UserMessages, SentinelMessages

(* The newest user message is of the newest request. *)
LEMMA LastUserIsLast ==
  ASSUME TypeOK, UsersFit
  PROVE  \A j \in UserMessages : messages[j].of <= LastUser
<1>1. SUFFICES ASSUME NEW j \in UserMessages PROVE messages[j].of <= LastUser OBVIOUS
<1>2. PICK i \in UserMessages : i = CHOOSE k \in UserMessages : \A l \in UserMessages : l <= k
  BY <1>1 DEF UsersFit
<1>3. \A l \in UserMessages : l <= i BY <1>1, <1>2 DEF UsersFit
<1>4. LastUser = messages[i].of BY <1>1, <1>2 DEF LastUser
<1>5. i \in 1..Len(messages) /\ j \in 1..Len(messages) BY DEF UserMessages
<1>6. messages[i].of \in Nat /\ messages[j].of \in Nat
  BY <1>5, MessageTyped DEF MessageRows
<1>7. j = i \/ j < i BY <1>1, <1>3, <1>5
<1> QED BY <1>4, <1>6, <1>7 DEF UsersFit

(* A share or a message of the sentinel, while no reply is awaited. *)
LEMMA PushFits ==
  ASSUME TypeOK, Rows, ~NoneActive, UNCHANGED <<days, today, request, holder>>, Unlocked,
         NEW m \in MessageRows, messages' = Append(messages, m), m.day = ActiveDay,
         m.kind \in {"wander", "sentinel"},
         m.kind = "sentinel" => m.of = LastUser
  PROVE  Rows' /\ MessagesFrozen
<1>1. /\ MessagesFrozen /\ MessagesFit' /\ DaysFit'
      /\ UserMessages' = UserMessages
      /\ SentinelMessages' = IF m.kind = "sentinel"
                               THEN SentinelMessages \cup {Len(messages) + 1}
                               ELSE SentinelMessages
      /\ UserMessages \in SUBSET (1..Len(messages))
      /\ SentinelMessages \in SUBSET (1..Len(messages))
  BY Appended
<1>2. /\ Len(messages) \in Nat /\ Len(messages') = Len(messages) + 1
      /\ messages'[Len(messages) + 1] = m
      /\ \A i \in 1..Len(messages) : messages'[i] = messages[i]
  BY Appending
<1>3. \A j \in UserMessages : messages[j].of <= LastUser BY LastUserIsLast DEF Rows
<1> HIDE DEF UserMessages, SentinelMessages, LastUser
<1>4. UsersFit'
  BY <1>1, <1>2 DEF Rows, UsersFit
<1>5. RepliesFit'
  <2>1. SUFFICES ASSUME NEW i \in 1..Len(messages'), messages'[i].kind = "reply"
        PROVE  /\ i > 1
               /\ messages'[i - 1] = Message("user", messages'[i].of, messages'[i].day)
               /\ messages'[i].of \in Requests
               /\ request'[messages'[i].of] = "complete"
    BY DEF RepliesFit, Message
  <2>2. i \in 1..Len(messages) BY <1>2, <2>1
  <2>3. i > 1 /\ messages[i - 1] = Message("user", messages[i].of, messages[i].day)
        /\ messages[i].of \in Requests /\ request[messages[i].of] = "complete"
    BY <1>2, <2>1, <2>2 DEF Rows, RepliesFit
  <2> QED BY <1>2, <2>2, <2>3
<1>6. SentinelFresh'
  BY <1>1, <1>2, <1>3 DEF Rows, SentinelFresh
<1> QED BY <1>1, <1>4, <1>5, <1>6 DEF Rows

LEMMA MessageBeginsFits ==
  ASSUME LocalInv, NEW r \in Requests, MessageBegins(r)
  PROVE  LocalInv' /\ Frozen
<1> DEFINE m == Message("user", r, ActiveDay)
<1> USE DEF LocalInv
<1>1. /\ holder = Stopping("chat", r) /\ StopReturned /\ StopSettles
      /\ messages' = Append(messages, m)
      /\ request' = [request EXCEPT ![r] = "running"]
      /\ reservation' \in {reservation, [state |-> "set", day |-> ActiveDay]}
      /\ holder' = Replying(r)
      /\ UNCHANGED <<today, late, days, status, wander, sentinel>>
  BY DEF MessageBegins
<1>2. Waits(r) /\ ~NoneActive BY <1>1 DEF HolderFits, Stopping
<1>3. ActiveDay \in Days /\ days[ActiveDay] = "open" BY <1>2, ActiveIsLast DEF Rows
<1>4. DaysGoOn /\ ActiveDay' = ActiveDay /\ NoneActive' = NoneActive
  BY <1>1, SameDays DEF Rows
<1> HIDE DEF ActiveDay
<1>5. m \in MessageRows /\ m.day = ActiveDay /\ m.kind = "user" /\ m.of = r
  BY <1>3 DEF Message, MessageRows, Requests
<1> HIDE DEF m
<1>6. /\ MessagesFrozen /\ MessagesFit' /\ DaysFit'
      /\ UserMessages' = UserMessages \cup {Len(messages) + 1}
      /\ SentinelMessages' = SentinelMessages
      /\ UserMessages \in SUBSET (1..Len(messages))
      /\ SentinelMessages \in SUBSET (1..Len(messages))
  BY <1>1, <1>2, <1>5, Appended
<1>7. /\ Len(messages) \in Nat /\ Len(messages') = Len(messages) + 1
      /\ messages' \in Seq(MessageRows)
      /\ messages'[Len(messages) + 1] = m
      /\ \A i \in 1..Len(messages) : messages'[i] = messages[i]
  BY <1>1, <1>5, Appending
<1> HIDE DEF UserMessages, SentinelMessages
<1>8. \A q \in Requests : request[q] # "running"
  BY <1>1, NoneRunning DEF Stopping
<1>9. \A q \in Requests : request'[q] = IF q = r THEN "running" ELSE request[q]
  BY <1>1 DEF TypeOK
<1>10. \A i \in UserMessages : messages[i].of \in Requests /\ messages[i].of < r
  BY <1>2 DEF Rows, UsersFit, Waits, Requests
<1>11. UsersFit'
  <2>1. \A i \in UserMessages' :
          messages'[i].of \in Requests /\ request'[messages'[i].of] # "none"
    BY <1>5, <1>6, <1>7, <1>9 DEF Rows, UsersFit
  <2>2. \A i, j \in UserMessages' : i < j => messages'[i].of < messages'[j].of
    BY <1>5, <1>6, <1>7, <1>10 DEF Rows, UsersFit
  <2>3. \E i \in UserMessages' : \A j \in UserMessages' : j <= i
    BY <1>6, <1>7
  <2>4. \A p, q \in Requests : p < q /\ request'[q] # "none" => request'[p] # "none"
    BY <1>2, <1>9 DEF Rows, UsersFit, Waits
  <2>5. \A q \in Requests : request'[q] = "running" => holder' = Replying(q)
    BY <1>1, <1>8, <1>9
  <2> QED BY <2>1, <2>2, <2>3, <2>4, <2>5 DEF UsersFit, Replying
<1>12. RepliesFit'
  <2>1. SUFFICES ASSUME NEW i \in 1..Len(messages'), messages'[i].kind = "reply"
        PROVE  /\ i > 1
               /\ messages'[i - 1] = Message("user", messages'[i].of, messages'[i].day)
               /\ messages'[i].of \in Requests
               /\ request'[messages'[i].of] = "complete"
    BY DEF RepliesFit, Message
  <2>2. i \in 1..Len(messages) BY <1>5, <1>7, <2>1
  <2>3. i > 1 /\ messages[i - 1] = Message("user", messages[i].of, messages[i].day)
        /\ messages[i].of \in Requests /\ request[messages[i].of] = "complete"
    BY <1>7, <2>1, <2>2 DEF Rows, RepliesFit
  <2>4. messages[i].of # r BY <1>2, <2>3 DEF Waits
  <2> QED BY <1>7, <1>9, <2>2, <2>3, <2>4
<1>13. SentinelFresh' BY <1>6, <1>7 DEF Rows, SentinelFresh
<1>14. ActsFit' /\ EvidenceFrozen BY <1>1, <1>4, Settled DEF Rows
<1>15. Frozen BY <1>1, <1>6, <1>14 DEF Frozen, EvidenceFrozen, MessagesFrozen
<1>16. HolderFits'
  <2>1. messages'[Len(messages')] = Message("user", r, ActiveDay) BY <1>7 DEF m
  <2> QED BY <1>1, <1>2, <1>4, <1>7, <1>9, <2>1 DEF HolderFits, Replying, Message
<1>17. WanderFits' BY <1>1 DEF WanderFits, StopReturned
<1>18. TypeOK'
  <2>1. acts' \in [Acts -> ActRows] /\ captured' \in [Acts -> 0..MaxDay]
    BY <1>1, Settling DEF Rows
  <2>2. Replying(r) \in Holders
    <3>1. r \in 0..MaxRequests /\ "none" \in {"none", "chat", "tick", "api"} BY DEF Requests
    <3> QED BY <3>1, StoppingTyped
  <2>3. reservation' \in Reservations BY <1>1, <1>3 DEF TypeOK, Reservations, Days
  <2> QED BY <1>1, <1>7, <2>1, <2>2, <2>3 DEF TypeOK
<1> QED BY <1>6, <1>11, <1>12, <1>13, <1>14, <1>15, <1>16, <1>17, <1>18 DEF Rows

LEMMA ReplyArrivesFits ==
  ASSUME LocalInv, NEW r \in Requests, ReplyArrives(r)
  PROVE  LocalInv' /\ Frozen
<1> DEFINE m == Message("reply", r, ActiveDay)
<1> USE DEF LocalInv
<1>1. /\ holder = Replying(r)
      /\ messages' = Append(messages, m)
      /\ request' = [request EXCEPT ![r] = "complete"]
      /\ holder' = Free
      /\ UNCHANGED <<today, late, days, reservation, status, acts, captured, wander,
                     sentinel>>
  BY DEF ReplyArrives
<1>2. /\ ~NoneActive /\ request[r] = "running" /\ Len(messages) > 0
      /\ messages[Len(messages)] = Message("user", r, ActiveDay)
  BY <1>1 DEF HolderFits, Replying
<1>3. ActiveDay \in Days /\ days[ActiveDay] = "open" BY <1>2, ActiveIsLast DEF Rows
<1>4. DaysGoOn /\ NoneCloses BY <1>1, SameDays DEF Rows, NoneCloses
<1> HIDE DEF ActiveDay
<1>5. m \in MessageRows /\ m.day = ActiveDay /\ m.kind = "reply" /\ m.of = r
  BY <1>3 DEF Message, MessageRows, Requests
<1>6. Message("user", m.of, m.day) = Message("user", r, ActiveDay) BY <1>5
<1> HIDE DEF m
<1>7. /\ MessagesFrozen /\ MessagesFit' /\ DaysFit'
      /\ UserMessages' = UserMessages /\ SentinelMessages' = SentinelMessages
      /\ UserMessages \in SUBSET (1..Len(messages))
      /\ SentinelMessages \in SUBSET (1..Len(messages))
  BY <1>1, <1>2, <1>5, Appended
<1>8. /\ Len(messages) \in Nat /\ Len(messages') = Len(messages) + 1
      /\ messages' \in Seq(MessageRows)
      /\ messages'[Len(messages) + 1] = m
      /\ \A i \in 1..Len(messages) : messages'[i] = messages[i]
  BY <1>1, <1>5, Appending
<1> HIDE DEF UserMessages, SentinelMessages
<1>9. \A q \in Requests : request[q] = "running" => q = r
  BY <1>1 DEF Rows, UsersFit, Replying
<1>10. \A q \in Requests : request'[q] = IF q = r THEN "complete" ELSE request[q]
  BY <1>1 DEF TypeOK
<1>11. UsersFit' BY <1>1, <1>2, <1>7, <1>8, <1>9, <1>10 DEF Rows, UsersFit, Replying
<1>12. RepliesFit'
  <2>1. SUFFICES ASSUME NEW i \in 1..Len(messages'), messages'[i].kind = "reply"
        PROVE  /\ i > 1
               /\ messages'[i - 1] = Message("user", messages'[i].of, messages'[i].day)
               /\ messages'[i].of \in Requests
               /\ request'[messages'[i].of] = "complete"
    BY DEF RepliesFit, Message
  <2>2. CASE i \in 1..Len(messages)
    <3>1. i > 1 /\ messages[i - 1] = Message("user", messages[i].of, messages[i].day)
          /\ messages[i].of \in Requests /\ request[messages[i].of] = "complete"
      BY <1>8, <2>1, <2>2 DEF Rows, RepliesFit
    <3> QED BY <1>8, <1>10, <2>2, <3>1
  <2>3. CASE i = Len(messages) + 1
    <3>1. messages'[i] = m /\ messages'[i - 1] = messages[Len(messages)]
      BY <1>2, <1>8, <2>3
    <3>2. i > 1 BY <1>2, <1>8, <2>3
    <3> QED BY <1>2, <1>5, <1>6, <1>10, <3>1, <3>2
  <2> QED BY <1>8, <2>1, <2>2, <2>3
<1>13. SentinelFresh' BY <1>7, <1>8 DEF Rows, SentinelFresh
<1>14. ActsFit' BY <1>1, <1>4, ActsKept
<1>15. Frozen BY <1>1, <1>7 DEF Frozen, MessagesFrozen
<1>16. HolderFits' BY <1>1, FreeFits
<1>17. WanderFits'
  <2>1. WanderGoesOn BY <1>1 DEF WanderGoesOn
  <2> QED BY <1>1, <1>4, <2>1, WanderKept
<1>18. TypeOK'
  <2>1. 0 \in 0..MaxRequests /\ "none" \in {"none", "chat", "tick", "api"} BY LocalAssumption
  <2>2. Free \in Holders BY <2>1, StoppingTyped
  <2> QED BY <1>1, <1>8, <2>2 DEF TypeOK
<1> QED BY <1>7, <1>11, <1>12, <1>13, <1>14, <1>15, <1>16, <1>17, <1>18 DEF Rows

(* A request that ends without a reply: it fails, or its process dies. *)
LEMMA RequestsEndFits ==
  ASSUME LocalInv, TypeOK', holder' = Free, wander' \in {wander, Off},
         UNCHANGED <<today, days, messages, acts, captured>>,
         \A q \in Requests : request'[q] # request[q] =>
            request[q] = "running" /\ request'[q] # "none",
         \A q \in Requests : request'[q] # "running"
  PROVE  LocalInv' /\ Frozen
<1> USE DEF LocalInv
<1>1. DaysGoOn /\ NoneCloses BY SameDays DEF Rows, NoneCloses
<1>2. DaysFit' BY DEF Rows, DaysFit, Follow
<1>3. MessagesFit' BY DEF Rows, MessagesFit
<1>4. UsersFit' BY DEF Rows, UsersFit, UserMessages
<1>5. RepliesFit' BY DEF Rows, RepliesFit
<1>6. SentinelFresh' BY DEF Rows, SentinelFresh, SentinelMessages, UserMessages
<1>7. HolderFits' BY FreeFits
<1>8. WanderGoesOn BY WanderStoppedGoesOn
<1>9. WanderFits' BY <1>1, <1>8, WanderKept
<1>10. ActsFit' BY <1>1, ActsKept
<1>11. Frozen BY <1>1, FrozenKept
<1> QED BY <1>2, <1>3, <1>4, <1>5, <1>6, <1>7, <1>9, <1>10, <1>11 DEF Rows

LEMMA ReplyFailsFits ==
  ASSUME LocalInv, NEW r \in Requests, ReplyFails(r)
  PROVE  LocalInv' /\ Frozen
<1>1. /\ holder = Replying(r) /\ holder' = Free
      /\ request' = [request EXCEPT ![r] = "failed"]
      /\ UNCHANGED <<today, late, days, reservation, status, messages, acts, captured,
                     wander, sentinel>>
  BY DEF ReplyFails
<1>2. \A q \in Requests : request'[q] = IF q = r THEN "failed" ELSE request[q]
  BY <1>1 DEF LocalInv, TypeOK
<1>3. request[r] = "running" BY <1>1 DEF LocalInv, HolderFits, Replying
<1>4. \A q \in Requests : request[q] = "running" => q = r
  BY <1>1 DEF LocalInv, Rows, UsersFit, Replying
<1>5. TypeOK'
  <2>1. 0 \in 0..MaxRequests /\ "none" \in {"none", "chat", "tick", "api"} BY LocalAssumption
  <2>2. Free \in Holders BY <2>1, StoppingTyped
  <2> QED BY <1>1, <2>2 DEF LocalInv, TypeOK
<1> QED BY <1>1, <1>2, <1>3, <1>4, <1>5, RequestsEndFits

LEMMA RestartFits ==
  ASSUME LocalInv, Restart
  PROVE  LocalInv' /\ Frozen
<1>1. /\ request' = [q \in Requests |-> AfterRestart(q)]
      /\ holder' = Free /\ wander' = Off /\ sentinel' = Quiet
      /\ UNCHANGED <<today, late, days, reservation, status, messages, acts, captured>>
  BY DEF Restart
<1>2. \A q \in Requests :
        request'[q] = IF request[q] = "running" THEN "interrupted" ELSE request[q]
  BY <1>1 DEF AfterRestart
<1>3. TypeOK'
  <2>1. 0 \in 0..MaxRequests /\ 0 \in 0..MaxDay /\ "none" \in {"none", "chat", "tick", "api"}
    BY LocalAssumption
  <2>2. Free \in Holders /\ Off \in Wanders
    BY <2>1, StoppingTyped, StoppedTyped DEF LocalInv
  <2>3. Quiet \in Sentinels BY <2>1 DEF Quiet, Sentinels
  <2>4. request' \in [Requests ->
                        {"none", "running", "complete", "failed", "interrupted"}]
    BY <1>1, <1>2 DEF LocalInv, TypeOK
  <2> QED BY <1>1, <2>2, <2>3, <2>4 DEF LocalInv, TypeOK
<1> QED BY <1>1, <1>2, <1>3, RequestsEndFits

-----------------------------------------------------------------------------
(* The rest of the foreground, and the clock *)

LEMMA TickEntersFits ==
  ASSUME LocalInv, TickEnters
  PROVE  LocalInv' /\ Frozen
<1> USE DEF LocalInv
<1>1. /\ Unlocked /\ wander' = WanderStopped
      /\ UNCHANGED <<today, late, days, reservation, status, messages, request, acts,
                     captured, sentinel>>
  BY DEF TickEnters
<1>2. PICK asleep \in BOOLEAN : ~NoneActive /\ holder' = Closing("tick", 0, ActiveDay, asleep)
  BY DEF TickEnters, CloseReasons
<1>3. ActiveDay \in Days /\ days[ActiveDay] = "open" BY <1>2, ActiveIsLast DEF Rows
<1> HIDE DEF ActiveDay
<1>4. holder' \in Holders
  <2>1. 0 \in 0..MaxRequests /\ ActiveDay \in 0..MaxDay /\ "tick" \in {"none", "chat", "tick", "api"}
    BY <1>3, LocalAssumption DEF Days
  <2> QED BY <1>2, <2>1, HoldersTyped
<1>5. HolderFits' BY <1>1, <1>2, <1>3 DEF HolderFits, Closing
<1>6. wander' \in Wanders /\ WanderGoesOn BY <1>1, WanderStoppedGoesOn
<1>7. TypeOK' BY <1>1, <1>4, <1>6 DEF TypeOK
<1>8. \A q \in Requests : request[q] # "running" BY <1>1, NoneRunning DEF Unlocked, Free
<1>9. SameTables /\ today <= today' BY <1>1 DEF SameTables, TypeOK, Days
<1> QED BY <1>5, <1>6, <1>7, <1>8, <1>9, Quietly

LEMMA ApiStopsFits ==
  ASSUME LocalInv, ApiStops
  PROVE  LocalInv' /\ Frozen
<1> USE DEF LocalInv
<1>1. /\ Unlocked /\ wander' = WanderStopped /\ holder' = Stopping("api", 0)
      /\ reservation' \in {reservation, NoReservation}
      /\ UNCHANGED <<today, late, days, status, messages, request, acts, captured, sentinel>>
  BY DEF ApiStops
<1>2. 0 \in 0..MaxRequests /\ "api" \in {"none", "chat", "tick", "api"} BY LocalAssumption
<1>3. holder' \in Holders BY <1>1, <1>2, StoppingTyped
<1>4. HolderFits' BY <1>1 DEF HolderFits, Stopping
<1>5. wander' \in Wanders /\ WanderGoesOn BY <1>1, WanderStoppedGoesOn
<1>6. NoReservation \in Reservations BY LocalAssumption DEF NoReservation, Reservations
<1>7. TypeOK' BY <1>1, <1>3, <1>5, <1>6 DEF TypeOK
<1>8. \A q \in Requests : request[q] # "running" BY <1>1, NoneRunning DEF Unlocked, Free
<1>9. SameTables /\ today <= today' BY <1>1 DEF SameTables, TypeOK, Days
<1> QED BY <1>4, <1>5, <1>7, <1>8, <1>9, Quietly

(* Reserving, cancelling, the status and the clock leave rows and lock alone. *)
LEMMA SettingsFit ==
  ASSUME LocalInv,
         ApiReserves \/ ApiCancels \/ SetStatus \/ ReservationDue \/ Morning \/ Midnight
  PROVE  LocalInv' /\ Frozen
<1> USE DEF LocalInv
<1> DEFINE Apart ==
      /\ SameTables /\ UNCHANGED <<holder, wander, sentinel>>
      /\ today' \in Days /\ today <= today'
      /\ late' \in BOOLEAN /\ status' \in {"awake", "asleep"}
<1>1. Apart
  <2>1. today \in Days BY DEF TypeOK
  <2>2. CASE ApiReserves BY <2>1, <2>2 DEF ApiReserves, SameTables, TypeOK, Days
  <2>3. CASE ApiCancels BY <2>1, <2>3 DEF ApiCancels, SameTables, TypeOK, Days
  <2>4. CASE SetStatus BY <2>1, <2>4 DEF SetStatus, SameTables, TypeOK, Days
  <2>5. CASE ReservationDue BY <2>1, <2>5 DEF ReservationDue, SameTables, TypeOK, Days
  <2>6. CASE Morning BY <2>1, <2>6 DEF Morning, SameTables, TypeOK, Days
  <2>7. CASE Midnight
    <3>1. today' \in Days /\ today <= today'
      BY <2>1, <2>7, LocalAssumption DEF Midnight, Days
    <3>2. late' \in BOOLEAN /\ status' \in {"awake", "asleep"}
      BY <2>7 DEF Midnight, TypeOK
    <3> QED BY <2>7, <3>1, <3>2 DEF Midnight, SameTables
  <2> HIDE DEF Apart
  <2> QED BY <2>2, <2>3, <2>4, <2>5, <2>6, <2>7
<1>2. reservation' \in Reservations
  <2>1. CASE ApiReserves
    <3>1. ActiveDay \in Days BY <2>1, ActiveIsLast DEF ApiReserves, Rows
    <3> HIDE DEF ActiveDay
    <3> QED BY <2>1, <3>1 DEF ApiReserves, Reservations, Days
  <2>2. CASE ApiCancels
    BY <2>2, LocalAssumption DEF ApiCancels, NoReservation, Reservations
  <2>3. CASE ReservationDue
    BY <2>3 DEF ReservationDue, TypeOK, Reservations
  <2>4. CASE SetStatus \/ Morning \/ Midnight
    BY <2>4 DEF SetStatus, Morning, Midnight, TypeOK
  <2> QED BY <2>1, <2>2, <2>3, <2>4
<1>3. TypeOK' BY <1>1, <1>2 DEF TypeOK, SameTables
<1>4. HolderFits'
  BY <1>1, SameDays DEF SameTables, HolderFits, Waits, NoneActive, ActiveDay, IsActive
<1>5. WanderGoesOn BY <1>1 DEF WanderGoesOn
<1>6. \A r \in Requests : request[r] = "running" => holder' = Replying(r)
  BY <1>1 DEF Rows, UsersFit
<1> QED BY <1>1, <1>3, <1>4, <1>5, <1>6, Quietly

-----------------------------------------------------------------------------
(* The background *)

LEMMA WanderStartsFits ==
  ASSUME LocalInv, WanderStarts
  PROVE  LocalInv' /\ Frozen
<1> USE DEF LocalInv
<1>1. /\ Unlocked /\ ~OpenRaises(days) /\ days' = Opened(days)
      /\ wander' = [Off EXCEPT !.at = "idle"]
      /\ UNCHANGED <<today, late, reservation, status, messages, request, acts, captured,
                     holder, sentinel>>
  BY DEF WanderStarts
<1>2. days \in [Days -> DayStates] /\ today <= today' /\ today \in Days
  BY <1>1 DEF TypeOK, DayStates, Days
<1>3. /\ Opened(days) \in [Days -> DayStates] /\ Follow(Opened(days))
      /\ \E d \in Days : Opened(days)[d] = "open"
      /\ \A d \in Days : days[d] # "none" => Opened(days)[d] = days[d]
      /\ \A d \in Days : Opened(days)[d] = "closed" => days[d] = "closed"
  BY <1>1, <1>2, OpenedFollows DEF Rows, DaysFit
<1> HIDE DEF Opened
<1>4. DaysGoOn /\ NoneCloses BY <1>1, <1>2, <1>3 DEF DaysGoOn, NoneCloses
<1>5. HolderFits' BY <1>1, FreeFits DEF Unlocked
<1>6. wander' \in Wanders /\ wander'.at = "idle"
  <2>1. Off \in Wanders /\ Off.at = "off" BY StoppedTyped DEF Off
  <2> QED BY <1>1, <2>1 DEF Wanders
<1>7. WanderFits' BY <1>1, <1>3, <1>6 DEF WanderFits, NoneActive
<1>8. TypeOK' BY <1>1, <1>4, <1>6 DEF TypeOK, DaysGoOn, DayStates
<1>9. \A q \in Requests : request[q] # "running" BY <1>1, NoneRunning DEF Unlocked, Free
<1>10. Rows' BY <1>1, <1>4, <1>9, RowsKept
<1>11. ActsFit' BY <1>1, <1>4, ActsKept
<1>12. Frozen BY <1>1, <1>4, FrozenKept
<1> QED BY <1>5, <1>7, <1>8, <1>10, <1>11, <1>12

(* Only the volatile state of the wander or the sentinel moves. *)
LEMMA BesideFits ==
  ASSUME LocalInv,
         WanderPauses \/ WanderEnds \/ SentinelObserves \/ SentinelGoesOn \/ SentinelGivesUp
  PROVE  LocalInv' /\ Frozen
<1> DEFINE Apart ==
      /\ SameTables /\ UNCHANGED <<today, late, reservation, status, holder>>
      /\ wander' \in Wanders /\ WanderGoesOn /\ sentinel' \in Sentinels
<1> USE DEF LocalInv
<1>1. Apart
  <2>1. CASE WanderPauses
    <3>1. CASE wander' = Off
      <4>1. wander' \in Wanders /\ WanderGoesOn BY <3>1, WanderStoppedGoesOn
      <4> QED BY <2>1, <4>1 DEF WanderPauses, SameTables, TypeOK
    <3>2. CASE wander' = [wander EXCEPT !.at = "idle", !.a = 0]
      <4>0. 0 \in 0..MaxActs BY LocalAssumption
      <4>1. wander' \in Wanders /\ wander'.at = "idle" BY <3>2, <4>0, WanderMoves
      <4>2. wander.at = "act" BY <2>1 DEF WanderPauses
      <4>3. WanderGoesOn BY <4>1, <4>2 DEF WanderGoesOn
      <4> QED BY <2>1, <4>1, <4>3 DEF WanderPauses, SameTables, TypeOK
    <3> QED BY <2>1, <3>1, <3>2 DEF WanderPauses
  <2>2. CASE WanderEnds
    <3>1. wander' \in Wanders /\ WanderGoesOn BY <2>2, WanderStoppedGoesOn DEF WanderEnds
    <3> QED BY <2>2, <3>1 DEF WanderEnds, SameTables, TypeOK
  <2>3. ASSUME SentinelObserves \/ SentinelGoesOn \/ SentinelGivesUp PROVE Apart
    <3>1. SameTables /\ UNCHANGED <<today, late, reservation, status, holder, wander>>
      BY <2>3 DEF SentinelObserves, SentinelGoesOn, SentinelGivesUp, SameTables
    <3>2. wander' \in Wanders /\ WanderGoesOn BY <3>1 DEF WanderGoesOn, TypeOK
    <3>3. sentinel' \in Sentinels
      <4>1. CASE SentinelObserves
        <5>1. LastUser \in 0..MaxRequests
          <6>1. CASE UserMessages = {} BY <6>1, LocalAssumption DEF LastUser
          <6>2. CASE UserMessages # {}
            <7>1. PICK i \in UserMessages :
                    i = CHOOSE k \in UserMessages : \A l \in UserMessages : l <= k
              BY <6>2 DEF Rows, UsersFit
            <7>2. LastUser = messages[i].of BY <6>2, <7>1 DEF LastUser
            <7> QED BY <7>2 DEF Rows, UsersFit, Requests
          <6> QED BY <6>1, <6>2
        <5>2. ActiveDay \in Days
          BY <4>1, ActiveIsLast DEF SentinelObserves, CanPush, Rows
        <5> HIDE DEF LastUser, ActiveDay
        <5> QED BY <4>1, <5>1, <5>2 DEF SentinelObserves, Sentinels, Days
      <4>2. CASE SentinelGoesOn BY <4>2 DEF SentinelGoesOn, TypeOK, Sentinels
      <4>3. CASE SentinelGivesUp
        BY <4>3, LocalAssumption DEF SentinelGivesUp, Quiet, Sentinels
      <4> QED BY <2>3, <4>1, <4>2, <4>3
    <3> QED BY <3>1, <3>2, <3>3
  <2> HIDE DEF Apart
  <2> QED BY <2>1, <2>2, <2>3
<1>2. TypeOK' BY <1>1 DEF TypeOK, SameTables
<1> QED BY <1>1, <1>2, QuietlyBeside

LEMMA WanderBeginsFits ==
  ASSUME LocalInv, NEW a \in Acts, WanderBegins(a)
  PROVE  LocalInv' /\ Frozen
<1> USE DEF LocalInv
<1> DEFINE born == [state |-> "open", born |-> today, day |-> ActiveDay]
<1>1. /\ wander.at = "idle"
      /\ \/ acts[a].state = "open" /\ acts' = acts
         \/ acts[a].state = "none" /\ acts' = [acts EXCEPT ![a] = born]
      /\ wander' = [wander EXCEPT !.at = "act", !.a = a]
      /\ UNCHANGED <<today, late, days, reservation, status, messages, request, captured,
                     holder, sentinel>>
  BY DEF WanderBegins
<1>2. ~NoneActive BY <1>1 DEF WanderFits
<1>3. ActiveDay \in Days /\ days[ActiveDay] = "open" /\ ActiveDay <= today
  BY <1>2, ActiveIsLast DEF Rows
<1>4. DaysGoOn /\ NoneActive' = NoneActive BY <1>1, SameDays DEF Rows
<1> HIDE DEF ActiveDay
<1>5. /\ born.state = "open" /\ born.day = ActiveDay /\ born.born = today
      /\ born \in ActRows
  BY <1>3 DEF ActRows, TypeOK, Days
<1> HIDE DEF born
<1>6. acts' \in [Acts -> ActRows] /\ acts'[a].state # "none"
      /\ \A c \in Acts : acts'[c] = acts[c] \/ acts'[c] = born
  BY <1>1, <1>5 DEF TypeOK
<1>7. wander' \in Wanders /\ wander'.at = "act" /\ wander'.a = a
  <2>1. a \in 0..MaxActs BY DEF Acts
  <2> QED BY <1>1, <2>1, WanderMoves
<1>8. WanderFits' BY <1>2, <1>4, <1>6, <1>7 DEF WanderFits
<1>9. ActsFit' BY <1>1, <1>3, <1>5, <1>6 DEF ActsFit
<1>10. TypeOK' BY <1>1, <1>6, <1>7 DEF TypeOK
<1>11. HolderFits' BY <1>1, HolderKept DEF Rows
<1>12. \A q \in Requests : request[q] = "running" => holder' = Replying(q)
  BY <1>1 DEF Rows, UsersFit
<1>13. Rows' BY <1>1, <1>4, <1>12, RowsKept
<1>14. Frozen BY <1>1, <1>4, FrozenKept
<1> QED BY <1>8, <1>9, <1>10, <1>11, <1>13, <1>14

LEMMA WanderSettlesFits ==
  ASSUME LocalInv, NEW a \in Acts, WanderSettles(a)
  PROVE  LocalInv' /\ Frozen
<1> USE DEF LocalInv
<1>1. /\ wander.at = "act" /\ wander.a = a
      /\ acts' = [acts EXCEPT ![a].state = "ended"]
      /\ wander' = [wander EXCEPT !.at = "settled"]
      /\ UNCHANGED <<today, late, days, reservation, status, messages, request, captured,
                     holder, sentinel>>
  BY DEF WanderSettles
<1>2. ~NoneActive /\ acts[a].state # "none" BY <1>1 DEF WanderFits
<1>3. DaysGoOn /\ NoneActive' = NoneActive BY <1>1, SameDays DEF Rows
<1>4. /\ acts' \in [Acts -> ActRows]
      /\ \A c \in Acts : /\ acts'[c].day = acts[c].day /\ acts'[c].born = acts[c].born
                         /\ acts'[c].state = IF c = a THEN "ended" ELSE acts[c].state
  BY <1>1 DEF TypeOK, ActRows
<1>5. wander' \in Wanders /\ wander'.at = "settled" /\ wander'.a = a
  BY <1>1 DEF TypeOK, Wanders
<1>6. WanderFits' BY <1>2, <1>3, <1>4, <1>5 DEF WanderFits
<1>7. ActsFit' BY <1>1, <1>2, <1>4 DEF ActsFit
<1>8. TypeOK' BY <1>1, <1>4, <1>5 DEF TypeOK
<1>9. HolderFits' BY <1>1, HolderKept DEF Rows
<1>10. \A q \in Requests : request[q] = "running" => holder' = Replying(q)
  BY <1>1 DEF Rows, UsersFit
<1>11. Rows' BY <1>1, <1>3, <1>10, RowsKept
<1>12. Frozen BY <1>1, <1>3, FrozenKept
<1> QED BY <1>6, <1>7, <1>8, <1>9, <1>11, <1>12

LEMMA WanderTurnsFits ==
  ASSUME LocalInv, NEW a \in Acts, WanderTurns(a)
  PROVE  LocalInv' /\ Frozen
<1> USE DEF LocalInv
<1> DEFINE m == Message("wander", a, ActiveDay)
<1>1. /\ wander.at = "settled" /\ wander.a = a
      /\ captured' = IF captured[a] = 0 /\ ~NoneActive
                       THEN [captured EXCEPT ![a] = ActiveDay] ELSE captured
      /\ wander' = [wander EXCEPT !.at = "idle", !.a = 0]
      /\ UNCHANGED <<today, late, days, reservation, status, request, acts, holder,
                     sentinel>>
  BY DEF WanderTurns
<1>2. messages' = messages \/ (Unlocked /\ messages' = Append(messages, m))
  BY DEF WanderTurns, MayPush, CanPush
<1>3. ~NoneActive BY <1>1 DEF WanderFits
<1>4. ActiveDay \in Days /\ days[ActiveDay] = "open" BY <1>3, ActiveIsLast DEF Rows
<1>5. DaysGoOn /\ NoneActive' = NoneActive BY <1>1, SameDays DEF Rows
<1> HIDE DEF ActiveDay
<1>6. captured' \in [Acts -> 0..MaxDay]
      /\ \A c \in Acts : captured'[c] # captured[c] =>
           captured[c] = 0 /\ captured'[c] = ActiveDay
  BY <1>1, <1>4 DEF TypeOK, Days
<1>7. ActsFit' BY <1>1, <1>6 DEF ActsFit, Days
<1>8. EvidenceFrozen BY <1>4, <1>6 DEF EvidenceFrozen, Days
<1>9. wander' \in Wanders /\ wander'.at = "idle"
  <2>1. 0 \in 0..MaxActs BY LocalAssumption
  <2> QED BY <1>1, <2>1, WanderMoves
<1>10. WanderFits' BY <1>3, <1>5, <1>9 DEF WanderFits
<1>11. m \in MessageRows /\ m.day = ActiveDay /\ m.kind = "wander"
  BY <1>4 DEF Message, MessageRows, Acts
<1> HIDE DEF m
<1>12. Rows' /\ MessagesFrozen /\ messages' \in Seq(MessageRows)
  <2>1. CASE messages' = messages
    <3>1. \A q \in Requests : request[q] = "running" => holder' = Replying(q)
      BY <1>1 DEF Rows, UsersFit
    <3>2. Rows' BY <1>1, <1>5, <2>1, <3>1, RowsKept
    <3> QED BY <2>1, <3>2 DEF MessagesFrozen, RowsOf, TypeOK
  <2>2. CASE Unlocked /\ messages' = Append(messages, m)
    <3>1. Rows' /\ MessagesFrozen BY <1>1, <1>3, <1>11, <2>2, PushFits
    <3>2. messages' \in Seq(MessageRows) BY <1>11, <2>2, Appending
    <3> QED BY <3>1, <3>2
  <2> QED BY <1>2, <2>1, <2>2
<1>13. TypeOK' BY <1>1, <1>6, <1>9, <1>12 DEF TypeOK
<1>14. HolderFits'
  <2>1. CASE messages' = messages BY <1>1, <2>1, HolderKept DEF Rows
  <2>2. CASE Unlocked BY <1>1, <2>2, FreeFits DEF Unlocked
  <2> QED BY <1>2, <2>1, <2>2
<1>15. Frozen BY <1>1, <1>8, <1>12 DEF Frozen, EvidenceFrozen, MessagesFrozen
<1> QED BY <1>7, <1>10, <1>12, <1>13, <1>14, <1>15

LEMMA SentinelAppendsFits ==
  ASSUME LocalInv, SentinelAppends
  PROVE  LocalInv' /\ Frozen
<1> USE DEF LocalInv
<1> DEFINE m == Message("sentinel", sentinel.of, sentinel.day)
<1>1. /\ Unlocked /\ sentinel.of = LastUser /\ ~NoneActive /\ ActiveDay = sentinel.day
      /\ messages' = Append(messages, m) /\ sentinel' = Quiet
      /\ UNCHANGED <<today, late, days, reservation, status, request, acts, captured,
                     holder, wander>>
  BY DEF SentinelAppends, StillTrue
<1>2. DaysGoOn /\ NoneCloses BY <1>1, SameDays DEF Rows, NoneCloses
<1>3. ActiveDay \in Days BY <1>1, ActiveIsLast DEF Rows
<1> HIDE DEF ActiveDay, LastUser
<1>4. sentinel.of \in Nat BY DEF TypeOK, Sentinels
<1>5. m \in MessageRows /\ m.day = ActiveDay /\ m.kind = "sentinel" /\ m.of = LastUser
  BY <1>1, <1>3, <1>4 DEF Message, MessageRows
<1> HIDE DEF m
<1>6. Rows' /\ MessagesFrozen BY <1>1, <1>5, PushFits
<1>7. messages' \in Seq(MessageRows) BY <1>1, <1>5, Appending
<1>8. HolderFits' BY <1>1, FreeFits DEF Unlocked
<1>9. WanderGoesOn BY <1>1 DEF WanderGoesOn
<1>10. WanderFits' BY <1>1, <1>2, <1>9, WanderKept
<1>11. ActsFit' BY <1>1, <1>2, ActsKept
<1>12. TypeOK' BY <1>1, <1>7, LocalAssumption DEF TypeOK, Quiet, Sentinels
<1>13. Frozen BY <1>1, <1>6 DEF Frozen, MessagesFrozen
<1> QED BY <1>6, <1>8, <1>10, <1>11, <1>12, <1>13

-----------------------------------------------------------------------------
(* The theorems *)

LEMMA InitFits == ASSUME Init PROVE LocalInv
<1> USE DEF Init
<1>1. 0 \in 0..MaxRequests /\ 0 \in 0..MaxDay /\ 0 \in 0..MaxActs
      /\ "none" \in {"none", "chat", "tick", "api"}
  BY LocalAssumption
<1>2. /\ Free \in Holders /\ Off \in Wanders /\ Quiet \in Sentinels
      /\ NoReservation \in Reservations /\ NoAct \in ActRows /\ today \in Days
  BY <1>1, LocalAssumption
  DEF Free, Holders, Off, Wanders, Quiet, Sentinels, NoReservation, Reservations, NoAct,
      ActRows, Days
<1>3. messages \in Seq(MessageRows) /\ Len(messages) = 0 OBVIOUS
<1>4. TypeOK BY <1>1, <1>2, <1>3 DEF TypeOK
<1>5. UserMessages = {} /\ SentinelMessages = {}
  BY <1>3 DEF UserMessages, SentinelMessages
<1>6. Rows
  BY <1>3, <1>5 DEF Rows, DaysFit, Follow, MessagesFit, UsersFit, RepliesFit, SentinelFresh
<1>7. HolderFits BY DEF HolderFits, Free
<1>8. WanderFits BY DEF WanderFits, Off
<1>9. ActsFit BY DEF ActsFit, NoAct
<1> QED BY <1>4, <1>6, <1>7, <1>8, <1>9 DEF LocalInv

LEMMA NextFits == ASSUME LocalInv, Next PROVE LocalInv' /\ Frozen
<1>1. CASE Foreground
  <2>1. ASSUME NEW r \in Requests,
               ChatEnters(r) \/ ChatCloses(r) \/ MessageBegins(r) \/ ReplyArrives(r)
                 \/ ReplyFails(r)
        PROVE  LocalInv' /\ Frozen
    BY <2>1, ChatEntersFits, ChatClosesFits, MessageBeginsFits, ReplyArrivesFits,
       ReplyFailsFits
  <2>2. ASSUME ApiStopped \/ StopFails PROVE LocalInv' /\ Frozen
    <3>1. /\ holder.at \in {"closing", "stopping"} /\ StopReturned /\ StopSettles
          /\ holder' = Free
          /\ UNCHANGED <<today, late, days, reservation, status, messages, request, wander,
                         sentinel>>
      BY <2>2 DEF ApiStopped, StopFails, Stopping
    <3> QED BY <3>1, GivesUpFits
  <2> QED BY <1>1, <2>1, <2>2, TickEntersFits, TickClosesFits, ApiStopsFits, SettingsFit
          DEF Foreground
<1>2. CASE Background
  <2>1. ASSUME NEW a \in Acts, WanderBegins(a) \/ WanderSettles(a) \/ WanderTurns(a)
        PROVE  LocalInv' /\ Frozen
    BY <2>1, WanderBeginsFits, WanderSettlesFits, WanderTurnsFits
  <2> QED BY <1>2, <2>1, WanderStartsFits, BesideFits, SentinelAppendsFits DEF Background
<1>3. CASE Morning \/ Midnight \/ ReservationDue BY <1>3, SettingsFit
<1>4. CASE Restart BY <1>4, RestartFits
<1> QED BY <1>1, <1>2, <1>3, <1>4 DEF Next

LEMMA StutterFits ==
  ASSUME LocalInv, UNCHANGED localVars
  PROVE  LocalInv' /\ Frozen
<1>1. UNCHANGED <<today, late, days, reservation, status, messages, request, acts,
                  captured, holder, wander, sentinel>>
  BY DEF localVars
<1>2. SameTables BY <1>1 DEF SameTables
<1>3. TypeOK' BY <1>1 DEF LocalInv, TypeOK
<1>4. WanderGoesOn BY <1>1 DEF WanderGoesOn
<1> QED BY <1>1, <1>2, <1>3, <1>4, QuietlyBeside

(* Types and rows fit in every reachable state: the invariant the others rest on. *)
THEOREM LocalInvariant == Spec => []LocalInv
<1>1. Init => LocalInv BY InitFits
<1>2. LocalInv /\ [Next]_localVars => LocalInv' BY NextFits, StutterFits
<1> QED BY <1>1, <1>2, PTL DEF Spec

LEMMA ExchangesFit == ASSUME LocalInv PROVE ExchangesWhole
<1> USE DEF LocalInv
<1>1. Len(messages) \in Nat BY MessageTyped
<1>2. \A i \in UserMessages : i \in 1..Len(messages) BY DEF UserMessages
<1>3. ASSUME NEW i \in UserMessages, NEW j \in UserMessages, messages[i].of = messages[j].of
      PROVE  i = j
  BY <1>2, <1>3 DEF Rows, UsersFit, Requests
<1>4. ASSUME NEW i \in 1..Len(messages), messages[i].kind = "user",
             request[messages[i].of] = "running"
      PROVE  i = Len(messages)
  <2>1. i \in UserMessages BY <1>4 DEF UserMessages
  <2>2. messages[i].of \in Requests BY <2>1 DEF Rows, UsersFit
  <2>3. holder = Replying(messages[i].of) BY <1>4, <2>2 DEF Rows, UsersFit
  <2>4. /\ Len(messages) > 0
        /\ messages[Len(messages)] = Message("user", messages[i].of, ActiveDay)
    BY <2>3 DEF HolderFits, Replying
  <2> HIDE DEF ActiveDay
  <2>5. Len(messages) \in UserMessages /\ messages[Len(messages)].of = messages[i].of
    BY <1>1, <2>4 DEF UserMessages, Message
  <2> QED BY <1>3, <2>1, <2>5
<1> QED BY <1>3, <1>4 DEF ExchangesWhole, Rows, RepliesFit

(* A reply directly follows its own message on its own day, each message is there
   once, and while its reply is awaited a message is the last. *)
THEOREM ExchangesWholeHolds == Spec => []ExchangesWhole
<1>1. LocalInv => ExchangesWhole BY ExchangesFit
<1> QED BY <1>1, LocalInvariant, PTL

(* The sentinel never speaks past a message it has not read. *)
THEOREM SentinelFreshHolds == Spec => []SentinelFresh
<1>1. LocalInv => SentinelFresh BY DEF LocalInv, Rows
<1> QED BY <1>1, LocalInvariant, PTL

(* When a day is closed, the activities begun on it have ended and are its evidence. *)
THEOREM EvidenceCompleteHolds == Spec => []EvidenceComplete
<1>1. LocalInv => EvidenceComplete
  BY DEF LocalInv, ActsFit, EvidenceComplete, TypeOK, ActRows
<1> QED BY <1>1, LocalInvariant, PTL

(* One day is open at a time, the last there is, and messages follow the days. *)
THEOREM DaysInOrderHolds == Spec => []DaysInOrder
<1>1. LocalInv => DaysInOrder
  BY DEF LocalInv, Rows, DaysFit, Follow, MessagesFit, DaysInOrder
<1> QED BY <1>1, LocalInvariant, PTL

(* Nothing is added to a closed day, and it is not opened again. *)
THEOREM ClosedDaysFrozenHolds == Spec => ClosedDaysFrozen
<1>1. LocalInv /\ [Next]_localVars => [Frozen]_localVars BY NextFits, StutterFits
<1>2. Frozen <=> \A d \in Days : days[d] = "closed" =>
       /\ days'[d] = "closed"
       /\ RowsOf(d)' = RowsOf(d)
       /\ \A a \in Acts : captured[a] = d <=> captured'[a] = d
  BY DEF Frozen
<1> QED BY <1>1, <1>2, LocalInvariant, PTL DEF Spec, ClosedDaysFrozen
=============================================================================
