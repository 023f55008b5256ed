------------------------------- MODULE LocalDay -------------------------------
(***************************************************************************)
(* The local host (local_app): one person, one conversation.  Chat requests, *)
(* the lifecycle of the active day, the background wander and the sentinel  *)
(* write to one message store; one asyncio lock, chat.lock, is held by the  *)
(* foreground across its awaits, and the others look at it before they push. *)
(*                                                                          *)
(* days, reservation, status, messages, request, acts and captured are      *)
(* SQLite rows; holder, wander and sentinel die with the process.  Between  *)
(* two awaits nothing else of the process runs, so a step here goes from    *)
(* one await to the next.                                                   *)
(***************************************************************************)
EXTENDS Integers, Sequences, FiniteSets

CONSTANTS
  MaxDay,       \* bound: calendar dates
  MaxRequests,  \* bound: chat requests, in the order they are first sent
  MaxActs,      \* bound: wander activities, in the order of their creation
  MaxSentinels, \* bound: messages of the sentinel
  MayRestart,   \* may the process die and be started again?
  TornWrites    \* may it die between two saves of one handler?

ASSUME LocalAssumption ==
  /\ MaxDay \in Nat \ {0} /\ MaxRequests \in Nat /\ MaxActs \in Nat
  /\ MaxSentinels \in Nat /\ MayRestart \in BOOLEAN /\ TornWrites \in BOOLEAN

Days == 1..MaxDay
Requests == 1..MaxRequests
Acts == 1..MaxActs

VARIABLES
  today,        \* the calendar date
  late,         \* has the clock passed day_change_hour?
  days,         \* local_days
  reservation,  \* the setting day_reservation
  status,       \* the setting user_status, as far as can_push tells it apart
  messages,     \* conversation_messages, oldest first
  request,      \* chat_requests
  acts,         \* wander_activities, and under which active day each began
  captured,     \* local_module_events: the day an activity is evidence of
  holder,       \* volatile: who holds chat.lock, and what it awaits
  wander,       \* volatile: the wander task, and Wander.stopping
  sentinel      \* volatile: the sentinel's tick, and what it has read

localVars == <<today, late, days, reservation, status, messages, request, acts,
               captured, holder, wander, sentinel>>

-----------------------------------------------------------------------------
(* Rows *)

NoReservation == [state |-> "none", day |-> 0]
Reservations == [state : {"none", "set", "due"}, day : 0..MaxDay]

MessageRows ==
  [kind : {"user", "reply", "wander", "sentinel"}, of : Nat, day : Days]
Message(kind, of, d) == [kind |-> kind, of |-> of, day |-> d]

ActRows == [state : {"none", "open", "ended"}, born : 0..MaxDay, day : 0..MaxDay]
NoAct == [state |-> "none", born |-> 0, day |-> 0]

(* The holder of chat.lock awaits wander.stop in a close or before a message, or
   the chat model.  day is the day a close is for. *)
Free == [who |-> "none", at |-> "none", r |-> 0, day |-> 0, asleep |-> FALSE]
Holders == [who : {"none", "chat", "tick", "api"},
            at : {"none", "closing", "stopping", "model"},
            r : 0..MaxRequests, day : 0..MaxDay, asleep : BOOLEAN]
Closing(who, r, d, asleep) ==
  [who |-> who, at |-> "closing", r |-> r, day |-> d, asleep |-> asleep]
Stopping(who, r) ==
  [who |-> who, at |-> "stopping", r |-> r, day |-> 0, asleep |-> FALSE]
Replying(r) == [who |-> "chat", at |-> "model", r |-> r, day |-> 0, asleep |-> FALSE]

Off == [at |-> "off", a |-> 0, stopping |-> FALSE]
Wanders == [at : {"off", "idle", "act", "settled"}, a : 0..MaxActs, stopping : BOOLEAN]

Quiet == [at |-> "none", of |-> 0, day |-> 0]
Sentinels == [at : {"none", "observe", "write", "wait"}, of : 0..MaxRequests,
              day : 0..MaxDay]

(* DayStore.active(): the open day, the latest if there are several. *)
IsActive(d) == days[d] = "open" /\ \A c \in Days : c > d => days[c] # "open"
NoneActive == \A d \in Days : days[d] # "open"
ActiveDay == IF NoneActive THEN 0 ELSE CHOOSE d \in Days : IsActive(d)

Unlocked == holder = Free

(* The newest user message: which request it is of. *)
UserMessages == {i \in 1..Len(messages) : messages[i].kind = "user"}
LastUser == IF UserMessages = {} THEN 0
            ELSE messages[CHOOSE i \in UserMessages : \A j \in UserMessages : j <= i].of

(* Lifecycle.can_push *)
CanPush == ~NoneActive /\ status = "awake" /\ Unlocked

Overdue == ~NoneActive /\ ActiveDay < today /\ late

Init ==
  /\ today = 1 /\ late \in BOOLEAN
  /\ days = [d \in Days |-> "none"]
  /\ reservation = NoReservation
  /\ status = "awake"
  /\ messages = <<>>
  /\ request = [r \in Requests |-> "none"]
  /\ acts = [a \in Acts |-> NoAct]
  /\ captured = [a \in Acts |-> 0]
  /\ holder = Free
  /\ wander = Off
  /\ sentinel = Quiet

-----------------------------------------------------------------------------
(* Wander.stop and wander_events: the foreground awaits the wander task, settles
   what is still open and captures what the active day has not yet captured *)

(* How many of the k saves of a handler reach the disk, and the process after. *)
Saves(k) == IF TornWrites THEN 1..k ELSE {k}
Left(all, holderThen, wanderThen) ==
  IF all THEN holder' = holderThen /\ wander' = wanderThen /\ sentinel' = sentinel
         ELSE holder' = Free /\ wander' = Off /\ sentinel' = Quiet

(* Mutant: the loop is never told to stop. *)
WanderNotTold == wander

WanderStopped ==
  IF wander.at = "off" THEN wander ELSE [wander EXCEPT !.stopping = TRUE]

StopReturned == wander.at = "off"

ActsStopped ==
  [a \in Acts |-> IF acts[a].state = "open" THEN [acts[a] EXCEPT !.state = "ended"]
                                            ELSE acts[a]]

(* capture_open_day goes through the activities created since the day's date. *)
InRange(a, d) == acts[a].state # "none" /\ acts[a].born >= d

(* register_event refuses an identity that is evidence of another day. *)
Conflict(a, d) == InRange(a, d) /\ captured[a] \notin {0, d}
CaptureRaises(d) == \E a \in Acts : Conflict(a, d)

(* Mutant: capture_open_day forgets the activities it finds. *)
CapturedByNone(d) == captured

CapturedBy(d) ==
  [a \in Acts |-> IF /\ captured[a] = 0
                     /\ InRange(a, d)
                     /\ \A c \in Acts : c < a => ~Conflict(c, d)
                    THEN d ELSE captured[a]]

StopSettles ==
  /\ acts' = ActsStopped
  /\ captured' = IF NoneActive THEN captured ELSE CapturedBy(ActiveDay)
StopRaises == ~NoneActive /\ CaptureRaises(ActiveDay)

-----------------------------------------------------------------------------
(* Chat.send *)

(* Lifecycle.active_date, when the days are as in then: it opens today's when
   none is open, and raises when today's is closed already. *)
Opened(then) ==
  IF \E d \in Days : then[d] = "open" THEN then ELSE [then EXCEPT ![today] = "open"]

OpenRaises(then) ==
  then[today] = "closed" /\ \A d \in Days : then[d] # "open"

(* A message takes the lock.  before_message first closes a day whose reservation
   is due, else drops the reservation and closes one that is overdue.  Whoever
   slept is back; a bath goes on. *)
ChatEnters(r) ==
  /\ Unlocked
  /\ request[r] = "none"
  /\ \A q \in Requests : q < r => request[q] # "none"
  /\ IF reservation.state = "due" /\ ~NoneActive
       THEN /\ holder' = Closing("chat", r, ActiveDay, TRUE)
            /\ wander' = WanderStopped
            /\ UNCHANGED <<days, reservation, status, sentinel>>
       ELSE /\ reservation' = NoReservation
            /\ IF Overdue
                 THEN /\ holder' = Closing("chat", r, ActiveDay, FALSE)
                      /\ wander' = WanderStopped
                      /\ UNCHANGED <<days, status, sentinel>>
                 ELSE IF OpenRaises(days)
                   THEN UNCHANGED <<days, status, holder, wander, sentinel>>
                   ELSE \E saved \in Saves(3) :
                          /\ days' = IF saved >= 2 THEN Opened(days) ELSE days
                          /\ status' \in IF saved = 3 THEN {"awake", status} ELSE {status}
                          /\ Left(saved = 3, Stopping("chat", r), WanderStopped)
  /\ UNCHANGED <<today, late, messages, request, acts, captured>>

(* Lifecycle.close once the wander has stopped: the day, the reservation, the
   status; then the rest of before_message. *)
ChatCloses(r) ==
  /\ holder.at = "closing" /\ holder.who = "chat" /\ holder.r = r
  /\ StopReturned /\ ~StopRaises
  /\ StopSettles
  /\ LET then == [days EXCEPT ![holder.day] = "closed"]
         raises == OpenRaises(then)
     IN \E saved \in Saves(IF raises THEN 3 ELSE 5) :
          /\ days' = IF saved >= 4 THEN Opened(then) ELSE then
          /\ reservation' = IF saved >= 2 THEN NoReservation ELSE reservation
          /\ status' \in IF saved = 5 THEN IF holder.asleep THEN {"awake"} ELSE {"awake", status}
                        ELSE IF saved >= 3 /\ holder.asleep THEN {"asleep"} ELSE {status}
          /\ Left(saved = (IF raises THEN 3 ELSE 5),
                  IF raises THEN Free ELSE Stopping("chat", r), wander)
  /\ UNCHANGED <<today, late, messages, request>>

(* begin_request: the message and its request in one transaction; a covenant
   word in it may reserve the end of the day. *)
MessageBegins(r) ==
  /\ holder = Stopping("chat", r)
  /\ StopReturned /\ ~StopRaises
  /\ StopSettles
  /\ messages' = Append(messages, Message("user", r, ActiveDay))
  /\ request' = [request EXCEPT ![r] = "running"]
  /\ reservation' \in {reservation, [state |-> "set", day |-> ActiveDay]}
  /\ holder' = Replying(r)
  /\ UNCHANGED <<today, late, days, status, wander, sentinel>>

(* finish_request: the reply and the request in one transaction. *)
ReplyArrives(r) ==
  /\ holder = Replying(r)
  /\ messages' = Append(messages, Message("reply", r, ActiveDay))
  /\ request' = [request EXCEPT ![r] = "complete"]
  /\ holder' = Free
  /\ UNCHANGED <<today, late, days, reservation, status, acts, captured, wander,
                 sentinel>>

(* The model fails, answers nothing, or the client goes away. *)
ReplyFails(r) ==
  /\ holder = Replying(r)
  /\ request' = [request EXCEPT ![r] = "failed"]
  /\ holder' = Free
  /\ UNCHANGED <<today, late, days, reservation, status, messages, acts, captured,
                 wander, sentinel>>

-----------------------------------------------------------------------------
(* Lifecycle.tick and the lifecycle routes *)

(* Why the day would be closed now: its reservation, which puts the user to bed,
   or the rollover, which does not. *)
CloseReasons ==
  IF NoneActive THEN {}
  ELSE IF reservation.state = "due" THEN {TRUE}
  ELSE IF Overdue THEN {FALSE} ELSE {}

TickEnters ==
  /\ Unlocked
  /\ \E asleep \in CloseReasons : holder' = Closing("tick", 0, ActiveDay, asleep)
  /\ wander' = WanderStopped
  /\ UNCHANGED <<today, late, days, reservation, status, messages, request, acts,
                 captured, sentinel>>

TickCloses ==
  /\ holder.at = "closing" /\ holder.who = "tick"
  /\ StopReturned /\ ~StopRaises
  /\ StopSettles
  /\ \E saved \in Saves(3) :
       /\ days' = [days EXCEPT ![holder.day] = "closed"]
       /\ reservation' = IF saved >= 2 THEN NoReservation ELSE reservation
       /\ status' = IF saved = 3 /\ holder.asleep THEN "asleep" ELSE status
       /\ Left(saved = 3, Free, wander)
  /\ UNCHANGED <<today, late, messages, request>>

(* Stopping the wander, or putting the user to bed, ends in wander.stop; the
   first also drops the reservation. *)
ApiStops ==
  /\ Unlocked
  /\ reservation' \in {reservation, NoReservation}
  /\ holder' = Stopping("api", 0)
  /\ wander' = WanderStopped
  /\ UNCHANGED <<today, late, days, status, messages, request, acts, captured,
                 sentinel>>

ApiStopped ==
  /\ holder = Stopping("api", 0)
  /\ StopReturned /\ ~StopRaises
  /\ StopSettles
  /\ holder' = Free
  /\ UNCHANGED <<today, late, days, reservation, status, messages, request, wander,
                 sentinel>>

(* The capture raises: whoever awaited the stop gives the lock up, and neither
   closes a day nor accepts a message. *)
StopFails ==
  /\ holder.at \in {"closing", "stopping"}
  /\ StopReturned /\ StopRaises
  /\ StopSettles
  /\ holder' = Free
  /\ UNCHANGED <<today, late, days, reservation, status, messages, request, wander,
                 sentinel>>

(* reserve: not before the date of the active day has passed. *)
ApiReserves ==
  /\ Unlocked
  /\ ~NoneActive
  /\ reservation' = [state |-> "set", day |-> ActiveDay]
  /\ UNCHANGED <<today, late, days, status, messages, request, acts, captured,
                 holder, wander, sentinel>>

ApiCancels ==
  /\ Unlocked
  /\ reservation' = NoReservation
  /\ UNCHANGED <<today, late, days, status, messages, request, acts, captured,
                 holder, wander, sentinel>>

(* The route sets the status without the lock. *)
SetStatus ==
  /\ status' \in {"awake", "asleep"} \ {status}
  /\ UNCHANGED <<today, late, days, reservation, messages, request, acts, captured,
                 holder, wander, sentinel>>

-----------------------------------------------------------------------------
(* The wander task *)

(* By hand, which opens a day when none is open, or by the lifecycle when the
   user has been idle. *)
WanderStarts ==
  /\ Unlocked
  /\ wander = Off
  /\ ~OpenRaises(days)
  /\ days' = Opened(days)
  /\ wander' = [Off EXCEPT !.at = "idle"]
  /\ UNCHANGED <<today, late, reservation, status, messages, request, acts, captured,
                 holder, sentinel>>

(* A tick of the runner goes on with the open activity or creates the next. *)
WanderBegins(a) ==
  /\ wander.at = "idle" /\ ~wander.stopping
  /\ \/ acts[a].state = "open" /\ acts' = acts
     \/ /\ acts[a].state = "none"
        /\ \A c \in Acts : c < a => acts[c].state = "ended"
        /\ acts' = [acts EXCEPT ![a] = [state |-> "open", born |-> today,
                                        day |-> ActiveDay]]
  /\ wander' = [wander EXCEPT !.at = "act", !.a = a]
  /\ UNCHANGED <<today, late, days, reservation, status, messages, request, captured,
                 holder, sentinel>>

(* The tick ends and leaves the activity open, or raises and ends the task. *)
WanderPauses ==
  /\ wander.at = "act"
  /\ wander' \in {[wander EXCEPT !.at = "idle", !.a = 0], Off}
  /\ UNCHANGED <<today, late, days, reservation, status, messages, request, acts,
                 captured, holder, sentinel>>

WanderSettles(a) ==
  /\ wander.at = "act" /\ wander.a = a
  /\ acts' = [acts EXCEPT ![a].state = "ended"]
  /\ wander' = [wander EXCEPT !.at = "settled"]
  /\ UNCHANGED <<today, late, days, reservation, status, messages, request, captured,
                 holder, sentinel>>

(* Wander.push: not while it is being stopped, and only if can_push. *)
MayPush == ~wander.stopping /\ CanPush

(* The share, composed under an await, is pushed or not; then the loop captures
   the activity. *)
WanderTurns(a) ==
  /\ wander.at = "settled" /\ wander.a = a
  /\ messages' \in {messages} \cup
       (IF MayPush THEN {Append(messages, Message("wander", a, ActiveDay))} ELSE {})
  /\ captured' = IF captured[a] = 0 /\ ~NoneActive
                   THEN [captured EXCEPT ![a] = ActiveDay] ELSE captured
  /\ wander' = [wander EXCEPT !.at = "idle", !.a = 0]
  /\ UNCHANGED <<today, late, days, reservation, status, request, acts, holder,
                 sentinel>>

(* The loop sees stopping between two ticks. *)
WanderEnds ==
  /\ wander.at = "idle" /\ wander.stopping
  /\ wander' = Off
  /\ UNCHANGED <<today, late, days, reservation, status, messages, request, acts,
                 captured, holder, sentinel>>

-----------------------------------------------------------------------------
(* Sentinel.tick: two model calls, and what was read before them *)

SentinelMessages == {i \in 1..Len(messages) : messages[i].kind = "sentinel"}

SentinelObserves ==
  /\ sentinel = Quiet
  /\ CanPush
  /\ Cardinality(SentinelMessages) < MaxSentinels   \* bound
  /\ sentinel' = [at |-> "observe", of |-> LastUser, day |-> ActiveDay]
  /\ UNCHANGED <<today, late, days, reservation, status, messages, request, acts,
                 captured, holder, wander>>

(* After each model call: no new user message, and can_push. *)
SentinelGoesOn ==
  /\ sentinel.of = LastUser
  /\ CanPush
  /\ \/ sentinel.at = "observe" /\ sentinel' = [sentinel EXCEPT !.at = "write"]
     \/ sentinel.at = "write" /\ sentinel' = [sentinel EXCEPT !.at = "wait"]
  /\ UNCHANGED <<today, late, days, reservation, status, messages, request, acts,
                 captured, holder, wander>>

(* Mutant: the last look forgets that the day may have changed. *)
StillTrueButDay == sentinel.of = LastUser /\ status = "awake"

(* Mutant: the last look before the message forgets the conversation. *)
StillTrueButUser == ~NoneActive /\ ActiveDay = sentinel.day /\ status = "awake"

(* Under the lock everything is looked at once more. *)
StillTrue ==
  /\ sentinel.of = LastUser
  /\ ~NoneActive /\ ActiveDay = sentinel.day
  /\ status = "awake"

SentinelAppends ==
  /\ sentinel.at = "wait"
  /\ Unlocked
  /\ StillTrue
  /\ messages' = Append(messages, Message("sentinel", sentinel.of, sentinel.day))
  /\ sentinel' = Quiet
  /\ UNCHANGED <<today, late, days, reservation, status, request, acts, captured,
                 holder, wander>>

(* The model declines, a look finds something changed, or the call fails. *)
SentinelGivesUp ==
  /\ sentinel # Quiet
  /\ sentinel' = Quiet
  /\ UNCHANGED <<today, late, days, reservation, status, messages, request, acts,
                 captured, holder, wander>>

-----------------------------------------------------------------------------
(* The clock and the process *)

Morning ==
  /\ ~late /\ late' = TRUE
  /\ UNCHANGED <<today, days, reservation, status, messages, request, acts, captured,
                 holder, wander, sentinel>>

Midnight ==
  /\ late /\ today < MaxDay
  /\ today' = today + 1 /\ late' = FALSE
  /\ UNCHANGED <<days, reservation, status, messages, request, acts, captured,
                 holder, wander, sentinel>>

ReservationDue ==
  /\ reservation.state = "set" /\ today > reservation.day
  /\ reservation' = [reservation EXCEPT !.state = "due"]
  /\ UNCHANGED <<today, late, days, status, messages, request, acts, captured,
                 holder, wander, sentinel>>

(* Mutant: a restart takes a running request up again. *)
AfterRestartAgain(r) == request[r]

(* Store: a request a dead process was answering is interrupted, not replayed. *)
AfterRestart(r) == IF request[r] = "running" THEN "interrupted" ELSE request[r]

Restart ==
  /\ MayRestart
  /\ request' = [r \in Requests |-> AfterRestart(r)]
  /\ holder' = Free /\ wander' = Off /\ sentinel' = Quiet
  /\ UNCHANGED <<today, late, days, reservation, status, messages, acts, captured>>

Foreground ==
  \/ \E r \in Requests : ChatEnters(r) \/ ChatCloses(r) \/ MessageBegins(r)
                         \/ ReplyArrives(r) \/ ReplyFails(r)
  \/ TickEnters \/ TickCloses \/ ApiStops \/ ApiStopped \/ StopFails
  \/ ApiReserves \/ ApiCancels \/ SetStatus

Background ==
  \/ WanderStarts \/ WanderPauses \/ WanderEnds
  \/ \E a \in Acts : WanderBegins(a) \/ WanderSettles(a) \/ WanderTurns(a)
  \/ SentinelObserves \/ SentinelGoesOn \/ SentinelAppends \/ SentinelGivesUp

Next == Foreground \/ Background \/ Morning \/ Midnight \/ ReservationDue \/ Restart

Spec == Init /\ [][Next]_localVars

(* The clock goes on; the lifecycle ticks every two seconds and finds the lock
   free in one of its ticks; the wander task and the awaited calls return. *)
Fairness ==
  /\ WF_localVars(Morning) /\ WF_localVars(ReservationDue)
  /\ SF_localVars(TickEnters)
  /\ WF_localVars(WanderEnds)
  /\ WF_localVars(WanderPauses \/ \E a \in Acts : WanderSettles(a) \/ WanderTurns(a))
  /\ WF_localVars(\/ TickCloses \/ ApiStopped \/ StopFails
                  \/ \E r \in Requests : \/ ChatCloses(r) \/ MessageBegins(r)
                                         \/ ReplyArrives(r) \/ ReplyFails(r))

FairSpec == Spec /\ Fairness

-----------------------------------------------------------------------------
(* Properties *)

(* The rows and the volatile records have their types. *)
TypeOK ==
  /\ today \in Days /\ late \in BOOLEAN
  /\ days \in [Days -> {"none", "open", "closed"}]
  /\ reservation \in Reservations
  /\ status \in {"awake", "asleep"}
  /\ messages \in Seq(MessageRows)
  /\ request \in [Requests -> {"none", "running", "complete", "failed", "interrupted"}]
  /\ acts \in [Acts -> ActRows]
  /\ captured \in [Acts -> 0..MaxDay]
  /\ holder \in Holders
  /\ wander \in Wanders
  /\ sentinel \in Sentinels

(* The foreground is not disturbed: a reply follows its own message directly, on
   the same active day, whatever the wander, the sentinel or midnight do while
   the model is asked; and each message is there once, with a request beside it. *)
ExchangesWhole ==
  /\ \A i \in 1..Len(messages) : messages[i].kind = "reply" =>
       /\ i > 1
       /\ messages[i - 1] = Message("user", messages[i].of, messages[i].day)
       /\ request[messages[i].of] = "complete"
  /\ \A i, j \in UserMessages : messages[i].of = messages[j].of => i = j
  /\ \A i \in 1..Len(messages) :
       messages[i].kind = "user" /\ request[messages[i].of] = "running"
         => i = Len(messages)

(* The sentinel never speaks past a message it has not read: the conversation it
   was thinking of is the one its message lands in. *)
SentinelFresh ==
  \A i \in SentinelMessages, j \in UserMessages :
    j < i => messages[j].of <= messages[i].of

(* What happened on a day is in its evidence before the day is closed: every
   activity begun on it has ended and was captured for it. *)
EvidenceComplete ==
  \A a \in Acts :
    acts[a].state # "none" /\ days[acts[a].day] = "closed" =>
      acts[a].state = "ended" /\ captured[a] = acts[a].day

(* The days follow one another: one is open at a time, the last one there is,
   and the messages are in the order of their days. *)
DaysInOrder ==
  /\ \A c, d \in Days : c < d /\ days[d] # "none" => days[c] # "open"
  /\ \A i, j \in 1..Len(messages) : i < j => messages[i].day <= messages[j].day

(* A date is immutable once closed: no late reply, share, sentinel message or
   capture adds to its messages or its evidence, and it is not opened again. *)
RowsOf(d) ==
  {<<i, messages[i]>> : i \in {j \in 1..Len(messages) : messages[j].day = d}}
ClosedDaysFrozen ==
  [][\A d \in Days : days[d] = "closed" =>
       /\ days'[d] = "closed"
       /\ RowsOf(d)' = RowsOf(d)
       /\ \A a \in Acts : captured[a] = d <=> captured'[a] = d]_localVars

(* Whoever takes the foreground lock gives it back. *)
LockReleased == ~Unlocked ~> Unlocked

(* A day whose date has passed is closed, at the latest by the rollover hour. *)
DaysRollOver ==
  \A d \in Days : (days[d] = "open" /\ d < today /\ late) ~> days[d] = "closed"
=============================================================================
