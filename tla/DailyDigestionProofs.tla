------------------------- MODULE DailyDigestionProofs -------------------------
(***************************************************************************)
(* Proofs about DailyDigestion, for any number of days and events, any       *)
(* relation between them and any number of disturbances: the model is never  *)
(* asked twice, a completed day is stored, nothing of a changed day is, and   *)
(* the threads are what the receipts accepted.  What Candidates selects (the  *)
(* plan, by SelectSeq) enters nowhere: the commit checks what it relies on.   *)
(***************************************************************************)
EXTENDS DailyDigestion, TLAPS, WellFoundedInduction

-----------------------------------------------------------------------------
(* The inductive invariant *)

(* The records of the digestion, without the plan a settlement holds. *)
WorkRows == [at : {"none", "waits", "encodes", "settles", "done"}, day : 0..MaxDay,
             event : 0..MaxEvent, flagged : BOOLEAN,
             result : {"none", "success", "review", "error"}]
WorkRow(w) == [at |-> w.at, day |-> w.day, event |-> w.event, flagged |-> w.flagged,
               result |-> w.result]
RowsFit ==
  /\ closed \in 0..MaxDay
  /\ jobs \in [Days -> [Stages -> JobStates]]
  /\ digest \in Tasks /\ (digest.at # "none" => digest.day \in Days)
  /\ work = [c \in Callers |-> work[c]]
  /\ \A c \in Callers : /\ WorkRow(work[c]) \in WorkRows
                        /\ work[c].at # "none" => work[c].day \in Days
  /\ encoded \subseteq Events
  /\ receipts = [d \in Days |-> receipts[d]]

(* memory.lock *)
Holds(c) == work[c].at \in {"encodes", "settles"}
LockFits == \A c, k \in Callers : Holds(c) /\ Holds(k) => c = k

(* Unless one was flagged, the batches up to the one being encoded are stored. *)
PlanFits ==
  \A c \in Callers :
    /\ work[c].at = "encodes" =>
         /\ work[c].event \in EventsOf(work[c].day)
         /\ ~work[c].flagged =>
              \A f \in EventsOf(work[c].day) : f < work[c].event => f \in encoded
    /\ work[c].at = "settles" =>
         /\ EventsOf(work[c].day) \subseteq encoded
         /\ work[c].plan.events = EventsOf(work[c].day)

(* All of a day is in the store. *)
InStore(d, stored, rows) ==
  /\ EventsOf(d) \subseteq stored
  /\ rows[d] # NoReceipt /\ rows[d].plan.events = EventsOf(d)

SuccessFits ==
  \A c \in Callers : work[c].at = "done" /\ work[c].result = "success" =>
    InStore(work[c].day, encoded, receipts)

(* The task awaits the encoding of its own day, and its stage says it runs. *)
TaskFits ==
  /\ digest.at = "memory" => work["digest"].day = digest.day
  /\ digest.at \in Stages => jobs[digest.day][digest.at] = "running"

(* Only closed days have jobs, and the task works on one of them. *)
DaysFit ==
  /\ digest.at # "none" => digest.day <= closed
  /\ \A d \in Days, s \in Stages : d > closed => jobs[d][s] = "none"

WorkInv == LockFits /\ PlanFits /\ SuccessFits /\ AsksOnce
JobsInv == TaskFits /\ DaysFit /\ RunningHasTask /\ CompletedIsStored
DigestionInv == RowsFit /\ WorkInv /\ JobsInv

-----------------------------------------------------------------------------
(* Lemmas *)

LEMMA Least ==
  ASSUME NEW S \in SUBSET Nat, S # {}
  PROVE  \E x \in S : \A y \in S : x <= y
<1>1. PICK x \in S : \A y \in S : ~(<<y, x>> \in OpToRel(<, Nat))
  BY NatLessThanWellFounded, WFMin
<1>2. \A y \in S : ~(y < x)
  BY <1>1 DEF OpToRel
<1>3. QED
  BY <1>2

(* The first batch that is not stored. *)
LEMMA FirstUncached ==
  ASSUME NEW d, NEW e, NEW stored, Uncached(d, e, stored) # {}
  PROVE  LET f == CHOOSE f \in Uncached(d, e, stored) :
                    \A g \in Uncached(d, e, stored) : f <= g
         IN  /\ f \in EventsOf(d) /\ f > e /\ f \notin stored
             /\ \A g \in EventsOf(d) : g > e /\ g < f => g \in stored
<1>1. MaxEvent \in Nat
  BY MemoryAssumption
<1>2. Uncached(d, e, stored) \in SUBSET Nat /\ EventsOf(d) \subseteq Nat
  BY <1>1 DEF Uncached, EventsOf, Events
<1>3. \E f \in Uncached(d, e, stored) : \A g \in Uncached(d, e, stored) : f <= g
  BY <1>2, Least
<1> DEFINE f == CHOOSE f \in Uncached(d, e, stored) :
                  \A g \in Uncached(d, e, stored) : f <= g
<1>4. f \in Uncached(d, e, stored) /\ \A g \in Uncached(d, e, stored) : f <= g
  BY <1>3
<1>5. ASSUME NEW g \in EventsOf(d), g > e, g < f PROVE g \in stored
  BY <1>2, <1>4, <1>5 DEF Uncached
<1>6. QED
  BY <1>4, <1>5 DEF Uncached

(* The records of Memory.encode, field by field. *)
LEMMA DoneRow ==
  ASSUME NEW d \in Days, NEW result \in {"success", "review", "error"}
  PROVE  /\ Done(d, result).at = "done" /\ Done(d, result).day = d
         /\ Done(d, result).result = result
         /\ WorkRow(Done(d, result)) \in WorkRows
<1>1. d \in 0..MaxDay /\ 0 \in 0..MaxEvent
  BY MemoryAssumption DEF Days
<1>2. /\ Done(d, result).at = "done"
      /\ Done(d, result).day = d
      /\ Done(d, result).event = 0
      /\ Done(d, result).flagged = FALSE
      /\ Done(d, result).result = result
  BY DEF Done, Idle
<1>3. QED
  BY <1>1, <1>2 DEF WorkRow, WorkRows

LEMMA EncodingRow ==
  ASSUME NEW d \in Days, NEW e \in Events, NEW flagged \in BOOLEAN
  PROVE  /\ Encoding(d, e, flagged).at = "encodes" /\ Encoding(d, e, flagged).day = d
         /\ Encoding(d, e, flagged).event = e /\ Encoding(d, e, flagged).flagged = flagged
         /\ WorkRow(Encoding(d, e, flagged)) \in WorkRows
<1>1. d \in 0..MaxDay /\ e \in 0..MaxEvent
  BY MemoryAssumption DEF Days, Events
<1>2. /\ Encoding(d, e, flagged).at = "encodes"
      /\ Encoding(d, e, flagged).day = d
      /\ Encoding(d, e, flagged).event = e
      /\ Encoding(d, e, flagged).flagged = flagged
      /\ Encoding(d, e, flagged).result = "none"
  BY DEF Encoding, Idle
<1>3. QED
  BY <1>1, <1>2 DEF WorkRow, WorkRows

LEMMA SettlingRow ==
  ASSUME NEW d \in Days, NEW plan
  PROVE  /\ Settling(d, plan).at = "settles" /\ Settling(d, plan).day = d
         /\ Settling(d, plan).plan = plan
         /\ WorkRow(Settling(d, plan)) \in WorkRows
<1>1. d \in 0..MaxDay /\ 0 \in 0..MaxEvent
  BY MemoryAssumption DEF Days
<1>2. /\ Settling(d, plan).at = "settles"
      /\ Settling(d, plan).day = d
      /\ Settling(d, plan).event = 0
      /\ Settling(d, plan).flagged = FALSE
      /\ Settling(d, plan).plan = plan
      /\ Settling(d, plan).result = "none"
  BY DEF Settling, Idle
<1>3. QED
  BY <1>1, <1>2 DEF WorkRow, WorkRows

LEMMA WaitingRow ==
  ASSUME NEW d \in Days
  PROVE  /\ Waiting(d).at = "waits" /\ Waiting(d).day = d
         /\ WorkRow(Waiting(d)) \in WorkRows
<1>1. d \in 0..MaxDay /\ 0 \in 0..MaxEvent
  BY MemoryAssumption DEF Days
<1>2. /\ Waiting(d).at = "waits"
      /\ Waiting(d).day = d
      /\ Waiting(d).event = 0
      /\ Waiting(d).flagged = FALSE
      /\ Waiting(d).result = "none"
  BY DEF Waiting, Idle
<1>3. QED
  BY <1>1, <1>2 DEF WorkRow, WorkRows

LEMMA IdleRow == Idle.at = "none" /\ WorkRow(Idle) \in WorkRows
<1>1. 0 \in 0..MaxDay /\ 0 \in 0..MaxEvent
  BY MemoryAssumption
<1>2. QED
  BY <1>1 DEF Idle, WorkRow, WorkRows

(* What a plan of day d goes on to, when stored are the batches stored so far and
   rows the receipts. *)
Follows(w, d, stored, rows) ==
  /\ w.day = d /\ WorkRow(w) \in WorkRows
  /\ w.at \in {"encodes", "settles", "done"}
  /\ w.at = "encodes" =>
       /\ w.event \in EventsOf(d) /\ w.event \notin stored
       /\ ~w.flagged => \A f \in EventsOf(d) : f < w.event => f \in stored
  /\ w.at = "settles" =>
       /\ EventsOf(d) \subseteq stored /\ w.plan.events = EventsOf(d)
       /\ rows[d] = NoReceipt
  /\ w.at = "done" /\ w.result = "success" => InStore(d, stored, rows)

LEMMA FailureFollows ==
  ASSUME NEW d \in Days, NEW stored, NEW rows, NEW result \in {"review", "error"}
  PROVE  Follows(Done(d, result), d, stored, rows)
BY DoneRow DEF Follows, InStore

LEMMA GoOnFollows ==
  ASSUME RowsFit, NEW c \in Callers, NEW d \in Days, NEW e \in 0..MaxEvent,
         NEW flagged \in BOOLEAN, NEW stored, GoOn(c, d, e, flagged, stored),
         ~flagged => \A f \in EventsOf(d) : f <= e => f \in stored
  PROVE  /\ work' = [work EXCEPT ![c] = work'[c]]
         /\ Follows(work'[c], d, stored, receipts)
<1> DEFINE next == Uncached(d, e, stored)
           plan == PlanFor(d, stored)
           first == CHOOSE f \in next : \A g \in next : f <= g
<1>0. /\ EventsOf(d) \subseteq Events /\ EventsOf(d) \subseteq Nat
      /\ work = [k \in Callers |-> work[k]] /\ e \in Nat
  BY MemoryAssumption DEF EventsOf, Events, RowsFit
<1>1. plan.events = EventsOf(d) \cap stored
  BY DEF PlanFor
<1>2. ASSUME NEW w, work' = [work EXCEPT ![c] = w], Follows(w, d, stored, receipts)
      PROVE  /\ work' = [work EXCEPT ![c] = work'[c]]
             /\ Follows(work'[c], d, stored, receipts)
  <2>1. work'[c] = w
    BY <1>0, <1>2
  <2>2. QED
    BY <1>2, <2>1
<1>3. CASE next = {} /\ flagged
  <2>1. work' = [work EXCEPT ![c] = Done(d, "review")]
    BY <1>3 DEF GoOn
  <2>2. QED
    BY <1>2, <2>1, FailureFollows
<1>4. CASE ~(next = {} /\ flagged) /\ ~Verified(d)
  <2>1. work' = [work EXCEPT ![c] = Done(d, "error")]
    BY <1>4 DEF GoOn
  <2>2. QED
    BY <1>2, <2>1, FailureFollows
<1>5. CASE next # {} /\ Verified(d)
  <2>1. work' = [work EXCEPT ![c] = Encoding(d, first, flagged)]
    BY <1>5 DEF GoOn
  <2>2. /\ first \in EventsOf(d) /\ first > e /\ first \notin stored
        /\ \A g \in EventsOf(d) : g > e /\ g < first => g \in stored
    BY <1>5, FirstUncached
  <2>3. ~flagged => \A f \in EventsOf(d) : f < first => f \in stored
    BY <1>0, <2>2
  <2>4. PICK f \in Events : f = first
    BY <1>0, <2>2
  <2>5. /\ Encoding(d, f, flagged).at = "encodes" /\ Encoding(d, f, flagged).day = d
        /\ Encoding(d, f, flagged).event = f
        /\ Encoding(d, f, flagged).flagged = flagged
        /\ WorkRow(Encoding(d, f, flagged)) \in WorkRows
    BY EncodingRow
  <2>6. Follows(Encoding(d, f, flagged), d, stored, receipts)
    BY <2>2, <2>3, <2>4, <2>5, Zenon DEF Follows
  <2>7. QED
    BY <1>2, <2>1, <2>4, <2>6
<1>6. CASE next = {} /\ ~flagged /\ Verified(d)
  <2>1. EventsOf(d) \subseteq stored
    BY <1>0, <1>6 DEF Uncached
  <2>2. plan.events = EventsOf(d)
    BY <1>1, <2>1
  <2>3. CASE receipts[d] = NoReceipt
    <3>1. work' = [work EXCEPT ![c] = Settling(d, plan)]
      BY <1>6, <2>3 DEF GoOn
    <3>2. Follows(Settling(d, plan), d, stored, receipts)
      BY <2>1, <2>2, <2>3, SettlingRow DEF Follows
    <3>3. QED
      BY <1>2, <3>1, <3>2
  <2>4. CASE receipts[d] # NoReceipt /\ receipts[d].plan = plan
    <3>1. work' = [work EXCEPT ![c] = Done(d, "success")]
      BY <1>6, <2>4 DEF GoOn
    <3>2. Follows(Done(d, "success"), d, stored, receipts)
      BY <2>1, <2>2, <2>4, DoneRow DEF Follows, InStore
    <3>3. QED
      BY <1>2, <3>1, <3>2
  <2>5. CASE receipts[d] # NoReceipt /\ receipts[d].plan # plan
    <3>1. work' = [work EXCEPT ![c] = Done(d, "review")]
      BY <1>6, <2>5 DEF GoOn
    <3>2. QED
      BY <1>2, <3>1, FailureFollows
  <2>6. QED
    BY <2>3, <2>4, <2>5
<1>7. QED
  BY <1>3, <1>4, <1>5, <1>6

-----------------------------------------------------------------------------
(* What the steps do to the jobs and to the encodings *)

(* A step of Memory.encode that stores nothing away again, and leaves the caller
   where its plan leads, keeps the invariant: the other caller has no lock. *)
LEMMA EncodeKeeps ==
  ASSUME DigestionInv, NEW c \in Callers,
         work[c].at # "none", \A k \in Callers : Holds(k) => k = c,
         work' = [work EXCEPT ![c] = work'[c]],
         Follows(work'[c], work[c].day, encoded', receipts'),
         encoded \subseteq encoded', encoded' \subseteq Events,
         receipts' = [d \in Days |-> receipts'[d]],
         \A d \in Days : InStore(d, encoded, receipts) => InStore(d, encoded', receipts'),
         UNCHANGED <<closed, jobs, digest>>
  PROVE  DigestionInv'
<1> DEFINE d == work[c].day
<1>0. /\ d \in Days /\ work = [k \in Callers |-> work[k]]
      /\ \A k \in Callers \ {c} : work'[k] = work[k]
  BY DEF DigestionInv, RowsFit
<1>1. RowsFit'
  <2>1. work' = [k \in Callers |-> work'[k]]
    BY <1>0
  <2>2. \A k \in Callers : /\ WorkRow(work'[k]) \in WorkRows
                           /\ work'[k].at # "none" => work'[k].day \in Days
    BY <1>0 DEF DigestionInv, RowsFit, Follows
  <2>3. QED
    BY <2>1, <2>2 DEF DigestionInv, RowsFit
<1>2. LockFits'
  BY <1>0 DEF LockFits, Holds
<1>3. PlanFits'
  <2>1. ASSUME NEW k \in Callers, k # c
        PROVE  work'[k].at \notin {"encodes", "settles"}
    BY <1>0, <2>1 DEF Holds
  <2>2. /\ work'[c].at = "encodes" =>
             /\ work'[c].event \in EventsOf(work'[c].day)
             /\ ~work'[c].flagged =>
                  \A f \in EventsOf(work'[c].day) : f < work'[c].event => f \in encoded'
        /\ work'[c].at = "settles" =>
             /\ EventsOf(work'[c].day) \subseteq encoded'
             /\ work'[c].plan.events = EventsOf(work'[c].day)
    BY DEF Follows
  <2>3. QED
    BY <2>1, <2>2 DEF PlanFits
<1>4. SuccessFits'
  <2>1. ASSUME NEW k \in Callers, work'[k].at = "done", work'[k].result = "success"
        PROVE  InStore(work'[k].day, encoded', receipts')
    <3>1. CASE k = c
      BY <2>1, <3>1 DEF Follows, InStore
    <3>2. CASE k # c
      <4>1. work'[k] = work[k] /\ work[k].day \in Days
        BY <1>0, <2>1, <3>2 DEF DigestionInv, RowsFit
      <4>2. InStore(work[k].day, encoded, receipts)
        BY <2>1, <4>1 DEF DigestionInv, WorkInv, SuccessFits
      <4>3. InStore(work[k].day, encoded', receipts')
        BY <4>1, <4>2 DEF InStore
      <4>4. QED
        BY <4>1, <4>3 DEF InStore
    <3>3. QED
      BY <3>1, <3>2
  <2>2. QED
    BY <2>1 DEF SuccessFits, InStore
<1>5. AsksOnce'
  <2>1. ASSUME NEW k \in Callers, k # c
        PROVE  work'[k].at \notin {"encodes", "settles"}
    BY <1>0, <2>1 DEF Holds
  <2>2. /\ work'[c].at = "encodes" => work'[c].event \notin encoded'
        /\ work'[c].at = "settles" => receipts'[work'[c].day] = NoReceipt
    BY DEF Follows
  <2>3. QED
    BY <2>1, <2>2 DEF AsksOnce
<1>6. TaskFits' /\ DaysFit' /\ RunningHasTask'
  <2>1. digest'.at = "memory" => work'["digest"].day = digest'.day
    <3>1. CASE c = "digest"
      BY <3>1 DEF DigestionInv, JobsInv, TaskFits, Follows
    <3>2. CASE c # "digest"
      BY <1>0, <3>2 DEF DigestionInv, JobsInv, TaskFits, Callers
    <3>3. QED
      BY <3>1, <3>2
  <2>2. QED
    BY <2>1 DEF DigestionInv, JobsInv, TaskFits, DaysFit, RunningHasTask
<1>7. CompletedIsStored'
  BY DEF DigestionInv, JobsInv, CompletedIsStored, InStore
<1>8. QED
  BY <1>1, <1>2, <1>3, <1>4, <1>5, <1>6, <1>7 DEF DigestionInv, WorkInv, JobsInv

(* The encoding that fails, or that its caller ends. *)
LEMMA FailureKeeps ==
  ASSUME DigestionInv, NEW c \in Callers, Holds(c), NEW result \in {"review", "error"},
         work' = [work EXCEPT ![c] = Done(work[c].day, result)],
         UNCHANGED <<memoryVars, closed, jobs, digest>>
  PROVE  DigestionInv'
<1>1. /\ work[c].at # "none" /\ work[c].day \in Days
      /\ \A k \in Callers : Holds(k) => k = c
  BY DEF DigestionInv, RowsFit, WorkInv, LockFits, Holds
<1>2. work'[c] = Done(work[c].day, result)
  BY DEF DigestionInv, RowsFit
<1>3. Follows(work'[c], work[c].day, encoded', receipts')
  BY <1>1, <1>2, FailureFollows
<1>4. /\ encoded' = encoded /\ encoded \subseteq Events
      /\ receipts' = [d \in Days |-> receipts'[d]]
      /\ \A d \in Days : InStore(d, encoded, receipts) => InStore(d, encoded', receipts')
  BY DEF DigestionInv, RowsFit, memoryVars, InStore
<1>5. QED
  BY <1>1, <1>2, <1>3, <1>4, EncodeKeeps

LEMMA TakeLockKeeps ==
  ASSUME DigestionInv, NEW c \in Callers, TakeLock(c)
  PROVE  DigestionInv'
<1>1. /\ work[c].at # "none" /\ work[c].day \in Days
      /\ \A k \in Callers : Holds(k) => k = c
  BY DEF DigestionInv, RowsFit, TakeLock, Locked, Holds
<1>2. /\ UNCHANGED <<encoded, receipts>>
      /\ GoOn(c, work[c].day, 0, FALSE, encoded)
  BY DEF TakeLock, memoryVars
<1>0. 0 \in 0..MaxEvent
  BY MemoryAssumption
<1>3. \A f \in EventsOf(work[c].day) : ~(f <= 0)
  BY MemoryAssumption DEF EventsOf, Events
<1>4. /\ work' = [work EXCEPT ![c] = work'[c]]
      /\ Follows(work'[c], work[c].day, encoded, receipts)
  BY <1>0, <1>1, <1>2, <1>3, GoOnFollows DEF DigestionInv
<1>5. QED
  BY <1>1, <1>2, <1>4, EncodeKeeps DEF DigestionInv, RowsFit, TakeLock, InStore

LEMMA BatchEncodedKeeps ==
  ASSUME DigestionInv, NEW c \in Callers, BatchEncoded(c)
  PROVE  DigestionInv'
<1> DEFINE w == work[c]
<1>1. /\ w.at = "encodes" /\ w.at # "none" /\ w.day \in Days /\ Holds(c)
      /\ \A k \in Callers : Holds(k) => k = c
  BY DEF DigestionInv, RowsFit, WorkInv, LockFits, Holds, BatchEncoded
<1>2. CASE ~Verified(w.day)
  BY <1>1, <1>2, FailureKeeps DEF BatchEncoded
<1>3. CASE Verified(w.day)
  <2>1. /\ encoded' = encoded \cup {w.event} /\ UNCHANGED receipts
        /\ GoOn(c, w.day, w.event, w.flagged, encoded \cup {w.event})
        /\ UNCHANGED <<closed, jobs, digest>>
    BY <1>3 DEF BatchEncoded, CommitEncoding
  <2>2. /\ w.event \in EventsOf(w.day) /\ w.event \in 0..MaxEvent /\ w.event \in Events
        /\ w.flagged \in BOOLEAN
        /\ ~w.flagged => \A f \in EventsOf(w.day) : f < w.event => f \in encoded
    <3>1. WorkRow(w).event \in 0..MaxEvent /\ WorkRow(w).flagged \in BOOLEAN
      BY DEF DigestionInv, RowsFit, WorkRows
    <3>2. WorkRow(w).flagged = w.flagged /\ WorkRow(w).event = w.event
      BY DEF WorkRow
    <3>3. QED
      BY <1>1, <3>1, <3>2 DEF DigestionInv, WorkInv, PlanFits, EventsOf
  <2>3. ~w.flagged =>
          \A f \in EventsOf(w.day) : f <= w.event => f \in encoded \cup {w.event}
    <3>1. \A f \in EventsOf(w.day) : f <= w.event => f < w.event \/ f = w.event
      BY <2>2, MemoryAssumption DEF EventsOf, Events
    <3>2. QED
      BY <2>2, <3>1
  <2>4. /\ work' = [work EXCEPT ![c] = work'[c]]
        /\ Follows(work'[c], w.day, encoded \cup {w.event}, receipts)
    BY <1>1, <2>1, <2>2, <2>3, GoOnFollows DEF DigestionInv
  <2>5. /\ encoded \subseteq encoded' /\ encoded' \subseteq Events
        /\ receipts' = [d \in Days |-> receipts'[d]]
        /\ \A d \in Days : InStore(d, encoded, receipts) => InStore(d, encoded', receipts')
    BY <2>1, <2>2 DEF DigestionInv, RowsFit, InStore
  <2>6. Follows(work'[c], w.day, encoded', receipts')
    BY <2>1, <2>4
  <2>7. QED
    BY <1>1, <2>1, <2>4, <2>5, <2>6, EncodeKeeps
<1>4. QED
  BY <1>2, <1>3

LEMMA BatchFlaggedKeeps ==
  ASSUME DigestionInv, NEW c \in Callers, BatchFlagged(c)
  PROVE  DigestionInv'
<1> DEFINE w == work[c]
<1>1. /\ w.at # "none" /\ w.day \in Days
      /\ \A k \in Callers : Holds(k) => k = c
  BY DEF DigestionInv, RowsFit, WorkInv, LockFits, Holds, BatchFlagged
<1>2. /\ UNCHANGED <<encoded, receipts>>
      /\ GoOn(c, w.day, w.event, TRUE, encoded)
      /\ UNCHANGED <<closed, jobs, digest>>
  BY DEF BatchFlagged, memoryVars
<1>3. w.event \in 0..MaxEvent
  BY DEF DigestionInv, RowsFit, WorkRow, WorkRows
<1>4. /\ work' = [work EXCEPT ![c] = work'[c]]
      /\ Follows(work'[c], w.day, encoded, receipts)
  BY <1>1, <1>2, <1>3, GoOnFollows DEF DigestionInv
<1>5. QED
  BY <1>1, <1>2, <1>4, EncodeKeeps DEF DigestionInv, RowsFit, InStore

LEMMA DayJudgedKeeps ==
  ASSUME DigestionInv, NEW c \in Callers, DayJudged(c)
  PROVE  DigestionInv'
<1> DEFINE w == work[c]
<1>1. /\ w.at = "settles" /\ w.at # "none" /\ w.day \in Days /\ Holds(c)
      /\ \A k \in Callers : Holds(k) => k = c
      /\ UNCHANGED <<closed, jobs, digest>>
  BY DEF DigestionInv, RowsFit, WorkInv, LockFits, Holds, DayJudged
<1>2. PICK accepted \in {s \in SUBSET w.plan.candidates : Linear(s)} :
        IF Verified(w.day) /\ CanSettle(w.day, w.plan, accepted)
          THEN /\ CommitSettlement(w.day, w.plan, accepted)
               /\ work' = [work EXCEPT ![c] = Done(w.day, "success")]
          ELSE /\ UNCHANGED memoryVars
               /\ work' = [work EXCEPT ![c] =
                             Done(w.day, IF Verified(w.day) THEN "review" ELSE "error")]
  BY DEF DayJudged
<1>3. CASE ~(Verified(w.day) /\ CanSettle(w.day, w.plan, accepted))
  BY <1>1, <1>2, <1>3, FailureKeeps
<1>4. CASE Verified(w.day) /\ CanSettle(w.day, w.plan, accepted)
  <2>1. /\ receipts' = [receipts EXCEPT ![w.day] = Settled(w.plan, accepted)]
        /\ encoded' = encoded
        /\ work' = [work EXCEPT ![c] = Done(w.day, "success")]
    BY <1>2, <1>4 DEF CommitSettlement
  <2>2. /\ receipts'[w.day] = Settled(w.plan, accepted)
        /\ \A d \in Days \ {w.day} : receipts'[d] = receipts[d]
        /\ receipts' = [d \in Days |-> receipts'[d]]
        /\ work'[c] = Done(w.day, "success")
    BY <1>1, <2>1 DEF DigestionInv, RowsFit
  <2>3. Settled(w.plan, accepted).plan = w.plan /\ Settled(w.plan, accepted) # NoReceipt
    BY DEF Settled, NoReceipt
  <2>4. EventsOf(w.day) \subseteq encoded /\ w.plan.events = EventsOf(w.day)
    BY <1>1 DEF DigestionInv, WorkInv, PlanFits
  <2>5. Follows(work'[c], w.day, encoded', receipts')
    BY <1>1, <2>1, <2>2, <2>3, <2>4, DoneRow DEF Follows, InStore
  <2>6. \A d \in Days : InStore(d, encoded, receipts) => InStore(d, encoded', receipts')
    <3>1. InStore(w.day, encoded', receipts')
      BY <2>1, <2>2, <2>3, <2>4 DEF InStore
    <3>2. QED
      BY <2>1, <2>2, <3>1 DEF InStore
  <2>7. encoded \subseteq encoded' /\ encoded' \subseteq Events
    BY <2>1 DEF DigestionInv, RowsFit
  <2>8. work' = [work EXCEPT ![c] = work'[c]]
    BY <2>1, <2>2
  <2>9. QED
    BY <1>1, <2>2, <2>5, <2>6, <2>7, <2>8, EncodeKeeps
<1>5. QED
  BY <1>3, <1>4

LEMMA EncodeStep ==
  ASSUME DigestionInv, NEW c \in Callers, Encode(c)
  PROVE  DigestionInv'
<1>1. CASE TakeLock(c)
  BY <1>1, TakeLockKeeps
<1>2. CASE BatchEncoded(c)
  BY <1>2, BatchEncodedKeeps
<1>3. CASE BatchFlagged(c)
  BY <1>3, BatchFlaggedKeeps
<1>4. CASE BatchFails(c)
  BY <1>4, FailureKeeps DEF BatchFails, Holds
<1>5. CASE DayJudged(c)
  BY <1>5, DayJudgedKeeps
<1>6. CASE JudgingFails(c)
  BY <1>6, FailureKeeps DEF JudgingFails, Holds
<1>7. QED
  BY <1>1, <1>2, <1>3, <1>4, <1>5, <1>6 DEF Encode

-----------------------------------------------------------------------------
(* The run of the stages *)

LEMMA FirstStage ==
  ASSUME NEW stages \in SUBSET Stages, stages # {}
  PROVE  FirstOf(stages) \in stages
<1>0. Place["memory"] = 1 /\ Place["cognition"] = 2 /\ Place["diary"] = 3
  BY DEF Place
<1>1. CASE "memory" \in stages
  <2>1. \A t \in stages : Place["memory"] <= Place[t]
    BY <1>0 DEF Stages
  <2>2. QED
    BY <1>1, <2>1 DEF FirstOf
<1>2. CASE "memory" \notin stages /\ "cognition" \in stages
  <2>1. \A t \in stages : Place["cognition"] <= Place[t]
    BY <1>0, <1>2 DEF Stages
  <2>2. QED
    BY <1>2, <2>1 DEF FirstOf
<1>3. CASE "memory" \notin stages /\ "cognition" \notin stages
  <2>1. stages = {"diary"}
    BY <1>3 DEF Stages
  <2>2. QED
    BY <2>1 DEF FirstOf, Stages, Place
<1>4. QED
  BY <1>1, <1>2, <1>3

LEMMA StageNames ==
  /\ "memory" \in Stages /\ "cognition" \in Stages /\ "diary" \in Stages
  /\ "none" \notin Stages /\ "begin" \notin Stages
BY DEF Stages

(* Only the row of the digestion's caller is replaced, by one without a lock. *)
LEMMA CallerKeeps ==
  ASSUME RowsFit, WorkInv, NEW c \in Callers, NEW w,
         work' = [work EXCEPT ![c] = w], WorkRow(w) \in WorkRows,
         w.at \in {"none", "waits"}, w.at # "none" => w.day \in Days,
         UNCHANGED <<encoded, receipts>>
  PROVE  /\ WorkInv'
         /\ work' = [k \in Callers |-> work'[k]] /\ work'[c] = w
         /\ \A k \in Callers : /\ WorkRow(work'[k]) \in WorkRows
                               /\ work'[k].at # "none" => work'[k].day \in Days
<1>1. /\ work = [k \in Callers |-> work[k]] /\ work'[c] = w
      /\ \A k \in Callers \ {c} : work'[k] = work[k]
  BY DEF RowsFit
<1>2. LockFits' /\ PlanFits' /\ AsksOnce'
  <2>1. \A k \in Callers : work'[k].at \in {"encodes", "settles", "done"} =>
          k # c /\ work'[k] = work[k]
    BY <1>1
  <2>2. LockFits'
    BY <2>1 DEF WorkInv, LockFits, Holds
  <2>3. PlanFits'
    BY <2>1 DEF WorkInv, PlanFits
  <2>4. AsksOnce'
    BY <2>1 DEF WorkInv, AsksOnce
  <2>5. QED
    BY <2>2, <2>3, <2>4
<1>3. SuccessFits'
  BY <1>1 DEF WorkInv, SuccessFits, InStore
<1>4. QED
  BY <1>1, <1>2, <1>3 DEF WorkInv, RowsFit

LEMMA ProceedKeeps ==
  ASSUME RowsFit, WorkInv, DaysFit, NEW rows, NEW d \in Days, NEW retry \in BOOLEAN,
         NEW place, Proceed(rows, d, retry, place), d <= closed,
         rows \in [Days -> [Stages -> JobStates]],
         \A k \in Days, s \in Stages : rows[k][s] # "running",
         \A k \in Days, s \in Stages : k > closed => rows[k][s] = "none",
         \A k \in Days : rows[k]["memory"] = "completed" => InStore(k, encoded, receipts),
         UNCHANGED <<encoded, receipts, closed>>
  PROVE  DigestionInv'
<1> DEFINE left == ToRun(rows, d, retry, place)
           next == FirstOf(left)
<1>0. /\ left \in SUBSET Stages /\ d \in 0..MaxDay /\ "digest" \in Callers
      /\ closed \in Nat /\ d \in Nat
  BY MemoryAssumption DEF ToRun, Days, Callers, RowsFit
<1>1. CASE left = {} \/ d \in changed
  <2>1. /\ jobs' = [rows EXCEPT ![d] =
                      [s \in Stages |-> IF s \in left THEN "error" ELSE rows[d][s]]]
        /\ digest' = NoTask
        /\ work' = [work EXCEPT !["digest"] = Idle]
    BY <1>1 DEF Proceed
  <2>2. \A k \in Days, s \in Stages : jobs'[k][s] = rows[k][s] \/ (k = d /\ jobs'[k][s] = "error")
    BY <2>1
  <2>3. jobs' \in [Days -> [Stages -> JobStates]]
    BY <2>1 DEF JobStates
  <2>4. /\ WorkInv' /\ work' = [k \in Callers |-> work'[k]]
        /\ \A k \in Callers : /\ WorkRow(work'[k]) \in WorkRows
                              /\ work'[k].at # "none" => work'[k].day \in Days
    BY <1>0, <2>1, IdleRow, CallerKeeps
  <2>5. digest' \in Tasks /\ digest'.at = "none"
    BY <2>1, MemoryAssumption DEF Tasks, NoTask
  <2>6. RowsFit'
    BY <2>3, <2>4, <2>5 DEF RowsFit
  <2>7. TaskFits' /\ DaysFit'
    BY <1>0, <2>2, <2>5, StageNames DEF TaskFits, DaysFit
  <2>8. RunningHasTask'
    BY <2>2 DEF RunningHasTask
  <2>9. CompletedIsStored'
    BY <2>2, StageNames DEF CompletedIsStored, InStore
  <2>10. QED
    BY <2>4, <2>6, <2>7, <2>8, <2>9 DEF DigestionInv, JobsInv
<1>2. CASE left # {} /\ d \notin changed
  <2> DEFINE w == IF next = "memory" THEN Waiting(d) ELSE Idle
  <2>1. /\ jobs' = [rows EXCEPT ![d][next] = "running"]
        /\ digest' = [at |-> next, day |-> d, retry |-> retry]
        /\ work' = [work EXCEPT !["digest"] = w]
    BY <1>2 DEF Proceed
  <2>2. next \in Stages
    BY <1>0, <1>2, FirstStage
  <2>3. \A k \in Days, s \in Stages :
          jobs'[k][s] = IF k = d /\ s = next THEN "running" ELSE rows[k][s]
    BY <2>1, <2>2
  <2>4. jobs' \in [Days -> [Stages -> JobStates]]
    BY <2>1, <2>2 DEF JobStates
  <2>5. /\ WorkRow(w) \in WorkRows /\ w.at \in {"none", "waits"}
        /\ w.at # "none" => w.day \in Days
        /\ next = "memory" => w.day = d
    BY IdleRow, WaitingRow
  <2>6. /\ WorkInv' /\ work' = [k \in Callers |-> work'[k]] /\ work'["digest"] = w
        /\ \A k \in Callers : /\ WorkRow(work'[k]) \in WorkRows
                              /\ work'[k].at # "none" => work'[k].day \in Days
    BY <1>0, <2>1, <2>5, CallerKeeps
  <2>7. digest' \in Tasks /\ digest'.at = next /\ digest'.day = d
    BY <1>0, <2>1, <2>2 DEF Tasks
  <2>8. RowsFit'
    BY <2>4, <2>6, <2>7 DEF RowsFit
  <2>9. TaskFits' /\ DaysFit'
    BY <1>0, <2>2, <2>3, <2>5, <2>6, <2>7 DEF TaskFits, DaysFit
  <2>10. RunningHasTask'
    BY <2>3, <2>7 DEF RunningHasTask
  <2>11. CompletedIsStored'
    BY <2>3, StageNames DEF CompletedIsStored, InStore
  <2>12. QED
    BY <2>6, <2>8, <2>9, <2>10, <2>11 DEF DigestionInv, JobsInv
<1>3. QED
  BY <1>1, <1>2

LEMMA BeginKeeps ==
  ASSUME DigestionInv, Begin
  PROVE  DigestionInv'
<1> DEFINE d == digest.day
<1>1. /\ digest.at = "begin" /\ d \in Days /\ d <= closed /\ digest.retry \in BOOLEAN
      /\ UNCHANGED <<encoded, receipts, closed>>
      /\ \A k \in Days, s \in Stages : jobs[k][s] # "running"
  BY StageNames DEF DigestionInv, RowsFit, JobsInv, DaysFit, RunningHasTask, Tasks, Begin,
     memoryVars
<1>2. CASE Verified(d)
  <2>1. Proceed(jobs, d, digest.retry, 0)
    BY <1>2 DEF Begin
  <2>2. \A k \in Days : jobs[k]["memory"] = "completed" => InStore(k, encoded, receipts)
    BY DEF DigestionInv, JobsInv, CompletedIsStored, InStore
  <2>3. /\ RowsFit /\ WorkInv /\ DaysFit
        /\ jobs \in [Days -> [Stages -> JobStates]]
        /\ \A k \in Days, s \in Stages : k > closed => jobs[k][s] = "none"
    BY DEF DigestionInv, RowsFit, JobsInv, DaysFit
  <2>4. QED
    BY <1>1, <2>1, <2>2, <2>3, ProceedKeeps
<1>3. CASE ~Verified(d)
  <2>1. /\ jobs' = [jobs EXCEPT ![d] =
                      [s \in Stages |-> IF @[s] = "completed" THEN "completed"
                                        ELSE "review_required"]]
        /\ digest' = NoTask /\ UNCHANGED work
    BY <1>3 DEF Begin
  <2>2. \A k \in Days, s \in Stages :
          \/ jobs'[k][s] = jobs[k][s]
          \/ k = d /\ jobs'[k][s] = "review_required"
    BY <1>1, <2>1 DEF DigestionInv, RowsFit
  <2>3. jobs' \in [Days -> [Stages -> JobStates]]
    BY <1>1, <2>1 DEF DigestionInv, RowsFit, JobStates
  <2>4. digest' \in Tasks /\ digest'.at = "none"
    BY <2>1, MemoryAssumption DEF Tasks, NoTask
  <2>5. RowsFit'
    BY <1>1, <2>1, <2>3, <2>4 DEF DigestionInv, RowsFit
  <2>6. WorkInv'
    BY <1>1, <2>1 DEF DigestionInv, WorkInv, LockFits, PlanFits, SuccessFits, AsksOnce,
       Holds, InStore
  <2>7. TaskFits' /\ DaysFit'
    <3>1. closed \in Nat /\ d \in Nat
      BY <1>1, MemoryAssumption DEF DigestionInv, RowsFit, Days
    <3>2. QED
      BY <1>1, <2>2, <2>4, <3>1, StageNames DEF DigestionInv, JobsInv, TaskFits, DaysFit
  <2>8. RunningHasTask'
    BY <1>1, <2>2 DEF RunningHasTask
  <2>9. CompletedIsStored'
    BY <1>1, <2>2, StageNames DEF DigestionInv, JobsInv, CompletedIsStored, InStore
  <2>10. QED
    BY <2>5, <2>6, <2>7, <2>8, <2>9 DEF DigestionInv, JobsInv
<1>4. QED
  BY <1>2, <1>3

(* A stage is completed only if the work of it succeeded and the day still holds. *)
LEMMA StageEndsKeeps ==
  ASSUME DigestionInv, digest.at \in Stages, NEW outcome, StageEnds(outcome),
         digest.at = "memory" /\ outcome = "success" =>
           InStore(digest.day, encoded, receipts),
         UNCHANGED <<encoded, receipts, closed>>
  PROVE  DigestionInv'
<1> DEFINE d == digest.day
           state == IF outcome = "error" \/ ~Verified(d) THEN "error"
                    ELSE IF outcome = "success" THEN "completed" ELSE "review_required"
           rows == [jobs EXCEPT ![d][digest.at] = state]
<1>1. /\ d \in Days /\ d <= closed /\ digest.retry \in BOOLEAN
      /\ closed \in Nat /\ d \in Nat
  BY StageNames, MemoryAssumption
     DEF DigestionInv, RowsFit, JobsInv, DaysFit, Tasks, Days
<1>2. Proceed(rows, d, digest.retry, Place[digest.at])
  BY DEF StageEnds
<1>3. \A k \in Days, s \in Stages :
        rows[k][s] = IF k = d /\ s = digest.at THEN state ELSE jobs[k][s]
  BY <1>1 DEF DigestionInv, RowsFit
<1>4. rows \in [Days -> [Stages -> JobStates]]
  BY <1>1 DEF DigestionInv, RowsFit, JobStates
<1>5. \A k \in Days, s \in Stages : rows[k][s] # "running"
  BY <1>3 DEF DigestionInv, JobsInv, RunningHasTask
<1>6. \A k \in Days, s \in Stages : k > closed => rows[k][s] = "none"
  BY <1>1, <1>3 DEF DigestionInv, JobsInv, DaysFit
<1>7. ASSUME NEW k \in Days, rows[k]["memory"] = "completed"
      PROVE  InStore(k, encoded, receipts)
  <2>1. CASE k = d /\ digest.at = "memory"
    <3>1. state = "completed"
      BY <1>3, <1>7, <2>1, StageNames
    <3>2. outcome = "success"
      BY <3>1
    <3>3. QED
      BY <2>1, <3>2
  <2>2. CASE ~(k = d /\ digest.at = "memory")
    <3>1. jobs[k]["memory"] = "completed"
      BY <1>3, <1>7, <2>2, StageNames
    <3>2. QED
      BY <3>1 DEF DigestionInv, JobsInv, CompletedIsStored, InStore
  <2>3. QED
    BY <2>1, <2>2
<1>8. QED
  <2>1. RowsFit /\ WorkInv /\ DaysFit
    BY DEF DigestionInv, JobsInv
  <2>2. \A k \in Days :
          rows[k]["memory"] = "completed" => InStore(k, encoded, receipts)
    BY <1>7
  <2> HIDE DEF rows, d
  <2>3. QED
    BY <1>1, <1>2, <1>4, <1>5, <1>6, <2>1, <2>2, ProceedKeeps

LEMMA RunStep ==
  ASSUME DigestionInv, Run
  PROVE  DigestionInv'
<1>1. CASE Begin
  BY <1>1, BeginKeeps
<1>2. CASE MemoryEnds
  <2>1. /\ digest.at = "memory" /\ work["digest"].at = "done"
        /\ StageEnds(work["digest"].result)
        /\ UNCHANGED <<encoded, receipts, closed>>
    BY <1>2 DEF MemoryEnds, memoryVars
  <2>2. work["digest"].result = "success" => InStore(digest.day, encoded, receipts)
    BY <2>1 DEF DigestionInv, WorkInv, SuccessFits, JobsInv, TaskFits, Callers
  <2>3. QED
    BY <2>1, <2>2, StageNames, StageEndsKeeps
<1>3. CASE CallEnds
  BY <1>3, StageNames, StageEndsKeeps DEF CallEnds, memoryVars
<1>4. CASE CallFallsShort
  <2>1. PICK outcome \in {"review", "error"} : StageEnds(outcome)
    BY <1>4 DEF CallFallsShort
  <2>2. QED
    BY <1>4, <2>1, StageNames, StageEndsKeeps DEF CallFallsShort, memoryVars
<1>5. QED
  BY <1>1, <1>2, <1>3, <1>4 DEF Run

-----------------------------------------------------------------------------
(* The lifecycle, the routes and what comes from outside *)

(* The two callers go on where they stood, and the store is the same. *)
LEMMA WorkStays ==
  ASSUME WorkInv, UNCHANGED <<encoded, receipts, work>>
  PROVE  WorkInv'
BY DEF WorkInv, LockFits, PlanFits, SuccessFits, AsksOnce, Holds, InStore

LEMMA CloseDayKeeps ==
  ASSUME DigestionInv, CloseDay
  PROVE  DigestionInv'
<1>1. /\ closed \in Nat /\ MaxDay \in Nat /\ closed < MaxDay /\ closed + 1 \in Days
      /\ closed' = closed + 1
      /\ jobs' = [jobs EXCEPT ![closed + 1] = [s \in Stages |-> "pending"]]
      /\ UNCHANGED <<encoded, receipts, digest, work>>
  BY MemoryAssumption DEF DigestionInv, RowsFit, CloseDay, Days, memoryVars
<1>2. \A k \in Days, s \in Stages :
        jobs'[k][s] = IF k = closed + 1 THEN "pending" ELSE jobs[k][s]
  BY <1>1 DEF DigestionInv, RowsFit
<1>3. jobs' \in [Days -> [Stages -> JobStates]]
  BY <1>1 DEF DigestionInv, RowsFit, JobStates
<1>4. RowsFit'
  BY <1>1, <1>3 DEF DigestionInv, RowsFit, Days
<1>5. WorkInv'
  BY <1>1, WorkStays DEF DigestionInv
<1>6. DaysFit'
  <2>1. digest'.at # "none" => digest'.day <= closed'
    <3>1. digest.at # "none" => digest.day \in Nat /\ digest.day <= closed
      BY MemoryAssumption DEF DigestionInv, RowsFit, JobsInv, DaysFit, Days
    <3>2. QED
      BY <1>1, <3>1
  <2>2. ASSUME NEW k \in Days, NEW s \in Stages, k > closed' PROVE jobs'[k][s] = "none"
    <3>1. k > closed /\ k # closed + 1
      BY <1>1, <2>2 DEF Days
    <3>2. QED
      BY <1>2, <3>1 DEF DigestionInv, JobsInv, DaysFit
  <2>3. QED
    BY <2>1, <2>2 DEF DaysFit
<1>7. TaskFits'
  <2>1. digest.at \in Stages => digest.day \in Days /\ digest.day # closed + 1
    BY <1>1, StageNames, MemoryAssumption DEF DigestionInv, RowsFit, JobsInv, DaysFit, Days
  <2>2. QED
    BY <1>1, <1>2, <2>1 DEF DigestionInv, JobsInv, TaskFits
<1>8. RunningHasTask' /\ CompletedIsStored'
  BY <1>1, <1>2, StageNames DEF DigestionInv, JobsInv, RunningHasTask, CompletedIsStored
<1>9. QED
  BY <1>4, <1>5, <1>6, <1>7, <1>8 DEF DigestionInv, JobsInv

(* The task is created, for a closed day. *)
LEMMA TaskStarts ==
  ASSUME DigestionInv, digest = NoTask, NEW d \in Days, NEW retry \in BOOLEAN,
         digest' = [at |-> "begin", day |-> d, retry |-> retry], d <= closed,
         UNCHANGED <<encoded, receipts, closed, jobs, work>>
  PROVE  DigestionInv'
<1>1. /\ d \in 0..MaxDay /\ digest' \in Tasks
      /\ digest'.at = "begin" /\ digest'.day = d /\ digest.at = "none"
  BY MemoryAssumption DEF Days, Tasks, NoTask
<1>2. RowsFit'
  BY <1>1 DEF DigestionInv, RowsFit
<1>3. WorkInv'
  BY WorkStays DEF DigestionInv
<1>4. TaskFits' /\ DaysFit'
  BY <1>1, StageNames DEF DigestionInv, JobsInv, TaskFits, DaysFit
<1>5. RunningHasTask'
  BY <1>1, StageNames DEF DigestionInv, JobsInv, RunningHasTask
<1>6. CompletedIsStored'
  BY DEF DigestionInv, JobsInv, CompletedIsStored
<1>7. QED
  BY <1>2, <1>3, <1>4, <1>5, <1>6 DEF DigestionInv, JobsInv

LEMMA TickKeeps ==
  ASSUME DigestionInv, Tick
  PROVE  DigestionInv'
<1> DEFINE d == CHOOSE k \in PendingDays : \A e \in PendingDays : k <= e
<1>1. /\ digest = NoTask /\ PendingDays # {}
      /\ digest' = [at |-> "begin", day |-> d, retry |-> FALSE]
      /\ UNCHANGED <<encoded, receipts, closed, jobs, work>>
  BY DEF Tick, memoryVars
<1>2. PendingDays \in SUBSET Nat
  BY MemoryAssumption DEF PendingDays, Days
<1>3. d \in PendingDays
  <2>1. \E k \in PendingDays : \A e \in PendingDays : k <= e
    BY <1>1, <1>2, Least
  <2>2. QED
    BY <2>1
<1>4. d \in Days /\ \E s \in Stages : jobs[d][s] = "pending"
  BY <1>3 DEF PendingDays
<1>5. d <= closed
  BY <1>4, MemoryAssumption DEF DigestionInv, RowsFit, JobsInv, DaysFit, Days
<1> HIDE DEF d
<1>6. QED
  BY <1>1, <1>4, <1>5, TaskStarts

LEMMA OutsideStep ==
  ASSUME DigestionInv, Retry \/ Request \/ RequestAnswered \/ SourceChanges \/ Restart
  PROVE  DigestionInv'
<1>1. CASE Retry
  <2>1. PICK d \in Days : /\ Verified(d)
                          /\ digest' = [at |-> "begin", day |-> d, retry |-> TRUE]
    BY <1>1 DEF Retry
  <2>2. /\ digest = NoTask /\ d <= closed
        /\ UNCHANGED <<encoded, receipts, closed, jobs, work>>
    BY <1>1, <2>1 DEF Retry, Verified, memoryVars
  <2>3. QED
    BY <2>1, <2>2, TaskStarts
<1>2. CASE Request \/ RequestAnswered
  <2>1. /\ UNCHANGED <<encoded, receipts, closed, jobs, digest>>
        /\ "request" \in Callers /\ "request" # "digest" /\ "digest" \in Callers
    BY <1>2 DEF Request, RequestAnswered, memoryVars, Callers
  <2>2. PICK w : /\ work' = [work EXCEPT !["request"] = w]
                 /\ WorkRow(w) \in WorkRows /\ w.at \in {"none", "waits"}
                 /\ w.at # "none" => w.day \in Days
    <3>1. CASE Request
      <4>1. PICK d \in Days : work' = [work EXCEPT !["request"] = Waiting(d)]
        BY <3>1 DEF Request
      <4>2. QED
        BY <4>1, WaitingRow
    <3>2. CASE RequestAnswered
      BY <3>2, IdleRow DEF RequestAnswered
    <3>3. QED
      BY <1>2, <3>1, <3>2
  <2>3. /\ WorkInv' /\ work' = [k \in Callers |-> work'[k]]
        /\ \A k \in Callers : /\ WorkRow(work'[k]) \in WorkRows
                              /\ work'[k].at # "none" => work'[k].day \in Days
    BY <2>1, <2>2, CallerKeeps DEF DigestionInv
  <2>4. work'["digest"] = work["digest"]
    BY <2>1, <2>2 DEF DigestionInv, RowsFit
  <2>5. RowsFit'
    BY <2>1, <2>3 DEF DigestionInv, RowsFit
  <2>6. JobsInv'
    BY <2>1, <2>4 DEF DigestionInv, JobsInv, TaskFits, DaysFit, RunningHasTask,
       CompletedIsStored
  <2>7. QED
    BY <2>3, <2>5, <2>6 DEF DigestionInv
<1>3. CASE SourceChanges
  <2>1. UNCHANGED <<encoded, receipts, closed, jobs, digest, work>>
    BY <1>3 DEF SourceChanges, memoryVars
  <2>2. WorkInv'
    BY <2>1, WorkStays DEF DigestionInv
  <2>3. RowsFit' /\ JobsInv'
    BY <2>1 DEF DigestionInv, RowsFit, JobsInv, TaskFits, DaysFit, RunningHasTask,
       CompletedIsStored
  <2>4. QED
    BY <2>2, <2>3 DEF DigestionInv
<1>4. CASE Restart
  <2>1. /\ UNCHANGED <<encoded, receipts, closed>>
        /\ digest' = NoTask /\ work' = [c \in Callers |-> Idle]
        /\ jobs' = [d \in Days |-> [s \in Stages |->
                      IF jobs[d][s] = "running" THEN "pending" ELSE jobs[d][s]]]
    BY <1>4 DEF Restart, memoryVars
  <2>2. digest' \in Tasks /\ digest'.at = "none"
    BY <2>1, MemoryAssumption DEF Tasks, NoTask
  <2>3. \A c \in Callers : work'[c] = Idle /\ work'[c].at = "none"
    BY <2>1, IdleRow
  <2>4. \A k \in Days, s \in Stages :
          jobs'[k][s] = IF jobs[k][s] = "running" THEN "pending" ELSE jobs[k][s]
    BY <2>1
  <2>5. jobs' \in [Days -> [Stages -> JobStates]]
    BY <2>1 DEF DigestionInv, RowsFit, JobStates
  <2>6. RowsFit'
    BY <2>1, <2>2, <2>3, <2>5, IdleRow DEF DigestionInv, RowsFit
  <2>7. WorkInv'
    BY <2>3 DEF WorkInv, LockFits, PlanFits, SuccessFits, AsksOnce, Holds
  <2>8. JobsInv'
    BY <2>1, <2>2, <2>4, StageNames
       DEF DigestionInv, JobsInv, TaskFits, DaysFit, RunningHasTask, CompletedIsStored
  <2>9. QED
    BY <2>6, <2>7, <2>8 DEF DigestionInv
<1>5. QED
  BY <1>1, <1>2, <1>3, <1>4

LEMMA DigestionInit == Init => DigestionInv
<1> SUFFICES ASSUME Init PROVE DigestionInv
  OBVIOUS
<1>1. /\ encoded = {} /\ receipts = [d \in Days |-> NoReceipt]
      /\ closed = 0 /\ jobs = [d \in Days |-> [s \in Stages |-> "none"]]
      /\ digest = NoTask /\ work = [c \in Callers |-> Idle]
  BY DEF Init, MemoryInit
<1>2. digest \in Tasks /\ digest.at = "none"
  BY <1>1, MemoryAssumption DEF Tasks, NoTask
<1>3. RowsFit
  BY <1>1, <1>2, IdleRow, MemoryAssumption DEF RowsFit, JobStates
<1>4. WorkInv
  BY <1>1, IdleRow DEF WorkInv, LockFits, PlanFits, SuccessFits, AsksOnce, Holds
<1>5. JobsInv
  BY <1>1, <1>2, StageNames
     DEF JobsInv, TaskFits, DaysFit, RunningHasTask, CompletedIsStored
<1>6. QED
  BY <1>3, <1>4, <1>5 DEF DigestionInv

LEMMA DigestionStep == DigestionInv /\ [Next]_vars => DigestionInv'
<1> SUFFICES ASSUME DigestionInv, [Next]_vars PROVE DigestionInv'
  OBVIOUS
<1>1. ASSUME NEW c \in Callers, Encode(c) PROVE DigestionInv'
  BY <1>1, EncodeStep
<1>2. CASE Run
  BY <1>2, RunStep
<1>3. CASE CloseDay
  BY <1>3, CloseDayKeeps
<1>4. CASE Tick
  BY <1>4, TickKeeps
<1>5. CASE Retry \/ Request \/ RequestAnswered \/ SourceChanges \/ Restart
  BY <1>5, OutsideStep
<1>6. CASE Rest \/ UNCHANGED vars
  <2>1. UNCHANGED <<encoded, receipts, closed, jobs, digest, work>>
    BY <1>6 DEF Rest, vars, memoryVars, digestVars
  <2>2. WorkInv'
    BY <2>1, WorkStays DEF DigestionInv
  <2>3. RowsFit' /\ JobsInv'
    BY <2>1 DEF DigestionInv, RowsFit, JobsInv, TaskFits, DaysFit, RunningHasTask,
       CompletedIsStored
  <2>4. QED
    BY <2>2, <2>3 DEF DigestionInv
<1>7. QED
  BY <1>1, <1>2, <1>3, <1>4, <1>5, <1>6 DEF Next

LEMMA DigestionHolds == Spec => []DigestionInv
BY DigestionInit, DigestionStep, PTL DEF Spec

-----------------------------------------------------------------------------
(* Theorems *)

(* Memory.encode never asks the model for a batch the store has, nor for the
   judgments of a settled day: whatever retries, requests and restarts there are,
   the lock is held from the look into the store to the commit. *)
THEOREM AsksOnceHolds == Spec => []AsksOnce
<1>1. DigestionInv => AsksOnce
  BY DEF DigestionInv, WorkInv
<1>2. QED
  BY <1>1, DigestionHolds, PTL

(* DailyDigestion.run completes the memory job of a day only when every batch of it
   is encoded and its settlement covers all of them. *)
THEOREM CompletedIsStoredHolds == Spec => []CompletedIsStored
<1>1. DigestionInv => CompletedIsStored
  BY DEF DigestionInv, JobsInv
<1>2. QED
  BY <1>1, DigestionHolds, PTL

(* A job that says it runs is awaited by the task of this process: what a restart
   leaves behind, DayStore puts back. *)
THEOREM RunningHasTaskHolds == Spec => []RunningHasTask
<1>1. DigestionInv => RunningHasTask
  BY DEF DigestionInv, JobsInv
<1>2. QED
  BY <1>1, DigestionHolds, PTL

-----------------------------------------------------------------------------
(* What a step may never do *)

Refused(d) ==
  /\ EventsOf(d) \cap encoded' = EventsOf(d) \cap encoded
  /\ receipts'[d] = receipts[d]
  /\ \A s \in Stages : jobs'[d][s] = "completed" => jobs[d][s] = "completed"

Kept(d) == \A s \in Stages : jobs[d][s] = "completed" => jobs'[d][s] = "completed"

LEMMA EncodeRefuses ==
  ASSUME DigestionInv, NEW c \in Callers, Encode(c), NEW d \in changed, d \in Days
  PROVE  Refused(d)
<1>1. UNCHANGED jobs
  BY DEF Encode, TakeLock, BatchEncoded, BatchFlagged, BatchFails, DayJudged, JudgingFails
<1>2. CASE UNCHANGED <<encoded, receipts>>
  BY <1>1, <1>2 DEF Refused
<1>3. CASE BatchEncoded(c) /\ Verified(work[c].day)
  <2>1. /\ encoded' = encoded \cup {work[c].event} /\ UNCHANGED receipts
        /\ work[c].day # d
    BY <1>3 DEF BatchEncoded, CommitEncoding, Verified
  <2>2. work[c].event \notin EventsOf(d)
    BY <1>3, <2>1 DEF BatchEncoded, DigestionInv, WorkInv, PlanFits, EventsOf
  <2>3. QED
    BY <1>1, <2>1, <2>2 DEF Refused
<1>4. CASE DayJudged(c) /\ Verified(work[c].day) /\ ~UNCHANGED <<encoded, receipts>>
  <2>1. PICK accepted \in {s \in SUBSET work[c].plan.candidates : Linear(s)} :
          CommitSettlement(work[c].day, work[c].plan, accepted)
    BY <1>4 DEF DayJudged, memoryVars
  <2>2. /\ receipts' = [receipts EXCEPT ![work[c].day] =
                          Settled(work[c].plan, accepted)]
        /\ encoded' = encoded /\ work[c].day # d
    BY <1>4, <2>1 DEF CommitSettlement, Verified
  <2>3. receipts'[d] = receipts[d]
    BY <2>2 DEF DigestionInv, RowsFit
  <2>4. QED
    BY <1>1, <2>2, <2>3 DEF Refused
<1>5. QED
  <2>1. CASE TakeLock(c) \/ BatchFlagged(c) \/ BatchFails(c) \/ JudgingFails(c)
    BY <1>2, <2>1 DEF TakeLock, BatchFlagged, BatchFails, JudgingFails, memoryVars
  <2>2. CASE BatchEncoded(c)
    BY <1>2, <1>3, <2>2 DEF BatchEncoded, memoryVars
  <2>3. CASE DayJudged(c)
    BY <1>2, <1>4, <2>3 DEF DayJudged, memoryVars
  <2>4. QED
    BY <2>1, <2>2, <2>3 DEF Encode

(* The loop over the stages writes "error" or "running" into rows it does not skip. *)
LEMMA ProceedWrites ==
  ASSUME NEW rows, rows \in [Days -> [Stages -> JobStates]], NEW d \in Days, NEW retry,
         NEW place, Proceed(rows, d, retry, place), NEW k \in Days, NEW s \in Stages
  PROVE  \/ jobs'[k][s] = rows[k][s]
         \/ /\ k = d /\ rows[k][s] # "completed"
            /\ jobs'[k][s] \in {"error", "running"}
<1> DEFINE left == ToRun(rows, d, retry, place)
           next == FirstOf(left)
<1>0. left \in SUBSET Stages /\ \A t \in left : rows[d][t] # "completed"
  BY DEF ToRun
<1>1. CASE left = {} \/ d \in changed
  <2>1. jobs' = [rows EXCEPT ![d] =
                   [t \in Stages |-> IF t \in left THEN "error" ELSE rows[d][t]]]
    BY <1>1 DEF Proceed
  <2>2. QED
    BY <1>0, <2>1
<1>2. CASE left # {} /\ d \notin changed
  <2>1. jobs' = [rows EXCEPT ![d][next] = "running"]
    BY <1>2 DEF Proceed
  <2>2. next \in left
    BY <1>0, <1>2, FirstStage
  <2>3. QED
    BY <1>0, <2>1, <2>2
<1>3. QED
  BY <1>1, <1>2

LEMMA RunWrites ==
  ASSUME DigestionInv, Run, NEW d \in Days
  PROVE  Kept(d) /\ (d \in changed => Refused(d))
<1>0. /\ UNCHANGED <<encoded, receipts>>
      /\ jobs \in [Days -> [Stages -> JobStates]]
      /\ digest.at # "none" /\ digest.day \in Days
  BY StageNames DEF Run, Begin, MemoryEnds, CallEnds, CallFallsShort, memoryVars,
     DigestionInv, RowsFit
<1>1. CASE Begin /\ Verified(digest.day)
  <2>1. Proceed(jobs, digest.day, digest.retry, 0)
    BY <1>1 DEF Begin
  <2>2. \A s \in Stages :
          \/ jobs'[d][s] = jobs[d][s]
          \/ jobs[d][s] # "completed" /\ jobs'[d][s] \in {"error", "running"}
    BY <1>0, <2>1, ProceedWrites
  <2>3. QED
    BY <1>0, <2>2 DEF Kept, Refused
<1>2. CASE Begin /\ ~Verified(digest.day)
  <2>1. jobs' = [jobs EXCEPT ![digest.day] =
                   [s \in Stages |-> IF @[s] = "completed" THEN "completed"
                                     ELSE "review_required"]]
    BY <1>2 DEF Begin
  <2>2. \A s \in Stages : jobs'[d][s] = "completed" <=> jobs[d][s] = "completed"
    BY <1>0, <2>1
  <2>3. QED
    BY <1>0, <2>2 DEF Kept, Refused
<1>3. ASSUME NEW outcome, StageEnds(outcome), digest.at \in Stages
      PROVE  Kept(d) /\ (d \in changed => Refused(d))
  <2> DEFINE state == IF outcome = "error" \/ ~Verified(digest.day) THEN "error"
                      ELSE IF outcome = "success" THEN "completed"
                      ELSE "review_required"
             rows == [jobs EXCEPT ![digest.day][digest.at] = state]
  <2>1. Proceed(rows, digest.day, digest.retry, Place[digest.at])
    BY <1>3 DEF StageEnds
  <2>2. rows \in [Days -> [Stages -> JobStates]]
    BY <1>0, <1>3 DEF JobStates
  <2>3. jobs[digest.day][digest.at] = "running"
    BY <1>3 DEF DigestionInv, JobsInv, TaskFits
  <2>4. \A s \in Stages :
          rows[d][s] = IF d = digest.day /\ s = digest.at THEN state ELSE jobs[d][s]
    BY <1>0, <1>3
  <2>5. d \in changed /\ d = digest.day => state = "error"
    BY DEF Verified
  <2>6. \A s \in Stages :
          /\ jobs[d][s] = "completed" => rows[d][s] = "completed"
          /\ d \in changed => (rows[d][s] = "completed" => jobs[d][s] = "completed")
    BY <2>3, <2>4, <2>5
  <2> HIDE DEF rows
  <2>7. \A s \in Stages :
          \/ jobs'[d][s] = rows[d][s]
          \/ rows[d][s] # "completed" /\ jobs'[d][s] \in {"error", "running"}
    BY <1>0, <2>1, <2>2, ProceedWrites
  <2>8. QED
    BY <1>0, <2>6, <2>7 DEF Kept, Refused
<1>4. QED
  BY <1>1, <1>2, <1>3, StageNames DEF Run, MemoryEnds, CallEnds, CallFallsShort

LEMMA StepWrites ==
  ASSUME DigestionInv, Next, NEW d \in Days
  PROVE  Kept(d) /\ (d \in changed => Refused(d))
<1>1. ASSUME NEW c \in Callers, Encode(c)
      PROVE  Kept(d) /\ (d \in changed => Refused(d))
  <2>1. UNCHANGED jobs
    BY <1>1 DEF Encode, TakeLock, BatchEncoded, BatchFlagged, BatchFails, DayJudged,
       JudgingFails
  <2>2. QED
    BY <1>1, <2>1, EncodeRefuses DEF Kept
<1>2. CASE Run
  BY <1>2, RunWrites
<1>3. CASE CloseDay
  <2>1. /\ UNCHANGED <<encoded, receipts>> /\ closed + 1 \in Days
        /\ jobs' = [jobs EXCEPT ![closed + 1] = [s \in Stages |-> "pending"]]
    BY <1>3, MemoryAssumption DEF CloseDay, memoryVars, DigestionInv, RowsFit, Days
  <2>2. \A s \in Stages : jobs[closed + 1][s] = "none"
    BY <2>1, MemoryAssumption DEF DigestionInv, RowsFit, JobsInv, DaysFit
  <2>3. \A s \in Stages : jobs'[d][s] = IF d = closed + 1 THEN "pending" ELSE jobs[d][s]
    BY <2>1 DEF DigestionInv, RowsFit
  <2>4. QED
    BY <2>1, <2>2, <2>3 DEF Kept, Refused
<1>4. CASE Restart
  <2>1. /\ UNCHANGED <<encoded, receipts>>
        /\ \A s \in Stages :
             jobs'[d][s] = IF jobs[d][s] = "running" THEN "pending" ELSE jobs[d][s]
    BY <1>4 DEF Restart, memoryVars
  <2>2. QED
    BY <2>1 DEF Kept, Refused
<1>5. CASE Tick \/ Retry \/ Request \/ RequestAnswered \/ SourceChanges \/ Rest
  <2>1. UNCHANGED <<encoded, receipts, jobs>>
    BY <1>5 DEF Tick, Retry, Request, RequestAnswered, SourceChanges, Rest, vars,
       memoryVars, digestVars
  <2>2. QED
    BY <2>1 DEF Kept, Refused
<1>6. QED
  BY <1>1, <1>2, <1>3, <1>4, <1>5 DEF Next

(* No batch, receipt or completed stage of a day whose messages no longer match its
   frozen source: DayStore.verify stands between every model call and what it
   would store. *)
THEOREM ChangedIsRefusedHolds == Spec => ChangedIsRefused
<1>1. ASSUME DigestionInv, changed \subseteq Days, [Next]_vars
      PROVE  [\A d \in changed :
                /\ EventsOf(d) \cap encoded' = EventsOf(d) \cap encoded
                /\ receipts'[d] = receipts[d]
                /\ \A s \in Stages :
                     jobs'[d][s] = "completed" => jobs[d][s] = "completed"]_vars
  <2>1. CASE Next
    BY <1>1, <2>1, StepWrites DEF Refused
  <2>2. CASE UNCHANGED vars
    BY <2>2
  <2>3. QED
    BY <1>1, <2>1, <2>2
<1>2. Init => changed \subseteq Days
  BY DEF Init
<1>3. DigestionInv /\ changed \subseteq Days /\ [Next]_vars => (changed \subseteq Days)'
  <2> SUFFICES ASSUME DigestionInv, changed \subseteq Days, [Next]_vars
               PROVE  changed' \subseteq Days
    OBVIOUS
  <2>1. CASE SourceChanges
    BY <2>1, MemoryAssumption DEF SourceChanges, DigestionInv, RowsFit, Days
  <2>2. CASE ~SourceChanges
    BY <2>2 DEF Next, Encode, TakeLock, BatchEncoded, BatchFlagged, BatchFails, DayJudged,
       JudgingFails, Run, Begin, MemoryEnds, CallEnds, CallFallsShort, CloseDay, Tick,
       Retry, Request, RequestAnswered, Restart, Rest, vars, digestVars
  <2>3. QED
    BY <2>1, <2>2
<1>4. QED
  BY <1>1, <1>2, <1>3, DigestionHolds, PTL DEF Spec, ChangedIsRefused

(* A completed stage is never run again: a retry by hand skips it, and so does
   everything a restart or a changed source does to the rows. *)
THEOREM CompletedStaysHolds == Spec => CompletedStays
<1>1. ASSUME DigestionInv, [Next]_vars
      PROVE  [\A d \in Days, s \in Stages :
                jobs[d][s] = "completed" => jobs'[d][s] = "completed"]_vars
  <2>1. CASE Next
    BY <1>1, <2>1, StepWrites DEF Kept
  <2>2. CASE UNCHANGED vars
    BY <2>2
  <2>3. QED
    BY <1>1, <2>1, <2>2
<1>2. QED
  BY <1>1, DigestionHolds, PTL DEF Spec, CompletedStays

-----------------------------------------------------------------------------
(* The threads *)

(* The threads t are what the pairs make of them: each begins at its anchor, no two
   share an event, and the neighbours in them are the pairs. *)
Step(t, a, i) == <<t[a][i], t[a][i + 1]>>
Woven(t, pairs) ==
  /\ t \in [Events -> Seq(Events)]
  /\ \A a \in Events : t[a] # <<>> => Len(t[a]) > 1 /\ t[a][1] = a
  /\ \A a, b \in Events : a # b =>
       \A i \in 1..Len(t[a]), j \in 1..Len(t[b]) : t[a][i] # t[b][j]
  /\ \A a \in Events : \A i \in 1..Len(t[a]) - 1 : Step(t, a, i) \in pairs
  /\ \A p \in pairs : \E a \in Events : \E i \in 1..Len(t[a]) - 1 : p = Step(t, a, i)

(* One turn of the loop over the accepted edges, at event n. *)
Put(edges, book, n) ==
  IF \E x \in edges : x.from = n
    THEN AppendContinuation(book, CHOOSE x \in edges : x.from = n)
    ELSE book

(* The loop is what its turns make, one after the other. *)
LEMMA Turns ==
  ASSUME NEW edges
  PROVE  \E book : /\ Appended(edges) = book[MaxEvent]
                   /\ book[0] = [threads |-> threads, ok |-> TRUE]
                   /\ \A n \in 1..MaxEvent : book[n] = Put(edges, book[n - 1], n)
<1>0. MaxEvent \in Nat
  BY MemoryAssumption
<1> DEFINE none == [threads |-> threads, ok |-> TRUE]
           Turn(v, n) == Put(edges, v, n)
           Loop(f, m) == f = [n \in 0..m |-> IF n = 0 THEN none ELSE Turn(f[n - 1], n)]
           Bad == {m \in Nat : ~\E f : Loop(f, m)}
<1>1. Appended(edges) =
        (CHOOSE f : f = [n \in 0..MaxEvent |-> IF n = 0 THEN none ELSE Turn(f[n - 1], n)])[MaxEvent]
  BY DEF Appended, Put
<1> HIDE DEF none, Turn
<1>2. Bad = {}
  <2> SUFFICES ASSUME Bad # {} PROVE FALSE
    OBVIOUS
  <2>1. PICK m \in Bad : \A k \in Bad : m <= k
    BY Least
  <2>2. m # 0
    <3>1. Loop([n \in 0..0 |-> none], 0)
      OBVIOUS
    <3> QED BY <2>1, <3>1
  <2>3. m \in Nat /\ m - 1 \in Nat /\ m - 1 \notin Bad
    <3>1. m \in Nat /\ m - 1 \in Nat
      BY <2>1, <2>2
    <3> HIDE DEF Bad
    <3> QED BY <2>1, <3>1
  <2>4. PICK g : Loop(g, m - 1)
    BY <2>3
  <2> DEFINE f == [n \in 0..m |-> IF n < m THEN g[n] ELSE Turn(g[m - 1], m)]
  <2>5. g[0] = none /\ \A n \in 1..(m - 1) : g[n] = Turn(g[n - 1], n)
    BY <2>3, <2>4
  <2>6. \A n \in 0..m : f[n] = IF n = 0 THEN none ELSE Turn(f[n - 1], n)
    <3> SUFFICES ASSUME NEW n \in 0..m PROVE f[n] = IF n = 0 THEN none ELSE Turn(f[n - 1], n)
      OBVIOUS
    <3>1. CASE n = 0
      BY <2>2, <2>3, <2>5, <3>1
    <3>2. CASE n # 0 /\ n < m
      BY <2>3, <2>5, <3>2
    <3>3. CASE n = m
      BY <2>2, <2>3, <3>3
    <3> QED BY <2>3, <3>1, <3>2, <3>3
  <2>7. Loop(f, m)
    BY <2>6
  <2> QED BY <2>1, <2>7
<1>3. PICK book : book = [n \in 0..MaxEvent |-> IF n = 0 THEN none ELSE Turn(book[n - 1], n)]
                  /\ Appended(edges) = book[MaxEvent]
  <2>1. \E f : Loop(f, MaxEvent)
    BY <1>0, <1>2
  <2> QED BY <1>1, <2>1
<1>4. /\ book[0] = none
      /\ \A n \in 1..MaxEvent : book[n] = Turn(book[n - 1], n)
  BY <1>0, <1>3
<1>5. QED BY <1>3, <1>4 DEF none, Turn

(* What _append_continuation does to threads that are what their pairs make of them. *)
LEMMA AppendWeaves ==
  ASSUME NEW t, NEW pairs, Woven(t, pairs), NEW x, x.from \in Events, x.to \in Events,
         NEW book, book = [threads |-> t, ok |-> TRUE],
         AppendContinuation(book, x).ok
  PROVE  /\ AppendContinuation(book, x) =
              [threads |-> AppendContinuation(book, x).threads, ok |-> TRUE]
         /\ Woven(AppendContinuation(book, x).threads, pairs \cup {<<x.from, x.to>>})
<1>0. book.threads = t /\ book.ok /\ MaxEvent \in Nat
  BY MemoryAssumption
<1> DEFINE old == Membership(t, x.from)
           home == CHOOSE a \in old : TRUE
           <1>f. PICK f \in Events, g \in Events : f = x.from /\ g = x.to
  OBVIOUS
<1> DEFINE more == pairs \cup {<<f, g>>}
<1>1. PICK r : r = AppendContinuation(book, x)
  OBVIOUS
<1>2. /\ t \in [Events -> Seq(Events)]
      /\ \A a \in Events : t[a] # <<>> => Len(t[a]) > 1 /\ t[a][1] = a
      /\ \A a, b \in Events : a # b =>
           \A i \in 1..Len(t[a]), j \in 1..Len(t[b]) : t[a][i] # t[b][j]
      /\ \A a \in Events : \A i \in 1..Len(t[a]) - 1 : Step(t, a, i) \in pairs
      /\ \A p \in pairs : \E a \in Events : \E i \in 1..Len(t[a]) - 1 : p = Step(t, a, i)
  BY DEF Woven
<1>3. ASSUME NEW a \in Events, NEW e, Membership(t, e) = {}
      PROVE  \A i \in 1..Len(t[a]) : t[a][i] # e
  <2>1. e \notin ToSet(t[a])
    BY <1>3 DEF Membership
  <2>2. DOMAIN t[a] = 1..Len(t[a])
    BY <1>2
  <2> QED BY <2>1, <2>2 DEF ToSet
<1>4. Membership(t, x.to) = {}
  BY <1>0, <1>1 DEF AppendContinuation
<1>5. \A a \in Events : \A i \in 1..Len(t[a]) : t[a][i] # g
  BY <1>3, <1>4, <1>f
<1>6. CASE old = {}
  <2>1. r = [book EXCEPT !.threads[f] = <<f, g>>]
    BY <1>0, <1>1, <1>4, <1>6, <1>f DEF AppendContinuation
  <2> DEFINE new == <<f, g>>
             s == [t EXCEPT ![f] = new]
  <2>2. r = [threads |-> s, ok |-> TRUE]
    BY <2>1
  <2>3. \A a \in Events : \A i \in 1..Len(t[a]) : t[a][i] # f
    BY <1>3, <1>6, <1>f
  <2>4. t[f] = <<>>
    <3> SUFFICES ASSUME t[f] # <<>> PROVE FALSE
      OBVIOUS
    <3>1. t[f] \in Seq(Events) /\ Len(t[f]) > 1 /\ t[f][1] = f
      BY <1>2
    <3>2. 1 \in 1..Len(t[f])
      BY <3>1
    <3> QED BY <2>3, <3>1, <3>2
  <2>5. /\ s[f] = new /\ s \in [Events -> Seq(Events)]
        /\ \A a \in Events : a # f => s[a] = t[a]
    <3>1. new \in Seq(Events)
      OBVIOUS
    <3> HIDE DEF new
    <3> QED BY <1>2, <3>1
  <2>6. Len(new) = 2 /\ new[1] = f /\ new[2] = g
    OBVIOUS
  <2> HIDE DEF s, new
  <2>7. \A i \in 1..2 : i = 1 \/ i = 2
    OBVIOUS
  <2>8. Step(s, f, 1) = <<f, g>>
    BY <2>5, <2>6 DEF Step
  <2>9. \A a \in Events : a # f => \A i : Step(s, a, i) = Step(t, a, i)
    BY <2>5 DEF Step
  <2>10. Woven(s, more)
    <3>1. \A a \in Events : s[a] # <<>> => Len(s[a]) > 1 /\ s[a][1] = a
      <4>1. Len(s[f]) > 1 /\ s[f][1] = f
        BY <2>5, <2>6
      <4> QED BY <1>2, <2>5, <4>1
    <3>2. ASSUME NEW a \in Events, NEW b \in Events, a # b, NEW i \in 1..Len(s[a]), NEW j \in 1..Len(s[b])
          PROVE  s[a][i] # s[b][j]
      <4>0. \A k \in 1..Len(s[f]) : s[f][k] \in {f, g}
        BY <2>5, <2>6, <2>7
      <4>1. CASE a = f
        <5>1. s[a][i] \in {f, g} /\ s[b] = t[b]
          BY <2>5, <3>2, <4>0, <4>1
        <5> QED BY <1>5, <2>3, <3>2, <5>1
      <4>2. CASE b = f
        <5>1. s[b][j] \in {f, g} /\ s[a] = t[a]
          BY <2>5, <3>2, <4>0, <4>2
        <5> QED BY <1>5, <2>3, <3>2, <5>1
      <4>3. CASE a # f /\ b # f
        <5>1. s[a] = t[a] /\ s[b] = t[b]
          BY <2>5, <4>3
        <5>2. i \in 1..Len(t[a]) /\ j \in 1..Len(t[b])
          BY <3>2, <5>1
        <5>3. t[a][i] # t[b][j]
          BY <1>2, <3>2, <5>2
        <5> QED BY <5>1, <5>3
      <4> QED BY <4>1, <4>2, <4>3
    <3>3. ASSUME NEW a \in Events, NEW i \in 1..Len(s[a]) - 1 PROVE Step(s, a, i) \in more
      <4>1. CASE a = f
        <5>1. i \in 1..Len(new) - 1
          BY <2>5, <3>3, <4>1
        <5>2. i = 1
          BY <2>6, <5>1
        <5> QED BY <2>8, <4>1, <5>2
      <4>2. CASE a # f
        BY <1>2, <2>5, <2>9, <3>3, <4>2
      <4> QED BY <4>1, <4>2
    <3>4. ASSUME NEW p \in more
          PROVE  \E a \in Events : \E i \in 1..Len(s[a]) - 1 : p = Step(s, a, i)
      <4>1. CASE p \in pairs
        <5>0. PICK a \in Events : \E i \in 1..Len(t[a]) - 1 : p = Step(t, a, i)
          BY <1>2, <4>1
        <5>1. PICK i \in 1..Len(t[a]) - 1 : p = Step(t, a, i)
          BY <5>0
        <5>2. Len(<<>>) = 0 /\ ~(1 <= 0 - 1)
          OBVIOUS
        <5>3. a # f
          BY <2>4, <5>1, <5>2
        <5> QED BY <2>5, <2>9, <5>1, <5>3
      <4>2. CASE p = <<f, g>>
        <5>1. 1 \in 1..Len(s[f]) - 1
          BY <2>5, <2>6
        <5> QED BY <2>8, <4>2, <5>1
      <4> QED BY <3>4, <4>1, <4>2
    <3> HIDE DEF more
    <3> QED BY <2>5, <3>1, <3>2, <3>3, <3>4 DEF Woven
  <2>11. r.threads = s
    BY <2>2
  <2> QED BY <1>f, <1>1, <2>2, <2>10, <2>11
<1>7. CASE old # {}
  <2>1. home \in old /\ home \in Events /\ f \in ToSet(t[home])
    BY <1>7, <1>f DEF Membership
  <2>2. r = [book EXCEPT !.threads[home] = Append(t[home], g)] /\ Last(t[home]) = f
    BY <1>0, <1>1, <1>4, <1>7, <1>f DEF AppendContinuation
  <2> DEFINE m == Len(t[home])
             new == Append(t[home], g)
             s == [t EXCEPT ![home] = new]
  <2> HIDE DEF home
  <2>3. r = [threads |-> s, ok |-> TRUE]
    BY <1>0, <2>2
  <2>4. t[home] \in Seq(Events) /\ m \in Nat /\ m > 1 /\ t[home][1] = home /\ t[home][m] = f
    <3>1. t[home] \in Seq(Events) /\ m \in Nat
      BY <1>2, <2>1
    <3>2. t[home] # <<>>
      BY <2>1 DEF ToSet
    <3> QED BY <1>2, <2>1, <2>2, <3>1, <3>2 DEF Last
  <2>5. /\ new \in Seq(Events) /\ Len(new) = m + 1 /\ new[m + 1] = g
        /\ \A i \in 1..m : new[i] = t[home][i]
    BY <2>4
  <2> HIDE DEF new, m
  <2>6. /\ s \in [Events -> Seq(Events)] /\ s[home] = new
        /\ \A a \in Events : a # home => s[a] = t[a]
    BY <1>2, <2>1, <2>5
  <2> HIDE DEF s
  <2>7. Len(t[home]) = m
    BY DEF m
  <2>8. \A a \in Events : a # home => \A i : Step(s, a, i) = Step(t, a, i)
    BY <2>6 DEF Step
  <2>9. /\ \A i \in 1..m - 1 : Step(s, home, i) = Step(t, home, i)
        /\ Step(s, home, m) = <<f, g>>
    <3>1. \A i \in 1..m - 1 : i \in 1..m /\ i + 1 \in 1..m
      BY <2>4
    <3>2. m \in 1..m
      BY <2>4
    <3> QED BY <2>4, <2>5, <2>6, <3>1, <3>2 DEF Step
  <2>10. Woven(s, more)
    <3>1. \A a \in Events : s[a] # <<>> => Len(s[a]) > 1 /\ s[a][1] = a
      <4>1. Len(s[home]) > 1 /\ s[home][1] = home
        BY <2>4, <2>5, <2>6
      <4> QED BY <1>2, <2>6, <4>1
    <3>2. ASSUME NEW b \in Events, b # home, NEW i \in 1..Len(new), NEW j \in 1..Len(t[b])
          PROVE  new[i] # t[b][j]
      <4>1. CASE i \in 1..m
        BY <1>2, <2>1, <2>5, <2>7, <3>2, <4>1
      <4>2. CASE i = m + 1
        BY <1>5, <2>5, <3>2, <4>2
      <4> QED BY <2>4, <2>5, <3>2, <4>1, <4>2
    <3>3. ASSUME NEW a \in Events, NEW b \in Events, a # b, NEW i \in 1..Len(s[a]), NEW j \in 1..Len(s[b])
          PROVE  s[a][i] # s[b][j]
      <4>1. CASE a = home
        <5>1. s[a] = new /\ s[b] = t[b]
          BY <2>6, <3>3, <4>1
        <5>2. new[i] # t[b][j]
          BY <3>2, <3>3, <4>1, <5>1
        <5> QED BY <5>1, <5>2
      <4>2. CASE b = home
        <5>1. s[b] = new /\ s[a] = t[a]
          BY <2>6, <3>3, <4>2
        <5>2. new[j] # t[a][i]
          BY <3>2, <3>3, <4>2, <5>1
        <5> QED BY <5>1, <5>2
      <4>3. CASE a # home /\ b # home
        <5>1. s[a] = t[a] /\ s[b] = t[b]
          BY <2>6, <4>3
        <5>2. i \in 1..Len(t[a]) /\ j \in 1..Len(t[b])
          BY <3>3, <5>1
        <5>3. t[a][i] # t[b][j]
          BY <1>2, <3>3, <5>2
        <5> QED BY <5>1, <5>3
      <4> QED BY <4>1, <4>2, <4>3
    <3>4. ASSUME NEW a \in Events, NEW i \in 1..Len(s[a]) - 1 PROVE Step(s, a, i) \in more
      <4>1. CASE a # home
        BY <1>2, <2>6, <2>8, <3>4, <4>1
      <4>2. CASE a = home
        <5>1. i \in 1..m - 1 \/ i = m
          BY <2>4, <2>5, <2>6, <3>4, <4>2
        <5> QED BY <1>2, <2>1, <2>7, <2>9, <4>2, <5>1
      <4> QED BY <4>1, <4>2
    <3>5. ASSUME NEW p \in more
          PROVE  \E a \in Events : \E i \in 1..Len(s[a]) - 1 : p = Step(s, a, i)
      <4>1. CASE p \in pairs
        <5>0. PICK a \in Events : \E i \in 1..Len(t[a]) - 1 : p = Step(t, a, i)
          BY <1>2, <4>1
        <5>1. PICK i \in 1..Len(t[a]) - 1 : p = Step(t, a, i)
          BY <5>0
        <5>2. CASE a # home
          BY <2>6, <2>8, <5>1, <5>2
        <5>3. CASE a = home
          <6>1. i \in 1..m - 1 /\ i \in 1..Len(s[home]) - 1
            BY <2>4, <2>5, <2>6, <2>7, <5>1, <5>3
          <6> QED BY <2>1, <2>9, <5>1, <5>3, <6>1
        <5> QED BY <5>2, <5>3
      <4>2. CASE p = <<f, g>>
        <5>1. m \in 1..Len(s[home]) - 1
          BY <2>4, <2>5, <2>6
        <5> QED BY <2>1, <2>9, <4>2, <5>1
      <4> QED BY <3>5, <4>1, <4>2
    <3> HIDE DEF more
    <3> QED BY <2>6, <3>1, <3>3, <3>4, <3>5 DEF Woven
  <2>11. r.threads = s
    BY <2>3
  <2> QED BY <1>f, <1>1, <2>3, <2>10, <2>11
<1>8. QED BY <1>6, <1>7

(* The loop over accepted edges adds them to the threads, if none of them is refused. *)
LEMMA LoopWeaves ==
  ASSUME NEW edges, NEW pairs, Woven(threads, pairs), Linear(edges),
         \A x \in edges : x.from \in Events /\ x.to \in Events,
         Appended(edges).ok
  PROVE  Woven(Appended(edges).threads, pairs \cup {<<x.from, x.to>> : x \in edges})
<1>0. MaxEvent \in Nat
  BY MemoryAssumption
<1>1. PICK book : /\ Appended(edges) = book[MaxEvent]
                  /\ book[0] = [threads |-> threads, ok |-> TRUE]
                  /\ \A n \in 1..MaxEvent : book[n] = Put(edges, book[n - 1], n)
  BY Turns
<1> DEFINE Upto(n) == pairs \cup {<<x.from, x.to>> : x \in {y \in edges : y.from <= n}}
           Fits(n) == book[n].ok => /\ book[n] = [threads |-> book[n].threads, ok |-> TRUE]
                                    /\ Woven(book[n].threads, Upto(n))
           Bad == {n \in 0..MaxEvent : ~Fits(n)}
<1>2. Fits(0)
  <2>1. Upto(0) = pairs
    BY <1>0 DEF Events
  <2> QED BY <1>1, <2>1
<1>3. ASSUME NEW n \in 1..MaxEvent, Fits(n - 1) PROVE Fits(n)
  <2>1. book[n] = Put(edges, book[n - 1], n)
    BY <1>1
  <2>2. CASE ~\E x \in edges : x.from = n
    <3>1. book[n] = book[n - 1]
      BY <2>1, <2>2 DEF Put
    <3>2. {y \in edges : y.from <= n} = {y \in edges : y.from <= n - 1}
      BY <1>0, <2>2 DEF Events
    <3> QED BY <1>3, <3>1, <3>2
  <2>3. CASE \E x \in edges : x.from = n
    <3>1. PICK x : x = CHOOSE y \in edges : y.from = n
      OBVIOUS
    <3>2. x \in edges /\ x.from = n
      BY <2>3, <3>1
    <3>3. book[n] = AppendContinuation(book[n - 1], x)
      BY <2>1, <2>3, <3>1 DEF Put
    <3>4. SUFFICES ASSUME book[n].ok
                   PROVE  /\ book[n] = [threads |-> book[n].threads, ok |-> TRUE]
                          /\ Woven(book[n].threads, Upto(n))
      OBVIOUS
    <3>5. book[n - 1].ok
      BY <3>3, <3>4 DEF AppendContinuation
    <3>6. PICK t : /\ book[n - 1] = [threads |-> t, ok |-> TRUE]
                   /\ Woven(t, Upto(n - 1))
      BY <1>3, <3>5
    <3>7. Upto(n) = Upto(n - 1) \cup {<<x.from, x.to>>}
      <4>1. \A y \in edges : y.from <= n <=> y.from <= n - 1 \/ y.from = n
        BY <1>0 DEF Events
      <4>2. \A y \in edges : y.from = n => y = x
        BY <3>2 DEF Linear
      <4> QED BY <3>2, <4>1, <4>2
    <3>8. x.from \in Events /\ x.to \in Events
      BY <3>2
    <3> HIDE DEF Upto
    <3>9. PICK v : v = book[n - 1]
      OBVIOUS
    <3>10. AppendContinuation(v, x).ok /\ v = [threads |-> t, ok |-> TRUE]
      BY <3>3, <3>4, <3>6, <3>9
    <3>11. PICK more : more = Upto(n - 1)
      OBVIOUS
    <3>12. Woven(t, more)
      BY <3>6, <3>11
    <3>13. /\ AppendContinuation(v, x) = [threads |-> AppendContinuation(v, x).threads, ok |-> TRUE]
           /\ Woven(AppendContinuation(v, x).threads, more \cup {<<x.from, x.to>>})
      BY <3>8, <3>10, <3>12, AppendWeaves
    <3> QED BY <3>3, <3>7, <3>9, <3>11, <3>13
  <2> QED BY <2>2, <2>3
<1>4. Bad = {}
  <2> SUFFICES ASSUME Bad # {} PROVE FALSE
    OBVIOUS
  <2>0. Bad \in SUBSET Nat
    BY <1>0
  <2>1. PICK m \in Bad : \A k \in Bad : m <= k
    BY <2>0, Least
  <2>2. m \in 0..MaxEvent /\ ~Fits(m)
    BY <2>1
  <2> HIDE DEF Fits
  <2>3. m \in 1..MaxEvent /\ m - 1 \in 0..MaxEvent
    BY <1>0, <1>2, <2>2
  <2>4. ~(m <= m - 1)
    BY <2>3
  <2>5. m - 1 \notin Bad
    <3> HIDE DEF Bad
    <3> QED BY <2>1, <2>4
  <2>6. Fits(m - 1)
    BY <2>3, <2>5
  <2> QED BY <1>3, <2>2, <2>3, <2>6
<1>5. Fits(MaxEvent)
  <2>1. MaxEvent \in 0..MaxEvent
    BY <1>0
  <2> HIDE DEF Fits
  <2> QED BY <1>4, <2>1
<1>6. Upto(MaxEvent) = pairs \cup {<<x.from, x.to>> : x \in edges}
  <2>1. {y \in edges : y.from <= MaxEvent} = edges
    BY DEF Events
  <2> QED BY <2>1
<1> HIDE DEF Upto
<1>7. QED BY <1>1, <1>5, <1>6

(* The threads are woven of the accepted edges of all receipts, each of which ends in
   the day of its receipt. *)
Pairs(rows) == {<<x.from, x.to>> : x \in UNION {rows[d].accepted : d \in Days}}
ThreadsInv ==
  /\ Woven(threads, Pairs(receipts))
  /\ \A d \in Days : \A x \in receipts[d].accepted :
       x.from \in Events /\ x.to \in Events /\ DayOf[x.to] = d

LEMMA ThreadsInit == Init => ThreadsInv
<1> SUFFICES ASSUME Init PROVE ThreadsInv
  OBVIOUS
<1>1. threads = [a \in Events |-> <<>>] /\ receipts = [d \in Days |-> NoReceipt]
  BY DEF Init, MemoryInit
<1>2. \A d \in Days : receipts[d].accepted = {}
  BY <1>1 DEF NoReceipt
<1>3. Pairs(receipts) = {}
  BY <1>2 DEF Pairs
<1>4. Woven(threads, {})
  BY <1>1 DEF Woven
<1>5. QED BY <1>2, <1>3, <1>4 DEF ThreadsInv

(* A settlement writes the threads and the receipt in one transaction. *)
LEMMA ThreadsSettle ==
  ASSUME DigestionInv, ThreadsInv, NEW d \in Days, NEW plan,
         NEW accepted \in SUBSET plan.candidates, Linear(accepted),
         receipts[d] = NoReceipt,
         CanSettle(d, plan, accepted), CommitSettlement(d, plan, accepted)
  PROVE  ThreadsInv'
<1>1. encoded \subseteq Events /\ receipts = [e \in Days |-> receipts[e]]
  BY DEF DigestionInv, RowsFit
<1>2. /\ EventsOf(d) \cap encoded = plan.events
      /\ Appended(accepted).ok
      /\ \A c \in plan.candidates :
           {c.from, c.match, c.to} \subseteq encoded /\ c.to \in plan.events
  BY DEF CanSettle, SourceHolds, CandidatesHold
<1>3. \A x \in accepted : x.from \in Events /\ x.to \in Events /\ DayOf[x.to] = d
  BY <1>1, <1>2 DEF EventsOf
<1>4. /\ threads' = Appended(accepted).threads
      /\ receipts' = [receipts EXCEPT ![d] = Settled(plan, accepted)]
  BY DEF CommitSettlement
<1>5. /\ receipts'[d].accepted = accepted
      /\ \A e \in Days : e # d => receipts'[e] = receipts[e]
  BY <1>1, <1>4 DEF Settled
<1>6. receipts[d].accepted = {}
  BY DEF NoReceipt
<1>7. Pairs(receipts)' = Pairs(receipts) \cup {<<x.from, x.to>> : x \in accepted}
  <2> DEFINE U == UNION {receipts[e].accepted : e \in Days}
             V == UNION {receipts'[e].accepted : e \in Days}
  <2>1. \A x : x \in U <=> \E e \in Days : x \in receipts[e].accepted
    OBVIOUS
  <2>2. \A x : x \in V <=> \E e \in Days : x \in receipts'[e].accepted
    OBVIOUS
  <2>3. Pairs(receipts) = {<<x.from, x.to>> : x \in U} /\ Pairs(receipts)' = {<<x.from, x.to>> : x \in V}
    BY DEF Pairs
  <2> HIDE DEF U, V
  <2>4. V = U \cup accepted
    BY <1>5, <1>6, <2>1, <2>2
  <2> QED BY <2>3, <2>4
<1>8. Woven(threads', Pairs(receipts) \cup {<<x.from, x.to>> : x \in accepted})
  BY <1>2, <1>3, <1>4, LoopWeaves DEF ThreadsInv
<1>9. \A e \in Days : \A x \in receipts'[e].accepted :
        x.from \in Events /\ x.to \in Events /\ DayOf[x.to] = e
  BY <1>3, <1>5 DEF ThreadsInv
<1>10. QED BY <1>7, <1>8, <1>9 DEF ThreadsInv

LEMMA ThreadsStay == ThreadsInv /\ UNCHANGED <<threads, receipts>> => ThreadsInv'
<1> SUFFICES ASSUME ThreadsInv, UNCHANGED <<threads, receipts>> PROVE ThreadsInv'
  OBVIOUS
<1>1. Pairs(receipts)' = Pairs(receipts)
  BY DEF Pairs
<1>2. QED BY <1>1 DEF ThreadsInv

LEMMA ThreadsStep ==
  ASSUME DigestionInv, ThreadsInv, [Next]_vars
  PROVE  ThreadsInv'
<1>1. ASSUME NEW c \in Callers, DayJudged(c) PROVE ThreadsInv'
  <2> DEFINE w == work[c]
  <2>1. PICK accepted \in {s \in SUBSET w.plan.candidates : Linear(s)} :
          \/ /\ CanSettle(w.day, w.plan, accepted)
             /\ CommitSettlement(w.day, w.plan, accepted)
          \/ UNCHANGED memoryVars
    BY <1>1 DEF DayJudged
  <2>2. w.at = "settles" /\ w.day \in Days /\ receipts[w.day] = NoReceipt
    BY <1>1 DEF DayJudged, DigestionInv, RowsFit, WorkInv, AsksOnce
  <2> QED BY <2>1, <2>2, ThreadsSettle, ThreadsStay DEF memoryVars
<1>2. CASE UNCHANGED <<threads, receipts>>
  BY <1>2, ThreadsStay
<1>3. ASSUME NEW c \in Callers, Encode(c), ~DayJudged(c) PROVE UNCHANGED <<threads, receipts>>
  BY <1>3 DEF Encode, TakeLock, BatchEncoded, BatchFlagged, BatchFails, JudgingFails,
     CommitEncoding, memoryVars
<1>4. CASE Run
  BY <1>2, <1>4 DEF Run, Begin, MemoryEnds, CallEnds, CallFallsShort, memoryVars
<1>5. CASE \/ CloseDay \/ Tick \/ Retry \/ Request \/ RequestAnswered
           \/ SourceChanges \/ Restart \/ Rest \/ UNCHANGED vars
  BY <1>2, <1>5 DEF CloseDay, Tick, Retry, Request, RequestAnswered, SourceChanges, Restart,
     Rest, vars, memoryVars
<1>6. QED BY <1>1, <1>2, <1>3, <1>4, <1>5 DEF Next

(* What the day settlements leave in thread_events, as DailyDigestion.ThreadsReceipted says of
   commit_day_settlement and _append_continuation: a thread begins at its anchor, an event is
   in one thread only, and the steps from one member to the next are the edges accepted by
   the receipts of the days they end in, no more and no fewer. *)
THEOREM ThreadsReceiptedHolds == Spec => []ThreadsReceipted
<1>1. ThreadsInv => ThreadsReceipted
  <2> SUFFICES ASSUME ThreadsInv PROVE ThreadsReceipted
    OBVIOUS
  <2>1. Woven(threads, Pairs(receipts))
    BY DEF ThreadsInv
  <2>2. ASSUME NEW a \in Events, NEW e \in ToSet(threads[a])
        PROVE  \E i \in 1..Len(threads[a]) : threads[a][i] = e
    <3>1. DOMAIN threads[a] = 1..Len(threads[a])
      BY <2>1 DEF Woven
    <3> QED BY <3>1 DEF ToSet
  <2>3. \A a \in Events : threads[a] # <<>> => Len(threads[a]) > 1 /\ Head(threads[a]) = a
    BY <2>1 DEF Woven
  <2>4. \A a, b \in Events : a # b => ToSet(threads[a]) \cap ToSet(threads[b]) = {}
    <3> SUFFICES ASSUME NEW a \in Events, NEW b \in Events, a # b,
                        NEW e, e \in ToSet(threads[a]), e \in ToSet(threads[b])
                 PROVE  FALSE
      OBVIOUS
    <3>1. PICK i \in 1..Len(threads[a]) : threads[a][i] = e
      BY <2>2
    <3>2. PICK j \in 1..Len(threads[b]) : threads[b][j] = e
      BY <2>2
    <3> QED BY <2>1, <3>1, <3>2 DEF Woven
  <2>5. Neighbours = Pairs(receipts)
    <3>1. \A p \in Neighbours : p \in Pairs(receipts)
      BY <2>1 DEF Woven, Neighbours, Step
    <3>2. ASSUME NEW p \in Pairs(receipts) PROVE p \in Neighbours
      <4>0. PICK a \in Events : \E i \in 1..Len(threads[a]) - 1 : p = Step(threads, a, i)
        BY <2>1 DEF Woven
      <4>1. PICK i \in 1..Len(threads[a]) - 1 : p = Step(threads, a, i)
        BY <4>0
      <4>2. threads[a] \in Seq(Events) /\ i \in 1..Len(threads[a]) /\ i + 1 \in 1..Len(threads[a])
        BY <2>1 DEF Woven
      <4>3. p \in Events \X Events
        BY <4>1, <4>2 DEF Step
      <4> QED BY <4>1, <4>3 DEF Neighbours, Step
    <3> QED BY <3>1, <3>2
  <2>6. \A d \in Days, x \in Edges : x \in receipts[d].accepted => DayOf[x.to] = d
    BY DEF ThreadsInv
  <2> QED BY <2>3, <2>4, <2>5, <2>6 DEF ThreadsReceipted, Pairs
<1>2. DigestionInv /\ ThreadsInv /\ [Next]_vars => ThreadsInv'
  BY ThreadsStep
<1>3. QED BY <1>1, <1>2, ThreadsInit, DigestionHolds, PTL DEF Spec
=============================================================================
