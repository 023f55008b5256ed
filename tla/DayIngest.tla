------------------------------- MODULE DayIngest -------------------------------
(***************************************************************************)
(* The online ingest of completed days (online_ingest, day_backfill_runner)  *)
(* and the repair of days whose messages were changed later (day_repair,     *)
(* day_repair_staging, day_repair_promotion, day_repair_runner), beside the  *)
(* people who edit, delete, revoke and clear messages.  A change is made in  *)
(* the conversation first; the call that tells Memory V2 of it               *)
(* (source_lifecycle) comes later, more than once, or never.                 *)
(*                                                                          *)
(* One ingest at a time (_online_lock).  The model calls, and the            *)
(* statements between two looks at either database, are points at which the  *)
(* conversation may change and the process may die.  Every day of the        *)
(* instance is over.                                                         *)
(***************************************************************************)
EXTENDS EventStore

CONSTANTS
  MaxDays,     \* max_days_per_run
  Changeable,  \* bound: the messages people change
  MaxChanges,  \* bound: changes of the conversation
  MaxFaults    \* bound: model calls that fail, processes that die, and calls
               \* that tell Memory V2 of a change once more

ASSUME IngestAssumption ==
  /\ MaxDays \in Nat \ {0} /\ Changeable \subseteq Messages
  /\ MaxChanges \in Nat /\ MaxFaults \in Nat

VARIABLES
  owed,     \* changes Memory V2 has not been told of
  told,     \* changes it has been told of
  replays,  \* how many were told once more
  failures, \* how many model calls failed and processes died
  run,      \* the ingest under way, lost with its process
  stages,   \* the stage directories that a dead process left behind
  missed    \* history: the rows Memory V2 was told of a change to before it had them

vars == <<text, rows, threads, settled, owed, told, replays, failures, run, stages,
          missed>>

-----------------------------------------------------------------------------
(* The ingest under way *)

(* at: "idle"; "between" two days; "encoding" a day into the store, "storing" an
   event of it, "settling" it; "staging" a repair, "staged".  todo: the days selected; plan: the sources
   of the day by session; left: the sessions not encoded yet; db: the rows of the
   stage, a copy of the store; seen: the lineage the settlement was assembled from,
   with the continuation it offers; cites: what the event being stored cites, late:
   whether Memory V2 has been told of a change of that since it was validated. *)
Idle == [at |-> "idle", todo |-> {}, plan |-> <<>>, left |-> {}, db |-> <<>>,
         base |-> 0, seen |-> {}, offer |-> NoOffer, cites |-> {}, late |-> FALSE]

(* Mutant: the newest day first. *)
NewestWork == CHOOSE c \in run.todo : \A e \in run.todo : c.day >= e.day

(* The oldest of the days selected. *)
Work == CHOOSE c \in run.todo : \A e \in run.todo : c.day <= e.day

Day == Work.day
First(S) == CHOOSE s \in S : \A x \in S : s <= x
Source == run.plan[First(run.left)]
Fails == run' = Idle
DayDone ==
  run' = IF run.todo = {Work} THEN Idle
         ELSE [Idle EXCEPT !.at = "between", !.todo = run.todo \ {Work}]

(* ingest_completed_days: repairs and days without a receipt, oldest first *)
Unsettled == SpokenDays \ (settled \cup PendingDays)
Candidates ==
  {[day |-> d, work |-> "repair"] : d \in PendingDays} \cup
  {[day |-> d, work |-> "ingest"] : d \in Unsettled}
Selected ==
  {c \in Candidates : Cardinality({e \in Candidates : e.day < c.day}) < MaxDays}

(* repair_id: the day, what the conversation says of it and what stands. *)
Identity(d, plan, db) == [day |-> d, plan |-> plan, baseline |-> Baseline(db, d)]

-----------------------------------------------------------------------------
(* People change the conversation; the host tells Memory V2 *)

Changes == Cardinality(owed) + Cardinality(told)
Faulty == replays + failures < MaxFaults

Edit(m) ==
  /\ Changes < MaxChanges /\ text[m] # 0
  /\ text' = [text EXCEPT ![m] = @ + 1]
  /\ owed' = owed \cup {[kind |-> "edited", of |-> {m}, to |-> text[m] + 1]}
  /\ UNCHANGED <<rows, threads, settled, told, replays, failures, run, stages, missed>>

(* A message is deleted or revoked, or what is left of a session is cleared. *)
Delete(S) ==
  /\ Changes < MaxChanges /\ S # {} /\ \A m \in S : text[m] # 0
  /\ text' = [m \in Messages |-> IF m \in S THEN 0 ELSE text[m]]
  /\ owed' = owed \cup {[kind |-> "deleted", of |-> S, to |-> 0]}
  /\ UNCHANGED <<rows, threads, settled, told, replays, failures, run, stages, missed>>

(* reconcile_memory_v2_source_mutation: it reaches the rows there are, not the one
   that is being stored. *)
Reconcile(change) ==
  /\ change \in owed
  /\ rows' = Invalidated(change)
  /\ owed' = owed \ {change} /\ told' = told \cup {change}
  /\ run' = [run EXCEPT !.late = @ \/ run.cites \cap change.of # {}]
  /\ UNCHANGED <<text, threads, settled, replays, failures, stages, missed>>

(* The same call again: a retry, or a second host. *)
Replay(change) ==
  /\ change \in told /\ Faulty
  /\ rows' = Invalidated(change)
  /\ replays' = replays + 1
  /\ UNCHANGED <<text, threads, settled, owed, told, failures, run, stages, missed>>

-----------------------------------------------------------------------------
(* ingest_completed_days *)

StartRun ==
  /\ run.at = "idle" /\ Candidates # {}
  /\ run' = [Idle EXCEPT !.at = "between", !.todo = Selected]
  /\ UNCHANGED <<text, rows, threads, settled, owed, told, replays, failures, stages, missed>>

(* An exception, a model call that fails, a cancellation or a death: all end the
   run.  Only a repair cut off by the last two leaves its stage behind. *)
Dies ==
  /\ run.at # "idle" /\ Faulty
  /\ failures' = failures + 1
  /\ Fails
  /\ stages' = IF run.at \in {"staging", "staged"}
               THEN stages \cup {Identity(Day, run.plan, SubSeq(run.db, 1, run.base))}
               ELSE stages
  /\ UNCHANGED <<text, rows, threads, settled, owed, told, replays, missed>>

ModelFails ==
  /\ \/ run.at = "encoding" /\ run.left # {} /\ Stored(Source) = {}
     \/ run.at = "staging" /\ run.left # {}
     \/ run.at = "settling"
  /\ Faulty /\ failures' = failures + 1
  /\ Fails
  /\ UNCHANGED <<text, rows, threads, settled, owed, told, replays, stages, missed>>

-----------------------------------------------------------------------------
(* run_backfill_day *)

(* A day whose messages are gone meanwhile is "empty_day": no success. *)
TakeDay ==
  /\ run.at = "between" /\ Work.work = "ingest"
  /\ IF Day \in SpokenDays
     THEN run' = [run EXCEPT !.at = "encoding", !.plan = PlanOf(Day),
                             !.left = DOMAIN PlanOf(Day)]
     ELSE Fails
  /\ UNCHANGED <<text, rows, threads, settled, owed, told, replays, failures, stages, missed>>

(* load_completed_events finds the batch, or refuses to go on: the sources have
   changed, or its name was used for other ones (ImmutableConflictError). *)
LoadBatch ==
  /\ run.at = "encoding" /\ run.left # {}
  /\ \/ /\ Cached(Source)
        /\ run' = [run EXCEPT !.left = @ \ {First(@)}]
     \/ /\ ~Cached(Source) /\ (~Fresh(Source) \/ Stored(Source) # {})
        /\ Fails
  /\ UNCHANGED <<text, rows, threads, settled, owed, told, replays, failures, stages, missed>>

(* Mutant: the answer is committed whatever the conversation says by now. *)
CheckNothing(cites) ==
  /\ run.at = "encoding" /\ run.left # {}
  /\ Stored(Source) = {} /\ cites \subseteq DOMAIN Source
  /\ run' = [run EXCEPT !.at = "storing", !.cites = cites]
  /\ UNCHANGED <<text, rows, threads, settled, owed, told, replays, failures, stages,
                 missed>>

(* commit_encoding of what the encoder made of the session: the sources are validated
   once more against the conversation, *)
CheckSources(cites) ==
  /\ run.at = "encoding" /\ run.left # {}
  /\ Fresh(Source) /\ Stored(Source) = {} /\ cites \subseteq DOMAIN Source
  /\ run' = [run EXCEPT !.at = "storing", !.cites = cites]
  /\ UNCHANGED <<text, rows, threads, settled, owed, told, replays, failures, stages,
                 missed>>

(* and only then does the transaction on the other database begin, which does not look
   at the conversation again. *)
StoreBatch ==
  /\ run.at = "storing"
  /\ rows' = Append(rows, Row(Day, First(run.left), Source, run.cites, TRUE))
  /\ run' = [run EXCEPT !.at = "encoding", !.left = @ \ {First(@)}, !.cites = {},
                        !.late = FALSE]
  /\ missed' = IF run.late THEN missed \cup {Len(rows) + 1} ELSE missed
  /\ UNCHANGED <<text, threads, settled, owed, told, replays, failures, stages>>

(* _day_commit_valid: every batch of the plan is stored and still true. *)
CommitValid == \A s \in DOMAIN run.plan : Cached(run.plan[s])

(* settle_completed_day assembles the day; without an active event it is skipped
   and no receipt is written. *)
Assemble ==
  /\ run.at = "encoding" /\ run.left = {}
  /\ \/ /\ LiveOf(rows, Day) = {}
        /\ IF CommitValid THEN DayDone ELSE Fails
     \/ /\ LiveOf(rows, Day) # {}
        /\ \E offer \in Offers(Day) :
             run' = [run EXCEPT !.at = "settling", !.seen = Lineage(Day),
                                !.offer = offer]
  /\ UNCHANGED <<text, rows, threads, settled, owed, told, replays, failures, stages, missed>>

(* commit_day_settlement may write the receipt, and the link if one is accepted. *)
CanCommit(linked) ==
  /\ Lineage(Day) = run.seen
  /\ TailHolds(run.offer)
  /\ linked => run.offer # NoOffer /\ CanAppend(run.offer)

CommitDay(linked) ==
  /\ run.at = "settling" /\ CanCommit(linked)
  /\ settled' = settled \cup {Day}
  /\ threads' = IF linked THEN Appended(run.offer) ELSE threads
  /\ IF CommitValid THEN DayDone ELSE Fails
  /\ UNCHANGED <<text, rows, owed, told, replays, failures, stages, missed>>

CommitRefused(linked) ==
  /\ run.at = "settling" /\ ~CanCommit(linked) /\ (linked => run.offer # NoOffer)
  /\ Fails
  /\ UNCHANGED <<text, rows, threads, settled, owed, told, replays, failures, stages, missed>>

-----------------------------------------------------------------------------
(* run_day_repair *)

(* DayRepairPlanner.plan and the head of execute_day_repair_staging: the stage
   is a copy of the store in a directory of the repair's name, which must not be
   there yet. *)
TakeRepair ==
  /\ run.at = "between" /\ Work.work = "repair"
  /\ IF Day \in PendingDays /\ Identity(Day, PlanOf(Day), rows) \notin stages
     THEN run' = [run EXCEPT !.at = "staging", !.plan = PlanOf(Day),
                             !.left = DOMAIN PlanOf(Day), !.db = rows,
                             !.base = Len(rows)]
     ELSE Fails
  /\ UNCHANGED <<text, rows, threads, settled, owed, told, replays, failures, stages, missed>>

(* commit_encoding into the stage, which no change reaches before the promotion *)
StageBatch(cites) ==
  /\ run.at = "staging" /\ run.left # {} /\ cites \subseteq DOMAIN Source
  /\ IF Fresh(Source)
     THEN run' = [run EXCEPT !.db = Append(@, Row(Day, First(run.left), Source, cites, FALSE)),
                             !.left = @ \ {First(@)}]
     ELSE Fails
  /\ UNCHANGED <<text, rows, threads, settled, owed, told, replays, failures, stages, missed>>

(* _same_plan: planned again, the repair would be the same. *)
SamePlan ==
  /\ PlanOf(Day) = run.plan
  /\ Baseline(rows, Day) = Baseline(SubSeq(run.db, 1, run.base), Day)

Previous == Standing(SubSeq(run.db, 1, run.base), Day)

(* The rest of the staging: what stood is replaced, in the stage. *)
FinishStage ==
  /\ run.at = "staging" /\ run.left = {}
  /\ IF SamePlan THEN run' = [run EXCEPT !.at = "staged"] ELSE Fails
  /\ UNCHANGED <<text, rows, threads, settled, owed, told, replays, failures, stages, missed>>

NewThreads == Projections(run.db, run.base, Previous)

(* _validate_thread_baselines: the others a thread keeps are active still. *)
KeptActive ==
  \A t \in NewThreads : \A i \in ToSet(t) :
    i <= run.base => rows[i].status = "active"

(* Mutant: the stage is promoted as it was planned. *)
PromoteBlindly == KeptActive

CanPromote == SamePlan /\ KeptActive

(* promote_day_repair: one transaction over the store and the stage. *)
Promote ==
  /\ run.at = "staged"
  /\ IF CanPromote
     THEN /\ rows' = Replaced(rows, Previous) \o
                     SubSeq(run.db, run.base + 1, Len(run.db))
          /\ threads' = (threads \ Affected(Previous)) \cup NewThreads
          /\ DayDone
     ELSE Fails /\ UNCHANGED <<rows, threads>>
  /\ UNCHANGED <<text, settled, owed, told, replays, failures, stages, missed>>

-----------------------------------------------------------------------------
People ==
  \/ \E m \in Changeable : Edit(m) \/ Delete({m})
  \/ \E d \in Days, s \in Sessions : Said(d, s) \subseteq Changeable /\ Delete(Said(d, s))
  \/ \E change \in owed : Reconcile(change)
  \/ \E change \in told : Replay(change)

Progress ==
  \/ StartRun \/ TakeDay \/ LoadBatch \/ Assemble
  \/ \E cites \in SUBSET Messages : CheckSources(cites) \/ StageBatch(cites)
  \/ StoreBatch
  \/ \E linked \in BOOLEAN : CommitDay(linked) \/ CommitRefused(linked)
  \/ TakeRepair \/ FinishStage \/ Promote

Init ==
  /\ StoreInit
  /\ owed = {} /\ told = {} /\ replays = 0 /\ failures = 0
  /\ run = Idle
  /\ stages = {} /\ missed = {}

Next == People \/ Progress \/ ModelFails \/ Dies

(* The host starts a run at every start and every day, and a run goes on; the
   model calls that fail and the deaths are finitely many.  Nobody is obliged to
   tell Memory V2 of a change. *)
Spec == Init /\ [][Next]_vars
FairSpec == Spec /\ WF_vars(Progress)

-----------------------------------------------------------------------------
TypeOK ==
  /\ StoreTypeOK
  /\ \A c \in owed \cup told : c.kind \in {"edited", "deleted"} /\ c.of \subseteq Messages
  /\ replays + failures \in 0..MaxFaults
  /\ run.at \in {"idle", "between", "encoding", "storing", "settling", "staging",
                "staged"}
  /\ run.left \subseteq DOMAIN run.plan /\ run.cites \subseteq Messages
  /\ run.late \in BOOLEAN /\ missed \subseteq DOMAIN rows

(* Memory is true to the conversation: an active event cites only messages that
   still say what they said when it was encoded, messages whose change Memory V2
   has yet to be told of, or a deleted message of which it cites an identical
   twin that is still there, whatever is encoded, repaired, told and replayed in
   which order.  Excepted is the event Memory V2 was told of before it had it: between
   the last look at the conversation and the transaction that stores the event. *)
TrueOrOwed(src, m) == text[m] = src[m] \/ \E change \in owed : m \in change.of
TrueUnlessMissed ==
  \A i \in Live(rows) \ missed : \A m \in rows[i].cites :
    \/ TrueOrOwed(rows[i].src, m)
    \/ text[m] = 0 /\ \E n \in rows[i].cites :
         Identical(rows[i].src, m, n) /\ TrueOrOwed(rows[i].src, n)

(* A repaired event takes the place of the old one in every thread: an active
   thread links two or more different events in the order of their days, and
   never one that was replaced. *)
ThreadsFollow ==
  \A t \in threads :
    /\ Len(t) >= 2
    /\ \A j, k \in DOMAIN t : j < k => t[j] # t[k] /\ rows[t[j]].day <= rows[t[k]].day
    /\ \A i \in ToSet(t) : rows[i].status \in {"active", "invalid"}

(* A repair replaces the whole day: once it is promoted, each session of the day
   has at most one event in force, made of what the session says at that moment. *)
RepairedWhole ==
  [][\A d \in Days :
       (\E i \in DOMAIN rows : /\ rows[i].day = d /\ rows[i].status # "replaced"
                               /\ rows'[i].status = "replaced")
       => /\ \A i \in LiveOf(rows', d) : rows'[i].src = PlanOf(d)[rows'[i].sess]
          /\ \A i, j \in LiveOf(rows', d) : i # j => rows'[i].sess # rows'[j].sess
          /\ \A i \in DOMAIN rows' : rows'[i].day = d => rows'[i].status # "invalid"]_vars

(* What keeps a day from ever being ingested or repaired: the stage a dead process
   left, a batch whose name stands for other sources, a thread that has grown past
   the day. *)
Conflicting(d) ==
  \E s \in DOMAIN PlanOf(d) :
    Stored(PlanOf(d)[s]) # {} /\ ~Cached(PlanOf(d)[s])
Overtaken(d) == \E t \in Eligible(d) : Before(t, d) # DOMAIN t
Jammed(d) ==
  \/ d \in PendingDays /\ Identity(d, PlanOf(d), rows) \in stages
  \/ d \in Unsettled /\ (Conflicting(d) \/ Overtaken(d))

(* A day without an event is skipped, and selected again by every run. *)
Barren(d) == d \in Unsettled /\ LiveOf(rows, d) = {}

(* Once people stop, every day is settled and no event of it waits for a repair,
   unless an earlier day is jammed or the days without an event fill every run. *)
DaysSettle ==
  <>[](\A d \in Days :
         \/ d \notin PendingDays \cup Unsettled
         \/ Barren(d)
         \/ \E e \in Days : e <= d /\ Jammed(e)
         \/ Cardinality({e \in Days : e < d /\ Barren(e)}) >= MaxDays)
=============================================================================
