---------------------------- MODULE DailyDigestion ----------------------------
(***************************************************************************)
(* The daily digestion of the local host: each closed day has three jobs,    *)
(* memory, cognition and diary, which one digestion task runs in this order. *)
(* The lifecycle's tick starts the task for the oldest day with a pending    *)
(* job, a person may start it again for a day.  The memory job encodes the   *)
(* day's batches and settles the day in the memory store (DayMemory), and so *)
(* does a request to the memory API, under one lock, memory.lock.            *)
(*                                                                          *)
(* jobs are SQLite rows, the memory store is a second SQLite file; the task  *)
(* and the two encodings die with the process.  A step goes from one await   *)
(* to the next, except that the memory store's commits and the job row that  *)
(* follows them are steps of their own: the process may die between them.    *)
(***************************************************************************)
EXTENDS DayMemory

CONSTANT
  MaxDisturbances  \* bound: failing model calls, restarts, retries by hand,
                   \* requests to the memory API and changed days, all together

ASSUME DigestionAssumption ==
  /\ MaxDisturbances \in Nat
  /\ \A d \in Days : EventsOf(d) # {}

Stages == {"memory", "cognition", "diary"}
Place == [memory |-> 1, cognition |-> 2, diary |-> 3]
Callers == {"digest", "request"}

VARIABLES
  closed,   \* local_days: the days up to this one are closed
  changed,  \* the closed days whose messages no longer match their source_digest
  jobs,     \* local_day_jobs: the state of each stage
  digest,   \* volatile: lifecycle.digest_task
  work,     \* volatile: Memory.encode, of the digestion and of the request
  disturbances  \* how many of them there were

digestVars == <<closed, changed, jobs, digest, work, disturbances>>
vars == <<memoryVars, digestVars>>

-----------------------------------------------------------------------------
(* Rows and processes *)

JobStates == {"none", "pending", "running", "completed", "review_required", "error"}

(* The task: created and not yet run, or awaiting the work of a stage. *)
NoTask == [at |-> "none", day |-> 0, retry |-> FALSE]
Tasks == [at : {"none", "begin"} \cup Stages, day : 0..MaxDay, retry : BOOLEAN]

(* Memory.encode: it waits for memory.lock, for the model to encode a batch or to
   judge the day's candidates, or has returned to its caller. *)
Idle == [at |-> "none", day |-> 0, event |-> 0, flagged |-> FALSE,
         plan |-> NoPlan, result |-> "none"]
Work == [at : {"none", "waits", "encodes", "settles", "done"},
         day : 0..MaxDay, event : 0..MaxEvent, flagged : BOOLEAN,
         plan : Plans, result : {"none", "success", "review", "error"}]
Waiting(d) == [Idle EXCEPT !.at = "waits", !.day = d]
Encoding(d, e, flagged) ==
  [Idle EXCEPT !.at = "encodes", !.day = d, !.event = e, !.flagged = flagged]
Settling(d, plan) == [Idle EXCEPT !.at = "settles", !.day = d, !.plan = plan]
Done(d, result) == [Idle EXCEPT !.at = "done", !.day = d, !.result = result]

(* memory.lock *)
Locked == \E c \in Callers : work[c].at \in {"encodes", "settles"}

Disturb ==
  disturbances < MaxDisturbances /\ disturbances' = disturbances + 1

(* DayStore.verify *)
Verified(d) == d <= closed /\ d \notin changed

-----------------------------------------------------------------------------
(* Memory.encode *)

(* The batches after the event e that load_completed_events does not find. *)
Uncached(d, e, stored) == {f \in EventsOf(d) : f > e /\ f \notin stored}

(* The synchronous rest of the loop over the batches, stored being those committed
   so far: on to the next batch that is not; after the last, a flagged batch ends
   it, a receipt is compared with the input assembled now, and else the model
   judges the day.  A verify precedes every call and the way out. *)
GoOn(c, d, e, flagged, stored) ==
  LET next == Uncached(d, e, stored)
      plan == PlanFor(d, stored)
      after ==
        CASE next = {} /\ flagged -> Done(d, "review")
          [] ~(next = {} /\ flagged) /\ ~Verified(d) -> Done(d, "error")
          [] next # {} /\ Verified(d) ->
               Encoding(d, CHOOSE f \in next : \A g \in next : f <= g, flagged)
          [] next = {} /\ ~flagged /\ Verified(d) ->
               IF receipts[d] = NoReceipt THEN Settling(d, plan)
               ELSE Done(d, IF receipts[d].plan = plan THEN "success" ELSE "review")
  IN  work' = [work EXCEPT ![c] = after]

(* Mutant: the plan begins without the lock. *)
TakeNoLock(c) ==
  /\ work[c].at = "waits"
  /\ UNCHANGED memoryVars
  /\ GoOn(c, work[c].day, 0, FALSE, encoded)
  /\ UNCHANGED <<closed, changed, jobs, digest, disturbances>>

(* The lock is taken, and the plan of the day's batches begins. *)
TakeLock(c) ==
  /\ work[c].at = "waits" /\ ~Locked
  /\ UNCHANGED memoryVars
  /\ GoOn(c, work[c].day, 0, FALSE, encoded)
  /\ UNCHANGED <<closed, changed, jobs, digest, disturbances>>

(* The model has encoded the batch: verified again, committed, and on. *)
BatchEncoded(c) ==
  /\ work[c].at = "encodes"
  /\ IF Verified(work[c].day)
       THEN /\ CommitEncoding(work[c].event)
            /\ GoOn(c, work[c].day, work[c].event, work[c].flagged,
                    encoded \cup {work[c].event})
       ELSE /\ UNCHANGED memoryVars
            /\ work' = [work EXCEPT ![c] = Done(work[c].day, "error")]
  /\ UNCHANGED <<closed, changed, jobs, digest, disturbances>>

(* Mutant: a batch left out is not reported. *)
BatchSkipped(c) ==
  /\ work[c].at = "encodes" /\ Verified(work[c].day)
  /\ Disturb
  /\ UNCHANGED memoryVars
  /\ GoOn(c, work[c].day, work[c].event, FALSE, encoded)
  /\ UNCHANGED <<closed, changed, jobs, digest>>

(* assess_encoding_quality asks for a review: the batch is left out. *)
BatchFlagged(c) ==
  /\ work[c].at = "encodes" /\ Verified(work[c].day)
  /\ Disturb
  /\ UNCHANGED memoryVars
  /\ GoOn(c, work[c].day, work[c].event, TRUE, encoded)
  /\ UNCHANGED <<closed, changed, jobs, digest>>

(* The call fails, or its answer breaks the encoding contract: the exception
   leaves encode. *)
BatchFails(c) ==
  /\ work[c].at = "encodes"
  /\ Disturb
  /\ UNCHANGED memoryVars
  /\ work' = [work EXCEPT ![c] = Done(work[c].day, "error")]
  /\ UNCHANGED <<closed, changed, jobs, digest>>

(* The model has judged the candidates: receipt and links are committed together,
   or the commit is refused and the day awaits review.  A changed source raises
   in the verify after the call, and again on the way out. *)
DayJudged(c) ==
  LET w == work[c] IN
  /\ w.at = "settles"
  /\ \E accepted \in {s \in SUBSET w.plan.candidates : Linear(s)} :
       IF Verified(w.day) /\ CanSettle(w.day, w.plan, accepted)
         THEN /\ CommitSettlement(w.day, w.plan, accepted)
              /\ work' = [work EXCEPT ![c] = Done(w.day, "success")]
         ELSE /\ UNCHANGED memoryVars
              /\ work' = [work EXCEPT ![c] =
                            Done(w.day, IF Verified(w.day) THEN "review" ELSE "error")]
  /\ UNCHANGED <<closed, changed, jobs, digest, disturbances>>

(* provider_error or contract_error *)
JudgingFails(c) ==
  LET w == work[c] IN
  /\ w.at = "settles"
  /\ Disturb
  /\ work' = [work EXCEPT ![c] =
                Done(w.day, IF Verified(w.day) THEN "review" ELSE "error")]
  /\ UNCHANGED <<memoryVars, closed, changed, jobs, digest>>

-----------------------------------------------------------------------------
(* DailyDigestion.run *)

(* The stages after a place that a run does not skip. *)
ToRun(rows, d, retry, place) ==
  {s \in Stages : /\ Place[s] > place
                  /\ rows[d][s] # "completed"
                  /\ rows[d][s] \in {"error", "review_required"} => retry}

FirstOf(stages) == CHOOSE s \in stages : \A t \in stages : Place[s] <= Place[t]

(* The synchronous rest of the loop over the stages, rows being the jobs so far:
   the next stage that is not skipped runs; a changed source fails each of them. *)
Proceed(rows, d, retry, place) ==
  LET left == ToRun(rows, d, retry, place)
      next == FirstOf(left)
  IN  IF left = {} \/ d \in changed
        THEN /\ jobs' = [rows EXCEPT ![d] =
                           [s \in Stages |-> IF s \in left THEN "error" ELSE rows[d][s]]]
             /\ digest' = NoTask
             /\ work' = [work EXCEPT !["digest"] = Idle]
        ELSE /\ jobs' = [rows EXCEPT ![d][next] = "running"]
             /\ digest' = [at |-> next, day |-> d, retry |-> retry]
             /\ work' = [work EXCEPT !["digest"] =
                           IF next = "memory" THEN Waiting(d) ELSE Idle]

(* Mutant: a changed source ends the run and leaves the rows as they are. *)
BeginQuietly ==
  /\ digest.at = "begin"
  /\ IF Verified(digest.day)
       THEN Proceed(jobs, digest.day, digest.retry, 0)
       ELSE /\ digest' = NoTask
            /\ UNCHANGED <<jobs, work>>
  /\ UNCHANGED <<memoryVars, closed, changed, disturbances>>

(* run begins with a verify: a changed source puts every unfinished stage up for
   review, and nothing runs. *)
Begin ==
  /\ digest.at = "begin"
  /\ IF Verified(digest.day)
       THEN Proceed(jobs, digest.day, digest.retry, 0)
       ELSE /\ jobs' = [jobs EXCEPT ![digest.day] =
                          [s \in Stages |-> IF @[s] = "completed" THEN "completed"
                                            ELSE "review_required"]]
            /\ digest' = NoTask
            /\ UNCHANGED work
  /\ UNCHANGED <<memoryVars, closed, changed, disturbances>>

(* Mutant: the source is not verified after the call. *)
StageEndsUnverified(outcome) ==
  LET state == CASE outcome = "error" -> "error" [] outcome = "success" -> "completed"
                 [] outcome = "review" -> "review_required"
  IN  Proceed([jobs EXCEPT ![digest.day][digest.at] = state],
              digest.day, digest.retry, Place[digest.at])

(* A stage has come back: verified, its row updated, and on to the next. *)
StageEnds(outcome) ==
  LET d == digest.day
      state == IF outcome = "error" \/ ~Verified(d) THEN "error"
               ELSE IF outcome = "success" THEN "completed" ELSE "review_required"
  IN  Proceed([jobs EXCEPT ![d][digest.at] = state], d, digest.retry, Place[digest.at])

MemoryEnds ==
  /\ digest.at = "memory" /\ work["digest"].at = "done"
  /\ StageEnds(work["digest"].result)
  /\ UNCHANGED <<memoryVars, closed, changed, disturbances>>

CallEnds ==
  /\ digest.at \in {"cognition", "diary"}
  /\ StageEnds("success")
  /\ UNCHANGED <<memoryVars, closed, changed, disturbances>>

(* A lane of the cognition is left with rejections, or the stage raises. *)
CallFallsShort ==
  /\ digest.at \in {"cognition", "diary"}
  /\ Disturb
  /\ \E outcome \in {"review", "error"} :
       /\ outcome = "review" => digest.at = "cognition"
       /\ StageEnds(outcome)
  /\ UNCHANGED <<memoryVars, closed, changed>>

-----------------------------------------------------------------------------
(* The lifecycle, the two routes, and what comes from outside *)

(* DayStore.close: the source is frozen and the jobs are pending. *)
CloseDay ==
  /\ closed < MaxDay
  /\ closed' = closed + 1
  /\ jobs' = [jobs EXCEPT ![closed + 1] = [s \in Stages |-> "pending"]]
  /\ UNCHANGED <<memoryVars, changed, digest, work, disturbances>>

PendingDays == {d \in Days : \E s \in Stages : jobs[d][s] = "pending"}

(* lifecycle.tick: the oldest closed day with a pending job, if no task runs. *)
Tick ==
  /\ digest = NoTask /\ PendingDays # {}
  /\ digest' = [at |-> "begin", retry |-> FALSE,
                day |-> CHOOSE d \in PendingDays : \A e \in PendingDays : d <= e]
  /\ UNCHANGED <<memoryVars, closed, changed, jobs, work, disturbances>>

(* POST days/{day}/retry *)
Retry ==
  /\ digest = NoTask
  /\ Disturb
  /\ \E d \in Days :
       /\ Verified(d)
       /\ digest' = [at |-> "begin", day |-> d, retry |-> TRUE]
  /\ UNCHANGED <<memoryVars, closed, changed, jobs, work>>

(* POST memory/encode, for a closed day *)
Request ==
  /\ work["request"] = Idle
  /\ Disturb
  /\ \E d \in Days : Verified(d) /\ work' = [work EXCEPT !["request"] = Waiting(d)]
  /\ UNCHANGED <<memoryVars, closed, changed, jobs, digest>>

RequestAnswered ==
  /\ work["request"].at = "done"
  /\ work' = [work EXCEPT !["request"] = Idle]
  /\ UNCHANGED <<memoryVars, closed, changed, jobs, digest, disturbances>>

(* Someone edits the messages of a closed day in the database. *)
SourceChanges ==
  /\ Disturb
  /\ \E d \in 1..closed : d \notin changed /\ changed' = changed \cup {d}
  /\ UNCHANGED <<memoryVars, closed, jobs, digest, work>>

(* The process dies, or lifecycle.stop cancels the task, and it is started again:
   DayStore puts running jobs back, as the cancelled run does. *)
Restart ==
  /\ Disturb
  /\ digest' = NoTask
  /\ work' = [c \in Callers |-> Idle]
  /\ jobs' = [d \in Days |-> [s \in Stages |->
                IF jobs[d][s] = "running" THEN "pending" ELSE jobs[d][s]]]
  /\ UNCHANGED <<memoryVars, closed, changed>>

(* The tick finds no pending job, and nothing else is under way. *)
Rest ==
  /\ closed = MaxDay /\ digest = NoTask /\ PendingDays = {} /\ work["request"] = Idle
  /\ UNCHANGED vars

Init ==
  /\ MemoryInit
  /\ closed = 0 /\ changed = {}
  /\ jobs = [d \in Days |-> [s \in Stages |-> "none"]]
  /\ digest = NoTask
  /\ work = [c \in Callers |-> Idle]
  /\ disturbances = 0

Encode(c) ==
  \/ TakeLock(c) \/ BatchEncoded(c) \/ BatchFlagged(c) \/ BatchFails(c)
  \/ DayJudged(c) \/ JudgingFails(c)

Run == Begin \/ MemoryEnds \/ CallEnds \/ CallFallsShort

Next ==
  \/ \E c \in Callers : Encode(c)
  \/ Run
  \/ CloseDay \/ Tick \/ Retry \/ Request \/ RequestAnswered
  \/ SourceChanges \/ Restart \/ Rest

Spec == Init /\ [][Next]_vars

(* Model calls have a timeout, memory.lock is first come first served, the tick
   runs every two seconds, and the event loop resumes what it created. *)
FairSpec ==
  /\ Spec
  /\ \A c \in Callers : WF_vars(Encode(c))
  /\ WF_vars(Run) /\ WF_vars(Tick) /\ WF_vars(RequestAnswered)

-----------------------------------------------------------------------------
(* Properties *)

(* Every row and process has the values the code can give it. *)
TypeOK ==
  /\ MemoryTypeOK
  /\ closed \in 0..MaxDay /\ changed \subseteq Days
  /\ jobs \in [Days -> [Stages -> JobStates]]
  /\ digest \in Tasks
  /\ work \in [Callers -> Work]
  /\ disturbances \in 0..MaxDisturbances

(* A job says it runs only while the task of this process awaits that stage of that
   day: nothing else would ever take it up again, since the tick looks for pending
   jobs only. *)
RunningHasTask ==
  \A d \in Days, s \in Stages :
    jobs[d][s] = "running" => digest.at = s /\ digest.day = d

(* Two encodings at a time, a restart or a retry never ask the model again for a
   batch the store has, nor judge a day that has its receipt. *)
AsksOnce ==
  \A c \in Callers :
    /\ work[c].at = "encodes" => work[c].event \notin encoded
    /\ work[c].at = "settles" => receipts[work[c].day] = NoReceipt

(* A day whose memory job is completed is all in the store: its batches are
   encoded and its settlement covers every one of their events. *)
CompletedIsStored ==
  \A d \in Days : jobs[d]["memory"] = "completed" =>
    /\ EventsOf(d) \subseteq encoded
    /\ receipts[d] # NoReceipt /\ receipts[d].plan.events = EventsOf(d)

(* The pairs of neighbours in a thread *)
Neighbours == {p \in Events \X Events : \E a \in Events : \E i \in 1..Len(threads[a]) - 1 :
                 p = <<threads[a][i], threads[a][i + 1]>>}

(* A thread begins at its anchor, an event is in one thread only, and each step from
   one member to the next is an edge accepted by the receipt of the later day, from
   which no accepted edge is missing. *)
ThreadsReceipted ==
  /\ \A a \in Events : threads[a] # <<>> => Len(threads[a]) > 1 /\ Head(threads[a]) = a
  /\ \A a, b \in Events : a # b => ToSet(threads[a]) \cap ToSet(threads[b]) = {}
  /\ Neighbours = {<<x.from, x.to>> : x \in UNION {receipts[d].accepted : d \in Days}}
  /\ \A d \in Days, x \in Edges : x \in receipts[d].accepted => DayOf[x.to] = d

(* A completed stage stays completed: no retry, tick or restart runs it again. *)
CompletedStays ==
  [][\A d \in Days, s \in Stages :
       jobs[d][s] = "completed" => jobs'[d][s] = "completed"]_vars

(* Once the messages of a closed day have changed, nothing of the day enters the
   memory and no stage of it is completed, wherever the digestion stood. *)
ChangedIsRefused ==
  [][\A d \in changed :
       /\ EventsOf(d) \cap encoded' = EventsOf(d) \cap encoded
       /\ receipts'[d] = receipts[d]
       /\ \A s \in Stages : jobs'[d][s] = "completed" => jobs[d][s] = "completed"]_vars

(* However often calls fail, days change or the process dies, the jobs come to rest
   again and again: none stays pending or running for good. *)
JobsSettle ==
  []<>(\A d \in Days, s \in Stages : jobs[d][s] \notin {"pending", "running"})
=============================================================================
