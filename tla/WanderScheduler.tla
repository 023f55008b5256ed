--------------------------- MODULE WanderScheduler ---------------------------
(***************************************************************************)
(* The life of one session of the v3 wander runtime: one run after another, *)
(* the wake that starts the next plan, the inclination note a run leaves to *)
(* the next, the recovery of a process start and the chat tool's own runs.  *)
(* What happens inside an accepted run is WanderRuntime's; here the run is  *)
(* open until its last settlement, which may never come.                    *)
(*                                                                          *)
(* runs, wake and note are SQLite rows; live and job die with the process.  *)
(* As in WanderRuntime the runner is one process under its tick lock, a     *)
(* user reply takes no lock, and every store call is its own transaction.   *)
(***************************************************************************)
EXTENDS Integers, FiniteSets

CONSTANTS
  MaxRuns,     \* bound: runs of the session
  TornWrites   \* may the process die between two saves of one handler?

ASSUME SessionAssumption == MaxRuns \in Nat \ {0} /\ TornWrites \in BOOLEAN

RunIds == 1..MaxRuns   \* in the order of their creation

VARIABLES
  runs,      \* wander_runs of the session
  wake,      \* its row of wander_scheduler_wakes
  note,      \* wander_pending_inclinations, by the run that left the note
  live,      \* volatile: has the runner initialised, its _suppress_next_schedule
  job,       \* volatile: what the runner holding the tick lock is awaiting
  told,      \* history: the note the planner of an accepted run was given
  replied    \* history: a reply came, and since then no run and no recovery

sessionVars == <<runs, wake, note, live, job, told, replied>>

-----------------------------------------------------------------------------
(* Rows *)

Ended == {"completed", "interrupted", "aborted"}
UnderWay == {"planning", "open"}
Kinds == {"wander", "chat"}
Outcomes == {"none", "plan_failed", "user_interrupt_before_plan", "recovered"}

RunRows == [kind : Kinds, state : {"absent"} \cup UnderWay \cup Ended,
            interrupt : BOOLEAN, outcome : Outcomes]
NoRun == [kind |-> "wander", state |-> "absent", interrupt |-> FALSE,
          outcome |-> "none"]

WakeRows == [at : {"none", "later", "due"}, by : 0..MaxRuns]
NoWake == [at |-> "none", by |-> 0]
WakeBy(r) == [at |-> "later", by |-> r]

NoteRows == [status : {"none", "pending", "claimed", "consumed"}, by : 0..MaxRuns]
NoNote == [status |-> "none", by |-> 0]
Pending == [status |-> "pending", by |-> 0]

Jobs == [at : {"idle", "plan", "settle", "sidecar", "chat"}, r : 0..MaxRuns,
         note : 0..MaxRuns, moved : BOOLEAN]
Idle == [at |-> "idle", r |-> 0, note |-> 0, moved |-> FALSE]
Awaiting(point, r, n) == [at |-> point, r |-> r, note |-> n, moved |-> FALSE]

Down == [started |-> FALSE, suppress |-> FALSE]
Up == [started |-> TRUE, suppress |-> FALSE]

(* How many of the k saves of a handler reach the disk, and what is left of the
   process: all of it after the last save, nothing before. *)
Saves(k) == IF TornWrites THEN 1..k ELSE {k}
Left(all, liveThen, jobThen) ==
  IF all THEN live' = liveThen /\ job' = jobThen ELSE live' = Down /\ job' = Idle

(* Mutant: a run of the chat tool is not an active one. *)
NoneActiveButChats ==
  \A r \in RunIds : runs[r].state \notin UnderWay \/ runs[r].kind = "chat"

(* get_active_run finds nothing. *)
NoneActive == \A r \in RunIds : runs[r].state \notin UnderWay

NextRun(r) == /\ runs[r].state = "absent"
              /\ \A q \in RunIds : q < r => runs[q].state # "absent"

(* claim_pending_inclination takes the oldest note that waits. *)
OldestNote(n) == /\ note[n].status = "pending"
                 /\ \A m \in RunIds : m < n => note[m].status # "pending"
NotesWait == \E n \in RunIds : note[n].status = "pending"

(* release_pending_inclination: only a note this run has claimed. *)
Released(r) ==
  [n \in RunIds |-> IF note[n] = [status |-> "claimed", by |-> r]
                      THEN Pending ELSE note[n]]

(* consume_pending_inclination: likewise. *)
Consumed(r) ==
  [n \in RunIds |-> IF note[n] = [status |-> "claimed", by |-> r]
                      THEN [note[n] EXCEPT !.status = "consumed"] ELSE note[n]]

Init ==
  /\ runs = [r \in RunIds |-> NoRun]
  /\ wake = NoWake
  /\ note = [r \in RunIds |-> NoNote]
  /\ live = Down
  /\ job = Idle
  /\ told = [r \in RunIds |-> 0]
  /\ replied = FALSE

-----------------------------------------------------------------------------
(* The start of a process: recover_stale_planning_runs, one transaction *)

(* Mutants: recovery forgets a planning run, writes its outcome as its state, or
   reopens every claimed note. *)
RunRecoveredNever(r) == runs[r]
RunRecoveredSwapped(r) ==
  IF runs[r].state = "planning" THEN [runs[r] EXCEPT !.state = "recovered"]
                                ELSE runs[r]
NoteRecoveredAlways(n) == IF note[n].status = "claimed" THEN Pending ELSE note[n]

RunRecovered(r) ==
  IF runs[r].state = "planning"
    THEN [runs[r] EXCEPT !.state = "aborted", !.outcome = "recovered"]
    ELSE runs[r]

NoteRecovered(n) ==
  IF note[n].status = "claimed" /\ runs[note[n].by].state = "planning"
    THEN Pending ELSE note[n]

(* _initialized: recovery happens once, when the process starts. *)
MayRecover == ~live.started

(* The wake is written only where the session has none. *)
Initialize ==
  /\ MayRecover
  /\ runs' = [r \in RunIds |-> RunRecovered(r)]
  /\ note' = [n \in RunIds |-> NoteRecovered(n)]
  /\ wake' = IF wake = NoWake /\ \E r \in RunIds : runs[r].state = "planning"
               THEN WakeBy(0) ELSE wake
  /\ live' = [live EXCEPT !.started = TRUE]
  /\ replied' = FALSE
  /\ UNCHANGED <<job, told>>

-----------------------------------------------------------------------------
(* _start_run: claim the wake, save the planning run, claim a note, plan *)

StartRun(r) ==
  /\ live.started
  /\ job = Idle
  /\ NoneActive
  /\ wake.at # "later"
  /\ NextRun(r)
  /\ \E saved \in Saves(3), n \in 0..MaxRuns :
       /\ IF NotesWait THEN n \in RunIds /\ OldestNote(n) ELSE n = 0
       /\ runs' = IF saved >= 2 THEN [runs EXCEPT ![r].state = "planning"] ELSE runs
       /\ note' = IF saved = 3 /\ n # 0
                    THEN [note EXCEPT ![n] = [status |-> "claimed", by |-> r]]
                    ELSE note
       /\ Left(saved = 3, live, Awaiting("plan", r, n))
  /\ wake' = NoWake
  /\ replied' = FALSE
  /\ UNCHANGED told

Planning(r) == job.at = "plan" /\ job.r = r
PlanEnded(r, why) ==
  [runs EXCEPT ![r].state = "aborted", ![r].outcome = why]

(* Mutant: a failed planner always schedules its retry. *)
RetryWakeAlways == WakeBy(0)

(* The retry after a failed planner, unless the user has come back. *)
RetryWake == IF live.suppress THEN wake ELSE WakeBy(0)

(* The planner is cancelled, times out, raises, returns nothing, or its plan
   cannot be committed: release the note, abort the run, schedule a retry. *)
PlannerFails(r) ==
  /\ Planning(r)
  /\ \E saved \in Saves(3) :
       /\ note' = Released(r)
       /\ runs' = IF saved >= 2 THEN PlanEnded(r, "plan_failed") ELSE runs
       /\ wake' = IF saved = 3 THEN RetryWake ELSE wake
       /\ Left(saved = 3, Up, Idle)
  /\ UNCHANGED <<told, replied>>

(* A plan came, but _suppress_next_schedule is set: drop it, leave no wake. *)
PlanDropped(r) ==
  /\ Planning(r)
  /\ live.suppress
  /\ \E saved \in Saves(2) :
       /\ note' = Released(r)
       /\ runs' = IF saved = 2 THEN PlanEnded(r, "user_interrupt_before_plan")
                               ELSE runs
       /\ Left(saved = 2, Up, Idle)
  /\ UNCHANGED <<wake, told, replied>>

(* apply_plan commits the run with its activities, then the note is consumed. *)
PlanAccepted(r) ==
  /\ Planning(r)
  /\ ~live.suppress
  /\ runs' = [runs EXCEPT ![r].state = "open"]
  /\ told' = [told EXCEPT ![r] = job.note]
  /\ \E saved \in Saves(2) :
       /\ note' = IF saved = 2 THEN Consumed(r) ELSE note
       /\ Left(saved = 2, live, Idle)
  /\ UNCHANGED <<wake, replied>>

-----------------------------------------------------------------------------
(* The end of an open run: its last settlement *)

(* Of the run that tick took up, or of the one settle_interrupt was told of.  When
   more runs than one are open, get_active_run returns the row that was updated last,
   which the nodes of the runs decide: any of them. *)
BeginSettle(r) ==
  /\ live.started
  /\ job = Idle
  /\ runs[r].state = "open"
  /\ job' = Awaiting("settle", r, 0)
  /\ UNCHANGED <<runs, wake, note, live, told, replied>>

(* How the run may end, re-read after the settlement model answered. *)
Endings(r) ==
  IF runs[r].interrupt \/ job.moved THEN {"interrupted"} ELSE {"completed", "aborted"}

(* An interrupted run and a chat run silence the session. *)
Silent(r, ending) == ending = "interrupted" \/ runs[r].kind = "chat"

(* The wake of a settlement that is retried is kept as it was. *)
WakeAfter(r, ending) ==
  IF Silent(r, ending) THEN NoWake ELSE IF wake.by = r THEN wake ELSE WakeBy(r)

(* The wake first, the terminal commit second, with no await between them. *)
SettlementReturns(r) ==
  /\ job.at = "settle" /\ job.r = r
  /\ \E ending \in Endings(r), saved \in Saves(2) :
       /\ wake' = WakeAfter(r, ending)
       /\ runs' = IF saved = 2 THEN [runs EXCEPT ![r].state = ending] ELSE runs
       /\ Left(saved = 2, IF Silent(r, ending) THEN Up ELSE live,
               Awaiting("sidecar", r, 0))
  /\ UNCHANGED <<note, told, replied>>

(* An interrupted or failed run, and one the user came back to, leave none. *)
MayLeaveNote(r) ==
  runs[r].kind = "wander" /\ runs[r].state = "completed" /\ ~job.moved

(* After the emotion sidecar: save_pending_inclination, if the model wants. *)
SidecarReturns(r) ==
  /\ job.at = "sidecar" /\ job.r = r
  /\ note' \in {note} \cup (IF MayLeaveNote(r)
                              THEN {[note EXCEPT ![r] = Pending]} ELSE {})
  /\ job' = Idle
  /\ UNCHANGED <<runs, wake, live, told, replied>>

-----------------------------------------------------------------------------
(* The chat tool's run, and the environment *)

(* execute_chat_xhs: the run is saved with its activity at once, without a look at
   what is open.  A reply settles that first, but as best it can. *)
StartChat(r) ==
  /\ live.started
  /\ job = Idle
  /\ NextRun(r)
  /\ runs' = [runs EXCEPT ![r].kind = "chat", ![r].state = "open"]
  /\ job' = Awaiting("chat", r, 0)
  /\ UNCHANGED <<wake, note, live, told, replied>>

(* All posts read, or a barrier: settle_activity, whatever was requested. *)
ChatReturns(r) ==
  /\ job.at = "chat" /\ job.r = r
  /\ \E ending \in {"completed", "aborted"} :
       runs' = [runs EXCEPT ![r].state = ending]
  /\ job' = Idle
  /\ UNCHANGED <<wake, note, live, told, replied>>

(* request_interrupt marks the run that get_active_run returns, unless that is still
   being planned; job.moved is the interrupt epoch. *)
Interrupt ==
  /\ live.started
  /\ wake' = NoWake
  /\ live' = [live EXCEPT !.suppress = ~NoneActive]
  /\ \/ /\ \A r \in RunIds : runs[r].state # "open"
        /\ runs' = runs
     \/ \E r \in RunIds : /\ runs[r].state = "open"
                          /\ runs' = [runs EXCEPT ![r].interrupt = TRUE]
  /\ job' = IF job = Idle THEN job ELSE [job EXCEPT !.moved = TRUE]
  /\ replied' = TRUE
  /\ UNCHANGED <<note, told>>

TimePasses ==
  /\ wake.at = "later"
  /\ wake' = [wake EXCEPT !.at = "due"]
  /\ UNCHANGED <<runs, note, live, job, told, replied>>

(* The creator loop or the chat request is cancelled during an await, or what is
   awaited raises; the process lives on.  A planner that does either has failed. *)
Cancelled ==
  /\ job.at \in {"settle", "sidecar", "chat"}
  /\ job' = Idle
  /\ UNCHANGED <<runs, wake, note, live, told, replied>>

Crash ==
  /\ live.started
  /\ live' = Down
  /\ job' = Idle
  /\ UNCHANGED <<runs, wake, note, told, replied>>

PlannerReturns(r) == PlannerFails(r) \/ PlanDropped(r) \/ PlanAccepted(r)
Returns(r) ==
  PlannerReturns(r) \/ SettlementReturns(r) \/ SidecarReturns(r) \/ ChatReturns(r)

Next ==
  \/ Initialize \/ Interrupt \/ TimePasses \/ Cancelled \/ Crash
  \/ \E r \in RunIds :
       StartRun(r) \/ BeginSettle(r) \/ StartChat(r) \/ Returns(r)

Spec == Init /\ [][Next]_sessionVars

(* A process that died is started again; the creator loop, which a reply stops, is
   started again whenever the user has been away; a planner has a time-out, the sidecar
   returns, and not every process dies half way through what follows.  No open run is
   obliged to end. *)
Fairness ==
  /\ WF_sessionVars(Initialize)
  /\ WF_sessionVars(TimePasses)
  /\ SF_sessionVars((\E r \in RunIds : StartRun(r)) /\ live'.started)
  /\ SF_sessionVars((\E r \in RunIds : PlannerReturns(r)) /\ live'.started)
  /\ SF_sessionVars(\E r \in RunIds : SidecarReturns(r))

FairSpec == Spec /\ Fairness

-----------------------------------------------------------------------------
(* Properties *)

(* The rows and the volatile records have their types. *)
TypeOK ==
  /\ runs \in [RunIds -> RunRows]
  /\ wake \in WakeRows
  /\ note \in [RunIds -> NoteRows]
  /\ live \in [started : BOOLEAN, suppress : BOOLEAN]
  /\ job \in Jobs
  /\ told \in [RunIds -> 0..MaxRuns]
  /\ replied \in BOOLEAN

(* No ghost planner: once a process has initialised, a run is in planning
   exactly while its planner is being awaited.  A planning run nobody decides
   would be the active run for ever and the session would never wander again. *)
NoGhostPlanner ==
  live.started => \A r \in RunIds : runs[r].state = "planning" <=> Planning(r)

(* A plan is made only when nothing is under way: whatever chat tool runs were put
   beside one another, left open by a cancelled request or a death, and settled since,
   a run of the wander is created behind runs that have all ended, and none of them
   is opened again. *)
PlansAlone ==
  \A q, r \in RunIds :
    q < r /\ runs[r].kind = "wander" /\ runs[r].state # "absent" => runs[q].state \in Ended

(* An inclination informs at most one accepted plan: the note a planner was
   told is never offered again, whatever crash, release or recovery follows,
   and a note that is taken belongs to a plan that was accepted or is being made. *)
NotesUsedOnce ==
  /\ \A r \in RunIds : told[r] # 0 =>
       /\ note[told[r]].status \in {"claimed", "consumed"}
       /\ note[told[r]].by = r
  /\ \A n \in RunIds : note[n].status \in {"claimed", "consumed"} =>
       told[note[n].by] = n \/ runs[note[n].by].state = "planning"

(* Only a run that completed leaves a note, never one the user broke off. *)
NotesOfCompleted ==
  \A n \in RunIds : note[n].status # "none" =>
    runs[n].kind = "wander" /\ runs[n].state = "completed"

(* After a user reply nothing schedules a new plan before a run is started or a
   process is, neither the planner nor the settlement under way, however late it
   returns; but for one case: a run of the chat tool stood beside the open run, the
   reply reached that one, and the other has ended as if nobody had replied. *)
ReplySilences ==
  replied /\ wake # NoWake =>
    /\ wake.by \in RunIds /\ ~runs[wake.by].interrupt
    /\ \E c \in RunIds : c > wake.by /\ runs[c].kind = "chat" /\ runs[c].interrupt

(* What has ended stays as it was recorded: no planner, settlement or recovery
   reopens or renames it. *)
EndedStays ==
  [][\A r \in RunIds : runs[r].state \in Ended => runs'[r] = runs[r]]_sessionVars

(* The session never runs dry: whatever planner, crash or reply ends a run, another
   follows it, as long as each run that is opened ends.  That is a condition because a
   run may stay open for ever: one torn as in Recoverable of WanderRuntime, or an
   estimate that is extended again and again. *)
RunsGoOn ==
  (\A r \in RunIds : []<>(runs[r].state # "open")) =>
    \A r \in 1..(MaxRuns - 1) : runs[r].state # "absent" ~> runs[r + 1].state # "absent"
=============================================================================
