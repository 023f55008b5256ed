------------------------ MODULE WanderRuntimeProofs ------------------------
(***************************************************************************)
(* Theorems about WanderRuntime for every plan, every number of activities *)
(* and nodes, with and without torn writes: its type invariant, the safety *)
(* invariants that no crash between two saves can break, and what follows  *)
(* of its steps: no handler is called twice, the wake of the next plan is  *)
(* on disk with the end of a run, what has ended is final, and the runtime *)
(* implements RunLifecycle.                                                *)
(***************************************************************************)
EXTENDS WanderRuntime, FiniteSetTheorems, TLAPS

-----------------------------------------------------------------------------
(* Type correctness *)

(* Whatever a constructor of the volatile job is given, a job comes out. *)
LEMMA JobTypes ==
  ASSUME NEW at \in Points, NEW a \in Acts, NEW n \in Rounds \cup {0},
         NEW how \in Verdicts \cup {"none", "failed"}, NEW why \in Reasons,
         NEW share \in BOOLEAN
  PROVE  /\ Idle \in Jobs
         /\ NodeJob(at, a, n, how) \in Jobs
         /\ SettleJob(at, a, why, share) \in Jobs
<1>1. /\ 0 \in 0..MaxActs /\ 0 \in 0..MaxNodes
      /\ a \in 0..MaxActs /\ n \in 0..MaxNodes
  BY BoundsAssumption DEF Acts, Rounds
<1>2. Idle \in Jobs
  BY <1>1 DEF Idle, Jobs, Points, Reasons
<1>3. NodeJob(at, a, n, how) \in Jobs
  BY <1>1, <1>2 DEF NodeJob, Jobs
<1>4. SettleJob(at, a, why, share) \in Jobs
  BY <1>1, <1>2 DEF SettleJob, Jobs
<1>5. QED BY <1>2, <1>3, <1>4

(* A new or newly scheduled activity is a row of its table. *)
LEMMA RowTypes ==
  /\ \A g \in Goals, s \in ActStates : NewAct(g, s) \in ActRows
  /\ \A row \in ActRows : ScheduleInitial(row) \in ActRows
<1>1. \A g \in Goals, s \in ActStates : NewAct(g, s) \in ActRows
  BY DEF NewAct, ActRows, Deadlines, Reasons
<1>2. ASSUME NEW row \in ActRows PROVE ScheduleInitial(row) \in ActRows
  BY DEF ScheduleInitial, ActRows, Deadlines
<1>3. QED BY <1>1, <1>2

(* The job that follows an execution status is a job of the same node. *)
LEMMA AfterExecType ==
  ASSUME NEW a \in Acts, NEW n \in Rounds, NEW status \in RunningNode
  PROVE  AfterExec(a, n, status) \in Jobs
<1>1. n \in Rounds \cup {0} /\ "none" \in Reasons /\ FALSE \in BOOLEAN
      /\ "review" \in Points /\ "conclude" \in Points
  BY DEF Reasons, Points
<1>2. /\ Idle \in Jobs
      /\ NodeJob("review", a, n, "none") \in Jobs
      /\ \A how \in Verdicts \cup {"failed"} : NodeJob("conclude", a, n, how) \in Jobs
  BY <1>1, JobTypes
<1>3. QED BY <1>2 DEF AfterExec, Verdicts

(* Every reason a settlement is given is one the column can hold. *)
LEMMA ReasonTypes ==
  ASSUME TypeOK, NEW a \in Acts
  PROVE  /\ SettleReason(a) \in Reasons
         /\ FinalReason(a) \in Reasons
         /\ \A n \in Rounds, how \in Verdicts \cup {"none", "failed"} :
              EndReason(a, n, how) \in Reasons
         /\ \A why \in Reasons : Ending(why) \in TerminalStates
<1>1. act[a] \in ActRows /\ act[a].reason \in Reasons /\ job.why \in Reasons
  BY DEF TypeOK, ActRows, Jobs
<1>2. SettleReason(a) \in Reasons
  BY <1>1 DEF SettleReason, Reasons
<1>3. FinalReason(a) \in Reasons
  BY <1>1 DEF FinalReason, Reasons
<1>4. \A n \in Rounds, how \in Verdicts \cup {"none", "failed"} :
        EndReason(a, n, how) \in Reasons
  BY DEF EndReason, Reasons
<1>5. \A why \in Reasons : Ending(why) \in TerminalStates
  BY DEF Ending, TerminalStates
<1>6. QED BY <1>2, <1>3, <1>4, <1>5

(* begin_settlement leaves well-typed rows, whatever job follows it. *)
LEMMA BeginSettlementType ==
  ASSUME TypeOK, NEW a \in Acts, NEW why \in Reasons, NEW nextJob \in Jobs,
         BeginSettlement(a, why, nextJob)
  PROVE  TypeOK'
<1>1. /\ act \in [Acts -> ActRows] /\ run \in RunRows /\ act[a] \in ActRows
  BY DEF TypeOK
<1>2. "settling" \in ActStates /\ "settling" \in RunStates /\ Idle \in Jobs
  BY JobTypes, BoundsAssumption DEF ActStates, RunStates, Points, Reasons, Verdicts
<1>3. act' \in [Acts -> ActRows]
  <2>1. CASE act[a].state = "settling"
    <3>1. [act[a] EXCEPT !.reason = why] \in ActRows
      BY <1>1 DEF ActRows
    <3> QED BY <1>1, <2>1, <3>1 DEF BeginSettlement
  <2>2. CASE act[a].state # "settling"
    <3> DEFINE reason == IF why = "none" THEN act[a].reason ELSE why
    <3>1. [act[a] EXCEPT !.state = "settling", !.reason = reason] \in ActRows
      BY <1>1, <1>2 DEF ActRows
    <3> QED BY <1>1, <2>2, <3>1 DEF BeginSettlement
  <2> QED BY <2>1, <2>2
<1>4. run' \in RunRows
  BY <1>1, <1>2 DEF BeginSettlement, RunRows
<1>5. job' \in Jobs
  BY <1>2 DEF BeginSettlement
<1>6. QED BY <1>3, <1>4, <1>5 DEF BeginSettlement, TypeOK

(* The rows of an accepted plan have their types. *)
LEMMA TypeInit == Init => TypeOK
<1> SUFFICES ASSUME Init PROVE TypeOK
  OBVIOUS
<1>1. \A k \in 1..PlanLen : \A plan \in [1..k -> Goals], a \in Acts :
        PlannedAct(plan, a) \in ActRows
  <2> SUFFICES ASSUME NEW k \in 1..PlanLen, NEW plan \in [1..k -> Goals],
                      NEW a \in Acts
               PROVE  PlannedAct(plan, a) \in ActRows
    OBVIOUS
  <2>1. {"absent", "planned", "active_wait"} \subseteq ActStates
    BY DEF ActStates, RunStates
  <2>2. (CHOOSE g \in Goals : TRUE) \in Goals
    BY InputsAssumption
  <2>3. a \in DOMAIN plan => plan[a] \in Goals
    OBVIOUS
  <2> QED BY <2>1, <2>2, <2>3, RowTypes DEF PlannedAct
<1>2. act \in [Acts -> ActRows]
  BY <1>1 DEF Init
<1>3. run \in RunRows
  BY DEF Init, RunRows, RunStates
<1>4. job \in Jobs /\ wake \in 0..MaxActs
  BY JobTypes, BoundsAssumption DEF Init, Idle, Jobs, Points, Reasons
<1>5. QED BY <1>2, <1>3, <1>4 DEF Init, TypeOK, NodeStates, DeliveryStates

(* What a poll does keeps every row well-typed. *)
LEMMA TypePoll ==
  ASSUME TypeOK, NEW a \in Acts, Poll(a)
  PROVE  TypeOK'
<1>1. /\ run \in RunRows /\ act \in [Acts -> ActRows] /\ act[a] \in ActRows
      /\ node \in [Acts -> [Rounds -> NodeStates]] /\ job \in Jobs
  BY DEF TypeOK
<1>2. ASSUME NEW n \in Rounds PROVE n \in Rounds \cup {0}
  OBVIOUS
<1>3. CASE StartNode(a)
  <2>1. PICK n \in Rounds : \E saved \in Saves(4) :
          /\ node' = [node EXCEPT ![a][n] =
                        IF saved = 4 THEN "running" ELSE "pending"]
          /\ job' = IF saved = 4 THEN NodeJob("exec", a, n, "none") ELSE Idle
    BY <1>3 DEF StartNode
  <2>2. node' \in [Acts -> [Rounds -> NodeStates]]
    BY <1>1, <2>1 DEF NodeStates, RunningNode, ExecStates
  <2>3. job' \in Jobs
    <3>1. NodeJob("exec", a, n, "none") \in Jobs /\ Idle \in Jobs
      BY <1>2, JobTypes DEF Points, Reasons
    <3> QED BY <2>1, <3>1
  <2>4. act' \in [Acts -> ActRows]
    <3>1. [act[a] EXCEPT !.state = "node_running"] \in ActRows
      BY <1>1 DEF ActRows, ActStates, RunStates
    <3>2. act' \in {act, [act EXCEPT ![a].state = "node_running"]}
      BY <1>3 DEF StartNode
    <3> QED BY <1>1, <3>1, <3>2
  <2>5. run' \in RunRows
    <3>1. run' \in {run, [run EXCEPT !.state = "node_running"]}
      BY <1>3 DEF StartNode
    <3> QED BY <1>1, <3>1 DEF RunRows, RunStates
  <2> QED BY <1>3, <2>2, <2>3, <2>4, <2>5 DEF StartNode, TypeOK
<1>4. CASE RecoverOrphan(a)
  BY <1>4, BeginSettlementType, JobTypes DEF RecoverOrphan, Points, Reasons
<1>5. CASE Settle(a)
  <2>1. SettleReason(a) \in Reasons
    BY ReasonTypes
  <2>2. SettleJob("settle", a, SettleReason(a), FALSE) \in Jobs
    BY <2>1, JobTypes DEF Points
  <2> QED BY <1>5, <2>1, <2>2, BeginSettlementType DEF Settle
<1>6. CASE ReviewHorizon(a)
  BY <1>6, JobTypes DEF ReviewHorizon, TypeOK, Points, Reasons
<1>7. ASSUME NEW n \in Rounds, RecoverNode(a, n) PROVE TypeOK'
  <2>1. node[a][n] \in RunningNode
    BY <1>7 DEF RecoverNode, InFlight
  <2>2. AfterExec(a, n, node[a][n]) \in Jobs
    BY <2>1, AfterExecType
  <2>3. job' \in Jobs
    BY <1>7, <1>2, <2>2, JobTypes DEF RecoverNode, Points, Verdicts, Reasons
  <2> QED BY <1>7, <2>3 DEF RecoverNode, TypeOK
<1>8. QED BY <1>3, <1>4, <1>5, <1>6, <1>7 DEF Poll

(* What the return of an await writes keeps every row well-typed. *)
LEMMA TypeNodeReturns ==
  ASSUME TypeOK, NEW a \in Acts, NEW n \in Rounds,
         \/ ExecReturns(a, n) \/ ReceiptReturns(a, n) \/ ReceiptPending(a, n)
         \/ ReviewReturns(a, n) \/ Conclude(a, n) \/ ConcludeRaises(a, n)
  PROVE  TypeOK'
<1>1. /\ run \in RunRows /\ act \in [Acts -> ActRows] /\ act[a] \in ActRows
      /\ node \in [Acts -> [Rounds -> NodeStates]] /\ job \in Jobs
      /\ Idle \in Jobs
  BY JobTypes, BoundsAssumption DEF TypeOK, Points, Reasons
<1>2. \A how \in Verdicts \cup {"none", "failed"} :
        NodeJob("conclude", a, n, how) \in Jobs
  <2> n \in Rounds \cup {0}
    OBVIOUS
  <2> QED BY JobTypes DEF Points, Reasons
<1>3. ASSUME NEW status \in RunningNode, node' = [node EXCEPT ![a][n] = status],
             job' = AfterExec(a, n, status),
             UNCHANGED <<run, act, decided, wake, delivery>>
      PROVE  TypeOK'
  <2>1. node' \in [Acts -> [Rounds -> NodeStates]]
    BY <1>1, <1>3 DEF NodeStates
  <2>2. job' \in Jobs
    BY <1>3, AfterExecType
  <2> QED BY <1>3, <2>1, <2>2 DEF TypeOK
<1>4. CASE ExecReturns(a, n)
  BY <1>3, <1>4 DEF ExecReturns, RunningNode, ExecStates
<1>5. CASE ReceiptReturns(a, n)
  BY <1>3, <1>5 DEF ReceiptReturns, RunningNode, ExecStates
<1>6. CASE ReceiptPending(a, n) \/ ConcludeRaises(a, n)
  BY <1>1, <1>6 DEF ReceiptPending, ConcludeRaises, TypeOK
<1>7. CASE ReviewReturns(a, n)
  <2>1. job' \in Jobs
    BY <1>2, <1>7 DEF ReviewReturns, Verdicts
  <2>2. node' \in [Acts -> [Rounds -> NodeStates]]
    BY <1>1, <1>7 DEF ReviewReturns, NodeStates, RunningNode
  <2> QED BY <1>7, <2>1, <2>2 DEF ReviewReturns, TypeOK
<1>8. CASE Conclude(a, n)
  <2> DEFINE why == EndReason(a, n, job.how)
             added(g) == [b \in Acts |->
                           IF job.how = "switch" /\ ~act[a].interrupt /\ FreeSlot(b)
                             THEN NewAct(g, "planned") ELSE act[b]]
             reviewed == AfterReview(act[a], why, "set")
             target == IF why = "none" THEN "active_wait" ELSE "settling"
  <2>1. PICK saved \in Saves(4), g \in Goals :
          /\ node' = [node EXCEPT ![a][n] =
                        IF job.how = "failed" THEN "aborted" ELSE "completed"]
          /\ act' \in {act, added(g), [added(g) EXCEPT ![a] = reviewed]}
          /\ run' \in {run, [run EXCEPT !.state = target]}
    BY <1>8 DEF Conclude
  <2>2. node' \in [Acts -> [Rounds -> NodeStates]]
    BY <1>1, <2>1 DEF NodeStates
  <2>3. run' \in RunRows
    BY <1>1, <2>1 DEF RunRows, RunStates
  <2>4. added(g) \in [Acts -> ActRows]
    <3> "planned" \in ActStates
      BY DEF ActStates
    <3> QED BY <1>1, RowTypes
  <2>5. reviewed \in ActRows
    <3>1. job.how \in Verdicts \cup {"none", "failed"}
      BY <1>1 DEF Jobs
    <3>2. why \in Reasons
      BY <3>1, ReasonTypes
    <3> HIDE DEF why
    <3> QED BY <1>1, <3>2 DEF AfterReview, ActRows, ActStates, RunStates, Deadlines
  <2>6. act' \in [Acts -> ActRows]
    <3> HIDE DEF added, reviewed
    <3> QED BY <1>1, <2>1, <2>4, <2>5
  <2> QED BY <1>1, <1>8, <2>2, <2>3, <2>6 DEF Conclude, TypeOK
<1>9. QED BY <1>4, <1>5, <1>6, <1>7, <1>8

(* What a settlement and its share write keeps every row well-typed. *)
LEMMA TypeSettlementReturns ==
  ASSUME TypeOK, NEW a \in Acts,
         \/ HorizonReturns(a) \/ SettlementReturns(a) \/ SidecarReturns(a)
         \/ ComposeReturns(a) \/ PushReturns(a)
  PROVE  TypeOK'
<1>1. /\ run \in RunRows /\ act \in [Acts -> ActRows] /\ act[a] \in ActRows
      /\ node \in [Acts -> [Rounds -> NodeStates]] /\ job \in Jobs
      /\ delivery \in [Acts -> DeliveryStates] /\ wake \in 0..MaxActs
      /\ decided \in [Acts -> {"none", "share", "quiet"}]
  BY DEF TypeOK
<1>2. \A at \in Points : /\ NodeJob(at, a, 0, "none") \in Jobs
                         /\ \A why \in Reasons, share \in BOOLEAN :
                              SettleJob(at, a, why, share) \in Jobs
                         /\ Idle \in Jobs
  BY JobTypes, BoundsAssumption DEF Reasons
<1>3. CASE HorizonReturns(a)
  <2>1. \A why \in {"user_interrupt", "plan_horizon"} :
          /\ why \in Reasons
          /\ SettleJob("settle", a, why, FALSE) \in Jobs
    BY <1>2 DEF Reasons, Points
  <2>2. CASE \E why \in {"user_interrupt", "plan_horizon"} :
               BeginSettlement(a, why, SettleJob("settle", a, why, FALSE))
    BY <2>1, <2>2, BeginSettlementType
  <2>3. CASE /\ run' = [run EXCEPT !.horizon = "set"]
             /\ act' = [act EXCEPT ![a].nodeAt =
                          IF act[a].goal.mode = "sleep" THEN "none" ELSE "set"]
             /\ job' = Idle
             /\ UNCHANGED <<node, decided, wake, delivery>>
    <3>1. run' \in RunRows
      BY <1>1, <2>3 DEF RunRows
    <3>2. act' \in [Acts -> ActRows]
      BY <1>1, <2>3 DEF ActRows, Deadlines
    <3> QED BY <1>2, <2>3, <3>1, <3>2 DEF TypeOK, Points
  <2> QED BY <1>3, <2>2, <2>3 DEF HorizonReturns
<1>4. CASE SettlementReturns(a)
  <2>1. PICK wants \in BOOLEAN, saved \in Saves(4) :
          LET why == FinalReason(a)
              share == ShareIntent(a, why, wants)
          IN  /\ decided' = [decided EXCEPT ![a] = IF wants THEN "share" ELSE "quiet"]
              /\ wake' = IF saved >= 2 THEN WakeAfter(a, why) ELSE wake
              /\ node' = IF saved >= 3 THEN NodesAborted(a) ELSE node
              /\ IF saved = 4 /\ SettleLegal(a, why)
                   THEN /\ act' = ActsSettled(a, why, share)
                        /\ run' = RunSettled(a, why)
                        /\ job' = SettleJob("sidecar", a, why, share /\ ~Later(a))
                   ELSE UNCHANGED <<act, run>> /\ job' = Idle
    BY <1>4 DEF SettlementReturns
  <2> DEFINE why == FinalReason(a)
             share == ShareIntent(a, why, wants)
  <2>2. why \in Reasons /\ Ending(why) \in TerminalStates
    BY ReasonTypes
  <2>3. share \in BOOLEAN
    BY DEF ShareIntent
  <2>4. decided' \in [Acts -> {"none", "share", "quiet"}]
    BY <1>1, <2>1
  <2>5. wake' \in 0..MaxActs
    BY <1>1, <2>1, BoundsAssumption DEF WakeAfter, Acts
  <2>6. node' \in [Acts -> [Rounds -> NodeStates]]
    BY <1>1, <2>1 DEF NodesAborted, NodeStates
  <2>7. job' \in Jobs
    <3>1. SettleJob("sidecar", a, why, share /\ ~Later(a)) \in Jobs
      BY <1>2, <2>2 DEF Points
    <3> QED BY <1>2, <2>1, <3>1 DEF Points
  <2>8. ActsSettled(a, why, share) \in [Acts -> ActRows]
    <3> HIDE DEF why, share
    <3>1. ASSUME NEW b \in Acts
          PROVE  /\ [act[b] EXCEPT !.state = Ending(why), !.reason = why,
                                   !.share = share] \in ActRows
                 /\ [act[b] EXCEPT !.state = Ending(why), !.reason = why] \in ActRows
                 /\ [act[b] EXCEPT !.state = "active_wait"] \in ActRows
      <4> act[b] \in ActRows
        BY <1>1
      <4> QED BY <2>2, <2>3 DEF ActRows, ActStates, RunStates
    <3> QED BY <1>1, <3>1, RowTypes DEF ActsSettled
  <2>9. RunSettled(a, why) \in RunRows
    <3> HIDE DEF why
    <3> QED BY <1>1, <2>2 DEF RunSettled, RunRows, RunStates
  <2>10. act' \in [Acts -> ActRows] /\ run' \in RunRows
    BY <1>1, <2>1, <2>8, <2>9
  <2> QED BY <1>1, <1>4, <2>4, <2>5, <2>6, <2>7, <2>10 DEF SettlementReturns, TypeOK
<1>5. CASE SidecarReturns(a)
  <2>1. delivery' \in [Acts -> DeliveryStates]
    BY <1>1, <1>5 DEF SidecarReturns, DeliveryStates
  <2>2. job' \in Jobs
    BY <1>2, <1>5 DEF SidecarReturns, Points
  <2> QED BY <1>5, <2>1, <2>2 DEF SidecarReturns, TypeOK
<1>6. CASE ComposeReturns(a) \/ PushReturns(a)
  <2>1. delivery' \in [Acts -> DeliveryStates]
    BY <1>1, <1>6 DEF ComposeReturns, PushReturns, DeliveryStates
  <2>2. job' \in Jobs
    BY <1>2, <1>6 DEF ComposeReturns, PushReturns, Points
  <2> QED BY <1>6, <2>1, <2>2 DEF ComposeReturns, PushReturns, TypeOK
<1>7. QED BY <1>3, <1>4, <1>5, <1>6

(* A user reply, a restart and the clock keep every row well-typed. *)
LEMMA TypeEnvironment ==
  ASSUME TypeOK, RequestInterrupt \/ Restart \/ TimePasses
  PROVE  TypeOK'
<1>1. /\ run \in RunRows /\ act \in [Acts -> ActRows] /\ job \in Jobs
      /\ 0 \in 0..MaxActs
  BY BoundsAssumption DEF TypeOK
<1>2. CASE RequestInterrupt
  <2>1. act' \in [Acts -> ActRows]
    BY <1>1, <1>2 DEF RequestInterrupt, ActRows
  <2>2. job' \in Jobs
    BY <1>1, <1>2 DEF RequestInterrupt, Jobs
  <2> QED BY <1>1, <1>2, <2>1, <2>2 DEF RequestInterrupt, TypeOK
<1>3. CASE Restart
  <2>1. Idle \in Jobs
    BY BoundsAssumption DEF Idle, Jobs, Points, Reasons
  <2> QED BY <1>3, <2>1 DEF Restart, TypeOK
<1>4. CASE TimePasses
  <2>1. run' \in RunRows
    BY <1>1, <1>4 DEF TimePasses, RunRows
  <2>2. act' \in [Acts -> ActRows]
    BY <1>1, <1>4 DEF TimePasses, ActRows, Deadlines
  <2> QED BY <1>4, <2>1, <2>2 DEF TimePasses, TypeOK
<1>5. QED BY <1>2, <1>3, <1>4

(* Every step keeps every row and the job well-typed. *)
LEMMA TypeStep ==
  ASSUME TypeOK, [Next]_vars
  PROVE  TypeOK'
<1>1. CASE UNCHANGED vars \/ Done
  BY <1>1 DEF Done, vars, TypeOK
<1>2. CASE \E a \in Acts : Poll(a) \/ Returns(a)
  BY <1>2, TypePoll, TypeNodeReturns, TypeSettlementReturns DEF Returns
<1>3. CASE \E a \in Acts, n \in Rounds : ReceiptPending(a, n)
  BY <1>3, TypeNodeReturns
<1>4. CASE RequestInterrupt \/ Restart \/ TimePasses
  BY <1>4, TypeEnvironment
<1>5. QED BY <1>1, <1>2, <1>3, <1>4 DEF Next

(* TypeOK is invariant: every row and the volatile job keep their types. *)
THEOREM TypeCorrect == Spec => []TypeOK
<1>1. TypeOK /\ [Next]_vars => TypeOK'
  BY TypeStep
<1>2. QED BY <1>1, TypeInit, PTL DEF Spec

-----------------------------------------------------------------------------
(* The inductive invariant behind the safety properties *)

NodePoints == {"exec", "receipt", "review", "conclude"}
Undelivered(b) == delivery[b] \in {"none", "not_requested"}

(* What the runner is awaiting still is what the store shows: a node it
   executes or reviews is running, an activity it settles is settling, and a
   share it delivers is the first one of a run that completed. *)
JobFits ==
  /\ job.at # "idle" => job.a \in Acts
  /\ job.at \in NodePoints =>
       job.n \in Rounds /\ node[job.a][job.n] \in RunningNode
  /\ job.at = "settle" => act[job.a].state = "settling"
  /\ job.at = "horizon" => act[job.a].state = "active_wait"
  /\ job.at \in {"compose", "push"} \/ (job.at = "sidecar" /\ job.share) =>
       /\ act[job.a].state = "completed" /\ act[job.a].share
       /\ run.state = "completed"
       /\ \A b \in Acts : b # job.a => Undelivered(b)

(* A run goes on exactly while one of its activities is under way, and has
   nothing planned any more when it is over. *)
UnderWay ==
  /\ RunTerminal <=> \A a \in Acts : ~Open(a)
  /\ RunTerminal => \A a \in Acts : act[a].state # "planned"

(* Activities fill the order indices from the first on, and what is planned
   comes after the activity under way. *)
InOrder ==
  /\ \A a, b \in Acts : Present(a) /\ b < a => Present(b)
  /\ \A a, b \in Acts : Open(a) /\ act[b].state = "planned" => a < b

(* A user reply only reaches an activity that has begun. *)
Untouched ==
  \A a \in Acts : act[a].state \in {"absent", "planned"} => ~act[a].interrupt

SafetyInv ==
  /\ TypeOK /\ JobFits /\ UnderWay /\ InOrder /\ Untouched
  /\ OneAtATime /\ InterruptWins /\ OneShare

(* Jobs that fit whatever the store shows, given what they name. *)
LEMMA IdleFits ==
  ASSUME job' = Idle
  PROVE  JobFits'
<1>1. job'.at = "idle"
  BY DEF Idle
<1>2. QED BY <1>1 DEF JobFits, NodePoints

(* A job that works on a node fits when that node is in flight. *)
LEMMA NodeJobFits ==
  ASSUME NEW at \in NodePoints, NEW a \in Acts, NEW n \in Rounds, NEW how,
         job' = NodeJob(at, a, n, how), node'[a][n] \in RunningNode
  PROVE  JobFits'
<1>1. job'.at = at /\ job'.a = a /\ job'.n = n
  BY DEF Idle, NodeJob
<1>2. QED BY <1>1 DEF JobFits, NodePoints

(* A settlement job fits an activity that is settling. *)
LEMMA SettleJobFits ==
  ASSUME NEW a \in Acts, NEW why, job' = SettleJob("settle", a, why, FALSE),
         act'[a].state = "settling"
  PROVE  JobFits'
<1>1. job'.at = "settle" /\ job'.a = a
  BY DEF Idle, SettleJob
<1>2. QED BY <1>1 DEF JobFits, NodePoints

(* An accepted plan, with its first activity open and nothing run, is safe. *)
LEMMA SafetyInit == Init => SafetyInv
<1> SUFFICES ASSUME Init PROVE SafetyInv
  OBVIOUS
<1>1. TypeOK
  BY TypeInit
<1>2. \A a \in Acts : /\ act[a].state \in {"absent", "planned", "active_wait"}
                      /\ act[a].state = "active_wait" <=> a = 1
                      /\ ~act[a].interrupt
  <2>1. PICK k \in 1..PlanLen : \E plan \in [1..k -> Goals] :
          act = [a \in Acts |-> PlannedAct(plan, a)]
    BY DEF Init
  <2>2. PICK plan \in [1..k -> Goals] :
          act = [a \in Acts |-> PlannedAct(plan, a)]
    BY <2>1
  <2>3. 1 \in DOMAIN plan
    BY BoundsAssumption
  <2> QED BY <2>2, <2>3 DEF PlannedAct, NewAct, ScheduleInitial
<1>3. 1 \in Acts
  BY BoundsAssumption DEF Acts
<1>4. run.state = "active_wait" /\ job.at = "idle"
      /\ \A a \in Acts : /\ delivery[a] = "none"
                         /\ \A n \in Rounds : node[a][n] = "absent"
  BY DEF Init, Idle
<1>5. JobFits
  BY <1>4 DEF JobFits, NodePoints
<1>6. UnderWay /\ Untouched /\ OneAtATime /\ InterruptWins /\ OneShare
  BY <1>2, <1>3, <1>4 DEF UnderWay, Untouched, OneAtATime, InterruptWins, OneShare,
     Open, RunTerminal, TerminalStates, RunningNode, ExecStates, Verdicts
<1>7. InOrder
  <2>1. PICK k \in 1..PlanLen : \E plan \in [1..k -> Goals] :
          act = [a \in Acts |-> PlannedAct(plan, a)]
    BY DEF Init
  <2>2. PICK plan \in [1..k -> Goals] :
          act = [a \in Acts |-> PlannedAct(plan, a)]
    BY <2>1
  <2>3. \A a \in Acts : a \in DOMAIN plan <=> a <= k
    BY BoundsAssumption DEF Acts
  <2>4. \A a \in Acts : Present(a) <=> a \in DOMAIN plan
    BY <2>2 DEF Present, PlannedAct, NewAct, ScheduleInitial
  <2>5. \A a, b \in Acts : Present(a) /\ b < a => Present(b)
    BY <2>3, <2>4, BoundsAssumption DEF Acts
  <2>6. \A a, b \in Acts : Open(a) /\ act[b].state = "planned" => a < b
    BY <1>2, BoundsAssumption DEF Acts, Open, TerminalStates
  <2> QED BY <2>5, <2>6 DEF InOrder
<1>8. QED BY <1>1, <1>5, <1>6, <1>7 DEF SafetyInv

(* The activity under way is the only one, and the run is not over. *)
LEMMA OpenIsAlone ==
  ASSUME SafetyInv, NEW a \in Acts, Open(a)
  PROVE  /\ ~RunTerminal
         /\ \A b \in Acts : b # a => ~Open(b) /\ NoneInFlight(b)
         /\ \A b \in Acts : Undelivered(b)
<1>1. ~RunTerminal
  BY DEF SafetyInv, UnderWay
<1>2. \A b \in Acts : Undelivered(b)
  BY <1>1 DEF SafetyInv, OneShare, Undelivered, RunTerminal, TerminalStates
<1>3. \A b \in Acts : b # a => ~Open(b) /\ NoneInFlight(b)
  BY DEF SafetyInv, OneAtATime, NoneInFlight
<1>4. QED BY <1>1, <1>2, <1>3

(* The frame of every step that leaves the activity under way where it is: such
   a step disturbs nothing but what the runner is awaiting. *)
LEMMA SameActivity ==
  ASSUME SafetyInv, TypeOK', NEW a \in Acts, Open(a), Open(a)',
         \A b \in Acts : b # a =>
           /\ act'[b].interrupt = act[b].interrupt
           /\ \/ act'[b].state = act[b].state
              \/ FreeSlot(b) /\ act'[b].state = "planned",
         ~RunTerminal',
         \A b \in Acts, n \in Rounds : b # a => node'[b][n] = node[b][n],
         \A n, m \in Rounds :
           node'[a][n] \in RunningNode /\ node'[a][m] \in RunningNode => n = m,
         delivery' = delivery,
         JobFits'
  PROVE  SafetyInv'
<1>1. /\ ~RunTerminal
      /\ \A b \in Acts : b # a => ~Open(b) /\ NoneInFlight(b)
      /\ \A b \in Acts : Undelivered(b)
  BY OpenIsAlone
<1>2. \A b \in Acts : b # a => ~Open(b)'
  BY <1>1 DEF Open
<1>3. UnderWay'
  BY DEF UnderWay
<1>4. Untouched'
  BY DEF SafetyInv, Untouched, Open, FreeSlot, Present
<1>5. OneAtATime'
  <2>1. \A b \in Acts, n \in Rounds : b # a => node'[b][n] \notin RunningNode
    BY <1>1 DEF NoneInFlight
  <2> QED BY <1>2, <2>1 DEF OneAtATime
<1>6. InterruptWins'
  <2>1. act'[a].state \notin TerminalStates
    BY DEF Open
  <2>2. \A b \in Acts : act'[b].state \in TerminalStates =>
                          /\ act'[b].state = act[b].state
                          /\ act'[b].interrupt = act[b].interrupt
    BY <2>1 DEF TerminalStates, Open
  <2>3. \A b \in Acts : act'[b].state # "interrupted"
    BY <1>1, <2>2 DEF SafetyInv, InterruptWins, RunTerminal, TerminalStates
  <2> QED BY <2>2, <2>3 DEF SafetyInv, InterruptWins
<1>7. OneShare'
  BY <1>1 DEF OneShare, Undelivered
<1>8. InOrder'
  <2>1. \A b \in Acts : /\ Present(b) => Present(b)'
                        /\ Present(b)' => Present(b) \/ FreeSlot(b)
    BY DEF Present, Open
  <2>2. Present(a)
    BY DEF Open, Present
  <2>3. \A b \in Acts : FreeSlot(b) => a < b
    BY <2>2, BoundsAssumption DEF SafetyInv, InOrder, FreeSlot, Acts
  <2>4. \A b, c \in Acts : Present(b)' /\ c < b => Present(c)'
    <3> SUFFICES ASSUME NEW b \in Acts, NEW c \in Acts, Present(b)', c < b
                 PROVE  Present(c)'
      OBVIOUS
    <3>1. Present(c)
      BY <2>1 DEF SafetyInv, InOrder, FreeSlot
    <3> QED BY <2>1, <3>1
  <2>5. \A b \in Acts : act'[b].state = "planned" => a < b
    BY <2>3 DEF SafetyInv, InOrder, Open
  <2> QED BY <1>2, <2>4, <2>5 DEF InOrder
<1>9. QED BY <1>3, <1>4, <1>5, <1>6, <1>7, <1>8 DEF SafetyInv

(* begin_settlement of the activity under way, torn or not. *)
LEMMA SafetyBeginSettlement ==
  ASSUME SafetyInv, TypeOK', NEW a \in Acts, Open(a), NEW why, NEW nextJob,
         BeginSettlement(a, why, nextJob),
         nextJob = Idle \/ nextJob = SettleJob("settle", a, why, FALSE)
  PROVE  SafetyInv'
<1>1. act \in [Acts -> ActRows] /\ run \in RunRows
  BY DEF SafetyInv, TypeOK
<1>2. act'[a].state = "settling" \/ (act'[a].state = act[a].state /\ job' = Idle)
  BY <1>1 DEF BeginSettlement, ActRows
<1>3. Open(a)'
  BY <1>2 DEF Open, TerminalStates
<1>4. \A b \in Acts : b # a => act'[b] = act[b]
  BY <1>1 DEF BeginSettlement
<1>5. ~RunTerminal'
  <2>1. run'.state \in {run.state, "settling"}
    BY <1>1 DEF BeginSettlement, RunRows
  <2> QED BY <2>1, OpenIsAlone DEF RunTerminal, TerminalStates
<1>6. node' = node /\ delivery' = delivery
  BY DEF BeginSettlement
<1>7. JobFits'
  <2>1. job' = Idle \/ (job' = SettleJob("settle", a, why, FALSE)
                        /\ act'[a].state = "settling")
    BY <1>1 DEF BeginSettlement, ActRows
  <2> QED BY <2>1, IdleFits, SettleJobFits
<1>8. QED
  BY <1>3, <1>4, <1>5, <1>6, <1>7, SameActivity DEF SafetyInv, OneAtATime

(* A poll only moves the activity under way. *)
LEMMA SafetyPoll ==
  ASSUME SafetyInv, TypeOK', NEW a \in Acts, Poll(a)
  PROVE  SafetyInv'
<1>1. /\ act \in [Acts -> ActRows] /\ run \in RunRows
      /\ node \in [Acts -> [Rounds -> NodeStates]]
  BY DEF SafetyInv, TypeOK
<1>2. Open(a)
  BY DEF Poll, StartNode, RecoverOrphan, Settle, ReviewHorizon, RecoverNode, Waiting, First
<1>3. ~RunTerminal
  BY <1>2, OpenIsAlone
<1>4. \A n, m \in Rounds :
        node[a][n] \in RunningNode /\ node[a][m] \in RunningNode => n = m
  BY DEF SafetyInv, OneAtATime
<1>5. CASE StartNode(a)
  <2>1. PICK n \in Rounds : \E saved \in Saves(4) :
          /\ node' = [node EXCEPT ![a][n] =
                        IF saved = 4 THEN "running" ELSE "pending"]
          /\ job' = IF saved = 4 THEN NodeJob("exec", a, n, "none") ELSE Idle
    BY <1>5 DEF StartNode
  <2>2. \A b \in Acts, m \in Rounds :
          node'[b][m] # node[b][m] => b = a /\ m = n
    BY <1>1, <2>1
  <2>3. \A m \in Rounds : node[a][m] \notin RunningNode
    BY <1>5 DEF StartNode, Waiting, NoneInFlight
  <2>4. \A m, k \in Rounds :
          node'[a][m] \in RunningNode /\ node'[a][k] \in RunningNode => m = k
    BY <2>2, <2>3
  <2>5. JobFits'
    <3>1. CASE job' = Idle
      BY <3>1, IdleFits
    <3>2. CASE /\ node' = [node EXCEPT ![a][n] = "running"]
               /\ job' = NodeJob("exec", a, n, "none")
      <4>1. node'[a][n] \in RunningNode
        BY <1>1, <3>2 DEF RunningNode, ExecStates
      <4> QED BY <3>2, <4>1, NodeJobFits DEF NodePoints
    <3> QED BY <2>1, <3>1, <3>2
  <2>6. act' \in {act, [act EXCEPT ![a].state = "node_running"]}
        /\ run' \in {run, [run EXCEPT !.state = "node_running"]}
        /\ delivery' = delivery
    BY <1>5 DEF StartNode
  <2>7. Open(a)' /\ \A b \in Acts : b # a => act'[b] = act[b]
    BY <1>1, <1>2, <2>6 DEF Open, TerminalStates, ActRows
  <2>8. ~RunTerminal'
    BY <1>1, <1>3, <2>6 DEF RunTerminal, TerminalStates, RunRows
  <2> QED BY <1>2, <2>2, <2>4, <2>5, <2>6, <2>7, <2>8, SameActivity
<1>6. CASE RecoverOrphan(a)
  BY <1>2, <1>6, SafetyBeginSettlement DEF RecoverOrphan
<1>7. CASE Settle(a)
  BY <1>2, <1>7, SafetyBeginSettlement DEF Settle
<1>8. ASSUME UNCHANGED <<run, act, node, delivery>>, JobFits' PROVE SafetyInv'
  <2>1. Open(a)' /\ ~RunTerminal'
    BY <1>2, <1>3, <1>8 DEF Open, RunTerminal
  <2> QED BY <1>2, <1>4, <1>8, <2>1, SameActivity
<1>9. CASE ReviewHorizon(a)
  <2>1. job'.at = "horizon" /\ job'.a = a
    BY <1>9 DEF ReviewHorizon, NodeJob, Idle
  <2>2. act'[a].state = "active_wait"
    BY <1>9 DEF ReviewHorizon, Waiting
  <2>3. JobFits'
    BY <2>1, <2>2 DEF JobFits, NodePoints
  <2> QED BY <1>8, <1>9, <2>3 DEF ReviewHorizon
<1>10. ASSUME NEW n \in Rounds, RecoverNode(a, n) PROVE SafetyInv'
  <2>1. node'[a][n] \in RunningNode
    BY <1>10 DEF RecoverNode, InFlight
  <2>2. job' = Idle \/ \E at \in NodePoints :
          \E how \in Verdicts \cup {"none", "failed"} : job' = NodeJob(at, a, n, how)
    BY <1>10 DEF RecoverNode, AfterExec, NodePoints, Verdicts
  <2>3. JobFits'
    BY <2>1, <2>2, IdleFits, NodeJobFits
  <2> QED BY <1>8, <1>10, <2>3 DEF RecoverNode
<1>11. QED BY <1>5, <1>6, <1>7, <1>9, <1>10 DEF Poll

(* The node of an awaited executor, receipt or review is the one running. *)
LEMMA SafetyNodeReturns ==
  ASSUME SafetyInv, TypeOK', NEW a \in Acts, NEW n \in Rounds,
         \/ ExecReturns(a, n) \/ ReceiptReturns(a, n) \/ ReceiptPending(a, n)
         \/ ReviewReturns(a, n) \/ Conclude(a, n) \/ ConcludeRaises(a, n)
  PROVE  SafetyInv'
<1>1. /\ act \in [Acts -> ActRows] /\ run \in RunRows
      /\ node \in [Acts -> [Rounds -> NodeStates]]
  BY DEF SafetyInv, TypeOK
<1>2. job.at \in NodePoints /\ job.a = a /\ job.n = n
  BY DEF ExecReturns, ReceiptReturns, ReceiptPending, ReviewReturns, Conclude,
         ConcludeRaises, AtNode, NodePoints
<1>3. node[a][n] \in RunningNode
  BY <1>2 DEF SafetyInv, JobFits
<1>4. Open(a) /\ \A m \in Rounds : node[a][m] \in RunningNode => m = n
  BY <1>3 DEF SafetyInv, OneAtATime
<1>5. ~RunTerminal
  BY <1>4, OpenIsAlone
<1>6. ASSUME UNCHANGED <<run, act, delivery>>, JobFits',
             \A b \in Acts, m \in Rounds :
               node'[b][m] # node[b][m] => b = a /\ m = n
      PROVE  SafetyInv'
  <2>1. Open(a)' /\ ~RunTerminal'
    BY <1>4, <1>5, <1>6 DEF Open, RunTerminal
  <2>2. \A m, k \in Rounds :
          node'[a][m] \in RunningNode /\ node'[a][k] \in RunningNode => m = k
    BY <1>4, <1>6
  <2> QED BY <1>4, <1>6, <2>1, <2>2, SameActivity
<1>7. ASSUME NEW status \in ExecStates, node' = [node EXCEPT ![a][n] = status],
             job' = AfterExec(a, n, status), UNCHANGED <<run, act, delivery>>
      PROVE  SafetyInv'
  <2>1. node'[a][n] \in RunningNode
    BY <1>1, <1>7 DEF RunningNode
  <2>2. job' = Idle \/ \E at \in NodePoints :
          \E how \in Verdicts \cup {"none", "failed"} : job' = NodeJob(at, a, n, how)
    BY <1>7 DEF AfterExec, NodePoints, Verdicts, ExecStates
  <2>3. JobFits'
    BY <2>1, <2>2, IdleFits, NodeJobFits
  <2> QED BY <1>1, <1>6, <1>7, <2>3
<1>8. CASE ExecReturns(a, n)
  BY <1>7, <1>8 DEF ExecReturns, ExecStates
<1>9. CASE ReceiptReturns(a, n)
  BY <1>7, <1>9 DEF ReceiptReturns, ExecStates
<1>10. CASE ReceiptPending(a, n) \/ ConcludeRaises(a, n)
  <2>1. job' = Idle /\ UNCHANGED <<run, act, node, delivery>>
    BY <1>10 DEF ReceiptPending, ConcludeRaises
  <2> QED BY <1>6, <2>1, IdleFits
<1>11. CASE ReviewReturns(a, n)
  <2>1. \E how \in Verdicts : job' = NodeJob("conclude", a, n, how)
    BY <1>11 DEF ReviewReturns, Verdicts
  <2>2. node' = node \/ \E v \in Verdicts : node' = [node EXCEPT ![a][n] = v]
    BY <1>11 DEF ReviewReturns
  <2>3. node'[a][n] \in RunningNode
    BY <1>1, <1>3, <2>2 DEF RunningNode
  <2>4. JobFits'
    BY <2>1, <2>3, NodeJobFits DEF NodePoints
  <2>5. \A b \in Acts, m \in Rounds : node'[b][m] # node[b][m] => b = a /\ m = n
    BY <1>1, <2>2
  <2> QED BY <1>6, <1>11, <2>4, <2>5 DEF ReviewReturns
<1>12. CASE Conclude(a, n)
  <2> DEFINE why == EndReason(a, n, job.how)
             added(g) == [b \in Acts |->
                           IF job.how = "switch" /\ ~act[a].interrupt /\ FreeSlot(b)
                             THEN NewAct(g, "planned") ELSE act[b]]
             reviewed == AfterReview(act[a], why, "set")
             target == IF why = "none" THEN "active_wait" ELSE "settling"
  <2>1. PICK saved \in Saves(4), g \in Goals :
          /\ node' = [node EXCEPT ![a][n] =
                        IF job.how = "failed" THEN "aborted" ELSE "completed"]
          /\ act' \in {act, added(g), [added(g) EXCEPT ![a] = reviewed]}
          /\ run' \in {run, [run EXCEPT !.state = target]}
          /\ job' = Idle /\ delivery' = delivery
    BY <1>12 DEF Conclude
  <2>2. \A b \in Acts : added(g)[b] = act[b] \/
          (FreeSlot(b) /\ added(g)[b] = NewAct(g, "planned"))
    OBVIOUS
  <2>3. added(g)[a] = act[a]
    BY <1>4, <2>2 DEF Open, FreeSlot, Present
  <2>4. reviewed.state \in {"active_wait", "settling"}
    BY <1>1 DEF AfterReview, ActRows
  <2>5. Open(a)'
    <3>1. act'[a] \in {act[a], reviewed}
      <4> HIDE DEF reviewed
      <4> QED BY <2>1, <2>3
    <3> HIDE DEF reviewed
    <3> QED BY <1>4, <2>4, <3>1 DEF Open, TerminalStates
  <2>6. \A b \in Acts : b # a =>
          act'[b] = act[b] \/ (FreeSlot(b) /\ act'[b] = NewAct(g, "planned"))
    <3>1. \A b \in Acts : b # a => act'[b] \in {act[b], added(g)[b]}
      <4> HIDE DEF reviewed
      <4> QED BY <2>1
    <3> QED BY <2>2, <3>1
  <2>7. \A b \in Acts : b # a =>
          /\ act'[b].interrupt = act[b].interrupt
          /\ \/ act'[b].state = act[b].state
             \/ FreeSlot(b) /\ act'[b].state = "planned"
    <3>1. NewAct(g, "planned").state = "planned" /\ NewAct(g, "planned").interrupt = FALSE
      BY DEF NewAct
    <3>2. \A b \in Acts : FreeSlot(b) => act[b].interrupt = FALSE
      <4>1. \A b \in Acts : act[b].interrupt \in BOOLEAN
        BY <1>1 DEF ActRows
      <4> QED BY <4>1 DEF SafetyInv, Untouched, FreeSlot, Present
    <3> QED BY <2>6, <3>1, <3>2
  <2>8. ~RunTerminal'
    <3>1. run'.state \in {run.state, "active_wait", "settling"}
      BY <1>1, <2>1 DEF RunRows
    <3> QED BY <1>5, <3>1 DEF RunTerminal, TerminalStates
  <2>9. \A b \in Acts, m \in Rounds : node'[b][m] # node[b][m] => b = a /\ m = n
    BY <1>1, <2>1
  <2>10. \A m, k \in Rounds :
           node'[a][m] \in RunningNode /\ node'[a][k] \in RunningNode => m = k
    BY <1>4, <2>9
  <2> QED
    BY <1>4, <2>1, <2>5, <2>7, <2>8, <2>9, <2>10, IdleFits, SameActivity
<1>13. QED BY <1>8, <1>9, <1>10, <1>11, <1>12

(* A nonempty set of order indices has a least one. *)
LEMMA LeastAct ==
  ASSUME NEW P \in SUBSET Acts, P # {}
  PROVE  \E s \in P : \A t \in P : s <= t
<1> DEFINE Below(x) == {y \in P : y < x}
           T == {Below(x) : x \in P}
<1>1. IsWellFoundedOn(StrictSubsetOrdering(Acts), FiniteSubsetsOf(Acts))
  BY FS_StrictSubsetOrderingWellFounded
<1>2. T \subseteq FiniteSubsetsOf(Acts) /\ T # {}
  <2>1. IsFiniteSet(Acts)
    BY FS_Interval, BoundsAssumption DEF Acts
  <2>2. \A U \in SUBSET Acts : U \in FiniteSubsetsOf(Acts)
    BY <2>1, FS_FiniteSubsetsOfFinite
  <2>3. \A x \in P : Below(x) \in SUBSET Acts
    OBVIOUS
  <2>4. T # {}
    OBVIOUS
  <2> HIDE DEF Below
  <2> QED BY <2>2, <2>3, <2>4
<1>3. PICK X \in T : \A Y \in T : ~(<<Y, X>> \in StrictSubsetOrdering(Acts))
  <2> HIDE DEF T
  <2> QED BY <1>1, <1>2, WFMin
<1>4. PICK s \in P : X = Below(s)
  OBVIOUS
<1>5. P \subseteq Int
  BY BoundsAssumption DEF Acts
<1>6. ASSUME NEW t \in P, t < s PROVE FALSE
  <2>1. Below(t) \in T
    OBVIOUS
  <2>2. Below(t) \subseteq Below(s)
    <3> SUFFICES ASSUME NEW y \in P, y < t PROVE y < s
      OBVIOUS
    <3> QED BY <1>5, <1>6
  <2>3. Below(t) # Below(s)
    <3>1. t \in Below(s) /\ t \notin Below(t)
      BY <1>5, <1>6
    <3> QED BY <3>1
  <2>4. <<Below(t), Below(s)>> \in StrictSubsetOrdering(Acts)
    <3> HIDE DEF Below
    <3> QED BY <2>1, <2>2, <2>3, <1>2, <1>4 DEF StrictSubsetOrdering, FiniteSubsetsOf
  <2> QED BY <2>1, <2>4, <1>3, <1>4
<1>7. QED BY <1>5, <1>6

(* When something later is planned there is exactly one successor. *)
LEMMA OneSuccessor ==
  ASSUME NEW a \in Acts, Later(a)
  PROVE  \E c \in Acts : \A b \in Acts : Successor(a, b) <=> b = c
<1> DEFINE P == {b \in Acts : b > a /\ act[b].state = "planned"}
<1>1. P # {} /\ P \in SUBSET Acts
  BY DEF Later
<1>2. PICK c \in P : \A b \in P : c <= b
  <2> HIDE DEF P
  <2> QED BY <1>1, LeastAct
<1>3. Acts \subseteq Int
  BY BoundsAssumption DEF Acts
<1>4. Successor(a, c)
  BY <1>2, <1>3 DEF Successor
<1>5. \A b \in Acts : Successor(a, b) => b = c
  <2> SUFFICES ASSUME NEW b \in Acts, Successor(a, b) PROVE b = c
    OBVIOUS
  <2>1. b \in P /\ c \in Acts
    BY DEF Successor
  <2>2. c <= b /\ ~(c < b)
    BY <1>2, <2>1 DEF Successor
  <2> QED BY <1>3, <2>1, <2>2
<1>6. QED BY <1>4, <1>5

(* The transaction that ends activity a: the plan goes on with its successor,
   or the run is over with everything that was planned. *)
LEMMA SafetySettled ==
  ASSUME SafetyInv, TypeOK', NEW a \in Acts, act[a].state = "settling",
         NEW why \in Reasons, why = FinalReason(a), NEW wants \in BOOLEAN,
         act' = ActsSettled(a, why, ShareIntent(a, why, wants)),
         run' = RunSettled(a, why),
         job' = SettleJob("sidecar", a, why, ShareIntent(a, why, wants) /\ ~Later(a)),
         node' = NodesAborted(a), delivery' = delivery
  PROVE  SafetyInv'
<1> DEFINE share == ShareIntent(a, why, wants)
<1>1. /\ act \in [Acts -> ActRows] /\ run \in RunRows
      /\ node \in [Acts -> [Rounds -> NodeStates]]
  BY DEF SafetyInv, TypeOK
<1>2. Open(a)
  BY DEF Open, TerminalStates
<1>3. /\ ~RunTerminal
      /\ \A b \in Acts : b # a => ~Open(b) /\ NoneInFlight(b)
      /\ \A b \in Acts : Undelivered(b)
  BY <1>2, OpenIsAlone
<1>4. Ending(why) \in TerminalStates
  BY DEF Ending, TerminalStates
<1>5. /\ act'[a].state = Ending(why)
      /\ act'[a].share = share
      /\ act'[a].interrupt = act[a].interrupt
  BY <1>1 DEF ActsSettled, ActRows
<1>6. \A b \in Acts : act'[b].interrupt = act[b].interrupt
  <2> SUFFICES ASSUME NEW b \in Acts PROVE act'[b].interrupt = act[b].interrupt
    OBVIOUS
  <2> act[b] \in ActRows
    BY <1>1
  <2> QED BY DEF ActsSettled, ScheduleInitial, ActRows
<1>7. \A b \in Acts, n \in Rounds : node'[b][n] \notin RunningNode
  <2>1. "aborted" \notin RunningNode
    BY DEF RunningNode, ExecStates, Verdicts
  <2>2. \A n \in Rounds : node'[a][n] \notin RunningNode
    BY <1>1, <2>1 DEF NodesAborted
  <2>3. \A b \in Acts : b # a => node'[b] = node[b]
    BY <1>1 DEF NodesAborted
  <2> QED BY <1>3, <2>2, <2>3 DEF NoneInFlight
<1>8. ~Later(a) => \A b \in Acts : act[b].state # "planned"
  BY <1>2, BoundsAssumption DEF Later, SafetyInv, InOrder, Acts
<1>9. act[a].interrupt => why = "user_interrupt"
  BY DEF FinalReason
<1>10. CASE Later(a) /\ ~Closing(why)
  <2>1. PICK c \in Acts : \A b \in Acts : Successor(a, b) <=> b = c
    BY <1>10, OneSuccessor
  <2>2. act[c].state = "planned" /\ a < c /\ c # a
    BY <2>1, BoundsAssumption DEF Successor, Acts
  <2>3. act'[c].state = "active_wait"
    <3> act[c] \in ActRows
      BY <1>1
    <3> QED BY <1>10, <2>1, <2>2 DEF ActsSettled, ScheduleInitial, ActRows
  <2>4. \A b \in Acts : b # a /\ b # c => act'[b] = act[b]
    BY <1>10, <2>1 DEF ActsSettled
  <2>5. Ending(why) = "completed" /\ ~act[a].interrupt
    BY <1>9, <1>10 DEF Ending, Closing
  <2>6. \A b \in Acts : Open(b)' <=> b = c
    BY <1>3, <1>4, <1>5, <2>2, <2>3, <2>4 DEF Open, TerminalStates
  <2>7. run'.state = "active_wait"
    BY <1>1, <1>10 DEF RunSettled, RunRows
  <2>8. UnderWay'
    BY <2>6, <2>7 DEF UnderWay, RunTerminal, TerminalStates
  <2>9. OneAtATime'
    BY <1>7, <2>6 DEF OneAtATime
  <2>10. InOrder'
    <3>1. \A b \in Acts : Present(b)' <=> Present(b)
      BY <1>2, <1>4, <1>5, <2>2, <2>3, <2>4 DEF Present, Open, TerminalStates
    <3>2. \A b \in Acts : act'[b].state = "planned" => c < b
      <4> SUFFICES ASSUME NEW b \in Acts, act'[b].state = "planned" PROVE c < b
        OBVIOUS
      <4>1. b # a /\ b # c /\ act[b].state = "planned"
        BY <1>4, <1>5, <2>3, <2>4 DEF TerminalStates
      <4>2. a < b
        BY <1>2, <4>1 DEF SafetyInv, InOrder
      <4>3. Successor(a, c)
        BY <2>1
      <4> QED BY <4>1, <4>2, <4>3, BoundsAssumption DEF Successor, Acts
    <3> QED BY <2>6, <3>1, <3>2 DEF SafetyInv, InOrder
  <2>11. Untouched'
    BY <1>2, <1>5, <1>4, <1>6, <2>3, <2>4 DEF SafetyInv, Untouched, TerminalStates
  <2>12. InterruptWins'
    <3>1. \A b \in Acts : act'[b].state # "interrupted"
      BY <1>3, <1>5, <2>3, <2>4, <2>5
         DEF SafetyInv, InterruptWins, RunTerminal, TerminalStates
    <3>2. \A b \in Acts : act'[b].state \in TerminalStates /\ b # a => b # c
      BY <2>3 DEF TerminalStates
    <3> QED BY <1>5, <2>4, <2>5, <3>1, <3>2 DEF SafetyInv, InterruptWins
  <2>13. OneShare'
    BY <1>3 DEF OneShare, Undelivered
  <2>14. JobFits'
    <3>1. job'.at = "sidecar" /\ job'.a = a /\ job'.share = FALSE
      BY <1>10 DEF SettleJob, Idle
    <3> QED BY <3>1 DEF JobFits, NodePoints
  <2> QED BY <2>8, <2>9, <2>10, <2>11, <2>12, <2>13, <2>14 DEF SafetyInv
<1>11. CASE ~(Later(a) /\ ~Closing(why))
  <2>1. run'.state = Ending(why) /\ RunTerminal'
    BY <1>1, <1>4, <1>11 DEF RunSettled, RunRows, RunTerminal
  <2>2. \A b \in Acts : b # a =>
          IF act[b].state = "planned"
            THEN act'[b].state = Ending(why) /\ Closing(why)
            ELSE act'[b] = act[b]
    <3> SUFFICES ASSUME NEW b \in Acts, b # a
                 PROVE  IF act[b].state = "planned"
                          THEN act'[b].state = Ending(why) /\ Closing(why)
                          ELSE act'[b] = act[b]
      OBVIOUS
    <3>1. act[b].state = "planned" => Closing(why)
      BY <1>8, <1>11
    <3>2. act[b] \in ActRows
      BY <1>1
    <3> QED BY <3>1, <3>2 DEF ActsSettled, Successor, ActRows
  <2>3. \A b \in Acts : act'[b].state # "planned" /\ ~Open(b)'
    BY <1>3, <1>4, <1>5, <2>2 DEF Open, TerminalStates
  <2>4. UnderWay'
    BY <2>1, <2>3 DEF UnderWay
  <2>5. OneAtATime'
    BY <1>7, <2>3 DEF OneAtATime
  <2>6. InOrder'
    <3>1. \A b \in Acts : Present(b)' <=> Present(b)
      BY <1>2, <1>4, <1>5, <2>2 DEF Present, Open, TerminalStates
    <3> QED BY <2>3, <3>1 DEF SafetyInv, InOrder
  <2>7. Untouched'
    BY <1>4, <1>5, <2>2 DEF SafetyInv, Untouched, TerminalStates
  <2>8. InterruptWins'
    <3>1. \A b \in Acts : b # a /\ act[b].state = "planned" => ~act[b].interrupt
      BY DEF SafetyInv, Untouched
    <3>2. \A b \in Acts : act'[b].state = "interrupted" => run'.state = "interrupted"
      BY <1>3, <1>5, <2>1, <2>2 DEF SafetyInv, InterruptWins, RunTerminal, TerminalStates
    <3>3. act'[a].interrupt => act'[a].state = "interrupted"
      BY <1>5, <1>9 DEF Ending
    <3>4. \A b \in Acts : b # a /\ act'[b].interrupt /\ act'[b].state \in TerminalStates
                           => act'[b].state = "interrupted"
      BY <1>6, <2>2, <3>1 DEF SafetyInv, InterruptWins
    <3> QED BY <3>2, <3>3, <3>4 DEF InterruptWins
  <2>9. OneShare'
    BY <1>3 DEF OneShare, Undelivered
  <2>10. JobFits'
    <3>1. job'.at = "sidecar" /\ job'.a = a /\ (job'.share <=> share /\ ~Later(a))
      BY DEF SettleJob, Idle
    <3>2. share => Ending(why) = "completed"
      BY DEF ShareIntent, Closing, Ending
    <3>3. \A b \in Acts : Undelivered(b)'
      BY <1>3 DEF Undelivered
    <3> HIDE DEF share
    <3> QED BY <1>5, <2>1, <3>1, <3>2, <3>3 DEF JobFits, NodePoints
  <2> QED BY <2>4, <2>5, <2>6, <2>7, <2>8, <2>9, <2>10 DEF SafetyInv
<1>12. QED BY <1>10, <1>11

(* A settlement ends the activity under way or, torn, leaves it settling. *)
LEMMA SafetySettlementReturns ==
  ASSUME SafetyInv, TypeOK', NEW a \in Acts, SettlementReturns(a)
  PROVE  SafetyInv'
<1>1. act[a].state = "settling" /\ Open(a)
  BY DEF SettlementReturns, At, SafetyInv, JobFits, Open, TerminalStates
<1>2. PICK wants \in BOOLEAN, saved \in Saves(4) :
        LET why == FinalReason(a)
            share == ShareIntent(a, why, wants)
        IN  /\ node' = IF saved >= 3 THEN NodesAborted(a) ELSE node
            /\ IF saved = 4 /\ SettleLegal(a, why)
                 THEN /\ act' = ActsSettled(a, why, share)
                      /\ run' = RunSettled(a, why)
                      /\ job' = SettleJob("sidecar", a, why, share /\ ~Later(a))
                 ELSE UNCHANGED <<act, run>> /\ job' = Idle
  BY DEF SettlementReturns
<1>3. delivery' = delivery
  BY DEF SettlementReturns
<1>4. CASE saved = 4 /\ SettleLegal(a, FinalReason(a))
  <2>1. FinalReason(a) \in Reasons
    BY ReasonTypes DEF SafetyInv
  <2> QED BY <1>1, <1>2, <1>3, <1>4, <2>1, SafetySettled
<1>5. CASE ~(saved = 4 /\ SettleLegal(a, FinalReason(a)))
  <2>1. UNCHANGED <<act, run>> /\ job' = Idle
    BY <1>2, <1>5
  <2>2. Open(a)' /\ ~RunTerminal'
    BY <1>1, <2>1, OpenIsAlone DEF Open, RunTerminal
  <2>3. node' \in {node, NodesAborted(a)}
    BY <1>2
  <2>4. \A b \in Acts, n \in Rounds :
          /\ b # a => node'[b][n] = node[b][n]
          /\ node'[b][n] \in RunningNode => node[b][n] \in RunningNode
    BY <2>3 DEF SafetyInv, TypeOK, NodesAborted, RunningNode, ExecStates, Verdicts
  <2>5. \A n, m \in Rounds :
          node'[a][n] \in RunningNode /\ node'[a][m] \in RunningNode => n = m
    BY <2>4 DEF SafetyInv, OneAtATime
  <2> QED BY <1>1, <1>3, <2>1, <2>2, <2>4, <2>5, IdleFits, SameActivity
<1>6. QED BY <1>4, <1>5

(* The horizon review works on the activity that was waiting. *)
LEMMA SafetyHorizonReturns ==
  ASSUME SafetyInv, TypeOK', NEW a \in Acts, HorizonReturns(a)
  PROVE  SafetyInv'
<1>1. act[a].state = "active_wait" /\ Open(a)
  BY DEF HorizonReturns, At, SafetyInv, JobFits, Open, TerminalStates
<1>2. CASE \E why \in {"user_interrupt", "plan_horizon"} :
             BeginSettlement(a, why, SettleJob("settle", a, why, FALSE))
  BY <1>1, <1>2, SafetyBeginSettlement
<1>3. CASE /\ run' = [run EXCEPT !.horizon = "set"]
           /\ act' = [act EXCEPT ![a].nodeAt =
                        IF act[a].goal.mode = "sleep" THEN "none" ELSE "set"]
           /\ job' = Idle
           /\ UNCHANGED <<node, decided, wake, delivery>>
  <2>1. \A b \in Acts : /\ act'[b].state = act[b].state
                        /\ act'[b].interrupt = act[b].interrupt
    BY <1>3 DEF SafetyInv, TypeOK, ActRows
  <2>2. run'.state = run.state
    BY <1>3 DEF SafetyInv, TypeOK, RunRows
  <2>3. Open(a)' /\ ~RunTerminal'
    BY <1>1, <2>1, <2>2, OpenIsAlone DEF Open, RunTerminal
  <2> QED BY <1>1, <1>3, <2>1, <2>3, IdleFits, SameActivity DEF SafetyInv, OneAtATime
<1>4. QED BY <1>2, <1>3 DEF HorizonReturns

(* A share is only ever begun by the activity that ended the segment. *)
LEMMA SafetyShare ==
  ASSUME SafetyInv, TypeOK', NEW a \in Acts,
         SidecarReturns(a) \/ ComposeReturns(a) \/ PushReturns(a)
  PROVE  SafetyInv'
<1> DEFINE shares == \/ job.at \in {"compose", "push"}
                     \/ job.at = "sidecar" /\ job.share
<1>1. job.a = a /\ UNCHANGED <<run, act, node>>
  BY DEF SidecarReturns, ComposeReturns, PushReturns, At
<1>2. shares => /\ act[a].state = "completed" /\ act[a].share
                /\ run.state = "completed"
                /\ \A b \in Acts : b # a => Undelivered(b)
  BY <1>1 DEF SafetyInv, JobFits
<1>3. \A b \in Acts : b # a => delivery'[b] = delivery[b]
  BY DEF SafetyInv, TypeOK, SidecarReturns, ComposeReturns, PushReturns
<1>4. ~shares => /\ job' = Idle
                 /\ delivery' = delivery \/
                      (delivery[a] = "none" /\ delivery'[a] = "not_requested")
  BY DEF SafetyInv, TypeOK, SidecarReturns, ComposeReturns, PushReturns, At
<1>5. OneShare'
  <2>1. CASE shares
    BY <1>1, <1>2, <1>3, <2>1 DEF OneShare, Undelivered
  <2>2. CASE ~shares
    <3>1. /\ \A b \in Acts : delivery'[b] \notin {"none", "not_requested"} =>
                               delivery[b] \notin {"none", "not_requested"}
          /\ \A b \in Acts : delivery[b] \in {"none", "not_requested"} =>
                               delivery'[b] \in {"none", "not_requested"}
      BY <1>3, <1>4, <2>2 DEF Undelivered
    <3> QED BY <1>1, <3>1 DEF SafetyInv, OneShare
  <2> QED BY <2>1, <2>2
<1>6. JobFits'
  <2>1. job' = Idle \/ (shares /\ \E at \in {"compose", "push"} :
                                    job' = NodeJob(at, a, 0, "none"))
    BY <1>4 DEF SidecarReturns, ComposeReturns, PushReturns, At
  <2>2. CASE job' = Idle
    BY <2>2, IdleFits
  <2>3. CASE shares /\ \E at \in {"compose", "push"} : job' = NodeJob(at, a, 0, "none")
    <3>1. job'.at \in {"compose", "push"} /\ job'.a = a
      BY <2>3 DEF NodeJob, Idle
    <3>2. \A b \in Acts : b # a => Undelivered(b)'
      BY <1>2, <1>3, <2>3 DEF Undelivered
    <3> QED BY <1>1, <1>2, <2>3, <3>1, <3>2 DEF JobFits, NodePoints
  <2> QED BY <2>1, <2>2, <2>3
<1>7. UnderWay' /\ InOrder' /\ Untouched' /\ OneAtATime' /\ InterruptWins'
  BY <1>1 DEF SafetyInv, UnderWay, InOrder, Untouched, OneAtATime, InterruptWins,
              Open, RunTerminal, Present
<1>8. QED BY <1>5, <1>6, <1>7 DEF SafetyInv

(* Replies, restarts and the clock touch no state of an activity. *)
LEMMA SafetyEnvironment ==
  ASSUME SafetyInv, TypeOK', RequestInterrupt \/ Restart \/ TimePasses
  PROVE  SafetyInv'
<1>1. act \in [Acts -> ActRows] /\ run \in RunRows /\ job \in Jobs
  BY DEF SafetyInv, TypeOK
<1>2. \A b \in Acts : /\ act'[b].state = act[b].state
                      /\ act'[b].share = act[b].share
                      /\ act'[b].interrupt # act[b].interrupt => Open(b)
  BY <1>1 DEF RequestInterrupt, Restart, TimePasses, ActRows, First
<1>3. run'.state = run.state /\ node' = node /\ delivery' = delivery
  BY <1>1 DEF RequestInterrupt, Restart, TimePasses, RunRows
<1>4. JobFits'
  <2>1. CASE Restart
    BY <2>1, IdleFits DEF Restart
  <2>2. CASE RequestInterrupt \/ TimePasses
    <3>1. /\ job'.at = job.at /\ job'.a = job.a /\ job'.n = job.n
          /\ job'.share = job.share
      BY <1>1, <2>2 DEF RequestInterrupt, TimePasses, Jobs
    <3> QED BY <1>2, <1>3, <3>1 DEF SafetyInv, JobFits, Undelivered, NodePoints
  <2> QED BY <2>1, <2>2
<1>5. UnderWay' /\ InOrder' /\ OneAtATime'
  BY <1>2, <1>3 DEF SafetyInv, UnderWay, InOrder, OneAtATime, Open, RunTerminal, Present
<1>6. Untouched' /\ InterruptWins'
  BY <1>2, <1>3 DEF SafetyInv, Untouched, InterruptWins, Open
<1>7. OneShare'
  BY <1>2, <1>3 DEF SafetyInv, OneShare
<1>8. QED BY <1>4, <1>5, <1>6, <1>7 DEF SafetyInv

(* SafetyInv is inductive. *)
LEMMA SafetyStep ==
  ASSUME SafetyInv, [Next]_vars
  PROVE  SafetyInv'
<1>1. TypeOK'
  BY TypeStep DEF SafetyInv
<1>2. CASE UNCHANGED vars \/ Done
  BY <1>1, <1>2 DEF Done, vars, SafetyInv, JobFits, UnderWay, InOrder, Untouched,
     OneAtATime, InterruptWins, OneShare, Undelivered, Open, RunTerminal, Present
<1>3. CASE \E a \in Acts : Poll(a)
  BY <1>1, <1>3, SafetyPoll
<1>4. CASE \E a \in Acts : Returns(a)
  BY <1>1, <1>4, SafetyHorizonReturns, SafetySettlementReturns, SafetyShare,
     SafetyNodeReturns DEF Returns
<1>5. CASE \E a \in Acts, n \in Rounds : ReceiptPending(a, n)
  BY <1>1, <1>5, SafetyNodeReturns
<1>6. CASE RequestInterrupt \/ Restart \/ TimePasses
  BY <1>1, <1>6, SafetyEnvironment
<1>7. QED BY <1>2, <1>3, <1>4, <1>5, <1>6 DEF Next

(* The inductive invariant holds in every state of the runtime. *)
LEMMA SafetyHolds == Spec => []SafetyInv
<1>1. SafetyInv /\ [Next]_vars => SafetyInv'
  BY SafetyStep
<1>2. QED BY <1>1, SafetyInit, PTL DEF Spec

(* One activity under way, one node running, and none running elsewhere. *)
THEOREM OneAtATimeHolds == Spec => []OneAtATime
<1>1. SafetyInv => OneAtATime
  BY DEF SafetyInv
<1>2. QED BY <1>1, SafetyHolds, PTL

(* A run is over exactly when every activity of its plan is. *)
THEOREM PlanClosedHolds == Spec => []PlanClosed
<1>1. ASSUME SafetyInv PROVE PlanClosed
  <2>1. RunTerminal <=> \A a \in Acts : ~Open(a)
    BY <1>1 DEF SafetyInv, UnderWay
  <2>2. RunTerminal => \A a \in Acts : act[a].state # "planned"
    BY <1>1 DEF SafetyInv, UnderWay
  <2>3. RunTerminal => \A a \in Acts : NoneInFlight(a)
    BY <1>1, <2>1 DEF SafetyInv, OneAtATime, NoneInFlight
  <2> QED BY <2>1, <2>2, <2>3 DEF PlanClosed, Open, TerminalStates
<1>2. QED BY <1>1, SafetyHolds, PTL

(* A user reply that reached an activity is never lost. *)
THEOREM InterruptWinsHolds == Spec => []InterruptWins
<1>1. SafetyInv => InterruptWins
  BY DEF SafetyInv
<1>2. QED BY <1>1, SafetyHolds, PTL

(* One event segment produces at most one proactive message. *)
THEOREM OneShareHolds == Spec => []OneShare
<1>1. SafetyInv => OneShare
  BY DEF SafetyInv
<1>2. QED BY <1>1, SafetyHolds, PTL
-----------------------------------------------------------------------------
(* What a step does to the states of the activities and of the run *)

(* Nothing a reader of the run would call progress: no activity begins or ends. *)
Quiet ==
  /\ \A b \in Acts : /\ Open(b)' <=> Open(b)
                     /\ ~Open(b) => act'[b].state = act[b].state
  /\ RunTerminal' <=> RunTerminal
  /\ RunTerminal => run'.state = run.state

(* A review of the open activity appended activity b to the plan. *)
Appended(b) ==
  /\ act[b].state = "absent" /\ act'[b].state = "planned"
  /\ \A c \in Acts \ {b} : /\ Open(c)' <=> Open(c)
                           /\ ~Open(c) => act'[c].state = act[c].state
  /\ ~RunTerminal /\ ~RunTerminal'

(* The transaction that ends activity a. *)
Ends(a, why) ==
  /\ Open(a) /\ why \in Reasons
  /\ \E share \in BOOLEAN : act' = ActsSettled(a, why, share)
  /\ run' = RunSettled(a, why)
  /\ wake' = WakeAfter(a, why)

LEMMA NothingChanges ==
  ASSUME UNCHANGED <<run, act>>
  PROVE  Quiet
BY DEF Quiet, Open, RunTerminal

(* begin_settlement leaves the activity under way open. *)
LEMMA BeginSettlementIsQuiet ==
  ASSUME SafetyInv, NEW a \in Acts, Open(a), NEW why, NEW nextJob,
         BeginSettlement(a, why, nextJob)
  PROVE  Quiet
<1>1. act \in [Acts -> ActRows] /\ run \in RunRows
  BY DEF SafetyInv, TypeOK
<1>2. Open(a)'
  <2>1. act'[a].state \in {act[a].state, "settling"}
    BY <1>1 DEF BeginSettlement, ActRows
  <2> QED BY <2>1 DEF Open, TerminalStates
<1>3. \A b \in Acts : b # a => act'[b] = act[b]
  BY <1>1 DEF BeginSettlement
<1>4. ~RunTerminal /\ ~RunTerminal'
  <2>1. run'.state \in {run.state, "settling"}
    BY <1>1 DEF BeginSettlement, RunRows
  <2> QED BY <2>1, OpenIsAlone DEF RunTerminal, TerminalStates
<1>5. QED BY <1>2, <1>3, <1>4 DEF Quiet, Open

LEMMA PollIsQuiet ==
  ASSUME SafetyInv, NEW a \in Acts, Poll(a)
  PROVE  Quiet
<1>1. act \in [Acts -> ActRows] /\ run \in RunRows
  BY DEF SafetyInv, TypeOK
<1>2. Open(a)
  BY DEF Poll, StartNode, RecoverOrphan, Settle, ReviewHorizon, RecoverNode, Waiting, First
<1>3. CASE StartNode(a)
  <2>1. /\ act' \in {act, [act EXCEPT ![a].state = "node_running"]}
        /\ run' \in {run, [run EXCEPT !.state = "node_running"]}
    BY <1>3 DEF StartNode
  <2>2. Open(a)' /\ \A b \in Acts : b # a => act'[b] = act[b]
    BY <1>1, <1>2, <2>1 DEF Open, TerminalStates, ActRows
  <2>3. ~RunTerminal /\ ~RunTerminal'
    BY <1>1, <1>2, <2>1, OpenIsAlone DEF RunTerminal, TerminalStates, RunRows
  <2> QED BY <1>2, <2>2, <2>3 DEF Quiet, Open
<1>4. CASE RecoverOrphan(a) \/ Settle(a)
  BY <1>2, <1>4, BeginSettlementIsQuiet DEF RecoverOrphan, Settle
<1>5. CASE ReviewHorizon(a) \/ \E n \in Rounds : RecoverNode(a, n)
  BY <1>5, NothingChanges DEF ReviewHorizon, RecoverNode
<1>6. QED BY <1>3, <1>4, <1>5 DEF Poll

LEMMA HorizonIsQuiet ==
  ASSUME SafetyInv, NEW a \in Acts, HorizonReturns(a)
  PROVE  Quiet
<1>1. act[a].state = "active_wait" /\ Open(a)
  BY DEF HorizonReturns, At, SafetyInv, JobFits, Open, TerminalStates
<1>2. CASE \E why \in {"user_interrupt", "plan_horizon"} :
             BeginSettlement(a, why, SettleJob("settle", a, why, FALSE))
  BY <1>1, <1>2, BeginSettlementIsQuiet
<1>3. CASE /\ run' = [run EXCEPT !.horizon = "set"]
           /\ act' = [act EXCEPT ![a].nodeAt =
                        IF act[a].goal.mode = "sleep" THEN "none" ELSE "set"]
  <2>1. \A b \in Acts : act'[b].state = act[b].state
    BY <1>3 DEF SafetyInv, TypeOK, ActRows
  <2>2. run'.state = run.state
    BY <1>3 DEF SafetyInv, TypeOK, RunRows
  <2> QED BY <2>1, <2>2 DEF Quiet, Open, RunTerminal
<1>4. QED BY <1>2, <1>3 DEF HorizonReturns

(* complete_node_review leaves its activity open, and appends at most one. *)
LEMMA ConcludeShape ==
  ASSUME SafetyInv, NEW a \in Acts, NEW n \in Rounds, Conclude(a, n)
  PROVE  Quiet \/ \E b \in Acts : Appended(b)
<1> DEFINE why == EndReason(a, n, job.how)
           switches == job.how = "switch" /\ ~act[a].interrupt
           added(g) == [b \in Acts |-> IF switches /\ FreeSlot(b)
                                         THEN NewAct(g, "planned") ELSE act[b]]
           reviewed == AfterReview(act[a], why, "set")
           target == IF why = "none" THEN "active_wait" ELSE "settling"
<1>1. act \in [Acts -> ActRows] /\ run \in RunRows
  BY DEF SafetyInv, TypeOK
<1>2. node[a][n] \in RunningNode
  BY DEF Conclude, AtNode, SafetyInv, JobFits, NodePoints
<1>3. Open(a) /\ ~RunTerminal
  BY <1>2, OpenIsAlone DEF SafetyInv, OneAtATime
<1>4. PICK g \in Goals :
        /\ act' \in {act, added(g), [added(g) EXCEPT ![a] = reviewed]}
        /\ run' \in {run, [run EXCEPT !.state = target]}
  BY DEF Conclude
<1>5. ~FreeSlot(a) /\ added(g)[a] = act[a]
  BY <1>3 DEF Open, FreeSlot, Present
<1>6. reviewed.state \in {"active_wait", "settling"}
  BY <1>1 DEF AfterReview, ActRows
<1>7. Open(a)'
  <2>1. act'[a] \in {act[a], reviewed}
    <3> HIDE DEF reviewed
    <3> QED BY <1>4, <1>5
  <2> HIDE DEF reviewed
  <2> QED BY <1>3, <1>6, <2>1 DEF Open, TerminalStates
<1>8. ~RunTerminal'
  <2>1. run'.state \in {run.state, "active_wait", "settling"}
    BY <1>1, <1>4 DEF RunRows
  <2> QED BY <1>3, <2>1 DEF RunTerminal, TerminalStates
<1>9. \A b \in Acts : b # a => act'[b] \in {act[b], added(g)[b]}
  <2> HIDE DEF reviewed
  <2> QED BY <1>4
<1>10. \A b \in Acts : b # a /\ ~(switches /\ FreeSlot(b)) => act'[b] = act[b]
  BY <1>9
<1>11. CASE \A b \in Acts : b # a => act'[b] = act[b]
  BY <1>3, <1>7, <1>8, <1>11 DEF Quiet, Open
<1>12. CASE \E b \in Acts : b # a /\ act'[b] # act[b]
  <2>1. PICK b \in Acts : b # a /\ act'[b] # act[b]
    BY <1>12
  <2>2. FreeSlot(b) /\ act'[b] = NewAct(g, "planned")
    BY <1>9, <1>10, <2>1
  <2>3. act[b].state = "absent" /\ act'[b].state = "planned"
    BY <2>2 DEF FreeSlot, Present, NewAct
  <2>4. \A c \in Acts : FreeSlot(c) => c = b
    BY <2>2, BoundsAssumption DEF FreeSlot, Acts
  <2>5. \A c \in Acts \ {b} : c # a => act'[c] = act[c]
    BY <1>10, <2>4
  <2> QED BY <1>3, <1>7, <1>8, <2>3, <2>5 DEF Appended, Open
<1>13. QED BY <1>11, <1>12

(* The settlement ends the activity under way or, torn or refused, nothing. *)
LEMMA SettlementShape ==
  ASSUME SafetyInv, NEW a \in Acts, SettlementReturns(a)
  PROVE  \/ UNCHANGED <<run, act>>
         \/ Ends(a, FinalReason(a))
<1>1. Open(a)
  BY DEF SettlementReturns, At, SafetyInv, JobFits, Open, TerminalStates
<1>2. PICK wants \in BOOLEAN, saved \in Saves(4) :
        LET why == FinalReason(a)
            share == ShareIntent(a, why, wants)
        IN  /\ wake' = IF saved >= 2 THEN WakeAfter(a, why) ELSE wake
            /\ IF saved = 4 /\ SettleLegal(a, why)
                 THEN /\ act' = ActsSettled(a, why, share)
                      /\ run' = RunSettled(a, why)
                 ELSE UNCHANGED <<act, run>>
  BY DEF SettlementReturns
<1>3. CASE saved = 4 /\ SettleLegal(a, FinalReason(a))
  <2>1. FinalReason(a) \in Reasons
    BY ReasonTypes DEF SafetyInv
  <2>2. ShareIntent(a, FinalReason(a), wants) \in BOOLEAN
    BY DEF ShareIntent
  <2>3. wake' = WakeAfter(a, FinalReason(a))
    BY <1>2, <1>3
  <2> QED BY <1>1, <1>2, <1>3, <2>1, <2>2, <2>3 DEF Ends
<1>4. QED BY <1>2, <1>3

(* Every step of the runtime is one of these. *)
LEMMA StepShape ==
  ASSUME SafetyInv, [Next]_vars
  PROVE  \/ Quiet
         \/ \E b \in Acts : Appended(b)
         \/ \E a \in Acts : Ends(a, FinalReason(a))
<1>1. ASSUME NEW a \in Acts, Poll(a) PROVE Quiet
  BY <1>1, PollIsQuiet
<1>2. ASSUME NEW a \in Acts, HorizonReturns(a) PROVE Quiet
  BY <1>2, HorizonIsQuiet
<1>3. ASSUME NEW a \in Acts, SettlementReturns(a) PROVE Quiet \/ Ends(a, FinalReason(a))
  BY <1>3, SettlementShape, NothingChanges
<1>4. ASSUME NEW a \in Acts, SidecarReturns(a) \/ ComposeReturns(a) \/ PushReturns(a)
      PROVE  Quiet
  BY <1>4, NothingChanges DEF SidecarReturns, ComposeReturns, PushReturns
<1>5. ASSUME NEW a \in Acts, NEW n \in Rounds,
             \/ ExecReturns(a, n) \/ ReceiptReturns(a, n) \/ ReceiptPending(a, n)
             \/ ReviewReturns(a, n) \/ ConcludeRaises(a, n)
      PROVE  Quiet
  BY <1>5, NothingChanges
     DEF ExecReturns, ReceiptReturns, ReceiptPending, ReviewReturns, ConcludeRaises
<1>6. ASSUME NEW a \in Acts, NEW n \in Rounds, Conclude(a, n)
      PROVE  Quiet \/ \E b \in Acts : Appended(b)
  BY <1>6, ConcludeShape
<1>7. CASE RequestInterrupt \/ Restart \/ TimePasses
  <2>1. act \in [Acts -> ActRows] /\ run \in RunRows
    BY DEF SafetyInv, TypeOK
  <2>2. \A b \in Acts : act'[b].state = act[b].state
    BY <1>7, <2>1 DEF RequestInterrupt, Restart, TimePasses, ActRows
  <2>3. run'.state = run.state
    BY <1>7, <2>1 DEF RequestInterrupt, Restart, TimePasses, RunRows
  <2> QED BY <2>2, <2>3 DEF Quiet, Open, RunTerminal
<1>8. CASE Done \/ UNCHANGED vars
  BY <1>8, NothingChanges DEF Done, vars
<1>9. QED
  BY <1>1, <1>2, <1>3, <1>4, <1>5, <1>6, <1>7, <1>8 DEF Next, Returns

-----------------------------------------------------------------------------
(* The wake, the handler calls *)

LEMMA EndingOf ==
  ASSUME NEW a \in Acts, NEW why, Ends(a, why), SafetyInv
  PROVE  /\ Closing(why) \/ ~Later(a) => run'.state = Ending(why)
         /\ ~Closing(why) /\ Later(a) => run'.state = "active_wait"
         /\ ~Closing(why) => Ending(why) = "completed"
         /\ Ending(why) = "interrupted" <=> why = "user_interrupt"
         /\ why = "execution_error" => Ending(why) = "aborted"
         /\ Ending(why) \in TerminalStates
<1>1. run \in RunRows
  BY DEF SafetyInv, TypeOK
<1>2. /\ Closing(why) \/ ~Later(a) => run'.state = Ending(why)
      /\ ~Closing(why) /\ Later(a) => run'.state = "active_wait"
  BY <1>1 DEF Ends, RunSettled, RunRows
<1>3. QED BY <1>2 DEF Ending, Closing, TerminalStates

(* settle_activity saves the scheduler wake before the transaction that ends the
   run, so that a crash between them never strands the next plan. *)
THEOREM WakeBeforeEndHolds == Spec => WakeBeforeEnd
<1>1. ASSUME SafetyInv, [Next]_vars
      PROVE  [~RunTerminal /\ RunTerminal' =>
                (wake' = 0 <=> run'.state = "interrupted")]_vars
  <2> SUFFICES ASSUME ~RunTerminal, RunTerminal'
               PROVE  wake' = 0 <=> run'.state = "interrupted"
    OBVIOUS
  <2>1. PICK a \in Acts : Ends(a, FinalReason(a))
    BY <1>1, StepShape DEF Quiet, Appended
  <2> DEFINE why == FinalReason(a)
  <2>2. Closing(why) \/ ~Later(a)
    BY <1>1, <2>1, EndingOf DEF RunTerminal, TerminalStates
  <2>3. wake' = IF why = "user_interrupt" THEN 0 ELSE a
    BY <2>1, <2>2 DEF Ends, WakeAfter, Closing
  <2>4. a # 0
    BY BoundsAssumption DEF Acts
  <2>5. run'.state = "interrupted" <=> why = "user_interrupt"
    BY <1>1, <2>1, <2>2, EndingOf
  <2> QED BY <2>3, <2>4, <2>5
<1>2. QED BY <1>1, SafetyHolds, PTL DEF Spec, WakeBeforeEnd

(* What follows an execution status is never another execution. *)
LEMMA NeverAgain ==
  ASSUME NEW a, NEW n, NEW status
  PROVE  AfterExec(a, n, status).at # "exec"
BY DEF AfterExec, NodeJob, Idle

LEMMA OnlyStartCalls ==
  ASSUME SafetyInv, [Next]_vars, job' # job, job'.at = "exec"
  PROVE  \E a \in Acts : StartNode(a)
<1>0. job \in Jobs
  BY DEF SafetyInv, TypeOK
<1>1. Idle.at = "idle" /\ \A at, a, n, how : NodeJob(at, a, n, how).at = at
  BY DEF Idle, NodeJob
<1>2. \A at, a, why, share : SettleJob(at, a, why, share).at = at
  BY DEF Idle, SettleJob
<1>3. ASSUME NEW a \in Acts, NEW why, NEW nextJob, BeginSettlement(a, why, nextJob),
             nextJob \in {Idle, SettleJob("settle", a, why, FALSE)}
      PROVE  FALSE
  <2>1. nextJob.at # "exec" /\ Idle.at # "exec"
    <3>1. SettleJob("settle", a, why, FALSE).at = "settle"
      BY DEF SettleJob, Idle
    <3> QED BY <1>1, <1>3, <3>1
  <2>2. job' \in {Idle, nextJob}
    BY <1>3 DEF BeginSettlement
  <2> QED BY <2>1, <2>2
<1>4. ASSUME NEW a \in Acts, Poll(a) PROVE StartNode(a)
  <2>1. ~RecoverOrphan(a)
    BY <1>3 DEF RecoverOrphan
  <2>2. ~Settle(a)
    BY <1>3 DEF Settle
  <2>3. ~ReviewHorizon(a)
    BY <1>1 DEF ReviewHorizon
  <2>4. ASSUME NEW n \in Rounds, RecoverNode(a, n) PROVE FALSE
    <3>1. \/ \E at \in {"conclude", "receipt"}, how \in {"stop", "failed", "none"} :
               job' = NodeJob(at, a, n, how)
          \/ job' = AfterExec(a, n, node[a][n])
      BY <2>4 DEF RecoverNode
    <3> QED BY <1>1, <3>1, NeverAgain
  <2> QED BY <1>4, <2>1, <2>2, <2>3, <2>4 DEF Poll
<1>5. ASSUME NEW a \in Acts, Returns(a) PROVE FALSE
  <2>1. ~HorizonReturns(a)
    BY <1>1, <1>3 DEF HorizonReturns
  <2>2. ~SettlementReturns(a)
    BY <1>1, <1>2 DEF SettlementReturns
  <2>3. ~SidecarReturns(a) /\ ~ComposeReturns(a) /\ ~PushReturns(a)
    BY <1>1 DEF SidecarReturns, ComposeReturns, PushReturns
  <2>4. ASSUME NEW n \in Rounds, ExecReturns(a, n) \/ ReceiptReturns(a, n) PROVE FALSE
    BY <2>4, NeverAgain DEF ExecReturns, ReceiptReturns
  <2>5. ASSUME NEW n \in Rounds,
               ReviewReturns(a, n) \/ Conclude(a, n) \/ ConcludeRaises(a, n)
        PROVE  FALSE
    BY <1>1, <2>5 DEF ReviewReturns, Conclude, ConcludeRaises
  <2> QED BY <1>5, <2>1, <2>2, <2>3, <2>4, <2>5 DEF Returns
<1>6. ASSUME NEW a \in Acts, NEW n \in Rounds, ReceiptPending(a, n) PROVE FALSE
  BY <1>1, <1>6 DEF ReceiptPending
<1>7. ~RequestInterrupt
  BY <1>0 DEF RequestInterrupt, Jobs
<1>8. ~Restart /\ ~TimePasses /\ ~Done /\ ~UNCHANGED vars
  BY <1>1 DEF Restart, TimePasses, Done, vars
<1>9. QED BY <1>4, <1>5, <1>6, <1>7, <1>8 DEF Next

(* NodeExecutor never calls a handler for a node it once began: after a crash the
   node found in flight is concluded, and a new one has the next round index. *)
THEOREM NoReplayHolds == Spec => NoReplay
<1>1. ASSUME SafetyInv, [Next]_vars
      PROVE  [\A a \in Acts, n \in Rounds :
                HandlerStarts(a, n) =>
                  /\ node[a][n] = "absent"
                  /\ \A b \in Acts : NoneInFlight(b)]_vars
  <2> SUFFICES ASSUME NEW a \in Acts, NEW n \in Rounds, HandlerStarts(a, n)
               PROVE  node[a][n] = "absent" /\ \A b \in Acts : NoneInFlight(b)
    OBVIOUS
  <2>1. PICK c \in Acts : StartNode(c)
    BY <1>1, OnlyStartCalls DEF HandlerStarts
  <2>2. PICK m \in Rounds : \E saved \in Saves(4) :
          /\ NextRound(c, m)
          /\ job' = IF saved = 4 THEN NodeJob("exec", c, m, "none") ELSE Idle
    BY <2>1 DEF StartNode
  <2>3. job'.a = c /\ job'.n = m
    BY <2>2 DEF HandlerStarts, NodeJob, Idle
  <2>4. Open(c) /\ NoneInFlight(c)
    BY <2>1 DEF StartNode, Waiting, First
  <2> QED BY <1>1, <2>2, <2>3, <2>4, OpenIsAlone DEF HandlerStarts, NextRound
<1>2. QED BY <1>1, SafetyHolds, PTL DEF Spec, NoReplay

-----------------------------------------------------------------------------
(* RunLifecycle *)

PhaseNow == [a \in Acts |-> Phase(a)]
OutcomeNow == IF RunTerminal THEN run.state ELSE "open"

LEMMA PhaseTells ==
  ASSUME NEW b \in Acts
  PROVE  /\ PhaseNow[b] = "open" <=> Open(b)
         /\ PhaseNow[b] = "planned" <=> act[b].state = "planned"
         /\ PhaseNow[b] = "absent" <=> act[b].state = "absent"
         /\ ~Open(b) => PhaseNow[b] = act[b].state
<1>1. PhaseNow[b] = IF Open(b) THEN "open" ELSE act[b].state
  BY DEF PhaseNow, Phase
<1>2. QED BY <1>1 DEF Open, TerminalStates

LEMMA LifecycleInit == Init => Lifecycle!Init
<1> SUFFICES ASSUME Init PROVE Lifecycle!Init
  OBVIOUS
<1>0. PICK k \in 1..PlanLen : \E plan \in [1..k -> Goals] :
        act = [a \in Acts |-> PlannedAct(plan, a)]
  BY DEF Init
<1>1. PICK plan \in [1..k -> Goals] : act = [a \in Acts |-> PlannedAct(plan, a)]
  BY <1>0
<1>2. \A b \in Acts : act[b].state = IF b \notin 1..k THEN "absent"
                                     ELSE IF b = 1 THEN "active_wait" ELSE "planned"
  BY <1>1 DEF PlannedAct, NewAct, ScheduleInitial
<1>3. 1 \in Acts /\ 1 \in 1..k
  BY BoundsAssumption DEF Acts
<1> DEFINE rest == {b \in Acts : b \in 1..k /\ b # 1}
<1>4. rest \in SUBSET {b \in Acts : b > 1}
  BY BoundsAssumption DEF Acts
<1>5. \A b \in Acts : Phase(b) = IF b = 1 THEN "open"
                                 ELSE IF b \in rest THEN "planned" ELSE "absent"
  BY <1>2, <1>3 DEF Phase, Open, TerminalStates
<1>6. ~RunTerminal
  BY DEF Init, RunTerminal, TerminalStates
<1> HIDE DEF rest
<1>7. QED BY <1>3, <1>4, <1>5, <1>6 DEF Lifecycle!Init

LEMMA QuietStutters ==
  ASSUME Quiet
  PROVE  UNCHANGED Lifecycle!lifecycleVars
<1>1. \A b \in Acts : Phase(b)' = Phase(b)
  BY DEF Quiet, Phase
<1>2. OutcomeNow' = OutcomeNow
  BY DEF Quiet, OutcomeNow
<1>3. QED BY <1>1, <1>2 DEF Lifecycle!lifecycleVars, OutcomeNow

LEMMA AppendedAppends ==
  ASSUME NEW b \in Acts, Appended(b)
  PROVE  Lifecycle!Append(b)
<1>1. Phase(b) = "absent" /\ Phase(b)' = "planned"
  BY DEF Appended, Phase, Open
<1>2. \A c \in Acts \ {b} : Phase(c)' = Phase(c)
  BY DEF Appended, Phase
<1>3. QED BY <1>1, <1>2 DEF Lifecycle!Append, Appended

LEMMA EndsEnds ==
  ASSUME SafetyInv, NEW a \in Acts, NEW why, Ends(a, why)
  PROVE  \/ Lifecycle!Complete(a)
         \/ \E ending \in {"interrupted", "aborted"} : Lifecycle!Close(a, ending)
<1>0. ~RunTerminal /\ act \in [Acts -> ActRows] /\ Phase(a) = "open"
  BY OpenIsAlone DEF Ends, SafetyInv, TypeOK, Phase
<1>1. PICK share \in BOOLEAN : act' = ActsSettled(a, why, share)
  BY DEF Ends
<1>2. Ending(why) \in TerminalStates /\ act'[a].state = Ending(why)
  BY <1>0, <1>1, EndingOf DEF ActsSettled, ActRows
<1>3. CASE Closing(why)
  <2>1. Ending(why) \in {"interrupted", "aborted"} /\ run'.state = Ending(why)
    BY <1>3, EndingOf DEF Closing
  <2>2. ASSUME NEW b \in Acts, b # a
        PROVE  IF act[b].state = "planned" THEN act'[b].state = Ending(why)
               ELSE act'[b] = act[b]
    <3> act[b] \in ActRows
      BY <1>0
    <3> QED BY <1>1, <1>3, <2>2 DEF ActsSettled, ActRows
  <2>3. \A b \in Acts : Phase(b)' = IF b = a \/ Phase(b) = "planned" THEN Ending(why)
                                    ELSE Phase(b)
    BY <1>2, <2>2 DEF Phase, Open, TerminalStates
  <2>4. OutcomeNow' = Ending(why)
    BY <1>2, <2>1 DEF OutcomeNow, RunTerminal
  <2>5. Lifecycle!Close(a, Ending(why))
    BY <1>0, <2>3, <2>4 DEF Lifecycle!Close, Lifecycle!IsPlanned, OutcomeNow
  <2> QED BY <2>1, <2>5
<1>4. CASE ~Closing(why)
  <2>1. /\ act'[a].state = "completed"
        /\ Later(a) => run'.state = "active_wait"
        /\ ~Later(a) => run'.state = "completed"
    BY <1>2, <1>4, EndingOf
  <2>2. ASSUME NEW b \in Acts, b # a
        PROVE  IF Successor(a, b) THEN act'[b].state = "active_wait"
               ELSE act'[b] = act[b]
    <3> act[b] \in ActRows
      BY <1>0
    <3> QED BY <1>1, <1>4, <2>2 DEF ActsSettled, ScheduleInitial, ActRows
  <2>3. \A b \in Acts : Lifecycle!NextPlanned(a, b) <=> Successor(a, b)
    <3>1. \A b \in Acts : Lifecycle!IsPlanned(b) <=> act[b].state = "planned"
      BY DEF Lifecycle!IsPlanned, Phase, Open
    <3> QED BY <3>1 DEF Lifecycle!NextPlanned, Successor
  <2>4. Lifecycle!SomePlanned(a) <=> Later(a)
    BY DEF Lifecycle!SomePlanned, Lifecycle!IsPlanned, Later, Phase, Open
  <2>5. \A b \in Acts : Phase(b)' = IF b = a THEN "completed"
                                    ELSE IF Lifecycle!NextPlanned(a, b) THEN "open"
                                    ELSE Phase(b)
    BY <2>1, <2>2, <2>3 DEF Phase, Open, TerminalStates
  <2>6. OutcomeNow' = IF Lifecycle!SomePlanned(a) THEN OutcomeNow ELSE "completed"
    BY <1>0, <2>1, <2>4 DEF OutcomeNow, RunTerminal, TerminalStates
  <2>7. Lifecycle!Complete(a)
    BY <1>0, <2>5, <2>6 DEF Lifecycle!Complete, OutcomeNow
  <2> QED BY <2>7
<1>5. QED BY <1>3, <1>4

LEMMA LifecycleStep ==
  SafetyInv /\ [Next]_vars => [Lifecycle!Next]_(Lifecycle!lifecycleVars)
<1> SUFFICES ASSUME SafetyInv, [Next]_vars
             PROVE  [Lifecycle!Next]_(Lifecycle!lifecycleVars)
  OBVIOUS
<1>1. CASE Quiet
  BY <1>1, QuietStutters
<1>2. CASE \E b \in Acts : Appended(b)
  BY <1>2, AppendedAppends DEF Lifecycle!Next
<1>3. CASE \E a \in Acts : Ends(a, FinalReason(a))
  BY <1>3, EndsEnds DEF Lifecycle!Next
<1>4. QED BY <1>1, <1>2, <1>3, StepShape

(* Through every torn write, restart and reply, the rows of a run show a reader the
   lifecycle of RunLifecycle and nothing else. *)
THEOREM LifecycleImplemented == Spec => ImplementsLifecycle
<1>1. QED
  BY LifecycleInit, LifecycleStep, SafetyHolds, PTL
     DEF Spec, ImplementsLifecycle, Lifecycle!Spec

-----------------------------------------------------------------------------
(* What has ended is final *)

Final == {"sent", "failed", "suppressed"}

(* A share under way has not been sent yet. *)
ShareFits ==
  /\ job.at = "sidecar" => delivery[job.a] \notin Final
  /\ job.at \in {"compose", "push"} => delivery[job.a] \notin Final

(* Nothing outside the share itself begins one or writes its record. *)
LEMMA OtherJobs ==
  ASSUME SafetyInv, [Next]_vars,
         \A a \in Acts : ~SettlementReturns(a) /\ ~SidecarReturns(a)
                         /\ ~ComposeReturns(a) /\ ~PushReturns(a)
  PROVE  /\ delivery' = delivery
         /\ \/ job'.at \notin {"sidecar", "compose", "push"}
            \/ job'.at = job.at /\ job'.a = job.a
<1> DEFINE sharing == {"sidecar", "compose", "push"}
<1>0. job \in Jobs
  BY DEF SafetyInv, TypeOK
<1>1. /\ Idle.at \notin sharing
      /\ \A at, a, n, how : NodeJob(at, a, n, how).at = at
      /\ \A a, why : SettleJob("settle", a, why, FALSE).at \notin sharing
  BY DEF Idle, NodeJob, SettleJob
<1>2. ASSUME NEW a, NEW n, NEW status
      PROVE  AfterExec(a, n, status).at \notin sharing
  BY DEF AfterExec, NodeJob, Idle
<1>3. ASSUME NEW a \in Acts, NEW why,
             BeginSettlement(a, why, Idle) \/
             BeginSettlement(a, why, SettleJob("settle", a, why, FALSE))
      PROVE  delivery' = delivery /\ job'.at \notin sharing
  <2>1. job' \in {Idle, SettleJob("settle", a, why, FALSE)} /\ delivery' = delivery
    BY <1>3 DEF BeginSettlement
  <2>2. SettleJob("settle", a, why, FALSE).at = "settle" /\ Idle.at = "idle"
    BY DEF SettleJob, Idle
  <2> QED BY <2>1, <2>2
<1>4. ASSUME NEW a \in Acts, Poll(a) PROVE delivery' = delivery /\ job'.at \notin sharing
  <2>1. CASE StartNode(a)
    BY <1>1, <2>1 DEF StartNode
  <2>2. CASE RecoverOrphan(a)
    BY <1>3, <2>2 DEF RecoverOrphan
  <2>3. CASE Settle(a)
    BY <1>3, <2>3 DEF Settle
  <2>4. CASE ReviewHorizon(a)
    BY <1>1, <2>4 DEF ReviewHorizon
  <2>5. ASSUME NEW n \in Rounds, RecoverNode(a, n)
        PROVE  delivery' = delivery /\ job'.at \notin sharing
    <3>1. \/ \E at \in {"conclude", "receipt"}, how \in {"stop", "failed", "none"} :
               job' = NodeJob(at, a, n, how)
          \/ job' = AfterExec(a, n, node[a][n])
      BY <2>5 DEF RecoverNode
    <3> QED BY <1>1, <1>2, <2>5, <3>1 DEF RecoverNode
  <2> QED BY <1>4, <2>1, <2>2, <2>3, <2>4, <2>5 DEF Poll
<1>5. ASSUME NEW a \in Acts, Returns(a) PROVE delivery' = delivery /\ job'.at \notin sharing
  <2>1. CASE HorizonReturns(a)
    BY <1>1, <1>3, <2>1 DEF HorizonReturns
  <2>2. ASSUME NEW n \in Rounds, ExecReturns(a, n) \/ ReceiptReturns(a, n)
        PROVE  delivery' = delivery /\ job'.at \notin sharing
    BY <1>2, <2>2 DEF ExecReturns, ReceiptReturns
  <2>3. ASSUME NEW n \in Rounds,
               ReviewReturns(a, n) \/ Conclude(a, n) \/ ConcludeRaises(a, n)
        PROVE  delivery' = delivery /\ job'.at \notin sharing
    BY <1>1, <2>3 DEF ReviewReturns, Conclude, ConcludeRaises
  <2> QED BY <1>5, <2>1, <2>2, <2>3 DEF Returns
<1>6. ASSUME NEW a \in Acts, NEW n \in Rounds, ReceiptPending(a, n)
      PROVE  delivery' = delivery /\ job'.at \notin sharing
  BY <1>1, <1>6 DEF ReceiptPending
<1>7. CASE RequestInterrupt \/ TimePasses \/ Done \/ UNCHANGED vars
  BY <1>0, <1>7 DEF RequestInterrupt, TimePasses, Done, vars, Jobs
<1>8. CASE Restart
  BY <1>1, <1>8 DEF Restart
<1>9. QED BY <1>4, <1>5, <1>6, <1>7, <1>8 DEF Next

LEMMA ShareSteps ==
  ASSUME SafetyInv, ShareFits, [Next]_vars
  PROVE  /\ ShareFits'
         /\ \A b \in Acts : delivery[b] \in Final => delivery'[b] = delivery[b]
<1>0. delivery \in [Acts -> DeliveryStates]
  BY DEF SafetyInv, TypeOK
<1>1. CASE \E a \in Acts : SettlementReturns(a)
  <2>1. PICK a \in Acts : SettlementReturns(a)
    BY <1>1
  <2>2. delivery' = delivery /\ \A b \in Acts : Undelivered(b)
    <3>1. Open(a)
      BY <2>1 DEF SettlementReturns, At, SafetyInv, JobFits, Open, TerminalStates
    <3> QED BY <2>1, <3>1, OpenIsAlone DEF SettlementReturns
  <2>3. \A b \in Acts : delivery'[b] \notin Final
    BY <2>2 DEF Undelivered, Final
  <2>4. job'.at = "idle" \/ job'.a = a
    <3>1. \/ job' = Idle
          \/ \E why, share : job' = SettleJob("sidecar", a, why, share)
      BY <2>1 DEF SettlementReturns
    <3>2. Idle.at = "idle" /\ \A why, share : SettleJob("sidecar", a, why, share).a = a
      BY DEF SettleJob, Idle
    <3> QED BY <3>1, <3>2
  <2> QED BY <2>2, <2>3, <2>4 DEF ShareFits
<1>2. ASSUME NEW a \in Acts, SidecarReturns(a) \/ ComposeReturns(a) \/ PushReturns(a)
      PROVE  /\ ShareFits'
             /\ \A b \in Acts : delivery[b] \in Final => delivery'[b] = delivery[b]
  <2>1. job.a = a /\ delivery[a] \notin Final
    BY <1>2 DEF SidecarReturns, ComposeReturns, PushReturns, At, ShareFits
  <2>2. \A b \in Acts : b # a => delivery'[b] = delivery[b]
    BY <1>0, <1>2 DEF SidecarReturns, ComposeReturns, PushReturns
  <2>3. /\ Idle.at = "idle"
        /\ \A at : NodeJob(at, a, 0, "none").at = at /\ NodeJob(at, a, 0, "none").a = a
    BY DEF NodeJob, Idle
  <2>4. CASE SidecarReturns(a)
    <3>1. \/ job' = Idle
          \/ /\ job' = NodeJob("compose", a, 0, "none")
             /\ delivery'[a] \in {delivery[a], "deferred"}
      BY <1>0, <2>4 DEF SidecarReturns
    <3> QED BY <2>1, <2>2, <2>3, <3>1 DEF ShareFits, Final
  <2>5. CASE ComposeReturns(a)
    <3>1. \/ job' = Idle
          \/ job' = NodeJob("push", a, 0, "none") /\ delivery'[a] = "sending"
      BY <1>0, <2>5 DEF ComposeReturns
    <3> QED BY <2>1, <2>2, <2>3, <3>1 DEF ShareFits, Final
  <2>6. CASE PushReturns(a)
    BY <2>1, <2>2, <2>6 DEF PushReturns, ShareFits, Idle
  <2> QED BY <1>2, <2>4, <2>5, <2>6
<1>3. CASE \A a \in Acts : ~SettlementReturns(a) /\ ~SidecarReturns(a)
                           /\ ~ComposeReturns(a) /\ ~PushReturns(a)
  BY <1>3, OtherJobs DEF ShareFits
<1>4. QED BY <1>1, <1>2, <1>3

(* The rows of an activity that is over are not written again. *)
LEMMA ActsFinal ==
  ASSUME SafetyInv, [Next]_vars, NEW b \in Acts, act[b].state \in TerminalStates
  PROVE  act'[b] = act[b]
<1>0. /\ act \in [Acts -> ActRows] /\ ~Open(b) /\ ~FreeSlot(b)
      /\ act[b].state # "planned"
  BY DEF SafetyInv, TypeOK, Open, TerminalStates, FreeSlot, Present
<1>1. ASSUME NEW a \in Acts, Poll(a) PROVE act'[b] = act[b]
  <2>1. b # a
    BY <1>0, <1>1 DEF Poll, StartNode, RecoverOrphan, Settle, ReviewHorizon, RecoverNode,
       Waiting, First
  <2> QED
    BY <1>0, <1>1, <2>1 DEF Poll, StartNode, RecoverOrphan, Settle, ReviewHorizon,
       RecoverNode, BeginSettlement
<1>2. ASSUME NEW a \in Acts, HorizonReturns(a) PROVE act'[b] = act[b]
  <2>1. b # a
    BY <1>2 DEF HorizonReturns, At, SafetyInv, JobFits, TerminalStates
  <2> QED BY <1>0, <1>2, <2>1 DEF HorizonReturns, BeginSettlement
<1>3. ASSUME NEW a \in Acts, SettlementReturns(a) PROVE act'[b] = act[b]
  <2>1. CASE UNCHANGED act
    BY <2>1
  <2>2. CASE Ends(a, FinalReason(a))
    <3>1. PICK share \in BOOLEAN : act' = ActsSettled(a, FinalReason(a), share)
      BY <2>2 DEF Ends
    <3>2. b # a /\ ~Successor(a, b)
      BY <1>0, <2>2 DEF Ends, Successor
    <3> QED BY <1>0, <3>1, <3>2 DEF ActsSettled
  <2> QED BY <1>3, <2>1, <2>2, SettlementShape
<1>4. ASSUME NEW a \in Acts, NEW n \in Rounds, Conclude(a, n) PROVE act'[b] = act[b]
  <2>1. Open(a)
    <3>1. node[a][n] \in RunningNode
      BY <1>4 DEF Conclude, AtNode, SafetyInv, JobFits, NodePoints
    <3> QED BY <3>1 DEF SafetyInv, OneAtATime
  <2>2. b # a
    BY <1>0, <2>1
  <2> DEFINE reviewed(why) == AfterReview(act[a], why, "set")
             added(g) == [c \in Acts |->
                           IF job.how = "switch" /\ ~act[a].interrupt /\ FreeSlot(c)
                             THEN NewAct(g, "planned") ELSE act[c]]
  <2>3. PICK g \in Goals, why \in Reasons :
          act' \in {act, added(g), [added(g) EXCEPT ![a] = reviewed(why)]}
    <3>1. job.how \in Verdicts \cup {"none", "failed"}
      BY DEF SafetyInv, TypeOK, Jobs
    <3>2. EndReason(a, n, job.how) \in Reasons
      BY <3>1, ReasonTypes DEF SafetyInv
    <3> QED BY <1>4, <3>2 DEF Conclude
  <2>4. added(g)[b] = act[b]
    BY <1>0
  <2> HIDE DEF added, reviewed
  <2>5. CASE act' \in {act, added(g)}
    BY <2>4, <2>5
  <2>6. CASE act' = [added(g) EXCEPT ![a] = reviewed(why)]
    BY <2>2, <2>4, <2>6
  <2> QED BY <2>3, <2>5, <2>6
<1>5. CASE RequestInterrupt \/ TimePasses
  BY <1>0, <1>5 DEF RequestInterrupt, TimePasses, First
<1>6. ASSUME UNCHANGED act PROVE act'[b] = act[b]
  BY <1>6
<1>7. QED
  BY <1>1, <1>2, <1>3, <1>4, <1>5, <1>6 DEF Next, Returns, SidecarReturns, ComposeReturns,
     PushReturns, ExecReturns, ReceiptReturns, ReceiptPending, ReviewReturns,
     ConcludeRaises, Restart, Done, vars

(* A node that was concluded keeps its state. *)
LEMMA NodesFinal ==
  ASSUME SafetyInv, [Next]_vars, NEW b \in Acts, NEW m \in Rounds,
         node[b][m] \in {"completed", "aborted"}
  PROVE  node'[b][m] = node[b][m]
<1>0. /\ node \in [Acts -> [Rounds -> NodeStates]]
      /\ node[b][m] \notin RunningNode /\ node[b][m] # "absent"
  BY DEF SafetyInv, TypeOK, RunningNode, ExecStates, Verdicts
<1>1. ASSUME NEW a \in Acts, NEW n \in Rounds, NEW s, node[a][n] # node[b][m],
             node' = [node EXCEPT ![a][n] = s]
      PROVE  node'[b][m] = node[b][m]
  BY <1>0, <1>1
<1>2. ASSUME NEW a \in Acts, StartNode(a) PROVE node'[b][m] = node[b][m]
  <2>1. PICK n \in Rounds : /\ NextRound(a, n)
                            /\ \E s : node' = [node EXCEPT ![a][n] = s]
    BY <1>2 DEF StartNode
  <2> QED BY <1>0, <1>1, <2>1 DEF NextRound
<1>3. ASSUME NEW a \in Acts, NEW n \in Rounds,
             \/ ExecReturns(a, n) \/ ReceiptReturns(a, n) \/ ReviewReturns(a, n)
             \/ Conclude(a, n)
      PROVE  node'[b][m] = node[b][m]
  <2>1. node[a][n] \in RunningNode
    BY <1>3 DEF ExecReturns, ReceiptReturns, ReviewReturns, Conclude, AtNode, SafetyInv,
       JobFits, NodePoints
  <2>2. node' = node \/ \E s : node' = [node EXCEPT ![a][n] = s]
    BY <1>3 DEF ExecReturns, ReceiptReturns, ReviewReturns, Conclude
  <2> QED BY <1>0, <1>1, <2>1, <2>2
<1>4. ASSUME NEW a \in Acts, SettlementReturns(a) PROVE node'[b][m] = node[b][m]
  <2>1. node' \in {node, NodesAborted(a)}
    BY <1>4 DEF SettlementReturns
  <2> QED BY <1>0, <2>1 DEF NodesAborted
<1>5. ASSUME UNCHANGED node PROVE node'[b][m] = node[b][m]
  BY <1>5
<1>6. QED
  BY <1>2, <1>3, <1>4, <1>5 DEF Next, Poll, Returns, RecoverOrphan, Settle, BeginSettlement,
     ReviewHorizon, RecoverNode, HorizonReturns, SidecarReturns, ComposeReturns,
     PushReturns, ReceiptPending, ConcludeRaises, RequestInterrupt, Restart, TimePasses,
     Done, vars

(* The row of a run that is over is not written again. *)
LEMMA RunFinal ==
  ASSUME SafetyInv, [Next]_vars, RunTerminal
  PROVE  run' = run
<1>1. \A a \in Acts : ~Open(a)
  BY DEF SafetyInv, UnderWay
<1>2. \A a \in Acts : ~Poll(a)
  BY <1>1 DEF Poll, StartNode, RecoverOrphan, Settle, ReviewHorizon, RecoverNode, Waiting,
     First
<1>3. \A a \in Acts : ~HorizonReturns(a) /\ ~SettlementReturns(a)
  BY <1>1 DEF HorizonReturns, SettlementReturns, At, SafetyInv, JobFits, Open,
     TerminalStates
<1>4. ASSUME NEW a \in Acts, NEW n \in Rounds PROVE ~Conclude(a, n)
  <2> SUFFICES ASSUME Conclude(a, n) PROVE FALSE
    OBVIOUS
  <2>1. node[a][n] \in RunningNode
    BY DEF Conclude, AtNode, SafetyInv, JobFits, NodePoints
  <2> QED BY <1>1, <2>1 DEF SafetyInv, OneAtATime
<1>5. ~TimePasses
  BY DEF TimePasses
<1>6. QED
  BY <1>2, <1>3, <1>4, <1>5 DEF Next, Returns, SidecarReturns, ComposeReturns, PushReturns,
     ExecReturns, ReceiptReturns, ReceiptPending, ReviewReturns, ConcludeRaises,
     RequestInterrupt, Restart, Done, vars

(* No late return, recovery or reply rewrites a finished run or activity, a concluded
   node, or a share that was sent, failed or suppressed. *)
THEOREM EndedIsFinalHolds == Spec => EndedIsFinal
<1>1. Init => ShareFits
  BY DEF Init, ShareFits, Idle
<1>2. SafetyInv /\ ShareFits /\ [Next]_vars => ShareFits'
  BY ShareSteps
<1>3. ASSUME SafetyInv, ShareFits, [Next]_vars
      PROVE  [/\ RunTerminal => run' = run
              /\ \A a \in Acts :
                   /\ act[a].state \in TerminalStates => act'[a] = act[a]
                   /\ delivery[a] \in {"sent", "failed", "suppressed"} =>
                        delivery'[a] = delivery[a]
                   /\ \A n \in Rounds :
                        node[a][n] \in {"completed", "aborted"} =>
                          node'[a][n] = node[a][n]]_vars
  BY <1>3, RunFinal, ActsFinal, NodesFinal, ShareSteps DEF Final
<1>4. QED BY <1>1, <1>2, <1>3, SafetyHolds, PTL DEF Spec, EndedIsFinal

-----------------------------------------------------------------------------
(* What a failed node does to its plan, when every handler is saved as a whole *)

(* A node of the activity failed, or was aborted. *)
Doomed(a) == \E n \in Rounds : node[a][n] = "aborted"

(* What closes a doomed activity, and the plan with it. *)
Closes(a) ==
  \/ act[a].interrupt
  \/ act[a].state \in {"interrupted", "aborted"}
  \/ act[a].state = "settling" /\ Closing(act[a].reason)

(* Nothing is in flight in an activity that waits or is settled, nor anything recorded of
   one that has not begun, and a doomed one has what closes it on record. *)
WholeInv ==
  /\ \A a \in Acts : act[a].state \in {"active_wait", "settling"} => NoneInFlight(a)
  /\ \A a \in Acts : act[a].state \in {"absent", "planned"} =>
       \A n \in Rounds : node[a][n] = "absent"
  /\ \A a \in Acts : Doomed(a) => Closes(a)
  /\ \A a \in Acts : At("settle", a) /\ Doomed(a) => act[a].interrupt \/ Closing(job.why)

LEMMA WholeInit == Init => WholeInv
<1> SUFFICES ASSUME Init PROVE WholeInv
  OBVIOUS
<1>1. job.at = "idle" /\ \A a \in Acts, n \in Rounds : node[a][n] = "absent"
  BY DEF Init, Idle
<1>2. QED BY <1>1 DEF WholeInv, Doomed, At, NoneInFlight, RunningNode, ExecStates, Verdicts

(* A step that records nothing of a node, and of an activity nothing but clocks and
   replies. *)
LEMMA WholeQuiet ==
  ASSUME WholeInv, UNCHANGED node,
         \A a \in Acts : /\ act'[a].state = act[a].state /\ act'[a].reason = act[a].reason
                         /\ act[a].interrupt => act'[a].interrupt,
         \/ job'.at # "settle"
         \/ job'.at = job.at /\ job'.a = job.a /\ job'.why = job.why
  PROVE  WholeInv'
<1>1. \A a \in Acts : Doomed(a)' = Doomed(a) /\ NoneInFlight(a)' = NoneInFlight(a)
  BY DEF Doomed, NoneInFlight
<1>2. \A a \in Acts : Closes(a) => Closes(a)'
  BY DEF Closes, Closing
<1>3. \A a \in Acts : At("settle", a)' /\ Doomed(a)' => act'[a].interrupt \/ Closing(job'.why)
  BY <1>1 DEF WholeInv, Closing, At
<1>4. \A a \in Acts : act'[a].state \in {"active_wait", "settling"} => NoneInFlight(a)'
  BY <1>1 DEF WholeInv
<1>5. \A a \in Acts : act'[a].state \in {"absent", "planned"} => \A n \in Rounds : node'[a][n] = "absent"
  BY DEF WholeInv
<1>6. QED BY <1>1, <1>2, <1>3, <1>4, <1>5 DEF WholeInv, Closing

(* A runner that is idle, or at a node, settles nothing. *)
LEMMA NodeJobAt ==
  ASSUME NEW a, NEW n,
         job' = Idle \/ \E at \in NodePoints :
           \E how \in Verdicts \cup {"none", "failed"} : job' = NodeJob(at, a, n, how)
  PROVE  job'.at # "settle"
<1>1. CASE job' = Idle
  BY <1>1 DEF Idle
<1>2. CASE job' # Idle
  <2>1. PICK at \in NodePoints : \E how : job' = NodeJob(at, a, n, how)
    BY <1>2
  <2>2. job'.at = at
    BY <2>1 DEF NodeJob, Idle
  <2> QED BY <2>2 DEF NodePoints
<1>3. QED BY <1>1, <1>2

(* A settlement begins with nothing in flight, and for the reason that is on record. *)
LEMMA WholeBeginSettlement ==
  ASSUME ~TornWrites, SafetyInv, WholeInv, NEW a \in Acts, NEW why,
         NoneInFlight(a), act[a].state \notin {"absent", "planned"} \cup TerminalStates,
         NEW nextJob, BeginSettlement(a, why, nextJob),
         nextJob = Idle \/ nextJob = SettleJob("settle", a, why, FALSE),
         nextJob # Idle /\ Doomed(a) => act[a].interrupt \/ Closing(why)
  PROVE  WholeInv'
<1>1. node' = node /\ act \in [Acts -> ActRows]
  BY DEF BeginSettlement, SafetyInv, TypeOK
<1>2. /\ \A b \in Acts : b # a => act'[b] = act[b]
      /\ act'[a].interrupt = act[a].interrupt /\ act'[a].state = "settling"
      /\ act[a].state = "settling" /\ act[a].reason # "none" => act'[a].reason = act[a].reason
      /\ job' = nextJob
  <2>1. CASE act[a].state = "settling"
    BY <1>1, <2>1 DEF BeginSettlement, ActRows
  <2>2. CASE act[a].state # "settling"
    <3>1. Saves(2) = {2}
      BY DEF Saves
    <3>2. /\ act' = [act EXCEPT ![a].state = "settling",
                                ![a].reason = IF why = "none" THEN @ ELSE why]
          /\ job' = nextJob
      BY <2>2, <3>1 DEF BeginSettlement
    <3> QED BY <1>1, <2>2, <3>2 DEF ActRows
  <2> QED BY <2>1, <2>2
<1>3. \A b \in Acts : Doomed(b)' = Doomed(b) /\ NoneInFlight(b)' = NoneInFlight(b)
  BY <1>1 DEF Doomed, NoneInFlight
<1>4. ASSUME NEW b \in Acts, Doomed(b) PROVE Closes(b)'
  <2>1. Closes(b)
    BY <1>4 DEF WholeInv
  <2>2. CASE b # a
    BY <1>2, <2>1, <2>2 DEF Closes, Closing
  <2>3. CASE b = a
    BY <1>2, <2>1, <2>3 DEF Closes, Closing, TerminalStates
  <2> QED BY <2>2, <2>3
<1>5. ASSUME NEW b \in Acts, job'.at = "settle", job'.a = b, Doomed(b)
      PROVE  act'[b].interrupt \/ Closing(job'.why)
  <2>1. CASE job' = Idle
    BY <1>5, <2>1 DEF Idle
  <2>2. CASE job' # Idle
    <3>1. job' = SettleJob("settle", a, why, FALSE)
      BY <1>2, <2>2
    <3>2. job'.a = a /\ job'.why = why
      BY <3>1 DEF SettleJob, Idle
    <3> QED BY <1>2, <1>5, <2>2, <3>2 DEF Closing
  <2> QED BY <2>1, <2>2
<1>6. \A b \in Acts : act'[b].state \in {"active_wait", "settling"} => NoneInFlight(b)'
  BY <1>2, <1>3 DEF WholeInv
<1>7. \A b \in Acts : act'[b].state \in {"absent", "planned"} => \A n \in Rounds : node'[b][n] = "absent"
  BY <1>1, <1>2 DEF WholeInv
<1>8. \A b \in Acts : At("settle", b)' /\ Doomed(b)' => act'[b].interrupt \/ Closing(job'.why)
  BY <1>3, <1>5 DEF At
<1>9. QED BY <1>3, <1>4, <1>6, <1>7, <1>8 DEF WholeInv, Closing

LEMMA WholePoll ==
  ASSUME ~TornWrites, SafetyInv, WholeInv, NEW a \in Acts, Poll(a)
  PROVE  WholeInv'
<1>0. /\ act \in [Acts -> ActRows] /\ node \in [Acts -> [Rounds -> NodeStates]]
      /\ Open(a)
  BY DEF SafetyInv, TypeOK, Poll, StartNode, RecoverOrphan, Settle, ReviewHorizon, RecoverNode,
     Waiting, First
<1>1. CASE StartNode(a)
  <2>1. ASSUME NEW saved \in Saves(4) PROVE saved = 4
    BY <2>1 DEF Saves
  <2>0. PICK n \in Rounds, saved \in Saves(4) :
         /\ NextRound(a, n)
         /\ node' = [node EXCEPT ![a][n] = IF saved = 4 THEN "running" ELSE "pending"]
         /\ act' = IF saved >= 2 THEN [act EXCEPT ![a].state = "node_running"] ELSE act
         /\ job' = IF saved = 4 THEN NodeJob("exec", a, n, "none") ELSE Idle
    BY <1>1 DEF StartNode
  <2>2. /\ node' = [node EXCEPT ![a][n] = "running"]
        /\ act' = [act EXCEPT ![a].state = "node_running"]
        /\ job' = NodeJob("exec", a, n, "none")
    <3>1. saved = 4
      BY <2>0, <2>1
    <3> QED BY <2>0, <3>1
  <2>3. job'.at # "settle"
    <3>1. job'.at = "exec"
      BY <2>2 DEF NodeJob, Idle
    <3> QED BY <3>1
  <2>4. /\ act'[a].state = "node_running" /\ ~act[a].interrupt /\ act[a].state = "active_wait"
        /\ \A b \in Acts : b # a => act'[b] = act[b] /\ node'[b] = node[b]
    BY <1>0, <1>1, <2>2 DEF StartNode, Waiting, ActRows
  <2>5. \A m \in Rounds : node[a][m] # "aborted"
    BY <2>4 DEF WholeInv, Doomed, Closes
  <2>6. \A m \in Rounds : node'[a][m] # "aborted"
    BY <1>0, <2>2, <2>5
  <2> QED BY <2>3, <2>4, <2>6 DEF WholeInv, Doomed, Closes, NoneInFlight, At
<1>2. CASE RecoverOrphan(a)
  <2>1. BeginSettlement(a, "none", Idle) /\ NoneInFlight(a) /\ Idle = Idle
    BY <1>2 DEF RecoverOrphan
  <2>2. act[a].state \notin {"absent", "planned"} \cup TerminalStates
    BY <1>0 DEF Open
  <2> QED BY <2>1, <2>2, WholeBeginSettlement
<1>3. CASE Settle(a)
  <2>1. PICK why : why = SettleReason(a)
    OBVIOUS
  <2>2. NoneInFlight(a) /\ act[a].state \in {"settling", "active_wait"}
    BY <1>3 DEF Settle, Waiting, WholeInv
  <2>3. BeginSettlement(a, why, SettleJob("settle", a, why, FALSE))
    BY <1>3, <2>1 DEF Settle
  <2>4. ASSUME Doomed(a) PROVE act[a].interrupt \/ Closing(why)
    <3>1. Closes(a)
      BY <2>4 DEF WholeInv
    <3>2. CASE act[a].interrupt
      BY <3>2
    <3>3. CASE ~act[a].interrupt
      <4>1. act[a].state = "settling" /\ Closing(act[a].reason)
        BY <2>2, <3>1, <3>3 DEF Closes
      <4>2. SettleReason(a) = act[a].reason
        BY <3>3, <4>1 DEF SettleReason, Closing
      <4> QED BY <2>1, <4>1, <4>2
    <3> QED BY <3>2, <3>3
  <2>5. act[a].state \notin {"absent", "planned"} \cup TerminalStates
    BY <1>0 DEF Open
  <2> QED BY <2>2, <2>3, <2>4, <2>5, WholeBeginSettlement
<1>4. ASSUME UNCHANGED <<act, node>>, job'.at # "settle" PROVE WholeInv'
  BY <1>4, WholeQuiet
<1>5. CASE ReviewHorizon(a)
  BY <1>4, <1>5 DEF ReviewHorizon, NodeJob, Idle
<1>6. ASSUME NEW n \in Rounds, RecoverNode(a, n) PROVE WholeInv'
  <2>1. UNCHANGED <<act, node>>
    BY <1>6 DEF RecoverNode
  <2>2. job' = Idle \/ \E at \in NodePoints :
          \E how \in Verdicts \cup {"none", "failed"} : job' = NodeJob(at, a, n, how)
    BY <1>6 DEF RecoverNode, AfterExec, NodePoints, Verdicts
  <2>3. job'.at # "settle"
    BY <2>2, NodeJobAt
  <2> QED BY <1>4, <2>1, <2>3
<1>7. QED BY <1>1, <1>2, <1>3, <1>5, <1>6 DEF Poll

(* The answer of a handler, a receipt or a reviewer keeps the node in flight. *)
LEMMA WholeAnswers ==
  ASSUME SafetyInv, WholeInv, NEW a \in Acts, NEW n \in Rounds,
         ExecReturns(a, n) \/ ReceiptReturns(a, n) \/ ReviewReturns(a, n)
  PROVE  WholeInv'
<1>1. node \in [Acts -> [Rounds -> NodeStates]] /\ node[a][n] \in RunningNode
  BY DEF ExecReturns, ReceiptReturns, ReviewReturns, AtNode, SafetyInv, TypeOK, JobFits,
     NodePoints
<1>2. PICK s \in RunningNode : node' = [node EXCEPT ![a][n] = s]
  <2>1. CASE ExecReturns(a, n) \/ ReceiptReturns(a, n)
    BY <2>1 DEF ExecReturns, ReceiptReturns, RunningNode, ExecStates
  <2>2. CASE ReviewReturns(a, n)
    <3>1. node' = node \/ \E v \in Verdicts : node' = [node EXCEPT ![a][n] = v]
      BY <2>2 DEF ReviewReturns
    <3> QED BY <1>1, <3>1 DEF RunningNode
  <2> QED BY <2>1, <2>2
<1>3. act' = act
  BY DEF ExecReturns, ReceiptReturns, ReviewReturns
<1>4. job'.at # "settle"
  <2>1. job' = Idle \/ \E at \in NodePoints :
          \E how \in Verdicts \cup {"none", "failed"} : job' = NodeJob(at, a, n, how)
    BY DEF ExecReturns, ReceiptReturns, ReviewReturns, AfterExec, NodePoints, Verdicts
  <2> QED BY <2>1, NodeJobAt
<1>5. /\ \A b \in Acts, m \in Rounds : b # a \/ m # n => node'[b][m] = node[b][m]
      /\ node'[a][n] \in RunningNode
  BY <1>1, <1>2
<1>6. act[a].state \notin {"active_wait", "settling", "absent", "planned"}
  BY <1>1 DEF WholeInv, NoneInFlight, RunningNode, ExecStates, Verdicts
<1>7. \A b \in Acts : Doomed(b)' => Doomed(b)
  BY <1>5 DEF Doomed, RunningNode, ExecStates, Verdicts
<1>8. \A b \in Acts : Doomed(b)' => Closes(b)'
  BY <1>3, <1>7 DEF WholeInv, Closes, Closing
<1>9. \A b \in Acts : act'[b].state \in {"active_wait", "settling"} => NoneInFlight(b)'
  BY <1>3, <1>5, <1>6 DEF WholeInv, NoneInFlight
<1>10. \A b \in Acts : act'[b].state \in {"absent", "planned"} =>
          \A m \in Rounds : node'[b][m] = "absent"
  BY <1>3, <1>5, <1>6 DEF WholeInv
<1>11. QED BY <1>4, <1>8, <1>9, <1>10 DEF WholeInv, At

LEMMA WholeConclude ==
  ASSUME ~TornWrites, SafetyInv, WholeInv, NEW a \in Acts, NEW n \in Rounds, Conclude(a, n)
  PROVE  WholeInv'
<1>1. /\ act \in [Acts -> ActRows] /\ node \in [Acts -> [Rounds -> NodeStates]]
      /\ node[a][n] \in RunningNode /\ act[a].state \in {"node_running", "node_review"}
  BY DEF Conclude, ReviewLegal, SafetyInv, TypeOK
<1>2. Saves(4) = {4} /\ job'.at # "settle"
  BY DEF Saves, Conclude, Idle
<1>3. PICK g \in Goals :
        LET why == EndReason(a, n, job.how)
            added == [b \in Acts |->
                        IF job.how = "switch" /\ ~act[a].interrupt /\ FreeSlot(b)
                          THEN NewAct(g, "planned") ELSE act[b]]
        IN  /\ node' = [node EXCEPT ![a][n] =
                          IF job.how = "failed" THEN "aborted" ELSE "completed"]
            /\ act' = [added EXCEPT ![a] = AfterReview(act[a], why, "set")]
  BY <1>2 DEF Conclude
<1>4. \A b \in Acts, m \in Rounds : b # a \/ m # n => node'[b][m] = node[b][m]
  BY <1>1, <1>3
<1>5. \A b \in Acts : b # a =>
        act'[b] = act[b] \/ (act[b].state = "absent" /\ act'[b].state = "planned")
  <2> SUFFICES ASSUME NEW b \in Acts, b # a
               PROVE  act'[b] = act[b] \/ (act[b].state = "absent" /\ act'[b].state = "planned")
    OBVIOUS
  <2>1. act'[b] = act[b] \/ (FreeSlot(b) /\ act'[b] = NewAct(g, "planned"))
    BY <1>3
  <2>2. NewAct(g, "planned").state = "planned"
    BY DEF NewAct
  <2> QED BY <2>1, <2>2 DEF FreeSlot, Present
<1>6. PICK why : /\ why = EndReason(a, n, job.how)
                 /\ act'[a] = AfterReview(act[a], why, "set")
  BY <1>1, <1>3
<1>7. /\ act'[a].interrupt = act[a].interrupt
      /\ why = "none" => act'[a].state = "active_wait"
      /\ why # "none" => act'[a].state = "settling" /\ act'[a].reason = why
  BY <1>1, <1>6 DEF AfterReview, ActRows
<1>8. ~act[a].interrupt /\ job.how = "failed" => why = "execution_error"
  BY <1>6 DEF EndReason
<1>9. /\ node'[a][n] \notin RunningNode
      /\ node'[a][n] = "aborted" => job.how = "failed"
  BY <1>1, <1>3 DEF RunningNode, ExecStates, Verdicts
<1>10. NoneInFlight(a)'
  BY <1>1, <1>4, <1>9 DEF NoneInFlight, SafetyInv, OneAtATime
<1>11. ASSUME Doomed(a)' PROVE Closes(a)'
  <2>1. PICK m \in Rounds : node'[a][m] = "aborted"
    BY <1>11 DEF Doomed
  <2>2. CASE m = n
    BY <1>7, <1>8, <1>9, <2>1, <2>2 DEF Closes, Closing
  <2>3. CASE m # n
    <3>1. Doomed(a)
      BY <1>4, <2>1, <2>3 DEF Doomed
    <3>2. act[a].interrupt
      BY <1>1, <3>1 DEF WholeInv, Closes
    <3> QED BY <1>7, <3>2 DEF Closes
  <2> QED BY <2>2, <2>3
<1>12. ASSUME NEW b \in Acts, b # a
       PROVE  /\ act'[b].state \in {"active_wait", "settling"} => NoneInFlight(b)'
              /\ act'[b].state \in {"absent", "planned"} => \A m \in Rounds : node'[b][m] = "absent"
              /\ Doomed(b)' => Closes(b)'
  <2>1. \A m \in Rounds : node'[b][m] = node[b][m]
    BY <1>4, <1>12
  <2>2. CASE act'[b] = act[b]
    BY <2>1, <2>2 DEF WholeInv, NoneInFlight, Doomed, Closes, Closing
  <2>3. CASE act[b].state = "absent" /\ act'[b].state = "planned"
    BY <2>1, <2>3 DEF WholeInv, Doomed
  <2> QED BY <1>5, <1>12, <2>2, <2>3
<1>13. act'[a].state \notin {"absent", "planned"}
  BY <1>7
<1>14. QED BY <1>2, <1>10, <1>11, <1>12, <1>13 DEF WholeInv, At

(* What settles an activity with a failed node is an interruption or the error. *)
LEMMA WholeSettlement ==
  ASSUME ~TornWrites, SafetyInv, WholeInv, NEW a \in Acts, SettlementReturns(a)
  PROVE  WholeInv'
<1>1. /\ act \in [Acts -> ActRows] /\ node \in [Acts -> [Rounds -> NodeStates]]
      /\ job.at = "settle" /\ job.a = a /\ act[a].state = "settling" /\ At("settle", a)
  BY DEF SettlementReturns, At, SafetyInv, TypeOK, JobFits
<1>2. NoneInFlight(a)
  BY <1>1 DEF WholeInv
<1>3. node' = node
  <2>1. node' = node \/ node' = NodesAborted(a)
    BY DEF SettlementReturns
  <2>2. [n \in Rounds |-> IF node[a][n] \in RunningNode THEN "aborted" ELSE node[a][n]] = node[a]
    BY <1>1, <1>2 DEF NoneInFlight
  <2>3. NodesAborted(a) = node
    BY <1>1, <2>2 DEF NodesAborted
  <2> QED BY <2>1, <2>3
<1>4. \/ act' = act /\ job' = Idle
      \/ \E share : /\ act' = ActsSettled(a, FinalReason(a), share)
                    /\ job' = SettleJob("sidecar", a, FinalReason(a), share /\ ~Later(a))
  BY DEF SettlementReturns
<1>5. CASE act' = act /\ job' = Idle
  <2>1. job'.at # "settle"
    BY <1>5 DEF Idle
  <2> QED BY <1>3, <1>5, <2>1, WholeQuiet
<1>6. CASE \E share : /\ act' = ActsSettled(a, FinalReason(a), share)
                      /\ job' = SettleJob("sidecar", a, FinalReason(a), share /\ ~Later(a))
  <2>1. PICK share : /\ act' = ActsSettled(a, FinalReason(a), share)
                     /\ job' = SettleJob("sidecar", a, FinalReason(a), share /\ ~Later(a))
    BY <1>6
  <2>2. job'.at # "settle"
    <3>1. job'.at = "sidecar"
      BY <2>1 DEF SettleJob, Idle
    <3> QED BY <3>1
  <2>3. PICK why : why = FinalReason(a)
    OBVIOUS
  <2>4. Doomed(a) => Closing(why)
    BY <1>1, <2>3 DEF WholeInv, FinalReason, Closing
  <2>5. /\ act'[a].state = Ending(why)
        /\ \A b \in Acts : b # a =>
             \/ act'[b] = act[b]
             \/ act[b].state = "planned" /\ act'[b].state \in TerminalStates \cup {"active_wait"}
    <3>1. act'[a] = [act[a] EXCEPT !.state = Ending(why), !.reason = why, !.share = share]
      BY <2>1, <2>3 DEF ActsSettled
    <3>2. act'[a].state = Ending(why)
      BY <1>1, <3>1 DEF ActRows
    <3>3. ASSUME NEW b \in Acts, b # a
          PROVE  \/ act'[b] = act[b]
                 \/ act[b].state = "planned" /\ act'[b].state \in TerminalStates \cup {"active_wait"}
      <4>1. CASE Closing(why) /\ act[b].state = "planned"
        <5>1. act'[b] = [act[b] EXCEPT !.state = Ending(why), !.reason = why]
          BY <2>1, <2>3, <3>3, <4>1 DEF ActsSettled
        <5>2. act'[b].state = Ending(why)
          BY <1>1, <5>1 DEF ActRows
        <5> QED BY <4>1, <5>2 DEF Ending, TerminalStates
      <4>2. CASE ~Closing(why) /\ Successor(a, b)
        <5>1. act'[b] = ScheduleInitial([act[b] EXCEPT !.state = "active_wait"])
          BY <2>1, <2>3, <3>3, <4>2 DEF ActsSettled
        <5>2. act'[b].state = "active_wait"
          BY <1>1, <5>1 DEF ActRows, ScheduleInitial
        <5> QED BY <4>2, <5>2 DEF Successor
      <4>3. CASE /\ ~(Closing(why) /\ act[b].state = "planned")
                 /\ ~(~Closing(why) /\ Successor(a, b))
        BY <2>1, <2>3, <3>3, <4>3 DEF ActsSettled
      <4> QED BY <4>1, <4>2, <4>3
    <3> QED BY <3>2, <3>3
  <2>6. Ending(why) \in TerminalStates /\ (Closing(why) => Ending(why) \in {"interrupted", "aborted"})
    BY DEF Ending, TerminalStates, Closing
  <2>7. ASSUME NEW b \in Acts
        PROVE  /\ act'[b].state \in {"active_wait", "settling"} => NoneInFlight(b)'
               /\ act'[b].state \in {"absent", "planned"} => \A m \in Rounds : node'[b][m] = "absent"
               /\ Doomed(b)' => Closes(b)'
    <3>1. CASE b = a
      BY <1>3, <2>4, <2>5, <2>6, <3>1 DEF Doomed, Closes, TerminalStates
    <3>2. CASE b # a /\ act'[b] = act[b]
      BY <1>3, <3>2 DEF WholeInv, NoneInFlight, Doomed, Closes, Closing
    <3>3. CASE /\ b # a /\ act[b].state = "planned"
               /\ act'[b].state \in TerminalStates \cup {"active_wait"}
      <4>1. \A m \in Rounds : node'[b][m] = "absent"
        BY <1>3, <3>3 DEF WholeInv
      <4> QED BY <3>3, <4>1 DEF NoneInFlight, Doomed, RunningNode, ExecStates, Verdicts, TerminalStates
    <3> QED BY <2>5, <3>1, <3>2, <3>3
  <2> QED BY <2>2, <2>7 DEF WholeInv, At
<1>7. QED BY <1>4, <1>5, <1>6

(* The horizon is reviewed of an activity that waits. *)
LEMMA WholeHorizon ==
  ASSUME ~TornWrites, SafetyInv, WholeInv, NEW a \in Acts, HorizonReturns(a)
  PROVE  WholeInv'
<1>1. act \in [Acts -> ActRows] /\ job.a = a /\ act[a].state = "active_wait"
  BY DEF HorizonReturns, At, SafetyInv, TypeOK, JobFits
<1>2. NoneInFlight(a) /\ act[a].state \notin {"absent", "planned"} \cup TerminalStates
  BY <1>1 DEF WholeInv, TerminalStates
<1>3. Doomed(a) => act[a].interrupt
  BY <1>1 DEF WholeInv, Closes
<1>4. ASSUME NEW why, BeginSettlement(a, why, SettleJob("settle", a, why, FALSE))
      PROVE  WholeInv'
  BY <1>2, <1>3, <1>4, WholeBeginSettlement
<1>5. CASE /\ act' = [act EXCEPT ![a].nodeAt = IF act[a].goal.mode = "sleep" THEN "none" ELSE "set"]
           /\ job' = Idle /\ node' = node
  <2>1. job'.at # "settle"
    BY <1>5 DEF Idle
  <2>2. \A b \in Acts : /\ act'[b].state = act[b].state /\ act'[b].reason = act[b].reason
                        /\ act[b].interrupt => act'[b].interrupt
    BY <1>1, <1>5 DEF ActRows
  <2> QED BY <1>5, <2>1, <2>2, WholeQuiet
<1>6. QED BY <1>4, <1>5 DEF HorizonReturns

(* Nothing else records a node, ends an activity or forgets a reply. *)
LEMMA WholeElse ==
  ASSUME SafetyInv, WholeInv,
         \/ \E a \in Acts : \/ SidecarReturns(a) \/ ComposeReturns(a) \/ PushReturns(a)
                            \/ \E n \in Rounds : ConcludeRaises(a, n) \/ ReceiptPending(a, n)
         \/ RequestInterrupt \/ Restart \/ TimePasses \/ Done \/ UNCHANGED vars
  PROVE  WholeInv'
<1>1. act \in [Acts -> ActRows] /\ job \in Jobs
  BY DEF SafetyInv, TypeOK
<1>2. node' = node
  BY DEF SidecarReturns, ComposeReturns, PushReturns, ConcludeRaises, ReceiptPending,
     RequestInterrupt, Restart, TimePasses, Done, vars
<1>3. \A a \in Acts : /\ act'[a].state = act[a].state /\ act'[a].reason = act[a].reason
                      /\ act[a].interrupt => act'[a].interrupt
  <2>1. CASE act' = act
    BY <2>1
  <2>2. CASE RequestInterrupt
    BY <1>1, <2>2 DEF RequestInterrupt, ActRows
  <2>3. CASE TimePasses
    BY <1>1, <2>3 DEF TimePasses, ActRows
  <2> QED BY <2>1, <2>2, <2>3 DEF SidecarReturns, ComposeReturns, PushReturns, ConcludeRaises,
          ReceiptPending, Restart, Done, vars
<1>4. \/ job'.at # "settle"
      \/ job'.at = job.at /\ job'.a = job.a /\ job'.why = job.why
  <2>1. CASE job' = job
    BY <2>1
  <2>2. CASE job' = Idle
    BY <2>2 DEF Idle
  <2>3. CASE RequestInterrupt
    BY <1>1, <2>3 DEF RequestInterrupt, Jobs
  <2>4. ASSUME NEW a \in Acts, NEW at \in {"compose", "push"}, job' = NodeJob(at, a, 0, "none")
        PROVE  job'.at # "settle"
    <3>1. job'.at = at
      BY <2>4 DEF NodeJob, Idle
    <3> QED BY <3>1
  <2> QED BY <2>1, <2>2, <2>3, <2>4 DEF SidecarReturns, ComposeReturns, PushReturns,
          ConcludeRaises, ReceiptPending, Restart, TimePasses, Done, vars
<1>5. QED BY <1>2, <1>3, <1>4, WholeQuiet

LEMMA WholeNext ==
  ASSUME ~TornWrites, SafetyInv, WholeInv, [Next]_vars
  PROVE  WholeInv'
<1>1. ASSUME NEW a \in Acts, Poll(a) PROVE WholeInv'
  BY <1>1, WholePoll
<1>2. ASSUME NEW a \in Acts, Returns(a) PROVE WholeInv'
  <2>1. CASE HorizonReturns(a)
    BY <2>1, WholeHorizon
  <2>2. CASE SettlementReturns(a)
    BY <2>2, WholeSettlement
  <2>3. CASE SidecarReturns(a) \/ ComposeReturns(a) \/ PushReturns(a)
    BY <2>3, WholeElse
  <2>4. ASSUME NEW n \in Rounds, ExecReturns(a, n) \/ ReceiptReturns(a, n) \/ ReviewReturns(a, n)
        PROVE  WholeInv'
    BY <2>4, WholeAnswers
  <2>5. ASSUME NEW n \in Rounds, Conclude(a, n) PROVE WholeInv'
    BY <2>5, WholeConclude
  <2>6. ASSUME NEW n \in Rounds, ConcludeRaises(a, n) PROVE WholeInv'
    BY <2>6, WholeElse
  <2> QED BY <1>2, <2>1, <2>2, <2>3, <2>4, <2>5, <2>6 DEF Returns
<1>3. QED BY <1>1, <1>2, WholeElse DEF Next

(* An execution error or a user interruption closes the whole accepted plan, as
   WanderRuntime.FailureClosesPlan says of complete_node_review and settle_activity: when
   every handler is saved as a whole, an activity one of whose nodes was aborted never ends
   as completed.  Under torn writes it can: complete_node_review commits the node before the
   reason, and recovery settles the activity as a natural stop. *)
THEOREM FailureClosesPlanHolds ==
  ASSUME TornWrites = FALSE
  PROVE  Spec => []FailureClosesPlan
<1>1. Init => WholeInv
  BY WholeInit
<1>2. SafetyInv /\ WholeInv /\ [Next]_vars => WholeInv'
  BY WholeNext
<1>3. SafetyInv /\ WholeInv => FailureClosesPlan
  BY DEF WholeInv, SafetyInv, InterruptWins, FailureClosesPlan, Doomed, Closes, TerminalStates
<1>4. QED BY <1>1, <1>2, <1>3, SafetyHolds, PTL DEF Spec
=============================================================================
