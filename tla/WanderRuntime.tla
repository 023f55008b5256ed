--------------------------- MODULE WanderRuntime ---------------------------
(***************************************************************************)
(* The persisted v3 wander runtime of src/wander_manager: one run of an    *)
(* accepted plan, from the commit of the plan to its terminal state.       *)
(*                                                                         *)
(* What SQLite holds (run, act, node, decided, wake, delivery) survives a  *)
(* restart; `job`, the point an awaiting runner has reached, does not.     *)
(* The runner works under one tick lock, so it is one process.  A user     *)
(* reply (RequestInterrupt) takes no lock and can come at every await.     *)
(*                                                                         *)
(* Every store.save_* call is a transaction of its own.  A handler that    *)
(* makes k of them is one action here; under TornWrites the process may    *)
(* die after any shorter prefix of them.                                   *)
(***************************************************************************)
EXTENDS Integers, FiniteSets

CONSTANTS
  MaxActs,       \* bound: activities of the run, planned or switched to
  MaxNodes,      \* bound: nodes of one activity
  PlanLen,       \* bound: activities of the accepted plan
  Goals,         \* the goals a plan may give an activity
  HorizonModes,  \* the horizon modes a plan may choose
  MaxOpenNodes,  \* max_open_nodes of the controller
  TornWrites     \* may the process die between two saves of one handler?

GoalModes == {"count", "open_ended", "duration", "sleep"}

ASSUME BoundsAssumption ==
  /\ MaxActs \in Nat \ {0}
  /\ MaxNodes \in Nat \ {0}
  /\ PlanLen \in 1..MaxActs
  /\ MaxOpenNodes \in Nat \ {0}
  /\ TornWrites \in BOOLEAN

ASSUME InputsAssumption ==
  /\ Goals \subseteq [mode : GoalModes, value : Nat]
  /\ Goals # {}
  /\ HorizonModes \subseteq {"estimate", "deadline"}

Acts == 1..MaxActs
Rounds == 1..MaxNodes

VARIABLES
  run,       \* row of wander_runs: state, horizon mode and plan horizon
  act,       \* rows of wander_activities, by order index
  node,      \* rows of wander_nodes, by activity and round index: how far each is
  decided,   \* the settlement audit of an activity: does the model want to share?
  wake,      \* wander_scheduler_wakes: the activity that left a wake, 0 for none
  delivery,  \* row of wander_deliveries of an activity
  job        \* volatile: what the runner holding the tick lock is awaiting

vars == <<run, act, node, decided, wake, delivery, job>>

-----------------------------------------------------------------------------
(* Rows *)

TerminalStates == {"completed", "interrupted", "aborted"}
RunStates == {"active_wait", "node_running", "node_review", "settling"}
             \cup TerminalStates
ActStates == {"absent", "planned"} \cup RunStates

(* A node in state running is told by its execution status and, once it has
   succeeded, by the verdict of its review audit. *)
Verdicts == {"continue", "stop", "switch"}
ExecStates == {"pending", "running", "waiting_external", "succeeded", "failed",
               "skipped"}
RunningNode == ExecStates \cup Verdicts
NodeStates == {"absent", "completed", "aborted"} \cup RunningNode

Reasons == {"none", "goal_reached", "timer_ended", "plan_horizon",
            "natural_stop", "execution_error", "user_interrupt"}
DeliveryStates == {"none", "not_requested", "deferred", "suppressed",
                   "sending", "sent", "failed"}

(* An absolute time column, abstracted to whether it is set and has passed. *)
Deadlines == {"none", "set", "due"}

RunRows == [state : RunStates, mode : HorizonModes, horizon : {"set", "due"}]
ActRows == [state : ActStates, goal : Goals, timer : Deadlines,
            nodeAt : Deadlines, interrupt : BOOLEAN, reason : Reasons,
            share : BOOLEAN]

Points == {"idle", "exec", "receipt", "review", "conclude", "horizon",
           "settle", "sidecar", "compose", "push"}
Jobs == [at : Points, a : 0..MaxActs, n : 0..MaxNodes,
         how : Verdicts \cup {"none", "failed"},
         why : Reasons, share : BOOLEAN, moved : BOOLEAN]

Idle == [at |-> "idle", a |-> 0, n |-> 0, how |-> "none", why |-> "none",
         share |-> FALSE, moved |-> FALSE]

NodeJob(at, a, n, how) == [Idle EXCEPT !.at = at, !.a = a, !.n = n, !.how = how]

SettleJob(at, a, why, share) ==
  [Idle EXCEPT !.at = at, !.a = a, !.why = why, !.share = share]

NewAct(g, state) ==
  [state |-> state, goal |-> g, timer |-> "none", nodeAt |-> "none",
   interrupt |-> FALSE, reason |-> "none", share |-> FALSE]

(* How many of the k saves of a handler reach the disk. *)
Saves(k) == IF TornWrites THEN 1..k ELSE {k}

(* The activity a poll works on: the first that is neither planned nor over. *)
Open(a) == act[a].state \notin {"absent", "planned"} \cup TerminalStates
First(a) == Open(a) /\ \A b \in Acts : b < a => ~Open(b)

RunTerminal == run.state \in TerminalStates

(* The latest node of activity a that is still running. *)
InFlight(a, n) ==
  /\ node[a][n] \in RunningNode
  /\ \A m \in Rounds : m > n => node[a][m] \notin RunningNode
NoneInFlight(a) == \A n \in Rounds : node[a][n] \notin RunningNode

(* round_index of the next node: one more than the nodes there are. *)
NextRound(a, n) ==
  /\ node[a][n] = "absent"
  /\ \A m \in Rounds : m < n => node[a][m] # "absent"

-----------------------------------------------------------------------------
(* The accepted plan *)

ScheduleInitial(row) ==
  [row EXCEPT
     !.timer = IF row.goal.mode \in {"duration", "sleep"} THEN "set" ELSE "none",
     !.nodeAt = IF row.goal.mode = "sleep" THEN "none" ELSE "due"]

PlannedAct(plan, a) ==
  IF a \notin DOMAIN plan THEN NewAct(CHOOSE g \in Goals : TRUE, "absent")
  ELSE IF a = 1 THEN ScheduleInitial(NewAct(plan[a], "active_wait"))
  ELSE NewAct(plan[a], "planned")

(* apply_plan commits the run and its activities in one transaction. *)
Init ==
  /\ \E k \in 1..PlanLen : \E plan \in [1..k -> Goals] :
       act = [a \in Acts |-> PlannedAct(plan, a)]
  /\ \E m \in HorizonModes :
       run = [state |-> "active_wait", mode |-> m, horizon |-> "set"]
  /\ node = [a \in Acts |-> [n \in Rounds |-> "absent"]]
  /\ decided = [a \in Acts |-> "none"]
  /\ wake = 0
  /\ delivery = [a \in Acts |-> "none"]
  /\ job = Idle

-----------------------------------------------------------------------------
(* Poll: what the runner does next, read from the store under the tick lock *)

Waiting(a) ==
  /\ job = Idle
  /\ First(a)
  /\ act[a].state = "active_wait"
  /\ NoneInFlight(a)

(* begin_node, then the claim of the execution; the handler call follows. *)
StartNode(a) ==
  /\ Waiting(a)
  /\ ~act[a].interrupt
  /\ act[a].timer # "due"
  /\ run.horizon # "due"
  /\ act[a].nodeAt = "due"
  /\ run.state \in {"active_wait", "node_running"}
  /\ \E n \in Rounds : \E saved \in Saves(4) :
       /\ NextRound(a, n)
       /\ node' = [node EXCEPT ![a][n] =
                     IF saved = 4 THEN "running" ELSE "pending"]
       /\ act' = IF saved >= 2 THEN [act EXCEPT ![a].state = "node_running"]
                               ELSE act
       /\ run' = IF saved >= 3 THEN [run EXCEPT !.state = "node_running"]
                               ELSE run
       /\ job' = IF saved = 4 THEN NodeJob("exec", a, n, "none") ELSE Idle
  /\ UNCHANGED <<decided, wake, delivery>>

(* Mutant: recovery replays a handler. *)
AfterExecReplays(a, n, status) ==
  CASE status = "waiting_external" -> Idle
    [] status = "skipped" -> NodeJob("conclude", a, n, "stop")
    [] status = "succeeded" -> NodeJob("review", a, n, "none")
    [] status \in Verdicts -> NodeJob("conclude", a, n, status)
    [] status = "failed" -> NodeJob("conclude", a, n, "failed")
    [] OTHER -> NodeJob("exec", a, n, "none")

(* What follows once the execution status of a node is on disk. *)
AfterExec(a, n, status) ==
  CASE status = "waiting_external" -> Idle
    [] status = "skipped" -> NodeJob("conclude", a, n, "stop")
    [] status = "succeeded" -> NodeJob("review", a, n, "none")
    [] status \in Verdicts -> NodeJob("conclude", a, n, status)
    [] OTHER -> NodeJob("conclude", a, n, "failed")

(* A node found in flight by a poll is concluded, never executed again. *)
RecoverNode(a, n) ==
  /\ job = Idle
  /\ First(a)
  /\ act[a].state # "settling"
  /\ InFlight(a, n)
  /\ job' = CASE act[a].interrupt ->
                   NodeJob("conclude", a, n,
                           IF node[a][n] \in Verdicts \cup {"succeeded"}
                             THEN "stop" ELSE "failed")
              [] ~act[a].interrupt /\ node[a][n] = "waiting_external" ->
                   NodeJob("receipt", a, n, "none")
              [] OTHER -> AfterExec(a, n, node[a][n])
  /\ UNCHANGED <<run, act, node, decided, wake, delivery>>

(* begin_settlement(a, why): the activity first, then the run. *)
BeginSettlement(a, why, nextJob) ==
  /\ IF act[a].state = "settling"
       THEN /\ act' = IF act[a].reason = "none"
                        THEN [act EXCEPT ![a].reason = why] ELSE act
            /\ run' = run
            /\ job' = nextJob
       ELSE \E saved \in Saves(2) :
              /\ act' = [act EXCEPT ![a].state = "settling",
                                    ![a].reason = IF why = "none" THEN @ ELSE why]
              /\ run' = IF saved = 2 THEN [run EXCEPT !.state = "settling"]
                                     ELSE run
              /\ job' = IF saved = 2 THEN nextJob ELSE Idle
  /\ UNCHANGED <<node, decided, wake, delivery>>

(* The store says a node was under way but none is: settle, reason unknown. *)
RecoverOrphan(a) ==
  /\ job = Idle
  /\ First(a)
  /\ act[a].state \in {"node_running", "node_review"}
  /\ NoneInFlight(a)
  /\ BeginSettlement(a, "none", Idle)

(* Mutant: a deadline horizon does not end a waiting activity. *)
SettleReasonNoHorizon(a) ==
  CASE act[a].interrupt -> "user_interrupt"
    [] ~act[a].interrupt /\ act[a].state = "settling" ->
         IF act[a].reason = "none" THEN "natural_stop" ELSE act[a].reason
    [] ~act[a].interrupt /\ act[a].state = "active_wait" ->
         IF act[a].timer = "due" THEN "timer_ended" ELSE "none"
    [] OTHER -> "none"

(* Why a poll asks to settle activity a; "none" when it does not. *)
SettleReason(a) ==
  CASE act[a].interrupt -> "user_interrupt"
    [] ~act[a].interrupt /\ act[a].state = "settling" ->
         IF act[a].reason = "none" THEN "natural_stop" ELSE act[a].reason
    [] ~act[a].interrupt /\ act[a].state = "active_wait" ->
         IF act[a].timer = "due" THEN "timer_ended"
         ELSE IF run.horizon = "due" /\ run.mode = "deadline" THEN "plan_horizon"
         ELSE "none"
    [] OTHER -> "none"

Settle(a) ==
  /\ job = Idle
  /\ First(a)
  /\ act[a].state = "settling" \/ Waiting(a)
  /\ SettleReason(a) # "none"
  /\ BeginSettlement(a, SettleReason(a),
                     SettleJob("settle", a, SettleReason(a), FALSE))

ReviewHorizon(a) ==
  /\ Waiting(a)
  /\ SettleReason(a) = "none"
  /\ run.horizon = "due"
  /\ run.mode = "estimate"
  /\ job' = NodeJob("horizon", a, 0, "none")
  /\ UNCHANGED <<run, act, node, decided, wake, delivery>>

-----------------------------------------------------------------------------
(* Returns of the runner's awaits *)

AtNode(point, a, n) == job.at = point /\ job.a = a /\ job.n = n
At(point, a) == job.at = point /\ job.a = a

(* executor.execute: the handler answers, _finish saves the status. *)
ExecReturns(a, n) ==
  /\ AtNode("exec", a, n)
  /\ \E status \in {"waiting_external", "succeeded", "failed", "skipped"} :
       /\ node' = [node EXCEPT ![a][n] = status]
       /\ job' = AfterExec(a, n, status)
  /\ UNCHANGED <<run, act, decided, wake, delivery>>

(* poll_external_completion of a node waiting for the end of a song: still
   playing, or finished, failed or past its completion deadline. *)
ReceiptPending(a, n) ==
  /\ AtNode("receipt", a, n)
  /\ job' = Idle
  /\ UNCHANGED <<run, act, node, decided, wake, delivery>>

ReceiptReturns(a, n) ==
  /\ AtNode("receipt", a, n)
  /\ \E status \in {"succeeded", "failed"} :
       /\ node' = [node EXCEPT ![a][n] = status]
       /\ job' = AfterExec(a, n, status)
  /\ UNCHANGED <<run, act, decided, wake, delivery>>

Present(a) == act[a].state # "absent"
FreeSlot(a) == ~Present(a) /\ \A b \in Acts : b < a => Present(b)

(* The reviewer records its verdict, or fails and leaves no usable audit. *)
ReviewReturns(a, n) ==
  /\ AtNode("review", a, n)
  /\ \/ \E v \in Verdicts :
          /\ v = "switch" => \E b \in Acts : FreeSlot(b)
          /\ node' = [node EXCEPT ![a][n] = v]
          /\ job' = NodeJob("conclude", a, n, v)
     \/ /\ node' = node
        /\ job' = NodeJob("conclude", a, n, "stop")
  /\ UNCHANGED <<run, act, decided, wake, delivery>>

(* transition_to(NODE_REVIEW) of the activity and of the run. *)
ReviewLegal(a, n) ==
  /\ node[a][n] \in RunningNode
  /\ act[a].state \in {"node_running", "node_review"}
  /\ run.state \in {"node_running", "node_review"}

(* Mutant: a failed node is taken for the stop of its model. *)
EndReasonFailureForgotten(a, n, how) ==
  CASE act[a].interrupt -> "user_interrupt"
    [] ~act[a].interrupt /\ act[a].timer = "due" -> "timer_ended"
    [] OTHER -> IF how # "continue" THEN "natural_stop" ELSE "none"

(* Why node n ends its activity; "none" when the activity goes on. *)
EndReason(a, n, how) ==
  LET goal == act[a].goal
      reached == goal.mode = "count" /\ n >= goal.value
      tooMany == goal.mode = "open_ended" /\ n >= MaxOpenNodes
      expired == run.horizon = "due" /\ run.mode = "deadline"
  IN  CASE act[a].interrupt -> "user_interrupt"
        [] ~act[a].interrupt /\ how = "failed" -> "execution_error"
        [] OTHER ->
             IF act[a].timer = "due" THEN "timer_ended"
             ELSE IF expired THEN "plan_horizon"
             ELSE IF reached THEN "goal_reached"
             ELSE IF how # "continue" \/ tooMany THEN "natural_stop"
             ELSE "none"

AfterReview(row, why, nodeAt) ==
  IF why = "none" THEN [row EXCEPT !.state = "active_wait", !.nodeAt = nodeAt]
                  ELSE [row EXCEPT !.state = "settling", !.reason = why]

(* complete_node_review: node, [switched-to activity,] activity, run. *)
Conclude(a, n) ==
  /\ AtNode("conclude", a, n)
  /\ ReviewLegal(a, n)
  /\ \E saved \in Saves(4), g \in Goals :
       LET why == EndReason(a, n, job.how)
           added == [b \in Acts |->
                       IF job.how = "switch" /\ ~act[a].interrupt /\ FreeSlot(b)
                         THEN NewAct(g, "planned") ELSE act[b]]
       IN  /\ job.how # "switch" => g = CHOOSE h \in Goals : TRUE
           /\ node' = [node EXCEPT ![a][n] =
                         IF job.how = "failed" THEN "aborted" ELSE "completed"]
           /\ act' = CASE saved = 1 -> act
                       [] saved = 2 -> added
                       [] OTHER -> [added EXCEPT ![a] =
                                      AfterReview(act[a], why, "set")]
           /\ run' = IF saved < 4 THEN run
                     ELSE [run EXCEPT !.state =
                             IF why = "none" THEN "active_wait" ELSE "settling"]
  /\ job' = Idle
  /\ UNCHANGED <<decided, wake, delivery>>

(* The transition is illegal: ValueError out of the tick, nothing saved. *)
ConcludeRaises(a, n) ==
  /\ AtNode("conclude", a, n)
  /\ ~ReviewLegal(a, n)
  /\ job' = Idle
  /\ UNCHANGED <<run, act, node, decided, wake, delivery>>

(* _review_horizon after the model answered: extend the plan or settle. *)
HorizonReturns(a) ==
  /\ At("horizon", a)
  /\ \/ /\ act[a].interrupt
        /\ BeginSettlement(a, "user_interrupt",
                           SettleJob("settle", a, "user_interrupt", FALSE))
     \/ /\ ~act[a].interrupt
        /\ BeginSettlement(a, "plan_horizon",
                           SettleJob("settle", a, "plan_horizon", FALSE))
     \/ /\ ~act[a].interrupt
        /\ act[a].state = "active_wait"
        /\ run' = [run EXCEPT !.horizon = "set"]
        /\ act' = [act EXCEPT ![a].nodeAt =
                     IF act[a].goal.mode = "sleep" THEN "none" ELSE "set"]
        /\ job' = Idle
        /\ UNCHANGED <<node, decided, wake, delivery>>

-----------------------------------------------------------------------------
(* Settlement: the tail of _settle, settle_activity and the share *)

Closing(why) == why \in {"user_interrupt", "execution_error"}

Ending(why) ==
  CASE why = "user_interrupt" -> "interrupted"
    [] why = "execution_error" -> "aborted"
    [] OTHER -> "completed"

Later(a) == \E b \in Acts : b > a /\ act[b].state = "planned"
(* Mutant: every later planned activity is a successor. *)
SuccessorAny(a, b) == b > a /\ act[b].state = "planned"

Successor(a, b) ==
  /\ b > a
  /\ act[b].state = "planned"
  /\ \A c \in Acts : a < c /\ c < b => act[c].state # "planned"

(* Mutant: the reason is not re-read after the await. *)
FinalReasonStale(a) == job.why

(* The reason re-read after the settlement model answered. *)
FinalReason(a) ==
  IF act[a].interrupt \/ job.moved THEN "user_interrupt" ELSE job.why

(* Mutant: an interrupted or failed activity keeps its intent to share. *)
ShareIntentKept(a, why, wants) ==
  wants \/ (~Later(a) /\ \E b \in Acts : b < a /\ act[b].share)

(* The share intent of activity a; the last one carries those before it. *)
ShareIntent(a, why, wants) ==
  /\ ~Closing(why)
  /\ wants \/ (~Later(a) /\ \E b \in Acts : b < a /\ act[b].share)

WakeAfter(a, why) ==
  IF why = "user_interrupt" THEN 0
  ELSE IF ~Later(a) \/ why = "execution_error" THEN a
  ELSE wake

(* settle_activity activates the successor, or takes the run to its end. *)
SettleLegal(a, why) ==
  (Later(a) /\ ~Closing(why)) =>
    run.state \in {"active_wait", "node_review", "settling"}

ActsSettled(a, why, share) ==
  [b \in Acts |->
     IF b = a THEN [act[b] EXCEPT !.state = Ending(why), !.reason = why,
                                  !.share = share]
     ELSE IF Closing(why) /\ act[b].state = "planned"
       THEN [act[b] EXCEPT !.state = Ending(why), !.reason = why]
     ELSE IF ~Closing(why) /\ Successor(a, b)
       THEN ScheduleInitial([act[b] EXCEPT !.state = "active_wait"])
     ELSE act[b]]

(* Mutant: the run goes on whenever something was planned. *)
RunSettledIfLater(a, why) ==
  IF Later(a) THEN [run EXCEPT !.state = "active_wait"]
              ELSE [run EXCEPT !.state = Ending(why)]

RunSettled(a, why) ==
  IF Later(a) /\ ~Closing(why)
    THEN [run EXCEPT !.state = "active_wait"]
    ELSE [run EXCEPT !.state = Ending(why)]

NodesAborted(a) ==
  [node EXCEPT ![a] = [n \in Rounds |->
     IF node[a][n] \in RunningNode THEN "aborted" ELSE node[a][n]]]

(* The settlement model answered, or its audit was found: audit, wake, nodes
   still running, and last the plan with the activity and the run. *)
SettlementReturns(a) ==
  /\ At("settle", a)
  /\ \E wants \in BOOLEAN, saved \in Saves(4) :
       LET why == FinalReason(a)
           share == ShareIntent(a, why, wants)
       IN  /\ decided[a] # "none" => wants = (decided[a] = "share")
           /\ decided' = [decided EXCEPT ![a] =
                            IF wants THEN "share" ELSE "quiet"]
           /\ wake' = IF saved >= 2 THEN WakeAfter(a, why) ELSE wake
           /\ node' = IF saved >= 3 THEN NodesAborted(a) ELSE node
           /\ IF saved = 4 /\ SettleLegal(a, why)
                THEN /\ act' = ActsSettled(a, why, share)
                     /\ run' = RunSettled(a, why)
                     /\ job' = SettleJob("sidecar", a, why, share /\ ~Later(a))
                ELSE UNCHANGED <<act, run>> /\ job' = Idle
  /\ UNCHANGED delivery

(* After the emotion sidecar: the delivery record, then share_adapter.deliver
   up to its first await. *)
SidecarReturns(a) ==
  /\ At("sidecar", a)
  /\ LET share == job.share /\ ~job.moved
     IN  IF ~share
           THEN /\ delivery' = [delivery EXCEPT ![a] =
                                  IF @ = "none" THEN "not_requested" ELSE @]
                /\ job' = Idle
           ELSE \E saved \in Saves(2), dnd \in BOOLEAN :
                  /\ delivery' = [delivery EXCEPT ![a] =
                                    IF @ # "none" THEN @
                                    ELSE IF saved = 2 /\ dnd THEN "suppressed"
                                    ELSE "deferred"]
                  /\ job' = IF saved = 2 /\ ~dnd
                              THEN NodeJob("compose", a, 0, "none") ELSE Idle
  /\ UNCHANGED <<run, act, node, decided, wake>>

(* The share text: none, suppressed by do-not-disturb, or about to be sent. *)
ComposeReturns(a) ==
  /\ At("compose", a)
  /\ \/ /\ delivery' = delivery
        /\ job' = Idle
     \/ /\ delivery' = [delivery EXCEPT ![a] = "suppressed"]
        /\ job' = Idle
     \/ /\ delivery' = [delivery EXCEPT ![a] = "sending"]
        /\ job' = NodeJob("push", a, 0, "none")
  /\ UNCHANGED <<run, act, node, decided, wake>>

(* Only an explicit receipt counts as sent. *)
PushReturns(a) ==
  /\ At("push", a)
  /\ \E receipt \in {"sent", "failed"} :
       delivery' = [delivery EXCEPT ![a] = receipt]
  /\ job' = Idle
  /\ UNCHANGED <<run, act, node, decided, wake>>

-----------------------------------------------------------------------------
(* The environment *)

(* request_interrupt, from the chat path and without the tick lock. *)
RequestInterrupt ==
  /\ job.at # "conclude"
  /\ wake' = 0
  /\ act' = IF RunTerminal THEN act
            ELSE [a \in Acts |-> IF First(a)
                                   THEN [act[a] EXCEPT !.interrupt = TRUE]
                                   ELSE act[a]]
  /\ job' = IF job.at \in {"settle", "sidecar"}
              THEN [job EXCEPT !.moved = TRUE] ELSE job
  /\ UNCHANGED <<run, node, decided, delivery>>

(* The process dies, or the creator loop is cancelled, during an await. *)
Restart ==
  /\ job # Idle
  /\ job.at = "conclude" => TornWrites
  /\ job' = Idle
  /\ UNCHANGED <<run, act, node, decided, wake, delivery>>

TimePasses ==
  /\ ~RunTerminal
  /\ job.at # "conclude"
  /\ \/ /\ run.horizon = "set"
        /\ run' = [run EXCEPT !.horizon = "due"]
        /\ act' = act
     \/ \E a \in Acts :
          /\ First(a)
          /\ \/ /\ act[a].timer = "set"
                /\ act' = [act EXCEPT ![a].timer = "due"]
             \/ /\ act[a].nodeAt = "set"
                /\ act' = [act EXCEPT ![a].nodeAt = "due"]
          /\ run' = run
  /\ UNCHANGED <<node, decided, wake, delivery, job>>

(* The run is over and the runner looks for another one. *)
Done == RunTerminal /\ job = Idle /\ UNCHANGED vars

Poll(a) ==
  \/ StartNode(a) \/ RecoverOrphan(a) \/ Settle(a) \/ ReviewHorizon(a)
  \/ \E n \in Rounds : RecoverNode(a, n)

Returns(a) ==
  \/ HorizonReturns(a) \/ SettlementReturns(a) \/ SidecarReturns(a)
  \/ ComposeReturns(a) \/ PushReturns(a)
  \/ \E n \in Rounds : \/ ExecReturns(a, n) \/ ReceiptReturns(a, n)
                       \/ ReviewReturns(a, n) \/ Conclude(a, n)
                       \/ ConcludeRaises(a, n)

Next ==
  \/ \E a \in Acts : Poll(a) \/ Returns(a)
  \/ \E a \in Acts, n \in Rounds : ReceiptPending(a, n)
  \/ RequestInterrupt \/ Restart \/ TimePasses \/ Done

Spec == Init /\ [][Next]_vars

(* The creator loop ticks again after every tick, time passes, and an await
   that is retried after every restart returns in one of them. *)
Fairness ==
  /\ \A a \in Acts : WF_vars(Poll(a))
  /\ \A a \in Acts : SF_vars(Returns(a))
  /\ WF_vars(TimePasses)

FairSpec == Spec /\ Fairness

-----------------------------------------------------------------------------
(* Properties *)

(* The rows and the volatile job have their types. *)
TypeOK ==
  /\ run \in RunRows
  /\ act \in [Acts -> ActRows]
  /\ node \in [Acts -> [Rounds -> NodeStates]]
  /\ decided \in [Acts -> {"none", "share", "quiet"}]
  /\ wake \in 0..MaxActs
  /\ delivery \in [Acts -> DeliveryStates]
  /\ job \in Jobs

(* Whatever a crash left behind, at most one activity of the run is under way,
   at most one of its nodes is running, and no node runs in any other. *)
OneAtATime ==
  /\ \A a, b \in Acts : Open(a) /\ Open(b) => a = b
  /\ \A a \in Acts, n, m \in Rounds :
       node[a][n] \in RunningNode =>
         /\ Open(a)
         /\ node[a][m] \in RunningNode => n = m

(* The run and its activities end together: a run is over exactly when every
   activity of its plan is, and no node of a finished run is still running. *)
PlanClosed ==
  /\ RunTerminal <=> \A a \in Acts : act[a].state \in TerminalStates \cup {"absent"}
  /\ RunTerminal => \A a \in Acts : NoneInFlight(a)

(* A user reply is never lost: an activity it reached ends interrupted, with
   the rest of its plan, whatever its node, review or settlement said. *)
InterruptWins ==
  \A a \in Acts :
    /\ act[a].interrupt /\ act[a].state \in TerminalStates =>
         act[a].state = "interrupted"
    /\ act[a].state = "interrupted" => run.state = "interrupted"

(* One event segment produces at most one proactive message, for the activity
   that ended it, of a run that completed and wanted to share. *)
OneShare ==
  \A a \in Acts :
    delivery[a] \notin {"none", "not_requested"} =>
      /\ act[a].state = "completed"
      /\ act[a].share
      /\ run.state = "completed"
      /\ \A b \in Acts : b # a => delivery[b] \in {"none", "not_requested"}

(* An execution error or a user interruption closes the whole accepted plan: an
   activity one of whose nodes failed does not end as completed. *)
FailureClosesPlan ==
  \A a \in Acts :
    act[a].state = "completed" => \A n \in Rounds : node[a][n] # "aborted"

(* Recovery never asks the controller for a transition its tables refuse. *)
Recoverable ==
  /\ \A a \in Acts, n \in Rounds : AtNode("conclude", a, n) => ReviewLegal(a, n)
  /\ \A a \in Acts : At("settle", a) => SettleLegal(a, FinalReason(a))

(* A handler is called once for a node, when the node is new and nothing else
   of the run is in flight: a restart or a recovery never calls it again. *)
HandlerStarts(a, n) == job'.at = "exec" /\ job'.a = a /\ job'.n = n /\ job # job'
NoReplay ==
  [][\A a \in Acts, n \in Rounds :
       HandlerStarts(a, n) =>
         /\ node[a][n] = "absent"
         /\ \A b \in Acts : NoneInFlight(b)]_vars

(* What has ended stays as it was recorded: no late return, recovery or
   interrupt rewrites a finished run, activity, node or sent message. *)
EndedIsFinal ==
  [][/\ RunTerminal => run' = run
     /\ \A a \in Acts :
          /\ act[a].state \in TerminalStates => act'[a] = act[a]
          /\ delivery[a] \in {"sent", "failed", "suppressed"} =>
               delivery'[a] = delivery[a]
          /\ \A n \in Rounds :
               node[a][n] \in {"completed", "aborted"} =>
                 node'[a][n] = node[a][n]]_vars

(* The durable wake of the next plan is on disk when a run is recorded as
   completed or aborted; an interrupted run leaves none. *)
WakeBeforeEnd ==
  [][~RunTerminal /\ RunTerminal' => (wake' = 0 <=> run'.state = "interrupted")]_vars

(* A plan with a deadline ends, whatever its nodes and reviews do. *)
DeadlineEnds == run.mode = "deadline" ~> RunTerminal

(* The runtime implements the lifecycle a run promises: through every torn
   write, restart and interrupt, an activity is open, planned or over as a
   reader of the store sees it, and the run is over with its last activity. *)
Phase(a) == IF Open(a) THEN "open" ELSE act[a].state
Lifecycle == INSTANCE RunLifecycle WITH
  Slots <- Acts,
  phase <- [a \in Acts |-> Phase(a)],
  outcome <- IF RunTerminal THEN run.state ELSE "open"
ImplementsLifecycle == Lifecycle!Spec
=============================================================================
