---------------------------- MODULE RunLifecycle ----------------------------
(***************************************************************************)
(* What a wander run promises, whatever its nodes, models and restarts do: *)
(* the activities of its plan happen one after the other, the next begins  *)
(* in the very step that completes the one before it, an interruption or   *)
(* an execution error closes everything not yet begun, and the run is over *)
(* when no activity is left.  WanderRuntime is shown to implement this.    *)
(***************************************************************************)
EXTENDS Integers

CONSTANT Slots   \* order indices an activity of the run can have, a set of numbers

Endings == {"completed", "interrupted", "aborted"}

VARIABLES
  phase,    \* of each activity: absent, planned, open, or how it ended
  outcome   \* of the run: open, or how it ended

lifecycleVars == <<phase, outcome>>

IsPlanned(b) == phase[b] = "planned"
NextPlanned(a, b) ==
  b > a /\ IsPlanned(b) /\ \A c \in Slots : a < c /\ c < b => ~IsPlanned(c)
SomePlanned(a) == \E b \in Slots : b > a /\ IsPlanned(b)

(* An accepted plan: the first activity is open, the rest wait their turn. *)
Init ==
  /\ outcome = "open"
  /\ \E first \in Slots : \E rest \in SUBSET {b \in Slots : b > first} :
       phase = [a \in Slots |-> IF a = first THEN "open"
                                ELSE IF a \in rest THEN "planned" ELSE "absent"]

(* While the run is open a review may append one activity to the plan. *)
Append(b) ==
  /\ outcome = "open"
  /\ phase[b] = "absent"
  /\ phase' = [phase EXCEPT ![b] = "planned"]
  /\ outcome' = outcome

(* The open activity completes and its successor, if any, takes over. *)
Complete(a) ==
  /\ phase[a] = "open"
  /\ phase' = [b \in Slots |->
                 IF b = a THEN "completed"
                 ELSE IF NextPlanned(a, b) THEN "open" ELSE phase[b]]
  /\ outcome' = IF SomePlanned(a) THEN outcome ELSE "completed"

(* The open activity is interrupted or fails, and with it the whole plan. *)
Close(a, ending) ==
  /\ phase[a] = "open"
  /\ phase' = [b \in Slots |-> IF b = a \/ IsPlanned(b) THEN ending ELSE phase[b]]
  /\ outcome' = ending

Next ==
  \E a \in Slots : \/ Append(a)
                   \/ Complete(a)
                   \/ \E ending \in {"interrupted", "aborted"} : Close(a, ending)

Spec == Init /\ [][Next]_lifecycleVars
=============================================================================
