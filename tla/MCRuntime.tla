------------------------------ MODULE MCRuntime ------------------------------
(* Small instances of WanderRuntime for TLC. *)
EXTENDS WanderRuntime

(* Two rounds wanted. *)
CountOnly == {[mode |-> "count", value |-> 2]}

(* A timer beside which nodes run, an open end bounded by max_open_nodes, and a
   timer without nodes. *)
OneOfEach == {[mode |-> "duration", value |-> 1], [mode |-> "open_ended", value |-> 0],
              [mode |-> "sleep", value |-> 1]}

BothModes == {"estimate", "deadline"}
DeadlineOnly == {"deadline"}
=============================================================================
