----------------------------- MODULE MCScheduler -----------------------------
(* Small instances of WanderScheduler for TLC. *)
EXTENDS WanderScheduler
=============================================================================
