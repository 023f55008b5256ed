------------------------------- MODULE MCLocal -------------------------------
(* Small instances of LocalDay for TLC. *)
EXTENDS LocalDay
=============================================================================
