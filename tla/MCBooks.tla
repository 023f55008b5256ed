------------------------------- MODULE MCBooks -------------------------------
(* Small instances of CognitionBooks for TLC. *)
EXTENDS CognitionBooks
=============================================================================
