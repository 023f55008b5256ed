----------------------------- MODULE MCTransfer -----------------------------
(* Small instances of PostTransfer for TLC. *)
EXTENDS PostTransfer
=============================================================================
