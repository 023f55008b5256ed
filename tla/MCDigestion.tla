------------------------------ MODULE MCDigestion ------------------------------
(* A small instance of DailyDigestion for TLC: two batches on the first day, one on
   each of the other two, and every earlier event supports every later one. *)
EXTENDS DailyDigestion

MCDayOf == <<1, 1, 2, 3>>
MCRelated == {p \in (1..4) \X (1..4) : p[1] < p[2]}
=============================================================================
