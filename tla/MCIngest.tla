------------------------------- MODULE MCIngest -------------------------------
(* Two days of one session each: two messages stored twice on the first day, one
   message on the second. *)
EXTENDS DayIngest
MCDayOf == <<1, 1, 2>>
MCSessionOf == <<1, 1, 1>>
MCTwins == {{1, 2}}
=============================================================================
