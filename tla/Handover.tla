------------------------------- MODULE Handover -------------------------------
(***************************************************************************)
(* What moving a post from one home to another promises (social_feed/        *)
(* migration.py): the post is at one home at any time; while it is frozen    *)
(* nobody changes it; and what arrives is what was frozen.                   *)
(***************************************************************************)
EXTENDS Naturals

VARIABLES
  home,    \* where the post is: at its old home, at the new one, or withdrawn
  text,    \* what it says, its comments and likes included
  frozen   \* a transfer is prepared

vars == <<home, text, frozen>>

Init == home = "old" /\ text \in Nat /\ frozen = FALSE

Change == home = "old" /\ ~frozen /\ text' \in Nat /\ UNCHANGED <<home, frozen>>

Withdraw == home = "old" /\ ~frozen /\ home' = "withdrawn" /\ text' = 0 /\ UNCHANGED frozen

Freeze == home = "old" /\ ~frozen /\ frozen' = TRUE /\ UNCHANGED <<home, text>>

Thaw == frozen /\ frozen' = FALSE /\ UNCHANGED <<home, text>>

Move == home = "old" /\ frozen /\ home' = "new" /\ frozen' = FALSE /\ UNCHANGED text

Next == Change \/ Withdraw \/ Freeze \/ Thaw \/ Move

Spec == Init /\ [][Next]_vars
=============================================================================
