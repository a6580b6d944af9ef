----------------------------- MODULE ExtentSpace -----------------------------
(***************************************************************************)
(* What extent allocation promises: every extent has at most one user, an  *)
(* allocation hands out the lowest extent nobody uses, and a freed extent  *)
(* can be handed out again.                                                *)
(***************************************************************************)
EXTENDS Integers, FiniteSets

CONSTANTS
    MaxExtent,  \* extents are 0..MaxExtent
    Reserved    \* the extents that are never handed out

VARIABLE used   \* the extents that have a user

Free == 0..MaxExtent \ (Reserved \cup used)

Init == used = {}

Allocate ==
    \E e \in Free :
        /\ \A f \in Free : e <= f
        /\ used' = used \cup {e}

Deallocate == \E e \in used : used' = used \ {e}

Next == Allocate \/ Deallocate

Spec == Init /\ [][Next]_used
=============================================================================
