----------------------------- MODULE TableExtents ----------------------------
(***************************************************************************)
(* What the IAM chains promise: a set of extents for each table, one of    *)
(* them added or removed at a time, and never one that another table has.  *)
(***************************************************************************)
CONSTANTS
    Table,
    Extent

VARIABLE owned      \* the extents of each table

Init == owned = [t \in Table |-> {}]

Give(t) ==
    \E e \in Extent \ UNION {owned[u] : u \in Table} :
        owned' = [owned EXCEPT ![t] = @ \cup {e}]

Take(t) == \E e \in owned[t] : owned' = [owned EXCEPT ![t] = @ \ {e}]

\* The first conjunct follows from the second; with it TLC does not look for
\* an extent when a step changes none.
Next ==
    /\ owned' # owned
    /\ \E t \in Table : Give(t) \/ Take(t)

Spec == Init /\ [][Next]_owned
=============================================================================
