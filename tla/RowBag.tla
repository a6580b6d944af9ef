-------------------------------- MODULE RowBag -------------------------------
(***************************************************************************)
(* What a table promises: a bag of rows to which INSERT adds one row after *)
(* the other, and from which DELETE takes rows that its WHERE clause       *)
(* matches.  SELECT and COMPACT leave the bag as it is, but a COMPACT can  *)
(* leave the place behind, stale, to which the next INSERT takes a row     *)
(* that is lost.  Nothing is promised from then on.                        *)
(***************************************************************************)
EXTENDS Integers

CONSTANT Tuple

VARIABLES
    count,      \* how many copies of each row the table has
    running,    \* the statement that runs
    where,      \* the rows it deletes, if it is a DELETE
    stale,      \* the next row may be lost
    lost        \* a row was lost

bagVars == <<count, running, where, stale, lost>>

Init ==
    /\ count = [t \in Tuple |-> 0]
    /\ running = "none"
    /\ where = {}
    /\ stale = FALSE
    /\ lost = FALSE

Begin ==
    /\ running = "none"
    /\ running' \in {"scan", "compact"}
    /\ where' \in SUBSET Tuple
    /\ where' # {} => running' = "scan"
    /\ UNCHANGED <<count, stale, lost>>

\* The first row of a statement is inserted as it begins.
Insert(t) ==
    /\ running \in {"none", "insert"}
    /\ running' = "insert"
    /\ count' = [count EXCEPT ![t] = @ + 1]
    /\ stale' = FALSE
    /\ UNCHANGED <<where, lost>>

Lose ==
    /\ running \in {"none", "insert"}
    /\ stale
    /\ lost' = TRUE
    /\ running' = "none"
    /\ UNCHANGED <<count, where, stale>>

Delete(t) ==
    /\ running = "scan"
    /\ t \in where
    /\ count[t] > 0
    /\ count' = [count EXCEPT ![t] = @ - 1]
    /\ UNCHANGED <<running, where, stale, lost>>

\* COMPACT fails half-way.
Spoil ==
    /\ running = "compact"
    /\ running' \in {"compact", "none"}
    /\ stale' = TRUE
    /\ UNCHANGED <<count, where, lost>>

\* COMPACT, an INSERT that finds another place, or reopening the database.
Recover ==
    /\ stale' = FALSE
    /\ UNCHANGED <<count, running, where, lost>>

End ==
    /\ running # "none"
    /\ running' = "none"
    /\ where' = {}
    /\ stale' \in {stale, FALSE}
    /\ UNCHANGED <<count, lost>>

Step ==
    \/ Begin
    \/ \E t \in Tuple : Insert(t) \/ Delete(t)
    \/ Lose
    \/ Spoil
    \/ End

Next == (~lost /\ Step) \/ Recover

Spec == Init /\ [][Next]_bagVars
=============================================================================
