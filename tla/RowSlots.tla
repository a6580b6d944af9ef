------------------------------- MODULE RowSlots ------------------------------
(***************************************************************************)
(* A slotted page without its bytes: rows under stable slot numbers, and   *)
(* the free space between the slot directory and the rows.  Module         *)
(* SlottedPage implements it; module TableManager is built on it.          *)
(***************************************************************************)
EXTENDS Integers, Sequences, SequencesExt

CONSTANTS
    PAGE_SIZE, HEADER_SIZE, SLOT_SIZE,
    Tuple,      \* rows, with their sizes
    NoRow       \* what a slot without a row holds

VARIABLE page   \* the row in each slot, and where the free space ends

-----------------------------------------------------------------------------
NoRows == [rows |-> <<>>, freePtr |-> PAGE_SIZE]

FreeSpace(pg) ==
    LET end == HEADER_SIZE + Len(pg.rows) * SLOT_SIZE
    IN  IF end > pg.freePtr THEN 0 ELSE pg.freePtr - end

Gaps(pg)  == {i \in DOMAIN pg.rows : pg.rows[i] = NoRow}
Taken(pg) == DOMAIN pg.rows \ Gaps(pg)

\* A row needs a slot of its own if there is no gap to reuse.
HasRoom(pg, t) ==
    t.size + (IF Gaps(pg) = {} THEN SLOT_SIZE ELSE 0) <= FreeSpace(pg)

\* The first gap is reused.
InsertRow(pg, t) ==
    IF ~HasRoom(pg, t) THEN pg
    ELSE [rows    |-> IF Gaps(pg) = {} THEN Append(pg.rows, t)
                      ELSE [pg.rows EXCEPT ![Min(Gaps(pg))] = t],
          freePtr |-> pg.freePtr - t.size]

\* Mutant: the rows behind a deleted one move up.
DeleteAndShift(pg, i) == [pg EXCEPT !.rows = RemoveAt(@, i)]

\* Gaps at the end are given up, the row's space is not.
DeleteRow(pg, i) ==
    LET n == Max({0} \cup (Taken(pg) \ {i}))
    IN  [pg EXCEPT !.rows = [j \in 1..n |-> IF j = i THEN NoRow ELSE @[j]]]

\* Nothing happens without a gap; otherwise the rows close up.
CompactRows(pg) ==
    LET closed[i \in 0..Len(pg.rows)] ==
            IF i = 0 THEN NoRows
            ELSE IF i \in Taken(pg) THEN InsertRow(closed[i - 1], pg.rows[i])
            ELSE closed[i - 1]
    IN  IF Gaps(pg) = {} THEN pg ELSE closed[Len(pg.rows)]

-----------------------------------------------------------------------------
Init == page = NoRows

Insert(t)  == HasRoom(page, t) /\ page' = InsertRow(page, t)
Delete(i)  == i \in Taken(page) /\ page' = DeleteRow(page, i)
Compact    == page' = CompactRows(page)

Next ==
    \/ \E t \in Tuple : Insert(t)
    \/ \E i \in 1..Len(page.rows) : Delete(i)
    \/ Compact

Spec == Init /\ [][Next]_page
=============================================================================
