----------------------------- MODULE SlottedPage -----------------------------
(***************************************************************************)
(* The slotted page (storage/slotted_page.cpp): a slot directory that      *)
(* grows up from the header, tuple bytes that grow down from the end of    *)
(* the page.                                                               *)
(*                                                                         *)
(* The page's bytes are kept one by one, so that an insert that writes     *)
(* over the directory or over another tuple is seen by get_tuple.  A byte  *)
(* of tuple t holds t; every other byte is Junk.                           *)
(***************************************************************************)
EXTENDS Integers, Sequences, SequencesExt

CONSTANTS
    PAGE_SIZE,      \* 4096 in the code
    HEADER_SIZE,    \* sizeof(SlottedPageHeader), 16 in the code
    SLOT_SIZE,      \* sizeof(Slot), 4 in the code
    Payload,        \* the values rows carry
    Sizes           \* the sizes rows are serialized to

ASSUME SlottedPageAssumption ==
    /\ {PAGE_SIZE, HEADER_SIZE, SLOT_SIZE} \subseteq Nat \ {0}
    /\ HEADER_SIZE < PAGE_SIZE
    /\ Sizes \subseteq Nat \ {0}

Tuple == [payload : Payload, size : Sizes]
Junk  == [payload |-> "junk", size |-> 0]

VARIABLE page   \* the slot directory, free_space_pointer and the bytes

-----------------------------------------------------------------------------
\* SlottedPage::init
EmptyPage == [slots |-> <<>>, freePtr |-> PAGE_SIZE,
              bytes |-> [o \in 0..(PAGE_SIZE - 1) |-> Junk]]

DirectoryEnd(n) == HEADER_SIZE + n * SLOT_SIZE

GetFreeSpace(pg) ==
    LET end == DirectoryEnd(Len(pg.slots))
    IN  IF end > pg.freePtr THEN 0 ELSE pg.freePtr - end

Live(pg)       == {i \in DOMAIN pg.slots : pg.slots[i].length > 0}
Tombstones(pg) == DOMAIN pg.slots \ Live(pg)

\* The bytes a slot covers, and the tuple a reader finds there.
Range0(slot) == slot.offset .. slot.offset + slot.length - 1
GetTuple(pg, i) ==
    LET slot == pg.slots[i]
        read == {pg.bytes[o] : o \in Range0(slot)}
    IN  IF \E t \in Tuple : read = {t} /\ t.size = slot.length
        THEN CHOOSE t \in read : TRUE ELSE Junk

\* Mutant: the last tombstone.
TargetLastSlot(pg) ==
    IF Tombstones(pg) = {} THEN Len(pg.slots) + 1 ELSE Max(Tombstones(pg))

\* The slot insert_tuple uses: the first tombstone, or else a new one.
TargetSlot(pg) ==
    IF Tombstones(pg) = {} THEN Len(pg.slots) + 1 ELSE Min(Tombstones(pg))

\* Mutants: the directory entry, or the tuple, is not counted.
NeededForTuple(pg, t) == t.size
NeededForSlot(pg, t) == SLOT_SIZE
NeededSpace(pg, t) == t.size + (IF Tombstones(pg) = {} THEN SLOT_SIZE ELSE 0)

Fits(pg, t) == NeededSpace(pg, t) <= GetFreeSpace(pg)

\* insert_tuple: the payload and then the directory entry are written.  The
\* page is returned as it is if the tuple does not fit.
InsertTuple(pg, t) ==
    LET ptr   == pg.freePtr - t.size
        i     == TargetSlot(pg)
        slot  == [offset |-> ptr, length |-> t.size]
        entry == DirectoryEnd(i - 1) .. DirectoryEnd(i) - 1
    IN  IF ~Fits(pg, t) THEN pg
        ELSE [slots   |-> IF i \in DOMAIN pg.slots THEN [pg.slots EXCEPT ![i] = slot]
                          ELSE Append(pg.slots, slot),
              freePtr |-> ptr,
              bytes   |-> [o \in DOMAIN pg.bytes |->
                              IF o \in entry THEN Junk
                              ELSE IF o \in Range0(slot) THEN t ELSE pg.bytes[o]]]

\* delete_tuple: the entry becomes a tombstone, the payload stays, and
\* tombstones at the end of the directory are dropped.
DeleteTuple(pg, i) ==
    LET n == Max({0} \cup (Live(pg) \ {i}))
    IN  [pg EXCEPT !.slots = [j \in 1..n |-> IF j = i THEN [@[j] EXCEPT !.length = 0]
                                             ELSE @[j]]]

\* compact copies the live tuples and inserts them into the page `start`, in
\* slot order, whether they fit or not.
Reinserted(start, pg) ==
    LET fresh[i \in 0..Len(pg.slots)] ==
            IF i = 0 THEN start
            ELSE IF i \in Live(pg) THEN InsertTuple(fresh[i - 1], GetTuple(pg, i))
            ELSE fresh[i - 1]
    IN  fresh[Len(pg.slots)]

\* Mutant: free_space_pointer is not reset.
CompactInPlace(pg) ==
    IF Tombstones(pg) = {} THEN pg
    ELSE Reinserted([EmptyPage EXCEPT !.freePtr = pg.freePtr], pg)

\* compact: nothing to do without tombstones.
CompactPage(pg) == IF Tombstones(pg) = {} THEN pg ELSE Reinserted(EmptyPage, pg)

-----------------------------------------------------------------------------
Init == page = EmptyPage

Insert(t) == Fits(page, t) /\ page' = InsertTuple(page, t)

Delete(i) == i \in Live(page) /\ page' = DeleteTuple(page, i)

Compact == page' = CompactPage(page)

Next ==
    \/ \E t \in Tuple : Insert(t)
    \/ \E i \in 1..Len(page.slots) : Delete(i)
    \/ Compact

Spec == Init /\ [][Next]_page

-----------------------------------------------------------------------------
(* Properties *)

TypeOK ==
    /\ page.slots \in Seq([offset : 0..(PAGE_SIZE - 1), length : Nat])
    /\ page.freePtr \in 0..PAGE_SIZE
    /\ page.bytes \in [0..(PAGE_SIZE - 1) -> Tuple \cup {Junk}]

\* Directory, gap and tuples never meet: the directory ends at or before
\* free_space_pointer, and every live tuple has bytes of its own at or after
\* it, each holding what was inserted.
NothingOverlaps ==
    /\ DirectoryEnd(Len(page.slots)) <= page.freePtr
    /\ \A i \in Live(page) :
          /\ Range0(page.slots[i]) \subseteq page.freePtr..(PAGE_SIZE - 1)
          /\ GetTuple(page, i) \in Tuple
          /\ \A j \in Live(page) \ {i} :
                Range0(page.slots[i]) \cap Range0(page.slots[j]) = {}

\* Reading back through the directory, the page implements numbered rows with
\* the free space that they leave.
NoRow == [payload |-> "none", size |-> 0]
Rows == INSTANCE RowSlots WITH
    page <- [rows |-> [i \in DOMAIN page.slots |->
                          IF i \in Live(page) THEN GetTuple(page, i) ELSE NoRow],
             freePtr |-> page.freePtr]

ImplementsRows == Rows!Spec

\* Bytes below free_space_pointer that no live tuple uses.
SumOver(pg) ==
    LET sum[i \in 0..Len(pg.slots)] ==
            IF i = 0 THEN 0 ELSE sum[i - 1] + pg.slots[i].length
    IN  sum[Len(pg.slots)]
OrphanedBytes(pg) == PAGE_SIZE - pg.freePtr - SumOver(pg)

\* When compact rebuilds the page it gives back every orphaned byte and every
\* tombstone, and the rows that remain always fit.
RebuildReclaimsAll ==
    [][Compact /\ Tombstones(page) # {}
        => /\ OrphanedBytes(page') = 0
           /\ Tombstones(page') = {}
           /\ SumOver(page') = SumOver(page)]_page
=============================================================================
