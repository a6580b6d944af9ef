-------------------------- MODULE SlottedPageProofs --------------------------
(***************************************************************************)
(* The slotted page, for every page size, header size and slot size, and   *)
(* every set of row sizes.                                                 *)
(***************************************************************************)
EXTENDS SlottedPage, CommonLemmas

-----------------------------------------------------------------------------
(* The inductive invariant *)

Slot == [offset : 0..(PAGE_SIZE - 1), length : Nat]

PageTypes == [slots : Seq(Slot), freePtr : 0..PAGE_SIZE,
              bytes : [0..(PAGE_SIZE - 1) -> Tuple \cup {Junk}]]

\* Slot i covers the bytes of tuple t.
Holds(pg, i, t) ==
    /\ t \in Tuple
    /\ t.size = pg.slots[i].length
    /\ \A o \in Range0(pg.slots[i]) : pg.bytes[o] = t

Separate(pg, i, j) == Range0(pg.slots[i]) \cap Range0(pg.slots[j]) = {}

\* NothingOverlaps, with the bytes that get_tuple reads instead of its result.
Sound(pg) ==
    /\ DirectoryEnd(Len(pg.slots)) <= pg.freePtr
    /\ \A i \in Live(pg) : /\ Range0(pg.slots[i]) \subseteq pg.freePtr..(PAGE_SIZE - 1)
                           /\ \E t \in Tuple : Holds(pg, i, t)
    /\ \A i \in Live(pg), j \in Live(pg) : i # j => Separate(pg, i, j)

GoodPage == {pg \in PageTypes : Sound(pg)}

-----------------------------------------------------------------------------
(* Arithmetic and types *)

\* The slot directory grows by one entry at a time.
LEMMA DirectoryFacts ==
    ASSUME NEW n \in Nat
    PROVE  /\ DirectoryEnd(n) \in Nat
           /\ DirectoryEnd(n + 1) = DirectoryEnd(n) + SLOT_SIZE
           /\ \A m \in 0..n : DirectoryEnd(m) <= DirectoryEnd(n)
<1>1. HEADER_SIZE \in Nat /\ SLOT_SIZE \in Nat
    BY SlottedPageAssumption
<1>2. n * SLOT_SIZE \in Nat /\ (n + 1) * SLOT_SIZE = n * SLOT_SIZE + SLOT_SIZE
    BY <1>1, Products
<1>3. \A m \in 0..n : m * SLOT_SIZE \in Nat /\ m * SLOT_SIZE <= n * SLOT_SIZE
    BY <1>1, Products
<1>4. QED
    BY <1>1, <1>2, <1>3 DEF DirectoryEnd

\* What the constants are, for the arithmetic below.
LEMMA Constants ==
    /\ PAGE_SIZE \in Nat /\ HEADER_SIZE \in Nat /\ SLOT_SIZE \in Nat
    /\ HEADER_SIZE > 0 /\ SLOT_SIZE > 0 /\ HEADER_SIZE < PAGE_SIZE
    /\ \A t \in Tuple : t.size \in Nat /\ t.size > 0
    /\ Junk \notin Tuple /\ NoRow \notin Tuple
<1>1. /\ PAGE_SIZE \in Nat \ {0} /\ HEADER_SIZE \in Nat \ {0} /\ SLOT_SIZE \in Nat \ {0}
      /\ HEADER_SIZE < PAGE_SIZE
    BY SlottedPageAssumption
<1>2. \A t \in Tuple : t.size \in Nat \ {0}
    BY SlottedPageAssumption DEF Tuple
<1>3. Junk.size = 0 /\ NoRow.size = 0
    BY DEF Junk, NoRow
<1>4. QED
    BY <1>1, <1>2, <1>3

\* What is known of the fields of a page.
LEMMA PageFacts ==
    ASSUME NEW pg \in PageTypes
    PROVE  /\ pg.slots \in Seq(Slot) /\ Len(pg.slots) \in Nat
           /\ DOMAIN pg.slots = 1..Len(pg.slots)
           /\ \A i \in 1..Len(pg.slots) : /\ pg.slots[i] \in Slot
                                          /\ pg.slots[i].offset \in Nat
                                          /\ pg.slots[i].length \in Nat
           /\ pg.freePtr \in Nat /\ pg.freePtr <= PAGE_SIZE
           /\ pg.bytes \in [0..(PAGE_SIZE - 1) -> Tuple \cup {Junk}]
           /\ Live(pg) \subseteq 1..Len(pg.slots)
           /\ \A i \in 1..Len(pg.slots) : i \in Live(pg) <=> pg.slots[i].length > 0
<1>1. /\ pg.slots \in Seq(Slot) /\ pg.freePtr \in 0..PAGE_SIZE
      /\ pg.bytes \in [0..(PAGE_SIZE - 1) -> Tuple \cup {Junk}]
    BY DEF PageTypes
<1>2. Len(pg.slots) \in Nat /\ DOMAIN pg.slots = 1..Len(pg.slots)
    BY <1>1, LenProperties
<1>3. \A i \in 1..Len(pg.slots) : /\ pg.slots[i] \in Slot
                                  /\ pg.slots[i].offset \in Nat
                                  /\ pg.slots[i].length \in Nat
    <2>1. \A i \in 1..Len(pg.slots) : pg.slots[i] \in Slot
        BY <1>1, <1>2, ElementOfSeq
    <2>2. \A s \in Slot : s.offset \in Nat /\ s.length \in Nat
        BY Constants DEF Slot
    <2>3. QED
        BY <2>1, <2>2
<1>4. QED
    BY <1>1, <1>2, <1>3, Constants DEF Live

\* get_tuple returns the tuple whose bytes the slot covers.
LEMMA GetTupleFacts ==
    ASSUME NEW pg \in PageTypes, NEW i \in Live(pg), NEW t, Holds(pg, i, t)
    PROVE  GetTuple(pg, i) = t
<1> DEFINE slot == pg.slots[i]
           read == {pg.bytes[o] : o \in Range0(slot)}
<1>1. slot.offset \in Range0(slot)
    <2>1. slot.offset \in Nat /\ slot.length \in Nat /\ slot.length > 0
        BY PageFacts
    <2>2. QED
        BY <2>1 DEF Range0
<1>2. read = {t}
    BY <1>1 DEF Holds
<1>3. t \in Tuple /\ t.size = slot.length
    BY DEF Holds
<1> HIDE DEF read
<1>4. \E u \in Tuple : read = {u} /\ u.size = slot.length
    BY <1>2, <1>3
<1>5. (CHOOSE u \in read : TRUE) = t
    BY <1>2
<1>6. GetTuple(pg, i) = CHOOSE u \in read : TRUE
    BY <1>4 DEF GetTuple, read
<1>7. QED
    BY <1>5, <1>6

\* In a sound page every live slot holds the tuple that get_tuple returns.
LEMMA LiveHolds ==
    ASSUME NEW pg \in GoodPage, NEW i \in Live(pg)
    PROVE  Holds(pg, i, GetTuple(pg, i)) /\ GetTuple(pg, i) \in Tuple
<1>1. PICK t \in Tuple : Holds(pg, i, t)
    BY DEF GoodPage, Sound
<1>2. GetTuple(pg, i) = t
    BY <1>1, GetTupleFacts DEF GoodPage
<1>3. QED
    BY <1>1, <1>2

-----------------------------------------------------------------------------
(* insert_tuple *)

\* The slot is the first tombstone or a new one.
LEMMA TargetFacts ==
    ASSUME NEW pg \in PageTypes
    PROVE  /\ TargetSlot(pg) \in 1..(Len(pg.slots) + 1)
           /\ TargetSlot(pg) \notin Live(pg)
           /\ Tombstones(pg) = {} => TargetSlot(pg) = Len(pg.slots) + 1
           /\ Tombstones(pg) # {} => TargetSlot(pg) \in 1..Len(pg.slots)
<1>1. Len(pg.slots) \in Nat /\ DOMAIN pg.slots = 1..Len(pg.slots)
      /\ Live(pg) \subseteq 1..Len(pg.slots)
    BY PageFacts
<1>2. CASE Tombstones(pg) = {}
    BY <1>1, <1>2 DEF TargetSlot
<1>3. CASE Tombstones(pg) # {}
    <2>1. Tombstones(pg) \subseteq Nat
        BY <1>1 DEF Tombstones
    <2>2. TargetSlot(pg) \in Tombstones(pg)
        BY <1>3, <2>1, MinIsLeast DEF TargetSlot
    <2>3. QED
        BY <1>1, <1>3, <2>2 DEF Tombstones
<1>4. QED
    BY <1>2, <1>3

\* Where the tuple and its directory entry go, if there is room for them.
LEMMA InsertRoom ==
    ASSUME NEW pg \in GoodPage, NEW t \in Tuple, Fits(pg, t)
    PROVE  LET i   == TargetSlot(pg)
               ptr == pg.freePtr - t.size
               n   == IF i <= Len(pg.slots) THEN Len(pg.slots) ELSE i
           IN  /\ ptr \in 0..(PAGE_SIZE - 1) /\ ptr < pg.freePtr
               /\ n \in Nat /\ i \in 1..n
               /\ DirectoryEnd(n) <= ptr
               /\ DirectoryEnd(i) <= ptr
               /\ DirectoryEnd(i) \in Nat /\ DirectoryEnd(i - 1) \in Nat
<1> DEFINE i   == TargetSlot(pg)
           len == Len(pg.slots)
           ptr == pg.freePtr - t.size
           n   == IF i <= len THEN len ELSE i
<1>1. /\ pg \in PageTypes /\ len \in Nat /\ pg.freePtr \in Nat /\ pg.freePtr <= PAGE_SIZE
      /\ DirectoryEnd(len) <= pg.freePtr
    BY PageFacts DEF GoodPage, Sound
<1>2. t.size \in Nat /\ t.size > 0 /\ SLOT_SIZE \in Nat /\ PAGE_SIZE \in Nat
    BY Constants
<1>3. /\ i \in 1..(len + 1)
      /\ Tombstones(pg) = {} => i = len + 1
      /\ Tombstones(pg) # {} => i \in 1..len
    BY <1>1, TargetFacts
<1>4. DirectoryEnd(len) \in Nat /\ DirectoryEnd(len + 1) = DirectoryEnd(len) + SLOT_SIZE
    BY <1>1, DirectoryFacts
<1>5. GetFreeSpace(pg) = pg.freePtr - DirectoryEnd(len)
    BY <1>1, <1>4 DEF GetFreeSpace
<1>6. t.size + (IF Tombstones(pg) = {} THEN SLOT_SIZE ELSE 0) <= pg.freePtr - DirectoryEnd(len)
    BY <1>5 DEF Fits, NeededSpace
<1>7. n \in Nat /\ i \in 1..n /\ n \in len..(len + 1)
    BY <1>1, <1>3
<1>8. DirectoryEnd(n) <= ptr
    <2>1. CASE Tombstones(pg) = {}
        <3>1. n = len + 1
            BY <1>1, <1>3, <2>1
        <3>2. QED
            BY <1>1, <1>2, <1>4, <1>6, <2>1, <3>1
    <2>2. CASE Tombstones(pg) # {}
        <3>1. n = len
            BY <1>1, <1>3, <2>2
        <3>2. QED
            BY <1>1, <1>2, <1>4, <1>6, <2>2, <3>1
    <2>3. QED
        BY <2>1, <2>2
<1>9. /\ DirectoryEnd(n) \in Nat /\ DirectoryEnd(i) \in Nat /\ DirectoryEnd(i - 1) \in Nat
      /\ DirectoryEnd(i) <= DirectoryEnd(n)
    <2>1. i \in Nat /\ i - 1 \in Nat /\ i \in 0..n
        BY <1>7
    <2>2. QED
        BY <1>7, <2>1, DirectoryFacts
<1> HIDE DEF i, n
<1>10. ptr \in 0..(PAGE_SIZE - 1) /\ ptr < pg.freePtr
    BY <1>1, <1>2, <1>8, <1>9
<1>11. DirectoryEnd(i) <= ptr
    BY <1>1, <1>2, <1>8, <1>9
<1>12. QED
    BY <1>7, <1>8, <1>9, <1>10, <1>11 DEF i, n

\* What insert_tuple makes of a page that has room.
LEMMA InsertedFields ==
    ASSUME NEW pg \in GoodPage, NEW t \in Tuple, Fits(pg, t)
    PROVE  LET new  == InsertTuple(pg, t)
               i    == TargetSlot(pg)
               slot == [offset |-> pg.freePtr - t.size, length |-> t.size]
           IN  /\ new \in PageTypes
               /\ new.freePtr = pg.freePtr - t.size
               /\ Len(new.slots) = IF i <= Len(pg.slots) THEN Len(pg.slots) ELSE i
               /\ \A j \in 1..Len(new.slots) :
                     new.slots[j] = IF j = i THEN slot ELSE pg.slots[j]
               /\ \A o \in Range0(slot) : new.bytes[o] = t
               /\ \A o \in pg.freePtr..(PAGE_SIZE - 1) : new.bytes[o] = pg.bytes[o]
<1> DEFINE new   == InsertTuple(pg, t)
           i     == TargetSlot(pg)
           len   == Len(pg.slots)
           ptr   == pg.freePtr - t.size
           slot  == [offset |-> ptr, length |-> t.size]
           entry == DirectoryEnd(i - 1) .. DirectoryEnd(i) - 1
           slots == IF i \in DOMAIN pg.slots THEN [pg.slots EXCEPT ![i] = slot]
                    ELSE Append(pg.slots, slot)
           bytes == [o \in DOMAIN pg.bytes |-> IF o \in entry THEN Junk
                                               ELSE IF o \in Range0(slot) THEN t
                                               ELSE pg.bytes[o]]
<1>1. /\ pg \in PageTypes /\ len \in Nat /\ DOMAIN pg.slots = 1..len
      /\ pg.slots \in Seq(Slot)
      /\ pg.freePtr \in Nat /\ pg.freePtr <= PAGE_SIZE
      /\ pg.bytes \in [0..(PAGE_SIZE - 1) -> Tuple \cup {Junk}]
    BY PageFacts DEF GoodPage
<1>2. t.size \in Nat /\ t.size > 0 /\ PAGE_SIZE \in Nat
    BY Constants
<1>3. /\ ptr \in 0..(PAGE_SIZE - 1) /\ ptr < pg.freePtr
      /\ DirectoryEnd(i) <= ptr /\ DirectoryEnd(i) \in Nat /\ DirectoryEnd(i - 1) \in Nat
    BY InsertRoom
<1>4. i \in 1..(len + 1)
    BY <1>1, TargetFacts
<1>5. new = [slots |-> slots, freePtr |-> ptr, bytes |-> bytes]
    BY DEF InsertTuple
<1> HIDE DEF i
<1>6. slot \in Slot
    BY <1>2, <1>3 DEF Slot
<1>7. /\ slots \in Seq(Slot)
      /\ Len(slots) = IF i <= len THEN len ELSE i
      /\ \A j \in 1..Len(slots) : slots[j] = IF j = i THEN slot ELSE pg.slots[j]
    <2> HIDE DEF slot
    <2>1. CASE i \in 1..len
        <3>1. slots = [pg.slots EXCEPT ![i] = slot]
            BY <1>1, <2>1
        <3>2. slots \in Seq(Slot) /\ Len(slots) = len
            BY <1>1, <1>6, <2>1, <3>1, ExceptSeq
        <3>3. \A j \in 1..len : slots[j] = IF j = i THEN slot ELSE pg.slots[j]
            BY <1>1, <2>1, <3>1
        <3>4. QED
            BY <2>1, <3>2, <3>3
    <2>2. CASE i = len + 1
        <3>1. slots = Append(pg.slots, slot)
            BY <1>1, <2>2
        <3>2. /\ slots \in Seq(Slot) /\ Len(slots) = len + 1
              /\ \A j \in 1..len : slots[j] = pg.slots[j]
              /\ slots[len + 1] = slot
            BY <1>1, <1>6, <3>1, AppendFacts
        <3>3. \A j \in 1..(len + 1) : slots[j] = IF j = i THEN slot ELSE pg.slots[j]
            BY <1>1, <2>2, <3>2
        <3>4. QED
            BY <1>1, <2>2, <3>2, <3>3
    <2>3. QED
        BY <1>1, <1>4, <2>1, <2>2
<1>8. ASSUME NEW o \in entry PROVE o \in Int /\ o < ptr
    BY <1>3
<1>9. ASSUME NEW o \in Range0(slot)
      PROVE  o \in 0..(PAGE_SIZE - 1) /\ o >= ptr /\ o < pg.freePtr
    <2>1. slot.offset = ptr /\ slot.length = t.size /\ ptr = pg.freePtr - t.size
        OBVIOUS
    <2>2. ptr \in Nat /\ o \in ptr..(ptr + t.size - 1)
        BY <1>3, <2>1 DEF Range0
    <2> HIDE DEF slot, slots, ptr
    <2>3. QED
        BY <1>1, <1>2, <2>1, <2>2
<1>10. ASSUME NEW o \in pg.freePtr..(PAGE_SIZE - 1)
       PROVE  o \in 0..(PAGE_SIZE - 1) /\ o \notin entry /\ o \notin Range0(slot)
    <2>1. o \in Int /\ o >= pg.freePtr /\ o <= PAGE_SIZE - 1
        BY <1>1, <1>2
    <2>2. o \notin entry
        BY <1>1, <1>3, <1>8, <2>1
    <2> HIDE DEF entry, slot, slots
    <2>3. o \notin Range0(slot)
        BY <1>1, <1>9, <2>1
    <2>4. QED
        BY <1>1, <1>2, <2>1, <2>2, <2>3
<1>11. \A o \in Range0(slot) : o \notin entry
    BY <1>2, <1>3, <1>8, <1>9
<1> HIDE DEF slots, entry, slot
<1>12. bytes \in [0..(PAGE_SIZE - 1) -> Tuple \cup {Junk}]
    BY <1>1
<1>13. \A o \in Range0(slot) : bytes[o] = t
    BY <1>1, <1>9, <1>11
<1>14. \A o \in pg.freePtr..(PAGE_SIZE - 1) : bytes[o] = pg.bytes[o]
    BY <1>1, <1>10
<1> HIDE DEF bytes, ptr
<1>15. /\ new.slots = slots /\ new.freePtr = ptr /\ new.bytes = bytes
    BY <1>5
<1>16. new \in PageTypes
    <2>1. ptr \in 0..PAGE_SIZE
        BY <1>2, <1>3
    <2>2. QED
        BY <1>5, <1>7, <1>12, <2>1 DEF PageTypes
<1>17. QED
    BY <1>7, <1>13, <1>14, <1>15, <1>16 DEF slot, ptr, i

\* insert_tuple keeps the page sound, adds the tuple under the slot it chose
\* and leaves every other slot with its tuple.
LEMMA InsertGood ==
    ASSUME NEW pg \in GoodPage, NEW t \in Tuple, Fits(pg, t)
    PROVE  LET new == InsertTuple(pg, t)
               i   == TargetSlot(pg)
           IN  /\ new \in GoodPage
               /\ Live(new) = Live(pg) \cup {i}
               /\ GetTuple(new, i) = t
               /\ \A j \in Live(pg) : j # i /\ GetTuple(new, j) = GetTuple(pg, j)
<1> DEFINE new  == InsertTuple(pg, t)
           i    == TargetSlot(pg)
           len  == Len(pg.slots)
           ptr  == pg.freePtr - t.size
           slot == [offset |-> ptr, length |-> t.size]
<1>1. /\ pg \in PageTypes /\ len \in Nat
      /\ pg.freePtr \in Nat /\ pg.freePtr <= PAGE_SIZE
      /\ Live(pg) \subseteq 1..len
      /\ \A j \in 1..len : j \in Live(pg) <=> pg.slots[j].length > 0
    BY PageFacts DEF GoodPage
<1>2. t.size \in Nat /\ t.size > 0 /\ PAGE_SIZE \in Nat
    BY Constants
<1>3. ptr \in 0..(PAGE_SIZE - 1) /\ ptr < pg.freePtr
    BY InsertRoom
<1>4. i \in 1..(len + 1) /\ i \notin Live(pg)
    BY <1>1, TargetFacts
<1>5. /\ new \in PageTypes
      /\ new.freePtr = ptr
      /\ Len(new.slots) = IF i <= len THEN len ELSE i
      /\ \A j \in 1..Len(new.slots) : new.slots[j] = IF j = i THEN slot ELSE pg.slots[j]
      /\ \A o \in Range0(slot) : new.bytes[o] = t
      /\ \A o \in pg.freePtr..(PAGE_SIZE - 1) : new.bytes[o] = pg.bytes[o]
    BY InsertedFields
<1>6. DirectoryEnd(Len(new.slots)) <= new.freePtr
    BY <1>5, InsertRoom
<1>7. /\ slot.length = t.size
      /\ \A o \in Range0(slot) : o \in ptr..(PAGE_SIZE - 1) /\ o < pg.freePtr
    BY <1>1, <1>2, <1>3 DEF Range0
<1>8. /\ Len(new.slots) \in Nat
      /\ Live(new) \subseteq 1..Len(new.slots)
      /\ \A j \in 1..Len(new.slots) : j \in Live(new) <=> new.slots[j].length > 0
    BY <1>5, PageFacts
<1>9. \A j \in Live(pg) : pg.slots[j] = new.slots[j] /\ j # i /\ j \in 1..Len(new.slots)
    BY <1>1, <1>4, <1>5
<1>10. new.slots[i] = slot /\ i \in 1..Len(new.slots)
    BY <1>1, <1>4, <1>5
<1> HIDE DEF new, i, slot, ptr
<1>11. Live(new) = Live(pg) \cup {i}
    <2>1. i \in Live(new)
        BY <1>2, <1>7, <1>8, <1>10
    <2>2. ASSUME NEW j \in Live(pg) PROVE j \in Live(new)
        BY <1>1, <1>8, <1>9
    <2>3. ASSUME NEW j \in Live(new), j # i PROVE j \in Live(pg)
        <3>1. j \in 1..len /\ new.slots[j] = pg.slots[j]
            BY <1>1, <1>4, <1>5, <1>8, <2>3
        <3>2. QED
            BY <1>1, <1>8, <3>1
    <2>4. QED
        BY <2>1, <2>2, <2>3
<1>12. Holds(new, i, t)
    BY <1>5, <1>7, <1>10 DEF Holds
<1>13. ASSUME NEW j \in Live(pg)
       PROVE  /\ Range0(new.slots[j]) = Range0(pg.slots[j])
              /\ Range0(pg.slots[j]) \subseteq pg.freePtr..(PAGE_SIZE - 1)
              /\ Holds(new, j, GetTuple(pg, j))
    <2>1. Range0(pg.slots[j]) \subseteq pg.freePtr..(PAGE_SIZE - 1)
        BY DEF GoodPage, Sound
    <2>2. Holds(pg, j, GetTuple(pg, j))
        BY LiveHolds
    <2>3. Holds(new, j, GetTuple(pg, j))
        BY <1>5, <1>9, <2>1, <2>2 DEF Holds
    <2>4. QED
        BY <1>9, <2>1, <2>3
<1>14. ASSUME NEW j \in Live(new)
       PROVE  /\ Range0(new.slots[j]) \subseteq new.freePtr..(PAGE_SIZE - 1)
              /\ \E u \in Tuple : Holds(new, j, u)
    <2>1. CASE j = i
        BY <1>5, <1>7, <1>10, <1>12, <2>1
    <2>2. CASE j \in Live(pg)
        <3>1. pg.freePtr..(PAGE_SIZE - 1) \subseteq ptr..(PAGE_SIZE - 1)
            BY <1>1, <1>2, <1>3
        <3>2. QED
            BY <1>5, <1>13, <2>2, <3>1, LiveHolds
    <2>3. QED
        BY <1>11, <2>1, <2>2
<1>15. ASSUME NEW j \in Live(pg)
       PROVE  Separate(new, i, j) /\ Separate(new, j, i)
    <2>1. \A o \in Range0(new.slots[j]) : o >= pg.freePtr
        BY <1>13
    <2>2. \A o \in Range0(new.slots[i]) : o \in Nat /\ o < pg.freePtr
        BY <1>3, <1>7, <1>10
    <2>3. QED
        BY <1>1, <2>1, <2>2 DEF Separate
<1>16. ASSUME NEW j \in Live(new), NEW k \in Live(new), j # k
       PROVE  Separate(new, j, k)
    <2>1. CASE j = i \/ k = i
        BY <1>11, <1>15, <1>16, <2>1
    <2>2. CASE j \in Live(pg) /\ k \in Live(pg)
        <3>1. Separate(pg, j, k)
            BY <1>16, <2>2 DEF GoodPage, Sound
        <3>2. QED
            BY <1>13, <2>2, <3>1 DEF Separate
    <2>3. QED
        BY <1>11, <2>1, <2>2
<1>17. new \in GoodPage
    BY <1>5, <1>6, <1>14, <1>16 DEF GoodPage, Sound
<1>18. GetTuple(new, i) = t
    BY <1>5, <1>11, <1>12, GetTupleFacts
<1>19. \A j \in Live(pg) : j # i /\ GetTuple(new, j) = GetTuple(pg, j)
    BY <1>4, <1>5, <1>11, <1>13, GetTupleFacts
<1>20. QED
    BY <1>11, <1>17, <1>18, <1>19 DEF new, i

-----------------------------------------------------------------------------
(* delete_tuple *)

\* What delete_tuple makes of a page.
LEMMA DeletedFields ==
    ASSUME NEW pg \in GoodPage, NEW i \in Live(pg)
    PROVE  LET new == DeleteTuple(pg, i)
               n   == Max({0} \cup (Live(pg) \ {i}))
           IN  /\ new \in PageTypes
               /\ new.freePtr = pg.freePtr /\ new.bytes = pg.bytes
               /\ Len(new.slots) = n /\ n \in 0..Len(pg.slots)
               /\ \A j \in Live(pg) \ {i} : j \in 1..n
               /\ \A j \in 1..n : new.slots[j] = IF j = i THEN [pg.slots[j] EXCEPT !.length = 0]
                                                 ELSE pg.slots[j]
<1> DEFINE new == DeleteTuple(pg, i)
           len == Len(pg.slots)
           S   == {0} \cup (Live(pg) \ {i})
           n   == Max(S)
           slots == [j \in 1..n |-> IF j = i THEN [pg.slots[j] EXCEPT !.length = 0]
                                    ELSE pg.slots[j]]
<1>1. /\ pg \in PageTypes /\ len \in Nat
      /\ Live(pg) \subseteq 1..len
      /\ \A j \in 1..len : pg.slots[j] \in Slot
    BY PageFacts DEF GoodPage
<1>2. n \in S /\ \A k \in S : k <= n
    <2>1. S \subseteq 0..len
        BY <1>1
    <2> HIDE DEF S
    <2>2. QED
        BY <1>1, <2>1, MaxIsGreatest DEF S
<1>3. n \in 0..len /\ \A j \in Live(pg) \ {i} : j \in 1..n
    <2> HIDE DEF n
    <2>1. \A k \in S : k \in 0..len
        BY <1>1
    <2>2. n \in 0..len
        BY <1>2, <2>1
    <2>3. ASSUME NEW j \in Live(pg) \ {i} PROVE j \in 1..n
        <3>1. j \in S /\ j \in 1..len
            BY <1>1
        <3>2. QED
            BY <1>2, <2>2, <3>1
    <2>4. QED
        BY <2>2, <2>3
<1>4. new = [pg EXCEPT !.slots = slots]
    BY DEF DeleteTuple
<1> HIDE DEF n, S
<1>5. slots \in Seq(Slot) /\ Len(slots) = n
    <2>1. \A j \in 1..n : slots[j] \in Slot
        BY <1>1, <1>3 DEF Slot
    <2> DEFINE e(j) == IF j = i THEN [pg.slots[j] EXCEPT !.length = 0] ELSE pg.slots[j]
    <2>2. \A j \in 1..n : e(j) \in Slot
        BY <2>1
    <2>3. slots = [j \in 1..n |-> e(j)] /\ n \in Nat
        BY <1>3
    <2> HIDE DEF e, slots
    <2>4. [j \in 1..n |-> e(j)] \in Seq(Slot) /\ Len([j \in 1..n |-> e(j)]) = n
        BY <2>2, <2>3
    <2>5. QED
        BY <2>3, <2>4
<1>6. \A j \in 1..n : slots[j] = IF j = i THEN [pg.slots[j] EXCEPT !.length = 0]
                                 ELSE pg.slots[j]
    OBVIOUS
<1> HIDE DEF slots
<1>7. new \in PageTypes /\ new.slots = slots /\ new.freePtr = pg.freePtr /\ new.bytes = pg.bytes
    BY <1>1, <1>4, <1>5 DEF PageTypes
<1>8. QED
    BY <1>3, <1>5, <1>6, <1>7 DEF n, S

\* delete_tuple keeps the page sound and every other slot with its tuple.
LEMMA DeleteGood ==
    ASSUME NEW pg \in GoodPage, NEW i \in Live(pg)
    PROVE  LET new == DeleteTuple(pg, i)
           IN  /\ new \in GoodPage
               /\ Live(new) = Live(pg) \ {i}
               /\ \A j \in Live(new) : GetTuple(new, j) = GetTuple(pg, j)
<1> DEFINE new == DeleteTuple(pg, i)
           len == Len(pg.slots)
           n   == Max({0} \cup (Live(pg) \ {i}))
<1>1. /\ pg \in PageTypes /\ len \in Nat
      /\ pg.freePtr \in Nat
      /\ Live(pg) \subseteq 1..len
      /\ \A j \in 1..len : pg.slots[j] \in Slot /\ (j \in Live(pg) <=> pg.slots[j].length > 0)
    BY PageFacts DEF GoodPage
<1>2. /\ new \in PageTypes
      /\ new.freePtr = pg.freePtr /\ new.bytes = pg.bytes
      /\ Len(new.slots) = n /\ n \in 0..len
      /\ \A j \in Live(pg) \ {i} : j \in 1..n
      /\ \A j \in 1..n : new.slots[j] = IF j = i THEN [pg.slots[j] EXCEPT !.length = 0]
                                        ELSE pg.slots[j]
    BY DeletedFields
<1> HIDE DEF new, n
<1>3. \A j \in 1..n : j # i => new.slots[j] = pg.slots[j]
    BY <1>2
<1>4. i \in 1..n => new.slots[i].length = 0
    BY <1>1, <1>2 DEF Slot
<1>5. /\ Live(new) \subseteq 1..n
      /\ \A j \in 1..n : j \in Live(new) <=> new.slots[j].length > 0
    BY <1>2, PageFacts
<1>6. Live(new) = Live(pg) \ {i}
    <2>1. ASSUME NEW j \in Live(new) PROVE j \in Live(pg) /\ j # i
        <3>1. j # i
            BY <1>4, <1>5
        <3>2. QED
            BY <1>1, <1>2, <1>3, <1>5, <3>1
    <2>2. ASSUME NEW j \in Live(pg) \ {i} PROVE j \in Live(new)
        BY <1>1, <1>2, <1>3, <1>5
    <2>3. QED
        BY <2>1, <2>2
<1>7. \A j \in Live(new) : new.slots[j] = pg.slots[j] /\ j \in Live(pg)
    BY <1>3, <1>5, <1>6
<1>8. DirectoryEnd(Len(new.slots)) <= new.freePtr
    <2>1. DirectoryEnd(n) <= DirectoryEnd(len) /\ DirectoryEnd(n) \in Nat /\ DirectoryEnd(len) \in Nat
        BY <1>1, <1>2, DirectoryFacts
    <2>2. DirectoryEnd(len) <= pg.freePtr
        BY DEF GoodPage, Sound
    <2>3. QED
        BY <1>1, <1>2, <2>1, <2>2
<1>9. ASSUME NEW j \in Live(new) PROVE Holds(new, j, GetTuple(pg, j))
    BY <1>2, <1>7, LiveHolds DEF Holds
<1>10. ASSUME NEW j \in Live(new)
       PROVE  /\ Range0(new.slots[j]) \subseteq new.freePtr..(PAGE_SIZE - 1)
              /\ \E u \in Tuple : Holds(new, j, u)
    BY <1>2, <1>7, <1>9, LiveHolds DEF GoodPage, Sound
<1>11. ASSUME NEW j \in Live(new), NEW k \in Live(new), j # k
       PROVE  Separate(new, j, k)
    BY <1>7, <1>11 DEF GoodPage, Sound, Separate
<1>12. new \in GoodPage
    BY <1>2, <1>8, <1>10, <1>11 DEF GoodPage, Sound
<1>13. \A j \in Live(new) : GetTuple(new, j) = GetTuple(pg, j)
    BY <1>2, <1>9, GetTupleFacts
<1>14. QED
    BY <1>6, <1>12, <1>13 DEF new

-----------------------------------------------------------------------------
(* compact *)

\* A tuple that does not fit leaves the page as it is.
LEMMA InsertTotal ==
    ASSUME NEW pg \in GoodPage, NEW t \in Tuple
    PROVE  InsertTuple(pg, t) \in GoodPage
<1>1. ~Fits(pg, t) => InsertTuple(pg, t) = pg
    BY DEF InsertTuple
<1>2. QED
    BY <1>1, InsertGood

\* One step of compact.
Reinsert(pg, i, to) == IF i \in Live(pg) THEN InsertTuple(to, GetTuple(pg, i)) ELSE to

\* A page that is built by reinserting the tuples of another one is sound.
LEMMA ReinsertedFacts ==
    ASSUME NEW start \in GoodPage, NEW pg \in GoodPage
    PROVE  \E fresh \in [0..Len(pg.slots) -> GoodPage] :
              /\ fresh[0] = start
              /\ \A i \in 1..Len(pg.slots) : fresh[i] = Reinsert(pg, i, fresh[i - 1])
              /\ Reinserted(start, pg) = fresh[Len(pg.slots)]
<1> DEFINE len == Len(pg.slots)
           step == [i \in 1..len |-> [to \in GoodPage |-> Reinsert(pg, i, to)]]
           body(f) == [i \in 0..len |->
                         IF i = 0 THEN start
                         ELSE IF i \in Live(pg) THEN InsertTuple(f[i - 1], GetTuple(pg, i))
                         ELSE f[i - 1]]
           fresh == CHOOSE f : f = body(f)
<1>1. len \in Nat
    BY PageFacts DEF GoodPage
<1>2. Reinserted(start, pg) = fresh[len]
    BY DEF Reinserted
<1>3. step \in [1..len -> [GoodPage -> GoodPage]]
    <2>1. \A i \in 1..len : \A to \in GoodPage : Reinsert(pg, i, to) \in GoodPage
        BY InsertTotal, LiveHolds DEF Reinsert
    <2>2. QED
        BY <2>1
<1>4. \A i \in 1..len, to \in GoodPage : step[i][to] = Reinsert(pg, i, to)
    OBVIOUS
<1> HIDE DEF fresh, body, step, len
<1>5. PICK g : /\ g \in [0..len -> GoodPage]
               /\ g[0] = start
               /\ \A i \in 1..len : g[i] = step[i][g[i - 1]]
    BY <1>1, <1>3, Recursion
<1>6. \A i \in 1..len : g[i] = Reinsert(pg, i, g[i - 1])
    <2>1. \A i \in 1..len : i - 1 \in 0..len
        BY <1>1
    <2>2. QED
        BY <1>4, <1>5, <2>1
<1>7. g = body(g)
    <2>1. \A i \in 0..len : i # 0 => i \in 1..len
        BY <1>1
    <2>2. \A i \in 0..len : body(g)[i] = g[i]
        BY <1>5, <1>6, <2>1 DEF Reinsert, body
    <2>3. QED
        BY <1>5, <2>2 DEF body
<1>8. fresh = body(fresh)
    BY <1>7 DEF fresh
<1>9. /\ fresh[0] = start
      /\ \A i \in 1..len : fresh[i] = Reinsert(pg, i, fresh[i - 1])
    <2>1. 0 \in 0..len /\ \A i \in 1..len : i \in 0..len /\ i # 0
        BY <1>1
    <2>2. \A i \in 0..len : fresh[i] = body(fresh)[i]
        BY <1>8
    <2>3. QED
        BY <2>1, <2>2 DEF body, Reinsert
<1>10. \A m \in 0..len : fresh[m] = g[m]
    <2>1. \A i \in 1..len : fresh[i - 1] = g[i - 1] => fresh[i] = g[i]
        BY <1>6, <1>9
    <2>2. fresh[0] = g[0]
        BY <1>5, <1>9
    <2>3. QED
        BY <1>1, <2>1, <2>2, SameRecursion
<1>11. fresh[len] = g[len]
    BY <1>1, <1>10
<1>12. Reinserted(start, pg) = g[len]
    BY <1>2, <1>11
<1>13. QED
    BY <1>5, <1>6, <1>12 DEF len

\* init_empty_page.
LEMMA EmptyGood == EmptyPage \in GoodPage /\ Live(EmptyPage) = {}
<1>1. /\ EmptyPage.slots = <<>> /\ EmptyPage.freePtr = PAGE_SIZE
      /\ EmptyPage.bytes = [o \in 0..(PAGE_SIZE - 1) |-> Junk]
    BY DEF EmptyPage
<1>2. Len(<<>>) = 0 /\ DOMAIN <<>> = {} /\ <<>> \in Seq(Slot)
    OBVIOUS
<1>3. Live(EmptyPage) = {}
    BY <1>1, <1>2 DEF Live
<1>4. EmptyPage \in PageTypes
    BY <1>2, Constants DEF EmptyPage, PageTypes
<1>5. DirectoryEnd(0) <= PAGE_SIZE
    BY Constants DEF DirectoryEnd
<1>6. QED
    BY <1>1, <1>2, <1>3, <1>4, <1>5 DEF GoodPage, Sound

\* compact, whether or not it has anything to do.
LEMMA CompactGood ==
    ASSUME NEW pg \in GoodPage
    PROVE  CompactPage(pg) \in GoodPage
<1>1. Len(pg.slots) \in Nat
    BY PageFacts DEF GoodPage
<1>2. Reinserted(EmptyPage, pg) \in GoodPage
    BY <1>1, EmptyGood, ReinsertedFacts
<1>3. QED
    BY <1>2 DEF CompactPage

-----------------------------------------------------------------------------
(* The invariants *)

IInv == page \in GoodPage

\* Every operation of the page keeps it well-formed.
LEMMA PageStep == IInv /\ [Next]_page => IInv'
<1> SUFFICES ASSUME page \in GoodPage, [Next]_page PROVE page' \in GoodPage
    BY DEF IInv
<1>1. ASSUME NEW t \in Tuple, Insert(t) PROVE page' \in GoodPage
    BY <1>1, InsertGood DEF Insert
<1>2. ASSUME NEW i, Delete(i) PROVE page' \in GoodPage
    BY <1>2, DeleteGood DEF Delete
<1>3. ASSUME Compact PROVE page' \in GoodPage
    BY <1>3, CompactGood DEF Compact
<1>4. QED
    BY <1>1, <1>2, <1>3 DEF Next

\* A page is well-formed after every sequence of inserts, deletes and compacts.
THEOREM Invariance == Spec => []IInv
<1>1. Init => IInv
    BY EmptyGood DEF Init, IInv
<1>2. QED
    BY <1>1, PageStep, PTL DEF Spec

\* The header, the slot directory and the bytes of a page keep their types.
THEOREM TypeCorrect == Spec => []TypeOK
<1>1. IInv => TypeOK
    BY DEF IInv, GoodPage, PageTypes, Slot, TypeOK
<1>2. QED
    BY <1>1, Invariance, PTL

\* Tuples that get_tuple returns share no byte, and none lies under the slot
\* directory or in the free space (insert_tuple, delete_tuple, compact).
THEOREM Separation == Spec => []NothingOverlaps
<1>1. IInv => NothingOverlaps
    BY LiveHolds DEF IInv, GoodPage, Sound, Separate, NothingOverlaps
<1>2. QED
    BY <1>1, Invariance, PTL

-----------------------------------------------------------------------------
(* The refinement of numbered rows *)

\* The numbered rows that a page stands for.
RowsOf(pg) == [rows |-> [i \in DOMAIN pg.slots |-> IF i \in Live(pg) THEN GetTuple(pg, i)
                                                   ELSE NoRow],
               freePtr |-> pg.freePtr]

\* Both levels use the least and the greatest number of a set.
LEMMA SameMinMax == \A S : Rows!Min(S) = Min(S) /\ Rows!Max(S) = Max(S)
BY DEF Rows!Min, Rows!Max, Min, Max

\* Gaps are tombstones, and both levels see the same free space.
LEMMA RowFacts ==
    ASSUME NEW pg \in GoodPage
    PROVE  /\ RowsOf(pg).freePtr = pg.freePtr
           /\ RowsOf(pg).rows \in Seq(Tuple \cup {NoRow})
           /\ DOMAIN RowsOf(pg).rows = 1..Len(pg.slots)
           /\ Len(RowsOf(pg).rows) = Len(pg.slots)
           /\ \A i \in 1..Len(pg.slots) : RowsOf(pg).rows[i] =
                 IF i \in Live(pg) THEN GetTuple(pg, i) ELSE NoRow
           /\ Rows!Gaps(RowsOf(pg)) = Tombstones(pg)
           /\ Rows!Taken(RowsOf(pg)) = Live(pg)
           /\ \A t \in Tuple : Rows!HasRoom(RowsOf(pg), t) <=> Fits(pg, t)
<1> DEFINE r == RowsOf(pg)
           len == Len(pg.slots)
           e(i) == IF i \in Live(pg) THEN GetTuple(pg, i) ELSE NoRow
<1>1. /\ len \in Nat /\ DOMAIN pg.slots = 1..len /\ Live(pg) \subseteq 1..len
    BY PageFacts DEF GoodPage
<1>2. r.rows = [i \in 1..len |-> e(i)] /\ r.freePtr = pg.freePtr
    BY <1>1 DEF RowsOf
<1>3. \A i \in 1..len : e(i) \in Tuple \cup {NoRow} /\ (e(i) = NoRow <=> i \notin Live(pg))
    BY <1>1, LiveHolds, Constants
<1> HIDE DEF e, r, len
<1>4. r.rows \in Seq(Tuple \cup {NoRow}) /\ Len(r.rows) = len /\ DOMAIN r.rows = 1..len
    BY <1>1, <1>2, <1>3
<1>5. Rows!Gaps(r) = Tombstones(pg)
    BY <1>1, <1>2, <1>3 DEF Rows!Gaps, Tombstones
<1>6. Rows!Taken(r) = Live(pg)
    BY <1>1, <1>4, <1>5 DEF Rows!Taken, Tombstones
<1>7. Rows!FreeSpace(r) = GetFreeSpace(pg)
    BY <1>2, <1>4 DEF Rows!FreeSpace, GetFreeSpace, DirectoryEnd, len
<1>8. \A t : Rows!HasRoom(r, t) <=> Fits(pg, t)
    BY <1>5, <1>7 DEF Rows!HasRoom, Fits, NeededSpace
<1>9. QED
    BY <1>2, <1>4, <1>5, <1>6, <1>8 DEF r, len, e

\* Two pages of rows are the same if they have the same rows and free space.
LEMMA SameRows ==
    ASSUME NEW pg \in GoodPage, NEW rows \in Seq(Tuple \cup {NoRow}),
           Len(rows) = Len(pg.slots),
           \A i \in 1..Len(pg.slots) :
               rows[i] = IF i \in Live(pg) THEN GetTuple(pg, i) ELSE NoRow
    PROVE  RowsOf(pg) = [rows |-> rows, freePtr |-> pg.freePtr]
<1>1. DOMAIN pg.slots = 1..Len(pg.slots) /\ DOMAIN rows = 1..Len(pg.slots)
    BY PageFacts, LenProperties DEF GoodPage
<1>2. rows = [i \in 1..Len(pg.slots) |-> rows[i]]
    BY <1>1
<1>3. rows = [i \in 1..Len(pg.slots) |-> IF i \in Live(pg) THEN GetTuple(pg, i) ELSE NoRow]
    BY <1>2
<1>4. QED
    BY <1>1, <1>3 DEF RowsOf

\* insert_tuple puts the row where the page of rows puts it.
LEMMA InsertRows ==
    ASSUME NEW pg \in GoodPage, NEW t \in Tuple
    PROVE  RowsOf(InsertTuple(pg, t)) = Rows!InsertRow(RowsOf(pg), t)
<1> DEFINE new == InsertTuple(pg, t)
           r   == RowsOf(pg)
           i   == TargetSlot(pg)
           len == Len(pg.slots)
           row(q, j) == IF j \in Live(q) THEN GetTuple(q, j) ELSE NoRow
           rows == IF Tombstones(pg) = {} THEN Append(r.rows, t)
                   ELSE [r.rows EXCEPT ![Min(Tombstones(pg))] = t]
<1>1. CASE ~Fits(pg, t)
    <2>1. new = pg
        BY <1>1 DEF InsertTuple
    <2>2. ~Rows!HasRoom(r, t)
        BY <1>1, RowFacts
    <2>3. QED
        BY <2>1, <2>2 DEF Rows!InsertRow
<1>2. CASE Fits(pg, t)
    <2>1. /\ new \in GoodPage /\ Live(new) = Live(pg) \cup {i} /\ GetTuple(new, i) = t
          /\ \A j \in Live(pg) : j # i /\ GetTuple(new, j) = GetTuple(pg, j)
        BY <1>2, InsertGood
    <2>2. /\ new.freePtr = pg.freePtr - t.size
          /\ Len(new.slots) = IF i <= len THEN len ELSE i
        BY <1>2, InsertedFields
    <2>3. /\ len \in Nat /\ i \in 1..(len + 1)
          /\ Tombstones(pg) = {} => i = len + 1
          /\ Tombstones(pg) # {} => i \in 1..len /\ i = Min(Tombstones(pg))
        BY PageFacts, TargetFacts DEF GoodPage, TargetSlot
    <2>4. /\ r.freePtr = pg.freePtr /\ r.rows \in Seq(Tuple \cup {NoRow})
          /\ Len(r.rows) = len /\ DOMAIN r.rows = 1..len
          /\ \A j \in 1..len : r.rows[j] = row(pg, j)
          /\ Rows!Gaps(r) = Tombstones(pg) /\ Rows!HasRoom(r, t)
        BY <1>2, RowFacts
    <2> HIDE DEF new, r, i, len
    <2>5. Rows!InsertRow(r, t) = [rows |-> rows, freePtr |-> pg.freePtr - t.size]
        BY <2>4, SameMinMax DEF Rows!InsertRow
    <2>6. row(new, i) = t
        BY <2>1
    <2>7. \A j : j # i => row(new, j) = row(pg, j)
        BY <2>1
    <2>8. /\ rows \in Seq(Tuple \cup {NoRow}) /\ Len(rows) = Len(new.slots)
          /\ \A j \in 1..Len(new.slots) : rows[j] = row(new, j)
        <3> HIDE DEF row
        <3>1. CASE Tombstones(pg) = {}
            <4>1. rows = Append(r.rows, t) /\ i = len + 1 /\ Len(new.slots) = len + 1
                BY <2>2, <2>3, <3>1
            <4>2. /\ rows \in Seq(Tuple \cup {NoRow}) /\ Len(rows) = len + 1
                  /\ \A j \in 1..len : rows[j] = r.rows[j]
                  /\ rows[len + 1] = t
                BY <2>4, <4>1, AppendFacts
            <4>3. \A j \in 1..(len + 1) : rows[j] = row(new, j)
                BY <2>3, <2>4, <2>6, <2>7, <4>1, <4>2
            <4>4. QED
                BY <4>1, <4>2, <4>3
        <3>2. CASE Tombstones(pg) # {}
            <4>1. rows = [r.rows EXCEPT ![i] = t] /\ i \in 1..len /\ Len(new.slots) = len
                BY <2>2, <2>3, <3>2
            <4>2. rows \in Seq(Tuple \cup {NoRow}) /\ Len(rows) = len
                BY <2>4, <4>1, ExceptSeq
            <4>3. \A j \in 1..len : rows[j] = row(new, j)
                BY <2>4, <2>6, <2>7, <4>1
            <4>4. QED
                BY <4>1, <4>2, <4>3
        <3>3. QED
            BY <3>1, <3>2
    <2>9. RowsOf(new) = [rows |-> rows, freePtr |-> new.freePtr]
        <3> HIDE DEF rows
        <3>1. QED
            BY <2>1, <2>8, SameRows
    <2>10. QED
        BY <2>2, <2>5, <2>9 DEF new, r
<1>3. QED
    BY <1>1, <1>2

\* delete_tuple gives up the same gaps.
LEMMA DeleteRows ==
    ASSUME NEW pg \in GoodPage, NEW i \in Live(pg)
    PROVE  RowsOf(DeleteTuple(pg, i)) = Rows!DeleteRow(RowsOf(pg), i)
<1> DEFINE new == DeleteTuple(pg, i)
           r   == RowsOf(pg)
           n   == Max({0} \cup (Live(pg) \ {i}))
           rows == [j \in 1..n |-> IF j = i THEN NoRow ELSE r.rows[j]]
<1>1. /\ new \in GoodPage /\ Live(new) = Live(pg) \ {i}
      /\ \A j \in Live(new) : GetTuple(new, j) = GetTuple(pg, j)
    BY DeleteGood
<1>2. new.freePtr = pg.freePtr /\ Len(new.slots) = n /\ n \in 0..Len(pg.slots)
    BY DeletedFields
<1>3. /\ r.freePtr = pg.freePtr /\ r.rows \in Seq(Tuple \cup {NoRow})
      /\ DOMAIN r.rows = 1..Len(pg.slots) /\ Len(pg.slots) \in Nat
      /\ \A j \in 1..Len(pg.slots) : r.rows[j] = IF j \in Live(pg) THEN GetTuple(pg, j) ELSE NoRow
      /\ Rows!Taken(r) = Live(pg)
    BY RowFacts, PageFacts DEF GoodPage
<1>4. r = [rows |-> r.rows, freePtr |-> r.freePtr]
    BY DEF RowsOf
<1>5. Rows!DeleteRow(r, i) = [r EXCEPT !.rows = rows]
    BY <1>3, SameMinMax DEF Rows!DeleteRow
<1> HIDE DEF n, new, r
<1>6. \A j \in 1..n : j \in 1..Len(pg.slots)
    BY <1>2, <1>3
<1>7. \A j \in 1..n : rows[j] = IF j \in Live(new) THEN GetTuple(new, j) ELSE NoRow
    BY <1>1, <1>3, <1>6
<1>8. rows \in Seq(Tuple \cup {NoRow}) /\ Len(rows) = n
    <2> DEFINE e(j) == IF j = i THEN NoRow ELSE r.rows[j]
    <2>1. \A j \in 1..n : e(j) \in Tuple \cup {NoRow}
        BY <1>3, <1>6, ElementOfSeq
    <2>2. rows = [j \in 1..n |-> e(j)] /\ n \in Nat
        BY <1>2, <1>3
    <2> HIDE DEF e, rows
    <2>3. QED
        BY <2>1, <2>2
<1> HIDE DEF rows
<1>9. RowsOf(new) = [rows |-> rows, freePtr |-> pg.freePtr]
    BY <1>1, <1>2, <1>7, <1>8, SameRows
<1>10. [r EXCEPT !.rows = rows] = [rows |-> rows, freePtr |-> r.freePtr]
    BY <1>4
<1>11. QED
    BY <1>3, <1>5, <1>9, <1>10 DEF new, r

\* The empty page has no rows.
LEMMA EmptyRows == RowsOf(EmptyPage) = Rows!NoRows
<1>1. EmptyPage.slots = <<>> /\ EmptyPage.freePtr = PAGE_SIZE
    BY DEF EmptyPage
<1>2. <<>> \in Seq(Tuple \cup {NoRow}) /\ Len(<<>>) = 0 /\ 1..0 = {}
    OBVIOUS
<1>3. RowsOf(EmptyPage) = [rows |-> <<>>, freePtr |-> PAGE_SIZE]
    BY <1>1, <1>2, EmptyGood, SameRows
<1>4. QED
    BY <1>3 DEF Rows!NoRows

\* compact closes up the same rows: it inserts them one by one on both levels.
LEMMA CompactRowsRefined ==
    ASSUME NEW pg \in GoodPage
    PROVE  RowsOf(CompactPage(pg)) = Rows!CompactRows(RowsOf(pg))
<1> DEFINE r   == RowsOf(pg)
           len == Len(pg.slots)
           n   == Len(r.rows)
           body(f) == [i \in 0..n |->
                         IF i = 0 THEN Rows!NoRows
                         ELSE IF i \in Rows!Taken(r) THEN Rows!InsertRow(f[i - 1], r.rows[i])
                         ELSE f[i - 1]]
           closed == CHOOSE f : f = body(f)
<1>1. /\ n = len /\ len \in Nat
      /\ Rows!Taken(r) = Live(pg) /\ Rows!Gaps(r) = Tombstones(pg)
      /\ \A i \in Live(pg) : i \in 1..len /\ r.rows[i] = GetTuple(pg, i)
    BY RowFacts, PageFacts DEF GoodPage
<1>2. Rows!CompactRows(r) = IF Rows!Gaps(r) = {} THEN r ELSE closed[n]
    BY DEF Rows!CompactRows
<1> HIDE DEF r, len, n, closed, body
<1>3. PICK fresh \in [0..len -> GoodPage] :
          /\ fresh[0] = EmptyPage
          /\ \A i \in 1..len : fresh[i] = Reinsert(pg, i, fresh[i - 1])
          /\ Reinserted(EmptyPage, pg) = fresh[len]
    BY EmptyGood, ReinsertedFacts DEF len
<1> DEFINE g == [i \in 0..len |-> RowsOf(fresh[i])]
<1>4. ASSUME NEW i \in 1..len
      PROVE  g[i] = IF i \in Live(pg) THEN Rows!InsertRow(g[i - 1], r.rows[i]) ELSE g[i - 1]
    <2>1. i - 1 \in 0..len /\ i \in 0..len /\ fresh[i - 1] \in GoodPage
        BY <1>1, <1>3
    <2>2. g[i] = RowsOf(fresh[i]) /\ g[i - 1] = RowsOf(fresh[i - 1])
        BY <2>1
    <2>3. fresh[i] = Reinsert(pg, i, fresh[i - 1])
        BY <1>3
    <2> HIDE DEF g
    <2>4. CASE i \in Live(pg)
        BY <1>1, <2>1, <2>2, <2>3, <2>4, InsertRows, LiveHolds DEF Reinsert
    <2>5. CASE i \notin Live(pg)
        BY <2>2, <2>3, <2>5 DEF Reinsert
    <2>6. QED
        BY <2>4, <2>5
<1>5. g[0] = Rows!NoRows
    BY <1>1, <1>3, EmptyRows
<1>6. DOMAIN g = 0..len /\ g = [i \in 0..len |-> g[i]]
    OBVIOUS
<1>7. g[len] = RowsOf(fresh[len])
    BY <1>1
<1> HIDE DEF g
<1>8. g = body(g)
    <2>1. \A i \in 0..len : i # 0 => i \in 1..len
        BY <1>1
    <2>2. \A i \in 0..len : body(g)[i] = g[i]
        BY <1>1, <1>4, <1>5, <2>1 DEF body
    <2>3. QED
        BY <1>1, <1>6, <2>2 DEF body
<1>9. closed = body(closed)
    BY <1>8 DEF closed
<1>10. \A m \in 0..len : closed[m] = g[m]
    <2>1. 0 \in 0..len /\ \A i \in 1..len : i \in 0..len /\ i # 0
        BY <1>1
    <2>2. \A i \in 0..len : closed[i] = body(closed)[i]
        BY <1>9
    <2>3. /\ closed[0] = g[0]
          /\ \A i \in 1..len : closed[i] = IF i \in Live(pg)
                                           THEN Rows!InsertRow(closed[i - 1], r.rows[i])
                                           ELSE closed[i - 1]
        BY <1>1, <1>5, <2>1, <2>2 DEF body
    <2>4. \A i \in 1..len : closed[i - 1] = g[i - 1] => closed[i] = g[i]
        BY <1>4, <2>3
    <2>5. closed[0] = g[0]
        BY <2>3
    <2>6. QED
        BY <1>1, <2>4, <2>5, SameRecursion
<1>11. closed[n] = RowsOf(fresh[len])
    BY <1>1, <1>7, <1>10
<1>12. QED
    BY <1>1, <1>2, <1>3, <1>11 DEF CompactPage, r

\* Every operation on the bytes is the operation on the rows.
LEMMA RowsStep ==
    ASSUME IInv, [Next]_page
    PROVE  [Rows!Next]_(RowsOf(page))
<1>0. page \in GoodPage
    BY DEF IInv
<1>1. ASSUME NEW t \in Tuple, Insert(t) PROVE Rows!Insert(t)
    <2>1. Fits(page, t) /\ page' = InsertTuple(page, t)
        BY <1>1 DEF Insert
    <2>2. Rows!HasRoom(RowsOf(page), t)
        BY <1>0, <2>1, RowFacts
    <2>3. RowsOf(page') = Rows!InsertRow(RowsOf(page), t)
        BY <1>0, <2>1, InsertRows
    <2>4. QED
        BY <2>2, <2>3 DEF Rows!Insert, RowsOf
<1>2. ASSUME NEW i \in 1..Len(page.slots), Delete(i)
      PROVE  Rows!Delete(i) /\ i \in 1..Len(RowsOf(page).rows)
    BY <1>0, <1>2, DeleteRows, RowFacts DEF Delete, Rows!Delete, RowsOf
<1>3. ASSUME Compact PROVE Rows!Compact
    BY <1>0, <1>3, CompactRowsRefined DEF Compact, Rows!Compact, RowsOf
<1>4. CASE UNCHANGED page
    BY <1>4 DEF RowsOf
<1>5. QED
    BY <1>1, <1>2, <1>3, <1>4 DEF Next, Rows!Next, RowsOf

\* The page of bytes implements the list of rows that get_tuple can return: the
\* other rows keep their slots and their content in every operation.
THEOREM Refinement == Spec => ImplementsRows
<1>1. Init => Rows!Init
    BY EmptyRows DEF Init, Rows!Init, RowsOf
<1>2. QED
    BY <1>1, RowsStep, Invariance, PTL DEF Spec, ImplementsRows, Rows!Spec, RowsOf

-----------------------------------------------------------------------------
(* The bytes of tuples, and what compact gives back *)

\* sum[i] is the length of the slots up to i.
Sums(pg, sum) ==
    /\ sum \in [0..Len(pg.slots) -> Nat]
    /\ sum[0] = 0
    /\ \A i \in 1..Len(pg.slots) : sum[i] = sum[i - 1] + pg.slots[i].length

\* SumOver adds up the lengths.
LEMMA SumExists ==
    ASSUME NEW pg \in PageTypes
    PROVE  \E sum : Sums(pg, sum) /\ SumOver(pg) = sum[Len(pg.slots)]
<1> DEFINE len == Len(pg.slots)
           step == [i \in 1..len |-> [s \in Nat |-> s + pg.slots[i].length]]
           body(f) == [i \in 0..len |-> IF i = 0 THEN 0 ELSE f[i - 1] + pg.slots[i].length]
           total == CHOOSE f : f = body(f)
           N == Nat
<1>1. len \in Nat /\ \A i \in 1..len : pg.slots[i].length \in Nat
    BY PageFacts
<1>2. SumOver(pg) = total[len]
    BY DEF SumOver
<1>3. step \in [1..len -> [N -> N]] /\ 0 \in N
    BY <1>1
<1>4. \A i \in 1..len, s \in Nat : step[i][s] = s + pg.slots[i].length
    OBVIOUS
<1> HIDE DEF total, body, step, len, N
<1>5. PICK g : /\ g \in [0..len -> N]
               /\ g[0] = 0
               /\ \A i \in 1..len : g[i] = step[i][g[i - 1]]
    BY <1>1, <1>3, Recursion
<1> USE DEF N
<1>6. \A i \in 1..len : g[i] = g[i - 1] + pg.slots[i].length
    <2>1. \A i \in 1..len : i - 1 \in 0..len
        BY <1>1
    <2>2. QED
        BY <1>4, <1>5, <2>1
<1>7. g = body(g)
    <2>1. \A i \in 0..len : i # 0 => i \in 1..len
        BY <1>1
    <2>2. \A i \in 0..len : body(g)[i] = g[i]
        BY <1>5, <1>6, <2>1 DEF body
    <2>3. QED
        BY <1>5, <2>2 DEF body
<1>8. total = body(total)
    BY <1>7 DEF total
<1>9. /\ total[0] = 0
      /\ \A i \in 1..len : total[i] = total[i - 1] + pg.slots[i].length
    <2>1. 0 \in 0..len /\ \A i \in 1..len : i \in 0..len /\ i # 0
        BY <1>1
    <2>2. \A i \in 0..len : total[i] = body(total)[i]
        BY <1>8
    <2>3. QED
        BY <2>1, <2>2 DEF body
<1>10. \A m \in 0..len : total[m] = g[m]
    <2>1. \A i \in 1..len : total[i - 1] = g[i - 1] => total[i] = g[i]
        BY <1>6, <1>9
    <2>2. total[0] = g[0]
        BY <1>5, <1>9
    <2>3. len \in Nat
        BY <1>1
    <2>4. QED
        BY <2>1, <2>2, <2>3, SameRecursion
<1>11. SumOver(pg) = g[len]
    BY <1>1, <1>2, <1>10
<1>12. Sums(pg, g)
    BY <1>5, <1>6 DEF Sums, len
<1>13. QED
    BY <1>11, <1>12 DEF len

\* Whatever adds up the lengths is what SumOver adds up.
LEMMA SumIs ==
    ASSUME NEW pg \in PageTypes, NEW sum, Sums(pg, sum)
    PROVE  SumOver(pg) = sum[Len(pg.slots)] /\ SumOver(pg) \in Nat
<1> DEFINE len == Len(pg.slots)
<1>1. PICK g : Sums(pg, g) /\ SumOver(pg) = g[len]
    BY SumExists
<1>2. len \in Nat
    BY PageFacts
<1>3. g[0] = sum[0] /\ \A i \in 1..len : g[i - 1] = sum[i - 1] => g[i] = sum[i]
    BY <1>1 DEF Sums
<1> HIDE DEF len
<1>4. \A m \in 0..len : g[m] = sum[m]
    <2>1. g[0] = sum[0]
        BY <1>3
    <2>2. \A i \in 1..len : g[i - 1] = sum[i - 1] => g[i] = sum[i]
        BY <1>3
    <2>3. QED
        BY <1>2, <2>1, <2>2, SameRecursion
<1>5. len \in 0..len
    BY <1>2
<1>6. sum[len] \in Nat
    BY <1>5 DEF Sums, len
<1>7. QED
    BY <1>1, <1>4, <1>5, <1>6 DEF len

\* Longer prefixes have longer tuples.
LEMMA SumsGrow ==
    ASSUME NEW pg \in PageTypes, NEW sum, Sums(pg, sum), NEW n \in 0..Len(pg.slots)
    PROVE  sum[n] <= sum[Len(pg.slots)]
<1> DEFINE len == Len(pg.slots)
           P == {k \in 0..(len - n) : sum[n] <= sum[n + k]}
<1>1. len \in Nat /\ \A i \in 1..len : pg.slots[i].length \in Nat
    BY PageFacts
<1>2. /\ \A i \in 0..len : sum[i] \in Nat
      /\ \A i \in 1..len : sum[i] = sum[i - 1] + pg.slots[i].length
    BY DEF Sums
<1> HIDE DEF len
<1>3. n \in 0..len /\ n \in Nat /\ len - n \in Nat
    BY <1>1 DEF len
<1>4. 0 \in P
    BY <1>1, <1>2, <1>3
<1>5. ASSUME NEW k \in 0..(len - n), k \in P, k < len - n PROVE k + 1 \in P
    <2>0. /\ k \in Nat /\ n \in Nat /\ len \in Nat /\ k < len - n /\ sum[n] <= sum[n + k]
        BY <1>1, <1>3, <1>5
    <2> HIDE DEF P
    <2>1. n + k \in 0..len /\ n + (k + 1) \in 1..len /\ (n + (k + 1)) - 1 = n + k
          /\ n + (k + 1) \in 0..len /\ k + 1 \in 0..(len - n)
        BY <2>0
    <2>2. sum[n + (k + 1)] = sum[n + k] + pg.slots[n + (k + 1)].length
        BY <1>2, <2>1
    <2>3. sum[n] \in Nat /\ sum[n + k] \in Nat /\ pg.slots[n + (k + 1)].length \in Nat
        BY <1>1, <1>2, <1>3, <2>1
    <2>4. sum[n] <= sum[n + (k + 1)]
        BY <2>0, <2>2, <2>3
    <2>5. QED
        BY <2>1, <2>4 DEF P
<1>6. \A k \in 0..(len - n) : k \in P /\ k < len - n => k + 1 \in P
    BY <1>5
<1>7. len - n \in 0..(len - n)
    BY <1>3
<1> HIDE DEF P
<1>8. len - n \in P
    BY <1>3, <1>4, <1>6, <1>7, Induction
<1>9. n + (len - n) = len
    BY <1>1, <1>3
<1>10. QED
    BY <1>8, <1>9 DEF P, len

\* insert_tuple adds the length of the tuple: the slot it takes had none.
LEMMA InsertSum ==
    ASSUME NEW pg \in GoodPage, NEW t \in Tuple, Fits(pg, t)
    PROVE  SumOver(InsertTuple(pg, t)) = SumOver(pg) + t.size
<1> DEFINE new  == InsertTuple(pg, t)
           i    == TargetSlot(pg)
           len  == Len(pg.slots)
           n    == Len(new.slots)
           slot == [offset |-> pg.freePtr - t.size, length |-> t.size]
<1>1. /\ pg \in PageTypes /\ len \in Nat
      /\ \A j \in 1..len : pg.slots[j].length \in Nat
                           /\ (j \in Live(pg) <=> pg.slots[j].length > 0)
    BY PageFacts DEF GoodPage
<1>2. /\ new \in PageTypes /\ n = IF i <= len THEN len ELSE i
      /\ \A j \in 1..n : new.slots[j] = IF j = i THEN slot ELSE pg.slots[j]
    BY InsertedFields
<1>3. i \in 1..(len + 1) /\ i \notin Live(pg)
    BY <1>1, TargetFacts
<1>4. t.size \in Nat /\ slot.length = t.size
    BY Constants
<1>5. PICK sum : Sums(pg, sum) /\ SumOver(pg) = sum[len]
    BY <1>1, SumExists
<1>6. /\ sum[0] = 0 /\ \A j \in 0..len : sum[j] \in Nat
      /\ \A j \in 1..len : sum[j] = sum[j - 1] + pg.slots[j].length
    BY <1>5 DEF Sums
<1> DEFINE last(m) == IF m <= len THEN m ELSE len
           s == [m \in 0..n |-> IF m < i THEN sum[m] ELSE sum[last(m)] + t.size]
<1> HIDE DEF new, i, len, n, slot
<1>7. n \in Nat /\ n \in len..(len + 1) /\ i \in 1..n /\ (n > len => i = n)
    BY <1>1, <1>2, <1>3
<1>8. \A m \in 0..n : last(m) \in 0..len /\ (m < i => m \in 0..len)
    BY <1>1, <1>7
<1>9. s \in [0..n -> Nat] /\ s[0] = 0
    BY <1>4, <1>6, <1>7, <1>8
<1>10. ASSUME NEW j \in 1..n PROVE s[j] = s[j - 1] + new.slots[j].length
    <2>1. j \in 0..n /\ j - 1 \in 0..n /\ j \in Nat
        BY <1>7
    <2>2. CASE j < i
        <3>1. j \in 1..len /\ j - 1 < i
            BY <1>1, <1>7, <2>1, <2>2
        <3>2. s[j] = sum[j] /\ s[j - 1] = sum[j - 1] /\ new.slots[j] = pg.slots[j]
            BY <1>2, <2>1, <2>2, <3>1
        <3>3. QED
            BY <1>6, <3>1, <3>2
    <2>3. CASE j = i
        <3>1. s[j - 1] = sum[i - 1] /\ s[j] = sum[last(i)] + t.size
            BY <1>7, <2>1, <2>3
        <3>2. new.slots[j].length = t.size
            BY <1>2, <1>4, <2>3
        <3>3. sum[last(i)] = sum[i - 1] /\ sum[i - 1] \in Nat
            <4>1. CASE i <= len
                <5>1. i \in 1..len /\ pg.slots[i].length = 0 /\ i - 1 \in 0..len
                    BY <1>1, <1>3, <4>1
                <5>2. QED
                    BY <1>6, <4>1, <5>1
            <4>2. CASE i = len + 1
                BY <1>1, <1>6, <4>2
            <4>3. QED
                BY <1>1, <1>3, <4>1, <4>2
        <3>4. QED
            BY <1>4, <3>1, <3>2, <3>3
    <2>4. CASE j > i
        <3>1. j \in 1..len /\ j - 1 \in 0..len /\ ~(j - 1 < i) /\ ~(j < i)
            BY <1>1, <1>7, <2>1, <2>4
        <3>2. s[j] = sum[j] + t.size /\ s[j - 1] = sum[j - 1] + t.size
            BY <1>1, <2>1, <3>1
        <3>3. new.slots[j] = pg.slots[j]
            BY <1>2, <1>7, <2>4
        <3>4. sum[j - 1] \in Nat /\ pg.slots[j].length \in Nat
              /\ sum[j] = sum[j - 1] + pg.slots[j].length
            BY <1>1, <1>6, <3>1
        <3>5. QED
            BY <1>4, <3>2, <3>3, <3>4
    <2>5. QED
        BY <1>7, <2>1, <2>2, <2>3, <2>4
<1>11. s[n] = sum[len] + t.size
    <2>1. n \in 0..n /\ ~(n < i) /\ last(n) = len
        BY <1>1, <1>7
    <2>2. QED
        BY <2>1
<1> HIDE DEF s
<1>12. Sums(new, s)
    BY <1>9, <1>10 DEF Sums, n
<1>13. SumOver(new) = s[n]
    BY <1>2, <1>12, SumIs DEF n
<1>14. QED
    BY <1>5, <1>11, <1>13 DEF new

\* delete_tuple adds no length.
LEMMA DeleteSum ==
    ASSUME NEW pg \in GoodPage, NEW i \in Live(pg)
    PROVE  SumOver(DeleteTuple(pg, i)) <= SumOver(pg)
<1> DEFINE new == DeleteTuple(pg, i)
           len == Len(pg.slots)
           n   == Len(new.slots)
<1>1. /\ pg \in PageTypes /\ len \in Nat
      /\ \A j \in 1..len : pg.slots[j] \in Slot /\ pg.slots[j].length \in Nat
    BY PageFacts DEF GoodPage
<1>2. /\ new \in PageTypes /\ n \in 0..len
      /\ \A j \in 1..n : new.slots[j] = IF j = i THEN [pg.slots[j] EXCEPT !.length = 0]
                                        ELSE pg.slots[j]
    <2> DEFINE k == Max({0} \cup (Live(pg) \ {i}))
    <2>1. /\ new \in PageTypes /\ Len(new.slots) = k /\ k \in 0..Len(pg.slots)
          /\ \A j \in 1..k : new.slots[j] = IF j = i THEN [pg.slots[j] EXCEPT !.length = 0]
                                            ELSE pg.slots[j]
        BY DeletedFields
    <2> HIDE DEF k, new
    <2>2. QED
        BY <2>1
<1>3. \A j \in 1..n : /\ new.slots[j].length \in Nat
                      /\ new.slots[j].length <= pg.slots[j].length
    <2> HIDE DEF new, len, n
    <2>1. \A s \in Slot : [s EXCEPT !.length = 0].length = 0
        BY DEF Slot
    <2>2. \A j \in 1..n : j \in 1..len
        BY <1>1, <1>2
    <2>3. ASSUME NEW j \in 1..n
          PROVE  new.slots[j].length = 0 \/ new.slots[j] = pg.slots[j]
        BY <1>1, <1>2, <2>1, <2>2
    <2>4. QED
        BY <1>1, <2>2, <2>3
<1>4. PICK old : Sums(pg, old) /\ SumOver(pg) = old[len]
    BY <1>1, SumExists
<1>5. PICK sum : Sums(new, sum) /\ SumOver(new) = sum[n]
    BY <1>2, SumExists
<1>6. old[n] <= old[len]
    BY <1>1, <1>2, <1>4, SumsGrow
<1>7. /\ old[0] = 0 /\ \A j \in 0..len : old[j] \in Nat
      /\ \A j \in 1..len : old[j] = old[j - 1] + pg.slots[j].length
    BY <1>4 DEF Sums
<1>8. /\ sum[0] = 0 /\ \A j \in 0..n : sum[j] \in Nat
      /\ \A j \in 1..n : sum[j] = sum[j - 1] + new.slots[j].length
    BY <1>5 DEF Sums
<1> DEFINE P == {m \in 0..n : sum[m] <= old[m]}
<1> HIDE DEF new, len, n
<1>9. 0 \in P
    BY <1>1, <1>2, <1>7, <1>8
<1>10. ASSUME NEW m \in 0..n, m \in P, m < n PROVE m + 1 \in P
    <2>1. /\ m + 1 \in 1..n /\ m + 1 \in 1..len /\ (m + 1) - 1 = m /\ m + 1 \in 0..n
          /\ m \in 0..len
        BY <1>1, <1>2, <1>10
    <2>2. /\ sum[m + 1] = sum[m] + new.slots[m + 1].length
          /\ old[m + 1] = old[m] + pg.slots[m + 1].length
        BY <1>7, <1>8, <2>1
    <2>3. /\ sum[m] \in Nat /\ old[m] \in Nat /\ sum[m] <= old[m]
          /\ new.slots[m + 1].length \in Nat /\ pg.slots[m + 1].length \in Nat
          /\ new.slots[m + 1].length <= pg.slots[m + 1].length
        BY <1>1, <1>3, <1>7, <1>8, <1>10, <2>1
    <2>4. sum[m + 1] <= old[m + 1]
        BY <2>2, <2>3
    <2>5. QED
        BY <2>1, <2>4
<1>11. \A m \in 0..n : m \in P /\ m < n => m + 1 \in P
    BY <1>10
<1>12. n \in Nat /\ n \in 0..n
    BY <1>1, <1>2
<1> HIDE DEF P
<1>13. n \in P
    BY <1>9, <1>11, <1>12, Induction
<1>14. sum[n] <= old[n] /\ sum[n] \in Nat /\ old[n] \in Nat /\ old[len] \in Nat
    BY <1>1, <1>2, <1>7, <1>8, <1>12, <1>13 DEF P
<1>15. SumOver(new) <= SumOver(pg)
    BY <1>4, <1>5, <1>6, <1>14
<1>16. QED
    BY <1>15 DEF new

\* No tuple was ever given more bytes than insert_tuple took from the free
\* space.  This is what compact relies on when it ignores that a tuple may not
\* fit.
Counted(pg) == SumOver(pg) <= PAGE_SIZE - pg.freePtr

\* A page that compact has filled with tuples of `sum` bytes, from m slots.
Filled(pg, sum, m) ==
    /\ Tombstones(pg) = {}
    /\ Len(pg.slots) <= m
    /\ pg.freePtr = PAGE_SIZE - sum
    /\ SumOver(pg) = sum

\* compact starts with an empty page.
LEMMA EmptyFilled == Filled(EmptyPage, 0, 0)
<1>1. /\ EmptyPage.slots = <<>> /\ EmptyPage.freePtr = PAGE_SIZE
      /\ Len(<<>>) = 0 /\ DOMAIN <<>> = {} /\ 1..0 = {}
    BY DEF EmptyPage
<1>2. EmptyPage \in PageTypes
    BY EmptyGood DEF GoodPage
<1>3. Sums(EmptyPage, [i \in 0..0 |-> 0])
    BY <1>1 DEF Sums
<1>4. SumOver(EmptyPage) = 0
    BY <1>1, <1>2, <1>3, SumIs
<1>5. QED
    BY <1>1, <1>4, Constants DEF Filled, Tombstones

\* insert_tuple does not refuse a tuple that is known to fit, and makes no hole.
LEMMA FillOne ==
    ASSUME NEW pg \in GoodPage, NEW t \in Tuple, NEW sum \in Nat, NEW m \in Nat,
           Filled(pg, sum, m), DirectoryEnd(m + 1) <= PAGE_SIZE - (sum + t.size)
    PROVE  Filled(InsertTuple(pg, t), sum + t.size, m + 1)
<1> DEFINE new == InsertTuple(pg, t)
           len == Len(pg.slots)
<1>1. /\ pg \in PageTypes /\ len \in Nat /\ Live(pg) \subseteq 1..len
      /\ DOMAIN pg.slots = 1..len
    BY PageFacts DEF GoodPage
<1>2. /\ Tombstones(pg) = {} /\ len <= m
      /\ pg.freePtr = PAGE_SIZE - sum /\ SumOver(pg) = sum
    BY DEF Filled
<1>3. /\ t.size \in Nat /\ SLOT_SIZE \in Nat /\ PAGE_SIZE \in Nat
    BY Constants
<1>4. /\ DirectoryEnd(len + 1) <= DirectoryEnd(m + 1)
      /\ DirectoryEnd(len + 1) = DirectoryEnd(len) + SLOT_SIZE
      /\ DirectoryEnd(len) \in Nat /\ DirectoryEnd(m + 1) \in Nat
    <2>1. m + 1 \in Nat /\ len + 1 \in 0..(m + 1)
        BY <1>1, <1>2
    <2>2. QED
        BY <1>1, <2>1, DirectoryFacts
<1>5. GetFreeSpace(pg) = pg.freePtr - DirectoryEnd(len)
    <2>1. DirectoryEnd(len) <= pg.freePtr
        BY <1>2, <1>3, <1>4
    <2>2. QED
        BY <1>2, <1>3, <1>4, <2>1 DEF GetFreeSpace
<1>6. Fits(pg, t)
    <2>1. NeededSpace(pg, t) = t.size + SLOT_SIZE
        BY <1>2 DEF NeededSpace
    <2>2. QED
        BY <1>2, <1>3, <1>4, <1>5, <2>1 DEF Fits
<1>7. TargetSlot(pg) = len + 1
    BY <1>1, <1>2, TargetFacts
<1>8. /\ new.freePtr = pg.freePtr - t.size /\ Len(new.slots) = len + 1
      /\ Live(new) = Live(pg) \cup {len + 1} /\ new \in GoodPage
    <2> DEFINE i == TargetSlot(pg)
    <2>1. /\ new.freePtr = pg.freePtr - t.size
          /\ Len(new.slots) = IF i <= len THEN len ELSE i
        BY <1>6, InsertedFields
    <2>2. Live(new) = Live(pg) \cup {i} /\ new \in GoodPage
        BY <1>6, InsertGood
    <2> HIDE DEF new, len, i
    <2>3. i = len + 1
        BY <1>7 DEF i
    <2>4. QED
        BY <1>1, <2>1, <2>2, <2>3
<1>9. SumOver(new) = sum + t.size
    BY <1>2, <1>6, InsertSum
<1> HIDE DEF new, len
<1>10. DOMAIN new.slots = 1..(len + 1) /\ Live(pg) = 1..len
    BY <1>1, <1>2, <1>8, PageFacts DEF GoodPage, Tombstones
<1>11. Tombstones(new) = {}
    BY <1>1, <1>8, <1>10 DEF Tombstones
<1>12. Filled(new, sum + t.size, m + 1)
    BY <1>1, <1>2, <1>3, <1>8, <1>9, <1>11 DEF Filled
<1>13. QED
    BY <1>12 DEF new

\* compact finds room for every tuple.
LEMMA CompactFills ==
    ASSUME NEW pg \in GoodPage, Counted(pg)
    PROVE  Filled(Reinserted(EmptyPage, pg), SumOver(pg), Len(pg.slots))
<1> DEFINE len == Len(pg.slots)
<1>1. /\ pg \in PageTypes /\ len \in Nat
      /\ \A j \in 1..len : pg.slots[j].length \in Nat
                           /\ (j \in Live(pg) <=> pg.slots[j].length > 0)
      /\ pg.freePtr \in Nat
    BY PageFacts DEF GoodPage
<1>2. PICK sum : Sums(pg, sum) /\ SumOver(pg) = sum[len]
    BY <1>1, SumExists
<1>3. /\ sum[0] = 0 /\ \A j \in 0..len : sum[j] \in Nat
      /\ \A j \in 1..len : sum[j] = sum[j - 1] + pg.slots[j].length
    BY <1>2 DEF Sums
<1>4. \A j \in 0..len : sum[j] <= PAGE_SIZE - pg.freePtr
    <2>1. \A j \in 0..len : sum[j] <= sum[len]
        BY <1>1, <1>2, SumsGrow
    <2>2. sum[len] <= PAGE_SIZE - pg.freePtr /\ sum[len] \in Nat
        BY <1>1, <1>2, <1>3 DEF Counted
    <2>3. QED
        BY <1>1, <1>3, <2>1, <2>2, Constants
<1>5. \A j \in 0..len : DirectoryEnd(j) <= pg.freePtr
    <2>1. \A j \in 0..len : DirectoryEnd(j) \in Nat
        BY <1>1, DirectoryFacts
    <2>2. \A j \in 0..len : DirectoryEnd(j) <= DirectoryEnd(len)
        BY <1>1, DirectoryFacts
    <2>3. DirectoryEnd(len) <= pg.freePtr /\ len \in 0..len
        BY <1>1 DEF GoodPage, Sound
    <2> HIDE DEF len
    <2>4. QED
        BY <1>1, <2>1, <2>2, <2>3
<1>6. PICK fresh : /\ fresh \in [0..len -> GoodPage]
                   /\ fresh[0] = EmptyPage
                   /\ \A i \in 1..len : fresh[i] = Reinsert(pg, i, fresh[i - 1])
                   /\ Reinserted(EmptyPage, pg) = fresh[len]
    BY EmptyGood, ReinsertedFacts
<1> DEFINE P == {m \in 0..len : Filled(fresh[m], sum[m], m)}
<1> HIDE DEF len
<1>7. 0 \in P
    BY <1>1, <1>3, <1>6, EmptyFilled
<1>8. ASSUME NEW m \in 0..len, m \in P, m < len PROVE m + 1 \in P
    <2> DEFINE j == m + 1
               t == GetTuple(pg, j)
    <2>1. j \in 1..len /\ j - 1 = m /\ j \in 0..len /\ m \in Nat
        BY <1>1, <1>8
    <2>2. /\ fresh[j] = Reinsert(pg, j, fresh[m]) /\ fresh[m] \in GoodPage
          /\ sum[j] = sum[m] + pg.slots[j].length
          /\ sum[m] \in Nat /\ pg.slots[j].length \in Nat
          /\ sum[j] <= PAGE_SIZE - pg.freePtr
          /\ DirectoryEnd(j) <= pg.freePtr /\ DirectoryEnd(j) \in Nat
        <3>1. DirectoryEnd(j) \in Nat
            BY <2>1, DirectoryFacts
        <3>2. fresh[j] = Reinsert(pg, j, fresh[j - 1]) /\ fresh[m] \in GoodPage
            BY <1>6, <1>8, <2>1
        <3>3. sum[j] = sum[j - 1] + pg.slots[j].length /\ sum[m] \in Nat
            BY <1>3, <1>8, <2>1
        <3>4. pg.slots[j].length \in Nat
            BY <1>1, <2>1
        <3>5. sum[j] <= PAGE_SIZE - pg.freePtr /\ DirectoryEnd(j) <= pg.freePtr
            BY <1>4, <1>5, <2>1
        <3> HIDE DEF j
        <3>6. QED
            BY <2>1, <3>1, <3>2, <3>3, <3>4, <3>5
    <2>3. Filled(fresh[m], sum[m], m)
        BY <1>8
    <2>4. CASE j \in Live(pg)
        <3>1. t \in Tuple /\ t.size = pg.slots[j].length
            BY <2>4, LiveHolds DEF Holds
        <3>2. fresh[j] = InsertTuple(fresh[m], t)
            BY <2>2, <2>4 DEF Reinsert
        <3>3. DirectoryEnd(m + 1) <= PAGE_SIZE - (sum[m] + t.size)
            BY <1>1, <2>2, <3>1, Constants
        <3>4. Filled(fresh[j], sum[m] + t.size, m + 1)
            BY <2>1, <2>2, <2>3, <3>1, <3>2, <3>3, FillOne
        <3>5. QED
            BY <2>1, <2>2, <3>1, <3>4
    <2>5. CASE j \notin Live(pg)
        <3>1. fresh[j] = fresh[m] /\ sum[j] = sum[m]
            BY <1>1, <2>1, <2>2, <2>5 DEF Reinsert
        <3>2. Len(fresh[m].slots) \in Nat
            BY <2>2, PageFacts DEF GoodPage
        <3>3. Filled(fresh[j], sum[j], j)
            BY <2>1, <2>3, <3>1, <3>2 DEF Filled
        <3>4. QED
            BY <2>1, <3>3
    <2>6. QED
        BY <2>4, <2>5
<1>9. \A m \in 0..len : m \in P /\ m < len => m + 1 \in P
    BY <1>8
<1>10. len \in 0..len
    BY <1>1
<1> HIDE DEF P
<1>11. len \in P
    BY <1>1, <1>7, <1>9, <1>10, Induction
<1>12. QED
    BY <1>2, <1>6, <1>11 DEF P, len

\* The invariant that compact needs.
CountedInv == IInv /\ Counted(page)

\* insert_tuple takes what the tuple needs, delete_tuple gives nothing back, and
\* compact gives back exactly what no tuple uses.
LEMMA CountedStep == CountedInv /\ [Next]_page => CountedInv'
<1> SUFFICES ASSUME page \in GoodPage, Counted(page), [Next]_page
             PROVE  page' \in GoodPage /\ Counted(page')
    BY DEF CountedInv, IInv, Counted
<1>1. page' \in GoodPage
    BY PageStep DEF IInv
<1>2. /\ page \in PageTypes /\ page.freePtr \in Nat /\ PAGE_SIZE \in Nat
      /\ SumOver(page) \in Nat /\ SumOver(page') \in Nat
    BY <1>1, PageFacts, SumExists, SumIs, Constants DEF GoodPage
<1>3. ASSUME NEW t \in Tuple, Insert(t) PROVE Counted(page')
    <2>1. SumOver(page') = SumOver(page) + t.size
        BY <1>3, InsertSum DEF Insert
    <2>2. page'.freePtr = page.freePtr - t.size /\ t.size \in Nat
        BY <1>3, InsertedFields, Constants DEF Insert
    <2>3. QED
        BY <1>2, <2>1, <2>2 DEF Counted
<1>4. ASSUME NEW i, Delete(i) PROVE Counted(page')
    <2>1. SumOver(page') <= SumOver(page) /\ page'.freePtr = page.freePtr
        BY <1>4, DeleteSum, DeletedFields DEF Delete
    <2>2. QED
        BY <1>2, <2>1 DEF Counted
<1>5. ASSUME Compact PROVE Counted(page')
    <2>1. CASE Tombstones(page) = {}
        BY <1>5, <2>1 DEF Compact, CompactPage
    <2>2. CASE Tombstones(page) # {}
        <3>1. Filled(page', SumOver(page), Len(page.slots))
            BY <1>5, <2>2, CompactFills DEF Compact, CompactPage
        <3>2. QED
            BY <1>2, <3>1 DEF Filled, Counted
    <2>3. QED
        BY <2>1, <2>2
<1>6. Counted(page')
    BY <1>3, <1>4, <1>5 DEF Next
<1>7. QED
    BY <1>1, <1>6

\* The sizes of the tuples never exceed the space that was taken from the page.
THEOREM CountedInvariance == Spec => []CountedInv
<1>1. Init => CountedInv
    <2>1. Filled(EmptyPage, 0, 0) /\ PAGE_SIZE \in Nat
        BY EmptyFilled, Constants
    <2>2. Counted(EmptyPage)
        BY <2>1 DEF Filled, Counted
    <2>3. QED
        BY <2>2, EmptyGood DEF Init, CountedInv, IInv
<1>2. QED
    BY <1>1, CountedStep, PTL DEF Spec

\* compact gives back every orphaned byte and every tombstone, and drops no row.
THEOREM CompactReclaims == Spec => RebuildReclaimsAll
<1> DEFINE Reclaims == Compact /\ Tombstones(page) # {}
                           => /\ OrphanedBytes(page') = 0
                              /\ Tombstones(page') = {}
                              /\ SumOver(page') = SumOver(page)
<1>1. CountedInv => Reclaims
    <2> SUFFICES ASSUME page \in GoodPage, Counted(page), Compact, Tombstones(page) # {}
                 PROVE  /\ OrphanedBytes(page') = 0
                        /\ Tombstones(page') = {}
                        /\ SumOver(page') = SumOver(page)
        BY DEF CountedInv, IInv
    <2>1. Filled(page', SumOver(page), Len(page.slots))
        BY CompactFills DEF Compact, CompactPage
    <2>2. SumOver(page) \in Nat /\ PAGE_SIZE \in Nat
        BY SumExists, SumIs, Constants DEF GoodPage
    <2>3. QED
        BY <2>1, <2>2 DEF Filled, OrphanedBytes
<1>2. QED
    BY <1>1, CountedInvariance, PTL DEF RebuildReclaimsAll
=============================================================================
