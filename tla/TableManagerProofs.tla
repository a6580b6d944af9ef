-------------------------- MODULE TableManagerProofs -------------------------
(***************************************************************************)
(* The statements on one table, for every set of rows and every size of    *)
(* pages, extents and data files: the types, the bag of rows that the      *)
(* table implements, and what a complete scan has returned.                *)
(***************************************************************************)
EXTENDS TableManager, CommonLemmas, FunctionTheorems

-----------------------------------------------------------------------------
(* The inductive invariant *)

Row == Tuple \cup {NoRow}

DirectoryEnd(n) == HEADER_SIZE + n * SLOT_SIZE

\* sum[i] bounds the sizes of the rows in the slots up to i.  No row was ever
\* given more space than was taken from the page.
Counted(pg, sum) ==
    /\ sum \in [0..Len(pg.rows) -> 0..(PAGE_SIZE - pg.freePtr)]
    /\ \A i \in 1..Len(pg.rows) : sum[i - 1] + pg.rows[i].size <= sum[i]

PageTypes == [rows : Seq(Row), freePtr : 0..PAGE_SIZE]

SoundPage ==
    {pg \in PageTypes : /\ DirectoryEnd(Len(pg.rows)) <= pg.freePtr
                        /\ \E sum : Counted(pg, sum)}

ExtentsOK ==
    /\ extents \in Seq(Extent) /\ IsInjective(extents)
    /\ ToSet(extents) \subseteq used /\ used \subseteq Extent

Visited == stmt \in {"idle", "insert"} => todo = <<>> /\ slot = 1 /\ seen = NoRowsSeen
                                          /\ ~skipped

StatementOK ==
    /\ stmt \in {"idle", "insert", "scan", "migrate", "free", "remove"}
    /\ todo \in Seq(Nat)
    /\ slot \in Nat \ {0}
    /\ where \subseteq Tuple /\ (stmt # "scan" => where = {})
    /\ seen \in [Tuple -> Nat]
    /\ skipped \in BOOLEAN

\* The page that a statement has pinned is one of the table's.
CurrentOK ==
    /\ current \in ListedPages \cup {INVALID_PAGE_ID}
    /\ stmt \in {"idle", "free", "remove"} => current = INVALID_PAGE_ID

\* A scan visits every page of the table once.
ScanOK ==
    stmt = "scan" =>
        /\ ToSet(todo) \subseteq ListedPages /\ IsInjective(todo)
        /\ current \notin ToSet(todo)

Stats == [id : ListedPages, live : Nat, free : 0..(UINT32 - 1)]

\* COMPACT has surveyed pages of the table, and removes extents that are empty.
CompactionOK ==
    /\ stats \in Seq(Stats)
    /\ stmt # "migrate" => stats = <<>>
    /\ stmt = "migrate" => /\ ToSet(todo) \subseteq 1..Len(stats)
                           /\ current # INVALID_PAGE_ID => todo # <<>>
    /\ stmt = "remove" => todo # <<>> /\ AllEmpty(Head(todo))

IInv ==
    /\ pages \in [PageId -> SoundPage]
    /\ ExtentsOK
    /\ Visited
    /\ StatementOK
    /\ CurrentOK
    /\ ScanOK
    /\ CompactionOK

\* Beside it: INSERT leaves the hint on the page it has pinned, and no statement
\* runs once a row has gone astray.
HintOK ==
    /\ hint \in PageId \cup {INVALID_PAGE_ID}
    /\ astray \in BOOLEAN
    /\ stmt = "insert" => hint = current
    /\ astray => stmt = "idle"

-----------------------------------------------------------------------------
(* Constants, and the pages of a table *)

\* What the constants are, for the arithmetic below.
LEMMA Constants ==
    /\ PAGE_SIZE \in Nat /\ HEADER_SIZE \in Nat /\ SLOT_SIZE \in Nat
    /\ HEADER_SIZE > 0 /\ SLOT_SIZE > 0 /\ HEADER_SIZE < PAGE_SIZE
    /\ EXTENT_SIZE \in Nat \ {0} /\ MaxExtent \in Nat
    /\ UINT32 \in Nat /\ UINT32 > PAGE_SIZE
    /\ \A t \in Tuple : t.size \in Nat /\ t.size > 0
    /\ \A t \in Row : t.size \in Nat /\ (t = NoRow <=> t.size = 0)
    /\ NoRow \notin Tuple
<1>1. /\ PAGE_SIZE \in Nat \ {0} /\ HEADER_SIZE \in Nat \ {0} /\ SLOT_SIZE \in Nat \ {0}
      /\ EXTENT_SIZE \in Nat \ {0}
      /\ HEADER_SIZE < PAGE_SIZE /\ MaxExtent \in Nat
      /\ UINT32 \in Nat /\ UINT32 > PAGE_SIZE
    BY TableAssumption
<1>2. \A t \in Tuple : t.size \in Nat \ {0}
    BY TableAssumption DEF Tuple
<1>3. NoRow.size = 0
    BY DEF NoRow
<1>4. QED
    BY <1>1, <1>2, <1>3 DEF Row

\* The first element and the others.
LEMMA TailFacts ==
    ASSUME NEW S, NEW s \in Seq(S), s # <<>>
    PROVE  /\ Head(s) \in S /\ Head(s) \in ToSet(s)
           /\ Tail(s) \in Seq(S)
           /\ ToSet(s) = ToSet(Tail(s)) \cup {Head(s)}
           /\ IsInjective(s) => IsInjective(Tail(s)) /\ Head(s) \notin ToSet(Tail(s))
<1> DEFINE r == Tail(s)
           h == Head(s)
           n == Len(s)
<1>1. /\ h \in S /\ r \in Seq(S) /\ Len(r) = n - 1
      /\ \A i \in 1..Len(r) : r[i] = s[i + 1]
    BY HeadTailProperties
<1>2. n \in Nat /\ n > 0 /\ h = s[1]
    BY EmptySeq, LenProperties
<1>3. ToSet(r) = {r[i] : i \in 1..Len(r)} /\ ToSet(s) = {s[i] : i \in 1..n}
    BY <1>1, ToSetFacts
<1> HIDE DEF r, h, n
<1>4. \A i \in 1..n : i = 1 \/ (i - 1 \in 1..Len(r) /\ (i - 1) + 1 = i)
    BY <1>1, <1>2
<1>5. \A i \in 1..Len(r) : i + 1 \in 1..n /\ i + 1 # 1
    BY <1>1, <1>2
<1>6. \A i \in 1..n : s[i] = h \/ s[i] \in ToSet(r)
    BY <1>1, <1>2, <1>3, <1>4
<1>7. 1 \in 1..n
    BY <1>2
<1>8. ToSet(s) = ToSet(r) \cup {h} /\ h \in ToSet(s)
    <2>1. ToSet(r) \subseteq ToSet(s)
        BY <1>1, <1>3, <1>5
    <2>2. h \in ToSet(s)
        BY <1>2, <1>3, <1>7
    <2>3. ToSet(s) \subseteq ToSet(r) \cup {h}
        BY <1>3, <1>6
    <2>4. QED
        BY <2>1, <2>2, <2>3
<1>9. ASSUME IsInjective(s) PROVE IsInjective(r) /\ h \notin ToSet(r)
    <2>1. \A i, j \in 1..n : s[i] = s[j] => i = j
        BY <1>9, ToSetFacts DEF n
    <2>2. \A i, j \in 1..Len(r) : r[i] = r[j] => i + 1 = j + 1
        BY <1>1, <1>5, <2>1
    <2>3. \A i, j \in 1..Len(r) : r[i] = r[j] => i = j
        BY <2>2
    <2>4. \A i \in 1..Len(r) : r[i] # h
        BY <1>1, <1>2, <1>5, <1>7, <2>1
    <2>5. QED
        BY <1>1, <1>3, <2>3, <2>4, ToSetFacts
<1>10. QED
    BY <1>1, <1>8, <1>9 DEF r, h

\* The pages of an extent.
LEMMA PageOfExtent ==
    ASSUME NEW e \in Extent, NEW r \in 0..(EXTENT_SIZE - 1)
    PROVE  /\ e * EXTENT_SIZE + r \in PageId
           /\ ExtentOf(e * EXTENT_SIZE + r) = e
           /\ PagesOf(e)[r + 1] = e * EXTENT_SIZE + r
<1>1. /\ e \in Nat /\ r \in Nat /\ EXTENT_SIZE \in Nat \ {0} /\ MaxExtent \in Nat
      /\ MaxExtent + 1 \in Nat /\ e + 1 \in Nat /\ e + 1 <= MaxExtent + 1
    BY Constants DEF Extent
<1>2. /\ e * EXTENT_SIZE \in Nat
      /\ (e + 1) * EXTENT_SIZE = e * EXTENT_SIZE + EXTENT_SIZE
      /\ (e + 1) * EXTENT_SIZE <= (MaxExtent + 1) * EXTENT_SIZE
      /\ (MaxExtent + 1) * EXTENT_SIZE \in Nat
    BY <1>1, Products
<1> DEFINE p == e * EXTENT_SIZE + r
<1>3. p \in Nat /\ p \in PageId
    BY <1>1, <1>2 DEF PageId
<1>4. p \div EXTENT_SIZE = e
    <2> HIDE DEF p
    <2>1. p = e * EXTENT_SIZE + r
        BY DEF p
    <2>2. QED
        BY <1>1, <1>3, <2>1, DivisionUnique
<1>5. PagesOf(e)[r + 1] = p
    <2>1. r + 1 \in 1..EXTENT_SIZE
        BY <1>1
    <2>2. PagesOf(e)[r + 1] = e * EXTENT_SIZE + (r + 1) - 1
        BY <2>1 DEF PagesOf
    <2>3. QED
        BY <1>1, <1>2, <2>2
<1>6. QED
    BY <1>3, <1>4, <1>5 DEF ExtentOf

\* Every page lies in an extent.
LEMMA ExtentOfPage ==
    ASSUME NEW p \in PageId
    PROVE  /\ ExtentOf(p) \in Extent
           /\ p % EXTENT_SIZE \in 0..(EXTENT_SIZE - 1)
           /\ p = ExtentOf(p) * EXTENT_SIZE + (p % EXTENT_SIZE)
           /\ p \in ToSet(PagesOf(ExtentOf(p)))
           /\ INVALID_PAGE_ID # p
<1> DEFINE q == p \div EXTENT_SIZE
           r == p % EXTENT_SIZE
<1>1. /\ EXTENT_SIZE \in Nat \ {0} /\ MaxExtent \in Nat /\ MaxExtent + 1 \in Nat
      /\ (MaxExtent + 1) * EXTENT_SIZE \in Nat
    BY Constants, Products
<1>2. p \in Nat /\ p < (MaxExtent + 1) * EXTENT_SIZE
    BY <1>1 DEF PageId
<1>3. q \in Nat /\ r \in 0..(EXTENT_SIZE - 1) /\ p = q * EXTENT_SIZE + r
    BY <1>1, <1>2, Division
<1> HIDE DEF q, r
<1>4. q * EXTENT_SIZE \in Nat
    BY <1>1, <1>3, Products
<1>5. ~(MaxExtent + 1 <= q)
    <2>1. MaxExtent + 1 <= q => (MaxExtent + 1) * EXTENT_SIZE <= q * EXTENT_SIZE
        BY <1>1, <1>3, Products
    <2>2. QED
        BY <1>1, <1>2, <1>3, <1>4, <2>1
<1>6. q \in Extent
    BY <1>1, <1>3, <1>5 DEF Extent
<1>7. p \in ToSet(PagesOf(q))
    <2>1. r + 1 \in 1..EXTENT_SIZE
        BY <1>1, <1>3
    <2>2. PagesOf(q)[r + 1] = p
        BY <1>3, <1>6, PageOfExtent
    <2>3. DOMAIN PagesOf(q) = 1..EXTENT_SIZE
        BY DEF PagesOf
    <2>4. QED
        BY <2>1, <2>2, <2>3 DEF ToSet
<1>8. INVALID_PAGE_ID # p
    BY <1>2 DEF INVALID_PAGE_ID
<1>9. QED
    BY <1>3, <1>6, <1>7, <1>8 DEF ExtentOf, q, r

\* A scan visits the pages of the table's extents, each of them once.
LEMMA TablePagesFacts ==
    ASSUME extents \in Seq(Extent), IsInjective(extents)
    PROVE  /\ TablePages \in Seq(Nat)
           /\ ToSet(TablePages) = ListedPages
           /\ IsInjective(TablePages)
<1> DEFINE len == Len(extents)
           m == len * EXTENT_SIZE
           q(n) == (n - 1) \div EXTENT_SIZE
           r(n) == (n - 1) % EXTENT_SIZE
           v(n) == PagesOf(extents[q(n) + 1])[r(n) + 1]
<1>1. /\ EXTENT_SIZE \in Nat \ {0} /\ len \in Nat /\ m \in Nat
      /\ \A k \in 1..len : extents[k] \in Extent
      /\ \A j, k \in 1..len : extents[j] = extents[k] => j = k
      /\ ToSet(extents) = {extents[k] : k \in 1..len}
    BY Constants, Products, ToSetFacts, ElementOfSeq
<1>2. TablePages = [n \in 1..m |-> v(n)]
    BY DEF TablePages
<1>3. ASSUME NEW n \in 1..m
      PROVE  /\ q(n) + 1 \in 1..len /\ r(n) \in 0..(EXTENT_SIZE - 1)
             /\ q(n) \in Nat /\ r(n) \in Nat
             /\ n = q(n) * EXTENT_SIZE + r(n) + 1
    <2>1. n - 1 \in Nat /\ n - 1 < m
        BY <1>1
    <2> HIDE DEF m
    <2>2. q(n) \in Nat /\ r(n) \in 0..(EXTENT_SIZE - 1) /\ n - 1 = q(n) * EXTENT_SIZE + r(n)
        BY <1>1, <2>1, Division
    <2> HIDE DEF q, r
    <2>3. q(n) * EXTENT_SIZE \in Nat
        BY <1>1, <2>2, Products
    <2>4. ~(len <= q(n))
        <3>1. len <= q(n) => m <= q(n) * EXTENT_SIZE
            BY <1>1, <2>2, Products DEF m
        <3>2. QED
            BY <1>1, <2>1, <2>2, <2>3, <3>1
    <2>5. QED
        BY <1>1, <2>2, <2>3, <2>4
<1>4. ASSUME NEW n \in 1..m
      PROVE  /\ v(n) = extents[q(n) + 1] * EXTENT_SIZE + r(n)
             /\ v(n) \in PageId /\ ExtentOf(v(n)) = extents[q(n) + 1]
             /\ v(n) % EXTENT_SIZE = r(n)
    <2> HIDE DEF q, r, m
    <2>1. /\ extents[q(n) + 1] \in Extent /\ extents[q(n) + 1] \in Nat
          /\ r(n) \in 0..(EXTENT_SIZE - 1)
        BY <1>1, <1>3 DEF Extent
    <2>2. /\ v(n) = extents[q(n) + 1] * EXTENT_SIZE + r(n)
          /\ v(n) \in PageId /\ ExtentOf(v(n)) = extents[q(n) + 1]
        BY <2>1, PageOfExtent
    <2> HIDE DEF v
    <2>3. v(n) \in Nat
        BY <1>1, <2>2, Constants DEF PageId
    <2>4. v(n) % EXTENT_SIZE = r(n)
        BY <1>1, <2>1, <2>2, <2>3, DivisionUnique
    <2>5. QED
        BY <2>2, <2>4
<1> HIDE DEF q, r, v, m
<1>5. /\ TablePages \in Seq(Nat) /\ Len(TablePages) = m
      /\ \A n \in 1..m : TablePages[n] = v(n)
    <2>1. \A n \in 1..m : v(n) \in Nat
        <3>1. PageId \subseteq Nat
            BY Constants DEF PageId
        <3>2. QED
            BY <1>4, <3>1
    <2>2. QED
        BY <1>1, <1>2, <2>1
<1>6. ToSet(TablePages) = {v(n) : n \in 1..m}
    BY <1>5, ToSetFacts
<1>7. IsInjective(TablePages)
    <2>1. ASSUME NEW i \in 1..m, NEW j \in 1..m, v(i) = v(j) PROVE i = j
        <3>1. r(i) = r(j) /\ extents[q(i) + 1] = extents[q(j) + 1]
            BY <1>4, <2>1
        <3>2. q(i) + 1 = q(j) + 1 /\ q(i) \in Nat /\ q(j) \in Nat
            BY <1>1, <1>3, <3>1
        <3>3. q(i) = q(j)
            BY <3>2
        <3>4. QED
            BY <1>3, <3>1, <3>3
    <2>2. QED
        BY <1>5, <2>1, ToSetFacts
<1>8. ToSet(TablePages) \subseteq ListedPages
    BY <1>1, <1>3, <1>4, <1>6 DEF ListedPages
<1>9. ASSUME NEW p \in ListedPages PROVE p \in ToSet(TablePages)
    <2>1. p \in PageId /\ ExtentOf(p) \in ToSet(extents)
        BY DEF ListedPages
    <2>2. PICK k \in 1..len : extents[k] = ExtentOf(p)
        BY <1>1, <2>1
    <2> DEFINE d == p % EXTENT_SIZE
               n == (k - 1) * EXTENT_SIZE + d + 1
    <2>3. d \in 0..(EXTENT_SIZE - 1) /\ p = extents[k] * EXTENT_SIZE + d
        BY <2>1, <2>2, ExtentOfPage
    <2> HIDE DEF d
    <2>4. /\ k - 1 \in Nat /\ (k - 1) + 1 = k /\ d \in Nat
          /\ (k - 1) * EXTENT_SIZE \in Nat
          /\ ((k - 1) + 1) * EXTENT_SIZE = (k - 1) * EXTENT_SIZE + EXTENT_SIZE
          /\ k * EXTENT_SIZE <= m
        <3>1. k - 1 \in Nat /\ k \in Nat /\ k <= len /\ (k - 1) + 1 = k
            BY <1>1
        <3>2. d \in Nat
            BY <1>1, <2>3
        <3>3. QED
            BY <1>1, <3>1, <3>2, Products DEF m
    <2>5. n \in 1..m /\ n - 1 \in Nat /\ n - 1 = (k - 1) * EXTENT_SIZE + d
        BY <1>1, <2>3, <2>4
    <2> HIDE DEF n
    <2>6. q(n) = k - 1 /\ r(n) = d
        BY <1>1, <2>3, <2>4, <2>5, DivisionUnique DEF q, r
    <2>7. v(n) = p
        BY <1>4, <2>3, <2>4, <2>5, <2>6
    <2>8. QED
        BY <1>6, <2>5, <2>7
<1>10. QED
    BY <1>5, <1>7, <1>8, <1>9

-----------------------------------------------------------------------------
(* One page *)

\* The slots that hold a row.
Copies(pg, t) == {i \in 1..Len(pg.rows) : pg.rows[i] = t}

\* Both modules use the least and the greatest number of a set.
LEMMA SameMinMax == \A S : Slots!Min(S) = Min(S) /\ Slots!Max(S) = Max(S)
BY DEF Slots!Min, Slots!Max, Min, Max

\* The slot directory grows by one entry at a time.
LEMMA DirectoryFacts ==
    ASSUME NEW n \in Nat
    PROVE  /\ DirectoryEnd(n) \in Nat
           /\ HEADER_SIZE <= DirectoryEnd(n)
           /\ DirectoryEnd(n + 1) = DirectoryEnd(n) + SLOT_SIZE
           /\ \A m \in 0..n : DirectoryEnd(m) <= DirectoryEnd(n)
<1>1. HEADER_SIZE \in Nat /\ SLOT_SIZE \in Nat
    BY Constants
<1>2. n * SLOT_SIZE \in Nat /\ (n + 1) * SLOT_SIZE = n * SLOT_SIZE + SLOT_SIZE
    BY <1>1, Products
<1>3. \A m \in 0..n : m * SLOT_SIZE \in Nat /\ m * SLOT_SIZE <= n * SLOT_SIZE
    BY <1>1, Products
<1>4. QED
    BY <1>1, <1>2, <1>3 DEF DirectoryEnd

\* What is known of a page.
LEMMA PageFacts ==
    ASSUME NEW pg \in SoundPage
    PROVE  /\ pg.rows \in Seq(Row) /\ Len(pg.rows) \in Nat
           /\ DOMAIN pg.rows = 1..Len(pg.rows)
           /\ \A i \in 1..Len(pg.rows) : pg.rows[i] \in Row
           /\ pg.freePtr \in Nat /\ pg.freePtr <= PAGE_SIZE
           /\ DirectoryEnd(Len(pg.rows)) \in Nat /\ DirectoryEnd(Len(pg.rows)) <= pg.freePtr
           /\ HEADER_SIZE <= pg.freePtr
           /\ Slots!FreeSpace(pg) = pg.freePtr - DirectoryEnd(Len(pg.rows))
           /\ Slots!FreeSpace(pg) \in 0..PAGE_SIZE
           /\ pg = [rows |-> pg.rows, freePtr |-> pg.freePtr]
<1>1. /\ pg.rows \in Seq(Row) /\ pg.freePtr \in 0..PAGE_SIZE
      /\ DirectoryEnd(Len(pg.rows)) <= pg.freePtr
      /\ pg = [rows |-> pg.rows, freePtr |-> pg.freePtr]
    BY DEF SoundPage, PageTypes
<1>2. /\ Len(pg.rows) \in Nat /\ DOMAIN pg.rows = 1..Len(pg.rows)
      /\ \A i \in 1..Len(pg.rows) : pg.rows[i] \in Row
    BY <1>1, LenProperties, ElementOfSeq
<1>3. /\ DirectoryEnd(Len(pg.rows)) \in Nat /\ HEADER_SIZE <= DirectoryEnd(Len(pg.rows))
    BY <1>2, DirectoryFacts
<1>4. pg.freePtr \in Nat /\ pg.freePtr <= PAGE_SIZE /\ PAGE_SIZE \in Nat /\ HEADER_SIZE \in Nat
    BY <1>1, Constants
<1>5. Slots!FreeSpace(pg) = pg.freePtr - DirectoryEnd(Len(pg.rows))
    BY <1>1, <1>3, <1>4 DEF Slots!FreeSpace, DirectoryEnd
<1>6. QED
    BY <1>1, <1>2, <1>3, <1>4, <1>5

\* Gaps and taken slots.
LEMMA GapFacts ==
    ASSUME NEW pg \in SoundPage
    PROVE  /\ Slots!Gaps(pg) = {i \in 1..Len(pg.rows) : pg.rows[i] = NoRow}
           /\ Slots!Taken(pg) = {i \in 1..Len(pg.rows) : pg.rows[i] \in Tuple}
           /\ \A t \in Tuple : Copies(pg, t) \in SUBSET Slots!Taken(pg)
           /\ \A t : IsFiniteSet(Copies(pg, t)) /\ Cardinality(Copies(pg, t)) \in Nat
<1>1. Slots!Gaps(pg) = {i \in 1..Len(pg.rows) : pg.rows[i] = NoRow}
    BY PageFacts DEF Slots!Gaps
<1>2. Slots!Taken(pg) = {i \in 1..Len(pg.rows) : pg.rows[i] \in Tuple}
    BY <1>1, PageFacts, Constants DEF Slots!Taken, Row
<1>3. ASSUME NEW t PROVE IsFiniteSet(Copies(pg, t)) /\ Cardinality(Copies(pg, t)) \in Nat
    <2>1. IsFiniteSet(1..Len(pg.rows))
        <3>1. 1 \in Int /\ Len(pg.rows) \in Int
            BY PageFacts
        <3>2. QED
            BY <3>1, FS_Interval
    <2>2. Copies(pg, t) \in SUBSET (1..Len(pg.rows))
        BY DEF Copies
    <2>3. IsFiniteSet(Copies(pg, t))
        BY <2>1, <2>2, FS_Subset
    <2>4. QED
        BY <2>3, FS_CardinalityType
<1>4. QED
    BY <1>1, <1>2, <1>3 DEF Copies

\* The page as it is formatted.
LEMMA EmptyPageFacts ==
    /\ Slots!NoRows \in SoundPage
    /\ Slots!Gaps(Slots!NoRows) = {} /\ Slots!Taken(Slots!NoRows) = {}
    /\ Slots!NoRows.rows \in Seq(Row) /\ Len(Slots!NoRows.rows) = 0
    /\ Slots!NoRows.freePtr = PAGE_SIZE
    /\ \A t : Copies(Slots!NoRows, t) = {}
<1> DEFINE none == Slots!NoRows.rows
<1>1. /\ none \in Seq(Row) /\ Len(none) = 0 /\ DOMAIN none = 1..0 /\ 1..0 = {}
      /\ Slots!NoRows.freePtr = PAGE_SIZE
      /\ Slots!NoRows = [rows |-> none, freePtr |-> PAGE_SIZE]
    BY DEF Slots!NoRows
<1> HIDE DEF none
<1>2. DirectoryEnd(0) <= PAGE_SIZE
    BY Constants DEF DirectoryEnd
<1>3. Counted(Slots!NoRows, [i \in 0..0 |-> 0])
    <2>1. Len(Slots!NoRows.rows) = 0 /\ PAGE_SIZE - Slots!NoRows.freePtr = 0
        BY <1>1, Constants DEF none
    <2>2. QED
        BY <2>1 DEF Counted
<1>4. Slots!NoRows \in PageTypes
    BY <1>1, Constants DEF PageTypes
<1>5. Slots!NoRows \in SoundPage
    <2>1. \E sum : Counted(Slots!NoRows, sum)
        BY <1>3
    <2>2. QED
        BY <1>1, <1>2, <1>4, <2>1 DEF SoundPage, none
<1>6. \A t : Copies(Slots!NoRows, t) = {}
    BY <1>1 DEF Copies, none
<1>7. Slots!Gaps(Slots!NoRows) = {} /\ Slots!Taken(Slots!NoRows) = {}
    BY <1>1 DEF Slots!Gaps, Slots!Taken, none
<1>8. QED
    BY <1>1, <1>5, <1>6, <1>7 DEF none

\* insert_tuple puts the row in a slot that had none.
LEMMA InsertedSlot ==
    ASSUME NEW pg \in SoundPage, NEW t \in Tuple, Slots!HasRoom(pg, t)
    PROVE  \E i \in 1..(Len(pg.rows) + 1), n \in Len(pg.rows)..(Len(pg.rows) + 1) :
              LET new == Slots!InsertRow(pg, t)
              IN  /\ new \in PageTypes /\ Len(new.rows) = n /\ i \in 1..n
                  /\ new.freePtr = pg.freePtr - t.size
                  /\ DirectoryEnd(n) <= new.freePtr
                  /\ \A j \in 1..n : new.rows[j] = IF j = i THEN t ELSE pg.rows[j]
                  /\ i \in 1..Len(pg.rows) => n = Len(pg.rows) /\ pg.rows[i] = NoRow
                  /\ i = Len(pg.rows) + 1 => n = i
                  /\ Slots!Gaps(pg) = {} => i = Len(pg.rows) + 1
<1> DEFINE new == Slots!InsertRow(pg, t)
           len == Len(pg.rows)
           ptr == pg.freePtr - t.size
           gap == Min(Slots!Gaps(pg))
           rows == IF Slots!Gaps(pg) = {} THEN Append(pg.rows, t)
                   ELSE [pg.rows EXCEPT ![gap] = t]
<1>1. /\ pg.rows \in Seq(Row) /\ len \in Nat /\ DOMAIN pg.rows = 1..len
      /\ pg.freePtr \in Nat /\ pg.freePtr <= PAGE_SIZE
      /\ Slots!FreeSpace(pg) = pg.freePtr - DirectoryEnd(len)
      /\ Slots!Gaps(pg) = {i \in 1..len : pg.rows[i] = NoRow}
    BY PageFacts, GapFacts
<1>2. t.size \in Nat /\ t.size > 0 /\ SLOT_SIZE \in Nat /\ PAGE_SIZE \in Nat /\ t \in Row
    BY Constants DEF Row
<1>3. DirectoryEnd(len) \in Nat /\ DirectoryEnd(len + 1) = DirectoryEnd(len) + SLOT_SIZE
    BY <1>1, DirectoryFacts
<1>4. new = [rows |-> rows, freePtr |-> ptr]
    BY SameMinMax DEF Slots!InsertRow
<1>5. t.size + (IF Slots!Gaps(pg) = {} THEN SLOT_SIZE ELSE 0) <= pg.freePtr - DirectoryEnd(len)
    BY <1>1 DEF Slots!HasRoom
<1> HIDE DEF new, len, ptr, gap, rows
<1>6. new.rows = rows /\ new.freePtr = ptr
    BY <1>4
<1>7. ptr = pg.freePtr - t.size
    BY DEF ptr
<1>8. CASE Slots!Gaps(pg) = {}
    <2>1. rows = Append(pg.rows, t)
        BY <1>8 DEF rows
    <2>2. /\ rows \in Seq(Row) /\ Len(rows) = len + 1
          /\ \A j \in 1..len : rows[j] = pg.rows[j]
          /\ rows[len + 1] = t
        BY <1>1, <1>2, <2>1, AppendFacts DEF len
    <2>3. \A j \in 1..(len + 1) : rows[j] = IF j = len + 1 THEN t ELSE pg.rows[j]
        BY <1>1, <2>2
    <2>4. ptr \in 0..PAGE_SIZE /\ DirectoryEnd(len + 1) <= ptr
        <3>1. t.size + SLOT_SIZE <= pg.freePtr - DirectoryEnd(len)
            BY <1>5, <1>8
        <3>2. pg.freePtr \in Nat /\ pg.freePtr <= PAGE_SIZE
            BY <1>1
        <3> DEFINE end == DirectoryEnd(len)
        <3>3. end \in Nat /\ DirectoryEnd(len + 1) = end + SLOT_SIZE
            BY <1>3
        <3> HIDE DEF end
        <3>4. t.size + SLOT_SIZE <= pg.freePtr - end
            BY <3>1 DEF end
        <3>5. QED
            BY <1>2, <1>7, <3>2, <3>3, <3>4
    <2>5. new \in PageTypes
        BY <1>4, <2>2, <2>4 DEF PageTypes
    <2>6. len + 1 \in 1..(len + 1) /\ len + 1 \in len..(len + 1) /\ len + 1 \notin 1..len
        BY <1>1
    <2>7. QED
        BY <1>6, <1>7, <2>2, <2>3, <2>4, <2>5, <2>6 DEF new, len
<1>9. CASE Slots!Gaps(pg) # {}
    <2>1. gap \in 1..len /\ pg.rows[gap] = NoRow
        <3>1. Slots!Gaps(pg) \subseteq Nat
            BY <1>1
        <3>2. gap \in Slots!Gaps(pg)
            BY <1>9, <3>1, MinIsLeast DEF gap
        <3>3. QED
            BY <1>1, <3>2
    <2>2. rows = [pg.rows EXCEPT ![gap] = t]
        BY <1>9 DEF rows
    <2>3. rows \in Seq(Row) /\ Len(rows) = len
        BY <1>1, <1>2, <2>1, <2>2, ExceptSeq DEF len
    <2>4. \A j \in 1..len : rows[j] = IF j = gap THEN t ELSE pg.rows[j]
        BY <1>1, <2>1, <2>2
    <2>5. ptr \in 0..PAGE_SIZE /\ DirectoryEnd(len) <= ptr
        <3>1. t.size <= pg.freePtr - DirectoryEnd(len)
            BY <1>2, <1>5, <1>9
        <3>2. pg.freePtr \in Nat /\ pg.freePtr <= PAGE_SIZE
            BY <1>1
        <3> DEFINE end == DirectoryEnd(len)
        <3>3. end \in Nat
            BY <1>3
        <3> HIDE DEF end
        <3>4. t.size <= pg.freePtr - end
            BY <3>1 DEF end
        <3>5. DirectoryEnd(len) = end
            BY DEF end
        <3>6. QED
            BY <1>2, <1>7, <3>2, <3>3, <3>4, <3>5
    <2>6. new \in PageTypes
        BY <1>4, <2>3, <2>5 DEF PageTypes
    <2>7. gap \in 1..(len + 1) /\ len \in len..(len + 1) /\ gap # len + 1
        BY <1>1, <2>1
    <2>8. QED
        BY <1>6, <1>7, <1>9, <2>1, <2>3, <2>4, <2>5, <2>6, <2>7 DEF new, len
<1>10. QED
    BY <1>8, <1>9

\* insert_tuple adds one copy of the row and leaves no gap where there was none.
LEMMA InsertedRow ==
    ASSUME NEW pg \in SoundPage, NEW t \in Tuple, Slots!HasRoom(pg, t)
    PROVE  LET new == Slots!InsertRow(pg, t)
           IN  /\ new \in SoundPage
               /\ new.freePtr = pg.freePtr - t.size
               /\ Len(new.rows) <= Len(pg.rows) + 1
               /\ Slots!Gaps(pg) = {} => Slots!Gaps(new) = {}
               /\ Cardinality(Copies(new, t)) = Cardinality(Copies(pg, t)) + 1
               /\ \A u \in Tuple \ {t} : Copies(new, u) = Copies(pg, u)
<1> DEFINE new == Slots!InsertRow(pg, t)
           len == Len(pg.rows)
<1>1. PICK i \in 1..(len + 1), n \in len..(len + 1) :
          /\ new \in PageTypes /\ Len(new.rows) = n /\ i \in 1..n
          /\ new.freePtr = pg.freePtr - t.size
          /\ DirectoryEnd(n) <= new.freePtr
          /\ \A j \in 1..n : new.rows[j] = IF j = i THEN t ELSE pg.rows[j]
          /\ i \in 1..len => n = len /\ pg.rows[i] = NoRow
          /\ i = len + 1 => n = i
          /\ Slots!Gaps(pg) = {} => i = len + 1
    BY InsertedSlot
<1>2. /\ len \in Nat /\ pg.freePtr \in Nat /\ PAGE_SIZE \in Nat
      /\ \A j \in 1..len : pg.rows[j] \in Row /\ pg.rows[j].size \in Nat
    BY PageFacts, Constants
<1>3. t.size \in Nat /\ t.size > 0 /\ NoRow.size = 0 /\ NoRow # t
    BY Constants DEF NoRow
<1>4. PICK sum \in [0..len -> 0..(PAGE_SIZE - pg.freePtr)] :
          \A j \in 1..len : sum[j - 1] + pg.rows[j].size <= sum[j]
    BY DEF SoundPage, Counted
<1>5. \A j \in 0..len : sum[j] \in Nat /\ sum[j] <= PAGE_SIZE - pg.freePtr
    BY <1>2, <1>4
<1> HIDE DEF new, len
<1> DEFINE last(j) == IF j <= len THEN j ELSE len
           s == [j \in 0..n |-> IF j < i THEN sum[j] ELSE sum[last(j)] + t.size]
<1>6. \A j \in 0..n : /\ last(j) \in 0..len
                      /\ j <= len => last(j) = j
                      /\ j = len + 1 => last(j) = len
    BY <1>2
<1> HIDE DEF last
<1>7. s \in [0..Len(new.rows) -> 0..(PAGE_SIZE - new.freePtr)]
    <2>1. \A j \in 0..n : j < i => j \in 0..len
        BY <1>1, <1>2
    <2>2. ASSUME NEW j \in 0..n PROVE s[j] \in 0..(PAGE_SIZE - (pg.freePtr - t.size))
        <3>1. \E k \in 0..len : s[j] = sum[k] \/ s[j] = sum[k] + t.size
            <4>1. CASE j < i
                <5>1. s[j] = sum[j] /\ j \in 0..len
                    BY <2>1, <4>1
                <5>2. QED
                    BY <5>1
            <4>2. CASE ~(j < i)
                <5>1. s[j] = sum[last(j)] + t.size /\ last(j) \in 0..len
                    BY <1>6, <4>2
                <5>2. QED
                    BY <5>1
            <4>3. QED
                BY <4>1, <4>2
        <3> HIDE DEF s
        <3>2. PICK k \in 0..len : s[j] = sum[k] \/ s[j] = sum[k] + t.size
            BY <3>1
        <3>3. sum[k] \in Nat /\ sum[k] <= PAGE_SIZE - pg.freePtr
            BY <1>5
        <3>4. /\ pg.freePtr \in Nat /\ PAGE_SIZE \in Nat /\ t.size \in Nat
            BY <1>2, <1>3
        <3> DEFINE a == sum[k]
                   ptr == pg.freePtr
                   size == t.size
        <3>5. /\ a \in Nat /\ ptr \in Nat /\ size \in Nat /\ PAGE_SIZE \in Nat
              /\ a <= PAGE_SIZE - ptr
            BY <3>3, <3>4
        <3>6. s[j] = a \/ s[j] = a + size
            BY <3>2
        <3> HIDE DEF a, ptr, size
        <3>7. s[j] \in 0..(PAGE_SIZE - (ptr - size))
            BY <3>5, <3>6
        <3>8. QED
            BY <3>7 DEF ptr, size
    <2>3. QED
        BY <1>1, <2>2
<1>8. ASSUME NEW j \in 1..n PROVE s[j - 1] + new.rows[j].size <= s[j]
    <2>1. j \in 0..n /\ j - 1 \in 0..n /\ j \in Nat /\ n \in Nat
        BY <1>2
    <2>2. CASE j < i
        <3>1. j \in 1..len /\ s[j] = sum[j] /\ s[j - 1] = sum[j - 1] /\ j # i
            BY <1>1, <1>2, <2>1, <2>2
        <3>2. new.rows[j] = pg.rows[j]
            BY <1>1, <3>1
        <3>3. QED
            BY <1>4, <3>1, <3>2
    <2>3. CASE j = i
        <3>1. s[j - 1] = sum[j - 1] /\ s[j] = sum[last(j)] + t.size /\ new.rows[j] = t
            <4>1. j - 1 < i /\ ~(j < i)
                BY <2>1, <2>3
            <4>2. QED
                BY <1>1, <2>1, <2>3, <4>1
        <3>2. j - 1 \in 0..len /\ sum[j - 1] \in Nat
            BY <1>2, <1>5, <2>3
        <3>3. sum[j - 1] <= sum[last(j)] /\ sum[last(j)] \in Nat
            <4>1. CASE j \in 1..len
                <5>1. last(j) = j /\ pg.rows[j].size = 0 /\ sum[j - 1] + pg.rows[j].size <= sum[j]
                    <6>1. pg.rows[j].size = 0
                        BY <1>1, <1>3, <2>3, <4>1
                    <6>2. last(j) = j
                        BY <1>2, <1>6, <2>1, <4>1
                    <6>3. QED
                        BY <1>4, <4>1, <6>1, <6>2
                <5>2. sum[j] \in Nat
                    BY <1>2, <1>5, <4>1
                <5>3. QED
                    BY <3>2, <5>1, <5>2
            <4>2. CASE j = len + 1
                <5>1. last(j) = len /\ j - 1 = len
                    BY <1>2, <1>6, <2>1, <4>2
                <5>2. QED
                    BY <3>2, <5>1
            <4>3. QED
                BY <1>2, <2>3, <4>1, <4>2
        <3> HIDE DEF s, last
        <3>4. QED
            BY <1>3, <3>1, <3>2, <3>3
    <2>4. CASE j > i
        <3>1. i \in 1..len /\ n = len /\ j \in 1..len /\ j - 1 \in 0..len
            BY <1>1, <1>2, <2>4
        <3>2. s[j] = sum[j] + t.size /\ s[j - 1] = sum[j - 1] + t.size /\ j # i
            <4>1. ~(j < i) /\ ~(j - 1 < i) /\ j # i
                BY <2>1, <2>4, <3>1
            <4>2. last(j) = j /\ last(j - 1) = j - 1
                BY <1>2, <1>6, <2>1, <3>1
            <4>3. QED
                BY <2>1, <4>1, <4>2
        <3>3. new.rows[j] = pg.rows[j]
            BY <1>1, <3>2
        <3>4. /\ sum[j - 1] + pg.rows[j].size <= sum[j]
              /\ sum[j - 1] \in Nat /\ sum[j] \in Nat /\ pg.rows[j].size \in Nat
            BY <1>2, <1>4, <1>5, <3>1
        <3>5. t.size \in Nat
            BY <1>3
        <3> HIDE DEF s, last
        <3>6. QED
            BY <3>2, <3>3, <3>4, <3>5
    <2>5. QED
        BY <2>1, <2>2, <2>3, <2>4
<1> HIDE DEF s
<1>9. new \in SoundPage
    <2>1. Counted(new, s)
        BY <1>1, <1>7, <1>8 DEF Counted
    <2>2. QED
        BY <1>1, <2>1 DEF SoundPage
<1>10. \A j \in 1..n : j = i \/ (j # i /\ j \in 1..len /\ new.rows[j] = pg.rows[j])
    BY <1>1, <1>2
<1>11. \A j \in 1..len : j = i \/ (j \in 1..n /\ new.rows[j] = pg.rows[j])
    BY <1>1, <1>2
<1>12. new.rows[i] = t /\ (i \in 1..len => pg.rows[i] = NoRow)
    BY <1>1
<1>13. /\ Copies(new, t) = Copies(pg, t) \cup {i} /\ i \notin Copies(pg, t)
       /\ \A u \in Tuple \ {t} : Copies(new, u) = Copies(pg, u)
    <2>1. i \notin Copies(pg, t)
        BY <1>3, <1>12 DEF Copies, len
    <2>2. Copies(new, t) = Copies(pg, t) \cup {i}
        BY <1>1, <1>10, <1>11, <1>12 DEF Copies, len
    <2>3. ASSUME NEW u \in Tuple, u # t PROVE Copies(new, u) = Copies(pg, u)
        <3>1. i \notin Copies(new, u) /\ i \notin Copies(pg, u)
            BY <1>12, <2>3, Constants DEF Copies, len
        <3>2. QED
            BY <1>1, <1>10, <1>11, <3>1 DEF Copies, len
    <2>4. QED
        BY <2>1, <2>2, <2>3
<1>14. Cardinality(Copies(new, t)) = Cardinality(Copies(pg, t)) + 1
    BY <1>13, GapFacts, FS_AddElement
<1>15. Slots!Gaps(pg) = {} => Slots!Gaps(new) = {}
    <2>1. /\ Slots!Gaps(new) = {j \in 1..n : new.rows[j] = NoRow}
          /\ Slots!Gaps(pg) = {j \in 1..len : pg.rows[j] = NoRow}
        BY <1>1, <1>9, GapFacts DEF len
    <2>2. QED
        BY <1>3, <1>10, <1>12, <2>1
<1>16. n <= len + 1
    BY <1>2
<1>17. QED
    BY <1>1, <1>9, <1>13, <1>14, <1>15, <1>16 DEF new, len

\* delete_tuple removes the row of its slot and no other one.
LEMMA DeletedRow ==
    ASSUME NEW pg \in SoundPage, NEW i \in 1..Len(pg.rows), pg.rows[i] \in Tuple
    PROVE  LET new == Slots!DeleteRow(pg, i)
           IN  /\ new \in SoundPage
               /\ Len(new.rows) <= Len(pg.rows)
               /\ \A u \in Tuple : Copies(new, u) = Copies(pg, u) \ {i}
<1> DEFINE new == Slots!DeleteRow(pg, i)
           len == Len(pg.rows)
           S   == {0} \cup (Slots!Taken(pg) \ {i})
           n   == Max(S)
           rows == [j \in 1..n |-> IF j = i THEN NoRow ELSE pg.rows[j]]
<1>1. /\ pg.rows \in Seq(Row) /\ len \in Nat /\ pg.freePtr \in 0..PAGE_SIZE
      /\ \A j \in 1..len : pg.rows[j] \in Row /\ pg.rows[j].size \in Nat
      /\ pg = [rows |-> pg.rows, freePtr |-> pg.freePtr]
      /\ Slots!Taken(pg) = {j \in 1..len : pg.rows[j] \in Tuple}
      /\ DirectoryEnd(len) <= pg.freePtr
    BY PageFacts, GapFacts, Constants DEF SoundPage, PageTypes
<1>2. n \in 0..len /\ \A j \in Slots!Taken(pg) \ {i} : j <= n
    <2>1. S \in SUBSET (0..len) /\ S # {} /\ len \in Nat
        BY <1>1
    <2> HIDE DEF S, len
    <2>2. n \in S /\ \A j \in S : j <= n
        BY <2>1, MaxIsGreatest
    <2>3. QED
        BY <2>1, <2>2 DEF S
<1>3. new = [pg EXCEPT !.rows = rows]
    BY SameMinMax DEF Slots!DeleteRow
<1> HIDE DEF new, n, rows, len, S
<1>4. new = [rows |-> rows, freePtr |-> pg.freePtr]
    BY <1>1, <1>3
<1>5. new.rows = rows /\ new.freePtr = pg.freePtr
    BY <1>4
<1>6. /\ rows \in Seq(Row) /\ Len(rows) = n
      /\ \A j \in 1..n : rows[j] = IF j = i THEN NoRow ELSE pg.rows[j]
    <2> DEFINE e(j) == IF j = i THEN NoRow ELSE pg.rows[j]
    <2>1. \A j \in 1..n : e(j) \in Row
        <3>1. NoRow \in Row /\ \A j \in 1..n : j \in 1..len
            BY <1>1, <1>2 DEF Row
        <3>2. QED
            BY <1>1, <3>1
    <2>2. rows = [j \in 1..n |-> e(j)] /\ n \in Nat
        BY <1>2 DEF rows
    <2> HIDE DEF e
    <2>3. rows \in Seq(Row) /\ Len(rows) = n /\ \A j \in 1..n : rows[j] = e(j)
        BY <2>1, <2>2
    <2>4. QED
        BY <2>3 DEF e
<1>7. DirectoryEnd(n) <= pg.freePtr
    <2>1. DirectoryEnd(n) <= DirectoryEnd(len) /\ DirectoryEnd(n) \in Nat /\ DirectoryEnd(len) \in Nat
        BY <1>1, <1>2, DirectoryFacts
    <2>2. QED
        BY <1>1, <2>1
<1>8. PICK sum \in [0..len -> 0..(PAGE_SIZE - pg.freePtr)] :
          \A j \in 1..len : sum[j - 1] + pg.rows[j].size <= sum[j]
    BY DEF SoundPage, Counted, len
<1> DEFINE s == [j \in 0..n |-> sum[j]]
<1>9. Counted(new, s)
    <2>1. \A j \in 0..n : j \in 0..len
        BY <1>1, <1>2
    <2>2. s \in [0..n -> 0..(PAGE_SIZE - pg.freePtr)]
        BY <1>8, <2>1
    <2>3. ASSUME NEW j \in 1..n PROVE s[j - 1] + rows[j].size <= s[j]
        <3>1. j \in 1..len /\ j \in 0..n /\ j - 1 \in 0..n /\ j \in 0..len /\ j - 1 \in 0..len
            BY <1>1, <1>2
        <3>2. s[j - 1] = sum[j - 1] /\ s[j] = sum[j]
            BY <3>1
        <3>3. /\ sum[j - 1] \in Nat /\ sum[j] \in Nat /\ pg.rows[j].size \in Nat
              /\ sum[j - 1] + pg.rows[j].size <= sum[j]
            <4>1. /\ sum[j - 1] \in 0..(PAGE_SIZE - pg.freePtr)
                  /\ sum[j] \in 0..(PAGE_SIZE - pg.freePtr)
                  /\ sum[j - 1] + pg.rows[j].size <= sum[j]
                BY <1>8, <3>1
            <4>2. pg.rows[j].size \in Nat
                BY <1>1, <3>1
            <4>3. QED
                BY <4>1, <4>2
        <3>4. rows[j] = NoRow \/ rows[j] = pg.rows[j]
            BY <1>6
        <3>5. NoRow.size = 0
            BY DEF NoRow
        <3> HIDE DEF s
        <3>6. QED
            BY <3>2, <3>3, <3>4, <3>5
    <2> HIDE DEF s
    <2>4. QED
        BY <1>5, <1>6, <2>2, <2>3 DEF Counted
<1> HIDE DEF s
<1>10. new \in SoundPage
    <2>1. new \in PageTypes
        BY <1>1, <1>4, <1>6 DEF PageTypes
    <2>2. QED
        BY <1>5, <1>6, <1>7, <1>9, <2>1 DEF SoundPage
<1>11. ASSUME NEW u \in Tuple PROVE Copies(new, u) = Copies(pg, u) \ {i}
    <2>1. NoRow # u
        BY Constants
    <2>2. Copies(pg, u) = {j \in 1..len : pg.rows[j] = u}
        BY DEF Copies, len
    <2>3. Copies(new, u) = {j \in 1..n : rows[j] = u}
        BY <1>5, <1>6 DEF Copies
    <2>4. ASSUME NEW j \in Copies(pg, u), j # i PROVE j \in Copies(new, u)
        <3>1. j \in 1..len /\ pg.rows[j] = u /\ j \in Slots!Taken(pg) \ {i}
            BY <1>1, <2>2, <2>4
        <3>2. j \in 1..n
            BY <1>1, <1>2, <3>1
        <3>3. rows[j] = u
            BY <1>6, <2>4, <3>1, <3>2
        <3>4. QED
            BY <2>3, <3>2, <3>3
    <2>5. ASSUME NEW j \in Copies(new, u) PROVE j \in Copies(pg, u) \ {i}
        <3>1. j \in 1..n /\ rows[j] = u
            BY <2>3
        <3>2. j # i /\ pg.rows[j] = u
            BY <1>6, <2>1, <3>1
        <3>3. j \in 1..len
            BY <1>1, <1>2, <3>1
        <3>4. QED
            BY <2>2, <3>2, <3>3
    <2>6. QED
        BY <2>4, <2>5
<1>12. Len(new.rows) <= len
    BY <1>1, <1>2, <1>5, <1>6
<1>13. QED
    BY <1>10, <1>11, <1>12 DEF new, len

\* compact inserts the rows one by one into an empty page.
LEMMA CompactionSteps ==
    ASSUME NEW pg \in SoundPage
    PROVE  \E g \in [0..Len(pg.rows) -> SoundPage] :
              /\ g[0] = Slots!NoRows
              /\ \A i \in 1..Len(pg.rows) :
                    g[i] = IF i \in Slots!Taken(pg) THEN Slots!InsertRow(g[i - 1], pg.rows[i])
                           ELSE g[i - 1]
              /\ Slots!CompactRows(pg) = IF Slots!Gaps(pg) = {} THEN pg ELSE g[Len(pg.rows)]
<1> DEFINE n    == Len(pg.rows)
           T    == Slots!Taken(pg)
           R    == SoundPage
           base == Slots!NoRows
           next(i, c) == IF i \in T THEN Slots!InsertRow(c, pg.rows[i]) ELSE c
           step == [i \in 1..n |-> [c \in R |-> next(i, c)]]
           body(f) == [i \in 0..n |-> IF i = 0 THEN base ELSE next(i, f[i - 1])]
           closed == CHOOSE f : f = body(f)
<1>1. n \in Nat /\ \A i \in T : i \in 1..n /\ pg.rows[i] \in Tuple
    BY PageFacts, GapFacts
<1>2. base \in R
    BY EmptyPageFacts
<1>3. Slots!CompactRows(pg) = IF Slots!Gaps(pg) = {} THEN pg ELSE closed[n]
    BY DEF Slots!CompactRows
<1> HIDE DEF closed, body, step, n, T, base
<1>4. ASSUME NEW i \in 1..n, NEW c \in R PROVE next(i, c) \in R
    <2>1. ASSUME NEW t \in Tuple PROVE Slots!InsertRow(c, t) \in R
        <3>1. CASE Slots!HasRoom(c, t)
            BY <3>1, InsertedRow
        <3>2. CASE ~Slots!HasRoom(c, t)
            BY <3>2 DEF Slots!InsertRow
        <3>3. QED
            BY <3>1, <3>2
    <2>2. QED
        BY <1>1, <2>1
<1> HIDE DEF next, R
<1>5. step \in [1..n -> [R -> R]] /\ \A i \in 1..n, c \in R : step[i][c] = next(i, c)
    BY <1>4 DEF step
<1>6. PICK g \in [0..n -> R] : g[0] = base /\ \A i \in 1..n : g[i] = step[i][g[i - 1]]
    BY <1>1, <1>2, <1>5, Recursion
<1>7. \A i \in 1..n : g[i] = next(i, g[i - 1])
    <2>1. \A i \in 1..n : i - 1 \in 0..n
        BY <1>1
    <2>2. QED
        BY <1>5, <1>6, <2>1
<1>8. g = body(g)
    <2>1. \A i \in 0..n : i # 0 => i \in 1..n
        BY <1>1
    <2>2. ASSUME NEW i \in 0..n PROVE body(g)[i] = g[i]
        <3>1. body(g)[i] = IF i = 0 THEN base ELSE next(i, g[i - 1])
            BY DEF body
        <3>2. CASE i = 0
            BY <1>6, <3>1, <3>2
        <3>3. CASE i # 0
            BY <1>7, <2>1, <3>1, <3>3
        <3>4. QED
            BY <3>2, <3>3
    <2>3. body(g) = [i \in 0..n |-> body(g)[i]]
        BY DEF body
    <2>4. g = [i \in 0..n |-> g[i]]
        BY <1>6
    <2> HIDE DEF body
    <2>5. QED
        BY <2>2, <2>3, <2>4
<1>9. closed = body(closed)
    BY <1>8 DEF closed
<1>10. closed[0] = base /\ \A i \in 1..n : closed[i] = next(i, closed[i - 1])
    <2>1. 0 \in 0..n /\ \A i \in 1..n : i \in 0..n /\ i # 0
        BY <1>1
    <2>2. \A i \in 0..n : closed[i] = body(closed)[i]
        BY <1>9
    <2>3. QED
        BY <2>1, <2>2 DEF body
<1>11. \A m \in 0..n : closed[m] = g[m]
    <2> DEFINE P == {m \in 0..n : closed[m] = g[m]}
    <2>1. 0 \in P
        BY <1>1, <1>6, <1>10
    <2>2. ASSUME NEW m \in 0..n, m \in P, m < n PROVE m + 1 \in P
        <3>1. m + 1 \in 1..n /\ m + 1 \in 0..n /\ (m + 1) - 1 = m
            BY <1>1, <2>2
        <3>2. closed[m + 1] = next(m + 1, closed[m]) /\ g[m + 1] = next(m + 1, g[m])
            BY <1>7, <1>10, <3>1
        <3>3. QED
            BY <2>2, <3>1, <3>2
    <2>3. \A m \in 0..n : m \in P /\ m < n => m + 1 \in P
        BY <2>2
    <2> HIDE DEF P
    <2>4. \A m \in 0..n : m \in P
        BY <1>1, <2>1, <2>3, Induction
    <2>5. QED
        BY <2>4 DEF P
<1>12. closed[n] = g[n]
    BY <1>1, <1>11
<1>13. QED
    BY <1>3, <1>6, <1>7, <1>12 DEF R, T, n, base, next

\* compact refuses no row, so that each row is there as often as before.
LEMMA CompactedRows ==
    ASSUME NEW pg \in SoundPage
    PROVE  LET new == Slots!CompactRows(pg)
           IN  /\ new \in SoundPage
               /\ \A t \in Tuple : Cardinality(Copies(new, t)) = Cardinality(Copies(pg, t))
<1> DEFINE new == Slots!CompactRows(pg)
           len == Len(pg.rows)
<1>1. PICK g \in [0..len -> SoundPage] :
          /\ g[0] = Slots!NoRows
          /\ \A i \in 1..len :
                g[i] = IF i \in Slots!Taken(pg) THEN Slots!InsertRow(g[i - 1], pg.rows[i])
                       ELSE g[i - 1]
          /\ new = IF Slots!Gaps(pg) = {} THEN pg ELSE g[len]
    BY CompactionSteps
<1>2. /\ len \in Nat /\ pg.freePtr \in Nat /\ PAGE_SIZE \in Nat /\ SLOT_SIZE \in Nat
      /\ \A j \in 1..len : pg.rows[j] \in Row /\ pg.rows[j].size \in Nat
      /\ Slots!Taken(pg) = {i \in 1..len : pg.rows[i] \in Tuple}
      /\ \A t : Copies(pg, t) = {i \in 1..len : pg.rows[i] = t}
    BY PageFacts, GapFacts, Constants DEF Copies
<1>0. len \in Nat /\ pg.freePtr \in Nat /\ PAGE_SIZE \in Nat /\ SLOT_SIZE \in Nat
    BY <1>2
<1>3. PICK sum \in [0..len -> 0..(PAGE_SIZE - pg.freePtr)] :
          \A j \in 1..len : sum[j - 1] + pg.rows[j].size <= sum[j]
    BY DEF SoundPage, Counted
<1>4. \A j \in 0..len : sum[j] \in Nat /\ sum[j] <= PAGE_SIZE - pg.freePtr
    <2> HIDE DEF len, new
    <2>1. PAGE_SIZE - pg.freePtr \in Int
        BY <1>0
    <2>2. \A j \in 0..len : sum[j] \in 0..(PAGE_SIZE - pg.freePtr)
        BY <1>3
    <2>3. QED
        BY <2>1, <2>2
<1>5. \A j \in 0..len : DirectoryEnd(j) \in Nat /\ DirectoryEnd(j) <= pg.freePtr
    <2>1. \A j \in 0..len : DirectoryEnd(j) \in Nat /\ DirectoryEnd(j) <= DirectoryEnd(len)
        <3> HIDE DEF len, new
        <3>1. \A j \in 0..len : j \in Nat
            OBVIOUS
        <3>2. \A j \in 0..len : DirectoryEnd(j) \in Nat
            BY <3>1, DirectoryFacts
        <3>3. QED
            BY <1>0, <3>2, DirectoryFacts
    <2>2. DirectoryEnd(len) <= pg.freePtr /\ DirectoryEnd(len) \in Nat
        BY PageFacts
    <2> HIDE DEF len
    <2>3. QED
        BY <1>2, <2>1, <2>2
<1> HIDE DEF new, len
<1>6. CASE Slots!Gaps(pg) = {}
    BY <1>1, <1>6 DEF new
<1> SUFFICES ASSUME Slots!Gaps(pg) # {}
             PROVE  /\ g[len] \in SoundPage
                    /\ \A t \in Tuple : Cardinality(Copies(g[len], t)) = Cardinality(Copies(pg, t))
    BY <1>1, <1>6 DEF new
<1>7. g[len] \in SoundPage
    BY <1>1, <1>2
<1> DEFINE Upto(t, m) == {i \in 1..m : pg.rows[i] = t}
           Closed(t, m) == /\ Slots!Gaps(g[m]) = {}
                           /\ Len(g[m].rows) <= m
                           /\ PAGE_SIZE - sum[m] <= g[m].freePtr
                           /\ Cardinality(Copies(g[m], t)) = Cardinality(Upto(t, m))
<1>8. ASSUME NEW t \in Tuple PROVE Cardinality(Copies(g[len], t)) = Cardinality(Copies(pg, t))
    <2> DEFINE P == {m \in 0..len : Closed(t, m)}
    <2>1. 0 \in P
        <3>1. Upto(t, 0) = {}
            OBVIOUS
        <3>2. 0 \in 0..len /\ PAGE_SIZE - sum[0] <= PAGE_SIZE /\ 0 <= 0
            BY <1>0, <1>4
        <3>3. Copies(g[0], t) = {} /\ Slots!Gaps(g[0]) = {} /\ Len(g[0].rows) = 0
              /\ g[0].freePtr = PAGE_SIZE
            BY <1>1, EmptyPageFacts
        <3>4. Closed(t, 0)
            <4> HIDE DEF Upto
            <4>1. QED
                BY <3>1, <3>2, <3>3
        <3> HIDE DEF Closed
        <3>5. QED
            BY <3>2, <3>4
    <2>2. ASSUME NEW m \in 0..len, m \in P, m < len PROVE m + 1 \in P
        <3> DEFINE j == m + 1
                   u == pg.rows[j]
        <3>1. /\ j \in 1..len /\ j - 1 = m /\ j \in 0..len /\ m \in Nat
              /\ g[m] \in SoundPage
            BY <1>1, <1>2, <2>2
        <3>2. /\ sum[m] + u.size <= sum[j] /\ sum[m] \in Nat /\ sum[j] \in Nat /\ u.size \in Nat
              /\ sum[j] <= PAGE_SIZE - pg.freePtr
              /\ DirectoryEnd(j) \in Nat /\ DirectoryEnd(j) <= pg.freePtr
            <4>1. sum[j - 1] + u.size <= sum[j] /\ u.size \in Nat
                BY <1>2, <1>3, <3>1
            <4> HIDE DEF u
            <4>2. QED
                BY <1>4, <1>5, <2>2, <3>1, <4>1
        <3>3. Closed(t, m)
            BY <2>2
        <3>4. /\ Len(g[m].rows) \in Nat /\ g[m].freePtr \in Nat
              /\ Slots!FreeSpace(g[m]) = g[m].freePtr - DirectoryEnd(Len(g[m].rows))
            BY <3>1, PageFacts
        <3>5. g[j] = IF j \in Slots!Taken(pg) THEN Slots!InsertRow(g[m], u) ELSE g[m]
            <4> HIDE DEF j, u
            <4>1. g[j] = IF j \in Slots!Taken(pg) THEN Slots!InsertRow(g[j - 1], pg.rows[j])
                         ELSE g[j - 1]
                BY <1>1, <3>1
            <4>2. QED
                BY <3>1, <4>1 DEF u
        <3>6. Upto(t, j) = IF u = t THEN Upto(t, m) \cup {j} ELSE Upto(t, m)
            <4>1. \A i \in 1..j : i = j \/ i \in 1..m
                BY <3>1
            <4>2. \A i \in 1..m : i \in 1..j
                BY <3>1
            <4>3. j \in 1..j
                BY <3>1
            <4> HIDE DEF j
            <4>4. QED
                BY <4>1, <4>2, <4>3
        <3>7. IsFiniteSet(Upto(t, m)) /\ j \notin Upto(t, m)
            <4>1. IsFiniteSet(1..m)
                <5>1. 1 \in Int /\ m \in Int
                    BY <3>1
                <5>2. QED
                    BY <5>1, FS_Interval
            <4>2. Upto(t, m) \in SUBSET (1..m)
                OBVIOUS
            <4>3. j \notin 1..m
                BY <3>1
            <4>4. IsFiniteSet(Upto(t, m))
                BY <4>1, <4>2, FS_Subset
            <4>5. QED
                BY <4>2, <4>3, <4>4
        <3>8. Cardinality(Upto(t, j)) = Cardinality(Upto(t, m)) + (IF u = t THEN 1 ELSE 0)
            <4> HIDE DEF Upto, j, u
            <4>1. CASE u = t
                BY <3>6, <3>7, <4>1, FS_AddElement
            <4>2. CASE u # t
                <5>1. Cardinality(Upto(t, m)) \in Nat
                    BY <3>7, FS_CardinalityType
                <5>2. QED
                    BY <3>6, <4>2, <5>1
            <4>3. QED
                BY <4>1, <4>2
        <3>9. CASE j \in Slots!Taken(pg)
            <4>1. u \in Tuple /\ g[j] = Slots!InsertRow(g[m], u)
                BY <1>2, <3>5, <3>9
            <4>2. Slots!HasRoom(g[m], u)
                <5> HIDE DEF u
                <5>1. /\ DirectoryEnd(Len(g[m].rows) + 1) = DirectoryEnd(Len(g[m].rows)) + SLOT_SIZE
                      /\ DirectoryEnd(Len(g[m].rows)) \in Nat
                    BY <3>4, DirectoryFacts
                <5>2. DirectoryEnd(Len(g[m].rows) + 1) <= DirectoryEnd(j)
                    <6>1. Len(g[m].rows) + 1 \in 0..j /\ j \in Nat
                        BY <3>1, <3>3, <3>4
                    <6> HIDE DEF j
                    <6>2. QED
                        BY <6>1, DirectoryFacts
                <5>3. Slots!Gaps(g[m]) = {} /\ PAGE_SIZE - sum[m] <= g[m].freePtr
                    BY <3>3
                <5> DEFINE end == DirectoryEnd(Len(g[m].rows))
                <5>4. /\ end \in Nat /\ end + SLOT_SIZE <= DirectoryEnd(j)
                      /\ Slots!FreeSpace(g[m]) = g[m].freePtr - end
                    BY <3>4, <5>1, <5>2
                <5> HIDE DEF end, j, Closed, Upto, P
                <5>5. u.size + SLOT_SIZE <= g[m].freePtr - end
                    <6>1. g[m].freePtr \in Nat
                        BY <3>4
                    <6>2. end + SLOT_SIZE <= PAGE_SIZE - sum[j]
                        <7>1. /\ DirectoryEnd(j) \in Nat /\ DirectoryEnd(j) <= pg.freePtr
                              /\ sum[j] \in Nat /\ sum[j] <= PAGE_SIZE - pg.freePtr
                            BY <3>2
                        <7>2. end \in Nat /\ end + SLOT_SIZE <= DirectoryEnd(j)
                            BY <5>4
                        <7>3. QED
                            BY <1>0, <7>1, <7>2
                    <6>3. /\ sum[m] + u.size <= sum[j] /\ sum[m] \in Nat /\ sum[j] \in Nat
                          /\ u.size \in Nat
                        BY <3>2
                    <6>4. PAGE_SIZE - sum[m] <= g[m].freePtr /\ end \in Nat
                        BY <5>3, <5>4
                    <6>5. end + SLOT_SIZE + u.size <= PAGE_SIZE - sum[m]
                        <7>1. PAGE_SIZE \in Nat /\ SLOT_SIZE \in Nat /\ end \in Nat
                            BY <1>0, <6>4
                        <7>2. QED
                            BY <6>2, <6>3, <7>1
                    <6>6. PAGE_SIZE - sum[m] \in Int /\ end + SLOT_SIZE + u.size \in Int
                        BY <1>0, <6>3, <6>4
                    <6>7. end + SLOT_SIZE + u.size <= g[m].freePtr
                        BY <6>1, <6>4, <6>5, <6>6
                    <6>8. QED
                        BY <1>0, <6>1, <6>3, <6>4, <6>7
                <5>6. QED
                    BY <5>3, <5>4, <5>5 DEF Slots!HasRoom
            <4>3. /\ g[j].freePtr = g[m].freePtr - u.size
                  /\ Len(g[j].rows) <= Len(g[m].rows) + 1
                  /\ Slots!Gaps(g[j]) = {}
                  /\ Cardinality(Copies(g[j], u)) = Cardinality(Copies(g[m], u)) + 1
                  /\ \A v \in Tuple \ {u} : Copies(g[j], v) = Copies(g[m], v)
                <5>1. Slots!Gaps(g[m]) = {}
                    BY <3>3
                <5> HIDE DEF u, j, Closed
                <5>2. QED
                    BY <3>1, <4>1, <4>2, <5>1, InsertedRow
            <4>4. Cardinality(Copies(g[j], t)) = Cardinality(Copies(g[m], t)) + (IF u = t THEN 1 ELSE 0)
                <5>1. Cardinality(Copies(g[m], t)) \in Nat
                    BY <3>1, GapFacts
                <5> HIDE DEF u, j, Closed
                <5>2. QED
                    BY <4>3, <5>1
            <4>5. Cardinality(Copies(g[j], t)) = Cardinality(Upto(t, j))
                BY <3>3, <3>8, <4>4
            <4>6. Len(g[j].rows) \in Nat /\ g[j] \in SoundPage
                BY <1>1, <3>1, PageFacts
            <4>7. Len(g[j].rows) <= j
                BY <3>1, <3>3, <3>4, <4>3, <4>6
            <4>8. PAGE_SIZE - sum[j] <= g[j].freePtr
                <5>1. PAGE_SIZE - sum[m] <= g[m].freePtr
                    BY <3>3
                <5>2. g[m].freePtr \in Nat /\ g[j].freePtr = g[m].freePtr - u.size
                    BY <3>4, <4>3
                <5> DEFINE before == sum[m]
                           after == sum[j]
                           ptr == g[m].freePtr
                           size == u.size
                <5>3. /\ before \in Nat /\ after \in Nat /\ ptr \in Nat /\ size \in Nat
                      /\ PAGE_SIZE \in Nat /\ before + size <= after
                      /\ PAGE_SIZE - before <= ptr /\ g[j].freePtr = ptr - size
                    BY <1>0, <3>2, <5>1, <5>2
                <5> HIDE DEF u, j, Closed, Upto, P, before, after, ptr, size
                <5>4. PAGE_SIZE - after <= g[j].freePtr
                    BY <5>3
                <5>5. QED
                    BY <5>4 DEF after
            <4>9. QED
                BY <3>1, <4>3, <4>5, <4>7, <4>8
        <3>10. CASE j \notin Slots!Taken(pg)
            <4>1. g[j] = g[m] /\ u # t
                BY <1>2, <3>1, <3>5, <3>10
            <4>2. PAGE_SIZE - sum[j] <= g[m].freePtr
                <5>1. PAGE_SIZE - sum[m] <= g[m].freePtr /\ g[m].freePtr \in Nat
                    BY <3>3, <3>4
                <5> DEFINE before == sum[m]
                           after == sum[j]
                <5>2. /\ before \in Nat /\ after \in Nat /\ before <= after
                      /\ PAGE_SIZE \in Nat /\ PAGE_SIZE - before <= g[m].freePtr
                    <6>1. u.size \in Nat /\ before + u.size <= after
                        BY <3>2
                    <6>2. before \in Nat /\ after \in Nat
                        BY <3>2
                    <6> HIDE DEF u, before, after, j, Closed, Upto, P
                    <6>3. before <= after
                        BY <6>1, <6>2
                    <6>4. QED
                        BY <1>0, <5>1, <6>2, <6>3 DEF before
                <5> HIDE DEF u, j, Closed, Upto, P, before, after
                <5>3. PAGE_SIZE - after <= g[m].freePtr
                    BY <5>1, <5>2
                <5>4. QED
                    BY <5>3 DEF after
            <4>3. Cardinality(Upto(t, j)) = Cardinality(Upto(t, m))
                BY <3>6, <4>1
            <4>4. Len(g[m].rows) <= j
                BY <3>1, <3>3, <3>4
            <4>5. QED
                BY <3>1, <3>3, <4>1, <4>2, <4>3, <4>4
        <3>11. QED
            BY <3>9, <3>10
    <2>3. \A m \in 0..len : m \in P /\ m < len => m + 1 \in P
        BY <2>2
    <2> HIDE DEF P
    <2>4. \A m \in 0..len : m \in P
        BY <1>2, <2>1, <2>3, Induction
    <2>5. len \in P
        BY <1>2, <2>4
    <2>6. Upto(t, len) = Copies(pg, t)
        BY <1>2
    <2>7. QED
        BY <2>5, <2>6 DEF P
<1>9. QED
    BY <1>7, <1>8

-----------------------------------------------------------------------------
(* Counting the rows of several pages *)

\* The places on pages P, where f is what is counted on each page.
Pairs(P, f) == UNION {{p} \X f[p] : p \in P}

Countable(P, f) == IsFiniteSet(P) /\ \A p \in P : IsFiniteSet(f[p])

\* A place is a page and a slot.
LEMMA PairsAre ==
    ASSUME NEW P, NEW f
    PROVE  /\ \A x \in Pairs(P, f) : x[1] \in P /\ x[2] \in f[x[1]] /\ x = <<x[1], x[2]>>
           /\ \A p \in P : \A i \in f[p] : <<p, i>> \in Pairs(P, f)
BY DEF Pairs

\* They are finitely many.
LEMMA PairsFinite ==
    ASSUME NEW P, NEW f, Countable(P, f)
    PROVE  IsFiniteSet(Pairs(P, f)) /\ Cardinality(Pairs(P, f)) \in Nat
<1> DEFINE g == [p \in P |-> {p} \X f[p]]
           T == {{p} \X f[p] : p \in P}
<1>1. g \in Surjection(P, T)
    BY DEF Surjection
<1>2. IsFiniteSet(T)
    <2> HIDE DEF g, T
    <2>1. IsFiniteSet(P)
        BY DEF Countable
    <2>2. QED
        BY <1>1, <2>1, FS_Surjection
<1>3. \A S \in T : IsFiniteSet(S)
    <2>1. ASSUME NEW p \in P PROVE IsFiniteSet({p} \X f[p])
        <3>1. IsFiniteSet({p}) /\ IsFiniteSet(f[p])
            BY FS_Singleton DEF Countable
        <3>2. QED
            BY <3>1, FS_Product
    <2>2. QED
        BY <2>1
<1>4. IsFiniteSet(UNION T)
    <2> HIDE DEF T
    <2>1. QED
        BY <1>2, <1>3, FS_UNION
<1>5. IsFiniteSet(Pairs(P, f))
    BY <1>4 DEF Pairs
<1>6. QED
    BY <1>5, FS_CardinalityType

\* There are as many if each page has as many.
LEMMA SamePerPage ==
    ASSUME NEW P, NEW f, NEW g, Countable(P, f), Countable(P, g),
           \A p \in P : Cardinality(f[p]) = Cardinality(g[p])
    PROVE  Cardinality(Pairs(P, f)) = Cardinality(Pairs(P, g))
<1> DEFINE S == Pairs(P, f)
           T == Pairs(P, g)
           b == [p \in P |-> CHOOSE h : h \in Bijection(f[p], g[p])]
           m == [x \in S |-> <<x[1], b[x[1]][x[2]]>>]
<1>1. /\ \A x \in S : x[1] \in P /\ x[2] \in f[x[1]] /\ x = <<x[1], x[2]>>
      /\ \A p \in P : \A i \in f[p] : <<p, i>> \in S
      /\ \A x \in T : x[1] \in P /\ x[2] \in g[x[1]] /\ x = <<x[1], x[2]>>
      /\ \A p \in P : \A i \in g[p] : <<p, i>> \in T
    BY PairsAre
<1>2. ASSUME NEW p \in P
      PROVE  /\ \A i \in f[p] : b[p][i] \in g[p]
             /\ \A i, j \in f[p] : b[p][i] = b[p][j] => i = j
             /\ \A k \in g[p] : \E i \in f[p] : b[p][i] = k
    <2>1. IsFiniteSet(f[p]) /\ IsFiniteSet(g[p]) /\ Cardinality(f[p]) = Cardinality(g[p])
        BY DEF Countable
    <2>2. Bijection(f[p], g[p]) # {}
        BY <2>1, FS_SameCardinalityBij DEF ExistsBijection
    <2>3. b[p] \in Bijection(f[p], g[p])
        BY <2>2
    <2> DEFINE c == b[p]
               F == f[p]
               G == g[p]
    <2>4. c \in Bijection(F, G)
        BY <2>3
    <2> HIDE DEF c, F, G, b, m, S, T
    <2>5. /\ c \in [F -> G]
          /\ \A i, j \in F : c[i] = c[j] => i = j
          /\ \A k \in G : \E i \in F : c[i] = k
        BY <2>4, Fun_BijectionProperties
    <2>6. QED
        BY <2>5 DEF c, F, G
<1> HIDE DEF b, S, T
<1>3. m \in [S -> T]
    BY <1>1, <1>2
<1>4. ASSUME NEW x \in S, NEW y \in S, m[x] = m[y] PROVE x = y
    <2>1. m[x] = <<x[1], b[x[1]][x[2]]>> /\ m[y] = <<y[1], b[y[1]][y[2]]>>
        OBVIOUS
    <2>2. x[1] = y[1] /\ b[x[1]][x[2]] = b[y[1]][y[2]]
        BY <1>4, <2>1
    <2>3. x[2] = y[2]
        BY <1>1, <1>2, <2>2
    <2>4. QED
        BY <1>1, <2>2, <2>3
<1>5. ASSUME NEW y \in T PROVE \E x \in S : m[x] = y
    <2>1. y[1] \in P /\ y[2] \in g[y[1]] /\ y = <<y[1], y[2]>>
        BY <1>1
    <2>2. PICK i \in f[y[1]] : b[y[1]][i] = y[2]
        BY <1>2, <2>1
    <2>3. <<y[1], i>> \in S
        BY <1>1, <2>1
    <2>4. m[<<y[1], i>>] = <<y[1], y[2]>>
        BY <2>2, <2>3
    <2>5. QED
        BY <2>1, <2>3, <2>4
<1> HIDE DEF m
<1>6. m \in Bijection(S, T)
    BY <1>3, <1>4, <1>5, Fun_IsBij
<1>7. ExistsBijection(S, T)
    BY <1>6 DEF ExistsBijection
<1>8. IsFiniteSet(S)
    BY PairsFinite DEF S
<1>9. Cardinality(T) = Cardinality(S)
    BY <1>7, <1>8, FS_Bijection
<1>10. QED
    BY <1>9 DEF S, T

\* There is one more if one page has one more.
LEMMA OneMoreOnAPage ==
    ASSUME NEW P, NEW f, NEW g, Countable(P, f), Countable(P, g), NEW q \in P,
           Cardinality(g[q]) = Cardinality(f[q]) + 1,
           \A p \in P : p # q => Cardinality(f[p]) = Cardinality(g[p])
    PROVE  Cardinality(Pairs(P, g)) = Cardinality(Pairs(P, f)) + 1
<1>1. /\ IsFiniteSet(P)
      /\ \A p \in P : IsFiniteSet(f[p]) /\ IsFiniteSet(g[p])
    BY DEF Countable
<1>2. g[q] # {}
    <2>1. Cardinality(f[q]) \in Nat
        BY <1>1, FS_CardinalityType
    <2>2. Cardinality(g[q]) # 0
        BY <2>1
    <2>3. QED
        BY <2>2, FS_EmptySet
<1>3. PICK x : x \in g[q]
    BY <1>2
<1> DEFINE h == [p \in P |-> IF p = q THEN g[q] \ {x} ELSE g[p]]
<1>4. h[q] = g[q] \ {x} /\ \A p \in P : p # q => h[p] = g[p]
    OBVIOUS
<1> HIDE DEF h
<1>5. IsFiniteSet(g[q] \ {x}) /\ Cardinality(g[q] \ {x}) = Cardinality(f[q])
    <2>1. Cardinality(f[q]) \in Nat
        BY <1>1, FS_CardinalityType
    <2>2. IsFiniteSet(g[q] \ {x}) /\ Cardinality(g[q] \ {x}) = Cardinality(g[q]) - 1
        BY <1>1, <1>3, FS_RemoveElement
    <2>3. QED
        BY <2>1, <2>2
<1>6. Countable(P, h)
    BY <1>1, <1>4, <1>5 DEF Countable
<1>7. \A p \in P : Cardinality(f[p]) = Cardinality(h[p])
    BY <1>4, <1>5
<1>8. Cardinality(Pairs(P, f)) = Cardinality(Pairs(P, h))
    BY <1>6, <1>7, SamePerPage
<1>9. Pairs(P, g) = Pairs(P, h) \cup {<<q, x>>} /\ <<q, x>> \notin Pairs(P, h)
    <2>1. /\ \A y \in Pairs(P, h) : y[1] \in P /\ y[2] \in h[y[1]] /\ y = <<y[1], y[2]>>
          /\ \A p \in P : \A i \in h[p] : <<p, i>> \in Pairs(P, h)
          /\ \A y \in Pairs(P, g) : y[1] \in P /\ y[2] \in g[y[1]] /\ y = <<y[1], y[2]>>
          /\ \A p \in P : \A i \in g[p] : <<p, i>> \in Pairs(P, g)
        BY PairsAre
    <2>2. <<q, x>> \notin Pairs(P, h)
        <3>1. <<q, x>>[1] = q /\ <<q, x>>[2] = x
            OBVIOUS
        <3>2. QED
            BY <1>4, <2>1, <3>1
    <2>3. ASSUME NEW y \in Pairs(P, g), y # <<q, x>> PROVE y \in Pairs(P, h)
        <3>1. y[1] \in P /\ y[2] \in g[y[1]] /\ y = <<y[1], y[2]>>
            BY <2>1
        <3>2. y[2] \in h[y[1]]
            <4>1. CASE y[1] = q
                <5>1. y[2] # x
                    BY <2>3, <3>1, <4>1
                <5>2. QED
                    BY <1>4, <3>1, <4>1, <5>1
            <4>2. CASE y[1] # q
                BY <1>4, <3>1, <4>2
            <4>3. QED
                BY <4>1, <4>2
        <3>3. QED
            BY <2>1, <3>1, <3>2
    <2>4. ASSUME NEW y \in Pairs(P, h) PROVE y \in Pairs(P, g)
        <3>1. y[1] \in P /\ y[2] \in h[y[1]] /\ y = <<y[1], y[2]>>
            BY <2>1
        <3>2. y[2] \in g[y[1]]
            BY <1>4, <3>1
        <3>3. QED
            BY <2>1, <3>1, <3>2
    <2>5. <<q, x>> \in Pairs(P, g)
        BY <1>3, <2>1
    <2>6. QED
        BY <2>2, <2>3, <2>4, <2>5
<1>10. IsFiniteSet(Pairs(P, h))
    BY <1>6, PairsFinite
<1>11. QED
    BY <1>8, <1>9, <1>10, FS_AddElement

\* Only the pages that have something count.
LEMMA PagesWithNothing ==
    ASSUME NEW P, NEW f, NEW Q, NEW g,
           \A p \in P \cap Q : f[p] = g[p],
           \A p \in P \ Q : f[p] = {},
           \A p \in Q \ P : g[p] = {}
    PROVE  Pairs(P, f) = Pairs(Q, g)
<1>1. /\ \A y \in Pairs(P, f) : y[1] \in P /\ y[2] \in f[y[1]] /\ y = <<y[1], y[2]>>
      /\ \A p \in P : \A i \in f[p] : <<p, i>> \in Pairs(P, f)
      /\ \A y \in Pairs(Q, g) : y[1] \in Q /\ y[2] \in g[y[1]] /\ y = <<y[1], y[2]>>
      /\ \A p \in Q : \A i \in g[p] : <<p, i>> \in Pairs(Q, g)
    BY PairsAre
<1>2. ASSUME NEW y \in Pairs(P, f) PROVE y \in Pairs(Q, g)
    <2>1. y[1] \in P /\ y[2] \in f[y[1]] /\ y = <<y[1], y[2]>>
        BY <1>1
    <2>2. y[1] \in Q /\ y[2] \in g[y[1]]
        BY <2>1
    <2>3. QED
        BY <1>1, <2>1, <2>2
<1>3. ASSUME NEW y \in Pairs(Q, g) PROVE y \in Pairs(P, f)
    <2>1. y[1] \in Q /\ y[2] \in g[y[1]] /\ y = <<y[1], y[2]>>
        BY <1>1
    <2>2. y[1] \in P /\ y[2] \in f[y[1]]
        BY <2>1
    <2>3. QED
        BY <1>1, <2>1, <2>2
<1>4. QED
    BY <1>2, <1>3

-----------------------------------------------------------------------------
(* The inductive invariant holds in every step *)

\* The empty sequence has no elements.
LEMMA Nothing ==
    /\ \A S : <<>> \in Seq(S)
    /\ ToSet(<<>>) = {} /\ IsInjective(<<>>) /\ Len(<<>>) = 0
<1>1. DOMAIN <<>> = {}
    OBVIOUS
<1>2. ToSet(<<>>) = {} /\ IsInjective(<<>>)
    BY <1>1 DEF ToSet, IsInjective
<1>3. QED
    BY <1>2

\* Which pages are the table's depends on its extents only.
LEMMA SamePages ==
    ASSUME extents' = extents
    PROVE  ListedPages' = ListedPages /\ Stats' = Stats
<1>1. ListedPages' = ListedPages
    BY DEF ListedPages
<1>2. QED
    BY <1>1 DEF Stats

\* The statement is over.
LEMMA OverStep ==
    ASSUME EndStatement, pages' \in [PageId -> SoundPage], ExtentsOK'
    PROVE  IInv'
<1> DEFINE none == <<>>
<1>1. /\ stmt' = "idle" /\ current' = INVALID_PAGE_ID /\ todo' = none /\ slot' = 1
      /\ where' = {} /\ seen' = NoRowsSeen /\ skipped' = FALSE /\ stats' = none
    BY DEF EndStatement
<1>2. none \in Seq(Nat) /\ none \in Seq(Stats') /\ ToSet(none) = {} /\ IsInjective(none)
    BY Nothing
<1>3. Visited'
    BY <1>1 DEF Visited
<1> HIDE DEF none
<1>4. NoRowsSeen \in [Tuple -> Nat]
    BY DEF NoRowsSeen
<1>5. StatementOK'
    <2>1. stmt' \in {"idle", "insert", "scan", "migrate", "free", "remove"}
        BY <1>1
    <2>2. todo' \in Seq(Nat)
        BY <1>1, <1>2
    <2>3. slot' \in Nat \ {0}
        BY <1>1
    <2>4. where' = {} /\ skipped' \in BOOLEAN
        BY <1>1
    <2>5. seen' \in [Tuple -> Nat]
        BY <1>1, <1>4
    <2>6. QED
        BY <2>1, <2>2, <2>3, <2>4, <2>5 DEF StatementOK
<1>6. CurrentOK'
    BY <1>1 DEF CurrentOK
<1>7. ScanOK'
    BY <1>1 DEF ScanOK
<1>8. CompactionOK'
    BY <1>1, <1>2 DEF CompactionOK, none
<1>9. QED
    BY <1>3, <1>5, <1>6, <1>7, <1>8 DEF IInv

\* A new database has no table pages.
LEMMA InitInv == Init => IInv
<1> SUFFICES ASSUME Init PROVE IInv
    OBVIOUS
<1> DEFINE none == <<>>
<1>1. /\ pages = [p \in PageId |-> Slots!NoRows] /\ extents = none /\ used = {}
      /\ stmt = "idle" /\ current = INVALID_PAGE_ID /\ todo = none /\ slot = 1
      /\ where = {} /\ seen = NoRowsSeen /\ skipped = FALSE /\ stats = none
    BY DEF Init
<1>2. /\ none \in Seq(Nat) /\ none \in Seq(Stats) /\ none \in Seq(Extent)
      /\ ToSet(none) = {} /\ IsInjective(none)
    BY Nothing
<1>3. Visited
    BY <1>1 DEF Visited
<1> HIDE DEF none
<1>4. NoRowsSeen \in [Tuple -> Nat]
    BY DEF NoRowsSeen
<1>5. StatementOK
    <2>1. stmt \in {"idle", "insert", "scan", "migrate", "free", "remove"}
        BY <1>1
    <2>2. todo \in Seq(Nat)
        BY <1>1, <1>2
    <2>3. slot \in Nat \ {0}
        BY <1>1
    <2>4. where = {} /\ skipped \in BOOLEAN
        BY <1>1
    <2>5. seen \in [Tuple -> Nat]
        BY <1>1, <1>4
    <2>6. QED
        BY <2>1, <2>2, <2>3, <2>4, <2>5 DEF StatementOK
<1>6. CurrentOK
    BY <1>1 DEF CurrentOK
<1>7. ScanOK
    BY <1>1 DEF ScanOK
<1>8. CompactionOK
    BY <1>1, <1>2 DEF CompactionOK, none
<1>9. ExtentsOK
    BY <1>1, <1>2 DEF ExtentsOK
<1>10. pages \in [PageId -> SoundPage]
    BY <1>1, EmptyPageFacts
<1>11. QED
    BY <1>3, <1>5, <1>6, <1>7, <1>8, <1>9, <1>10 DEF IInv

\* What is known of a statement that inserts or is about to.
LEMMA InsertFacts ==
    ASSUME IInv, stmt \in {"idle", "insert"}
    PROVE  /\ todo = <<>> /\ slot = 1 /\ seen = NoRowsSeen /\ skipped = FALSE
           /\ where = {} /\ stats = <<>>
<1>1. todo = <<>> /\ slot = 1 /\ seen = NoRowsSeen /\ skipped = FALSE
    BY DEF IInv, Visited, StatementOK
<1>2. where = {}
    BY DEF IInv, StatementOK
<1>3. stats = <<>>
    BY DEF IInv, CompactionOK
<1>4. QED
    BY <1>1, <1>2, <1>3

\* A row was inserted into a page of the table.
LEMMA PutStep ==
    ASSUME IInv, stmt \in {"idle", "insert"},
           pages' \in [PageId -> SoundPage], ExtentsOK', current' \in ListedPages',
           stmt' = "insert", UNCHANGED <<todo, slot, scanVars, stats>>
    PROVE  IInv'
<1> DEFINE none == <<>>
<1>1. /\ todo' = none /\ slot' = 1 /\ seen' = NoRowsSeen /\ skipped' = FALSE
      /\ where' = {} /\ stats' = none
    BY InsertFacts DEF scanVars
<1>2. none \in Seq(Nat) /\ none \in Seq(Stats') /\ ToSet(none) = {} /\ IsInjective(none)
    BY Nothing
<1>3. Visited'
    BY <1>1 DEF Visited
<1> HIDE DEF none
<1>4. NoRowsSeen \in [Tuple -> Nat]
    BY DEF NoRowsSeen
<1>5. StatementOK'
    <2>1. stmt' \in {"idle", "insert", "scan", "migrate", "free", "remove"}
        OBVIOUS
    <2>2. todo' \in Seq(Nat)
        BY <1>1, <1>2
    <2>3. slot' \in Nat \ {0}
        BY <1>1
    <2>4. where' = {} /\ skipped' \in BOOLEAN
        BY <1>1
    <2>5. seen' \in [Tuple -> Nat]
        BY <1>1, <1>4
    <2>6. QED
        BY <2>1, <2>2, <2>3, <2>4, <2>5 DEF StatementOK
<1>6. CurrentOK'
    BY DEF CurrentOK
<1>7. ScanOK'
    BY DEF ScanOK
<1>8. CompactionOK'
    BY <1>1, <1>2 DEF CompactionOK, none
<1>9. QED
    BY <1>3, <1>5, <1>6, <1>7, <1>8 DEF IInv

\* A page of the table is one of the file's.
LEMMA ListedFacts ==
    ASSUME IInv, NEW p \in ListedPages
    PROVE  p \in PageId /\ pages[p] \in SoundPage /\ p # INVALID_PAGE_ID
BY ExtentOfPage DEF ListedPages, IInv

\* What the invariant says, for the steps below.
LEMMA InvFacts ==
    ASSUME IInv
    PROVE  /\ pages \in [PageId -> SoundPage]
           /\ ExtentsOK /\ extents \in Seq(Extent) /\ IsInjective(extents)
           /\ StatementOK /\ todo \in Seq(Nat) /\ slot \in Nat \ {0}
           /\ where \subseteq Tuple /\ (stmt # "scan" => where = {})
           /\ seen \in [Tuple -> Nat] /\ skipped \in BOOLEAN
           /\ stats \in Seq(Stats) /\ (stmt # "migrate" => stats = <<>>)
           /\ current \in ListedPages \cup {INVALID_PAGE_ID}
BY DEF IInv, ExtentsOK, StatementOK, CompactionOK, CurrentOK

\* The page that find_page_with_space returns has room for the row.
LEMMA FoundFacts ==
    ASSUME IInv, NEW t \in Tuple, NEW p \in PageId, FindPage(t, p)
    PROVE  Slots!HasRoom(pages[p], t) /\ Slots!InsertRow(pages[p], t) \in SoundPage
<1>1. pages[p] \in SoundPage
    BY InvFacts
<1>2. Slots!FreeSpace(pages[p]) \in Nat /\ t.size \in Nat /\ SLOT_SIZE \in Nat
    <2>1. Slots!FreeSpace(pages[p]) \in 0..PAGE_SIZE
        BY <1>1, PageFacts
    <2>2. QED
        BY <2>1, Constants
<1>3. Slots!HasRoom(pages[p], t)
    BY <1>2 DEF FindPage, Slots!HasRoom
<1>4. QED
    BY <1>1, <1>3, InsertedRow

\* A row fits the page it is inserted into.
LEMMA InsertIntoListed ==
    ASSUME IInv, NEW t \in Tuple, NEW p \in PageId,
           (InsertIntoCurrent(t) /\ p = current) \/ InsertIntoFound(t, p)
    PROVE  /\ stmt \in {"idle", "insert"} /\ p \in ListedPages
           /\ Slots!HasRoom(pages[p], t)
           /\ PutRow(t, p) /\ stmt' = "insert" /\ current' = p
           /\ UNCHANGED <<extents, used, todo, slot, scanVars, stats>>
<1>1. CASE InsertIntoCurrent(t) /\ p = current
    <2>1. current # INVALID_PAGE_ID /\ Slots!HasRoom(pages[current], t)
        BY <1>1 DEF InsertIntoCurrent, NoCurrentRoom
    <2>2. current \in ListedPages
        BY <2>1 DEF IInv, CurrentOK
    <2>3. QED
        BY <1>1, <2>1, <2>2 DEF InsertIntoCurrent, extentVars
<1>2. CASE InsertIntoFound(t, p)
    <2>1. p \in ListedPages /\ FindPage(t, p)
        BY <1>2 DEF InsertIntoFound
    <2>2. Slots!HasRoom(pages[p], t)
        BY <2>1, FoundFacts
    <2>3. QED
        BY <1>2, <2>1, <2>2 DEF InsertIntoFound, FindPage, Inserting
<1>3. QED
    BY <1>1, <1>2

\* INSERT into a page of the table.
LEMMA InsertListedStep ==
    ASSUME IInv, NEW t \in Tuple, NEW p \in PageId,
           (InsertIntoCurrent(t) /\ p = current) \/ InsertIntoFound(t, p)
    PROVE  IInv'
<1>1. /\ stmt \in {"idle", "insert"} /\ p \in ListedPages
      /\ Slots!HasRoom(pages[p], t)
      /\ PutRow(t, p) /\ stmt' = "insert" /\ current' = p
      /\ UNCHANGED <<extents, used, todo, slot, scanVars, stats>>
    BY InsertIntoListed
<1>2. pages' = [pages EXCEPT ![p] = Slots!InsertRow(@, t)]
    BY <1>1 DEF PutRow
<1>3. Slots!InsertRow(pages[p], t) \in SoundPage
    BY <1>1, ListedFacts, InsertedRow
<1>4. pages' \in [PageId -> SoundPage]
    BY <1>2, <1>3 DEF IInv
<1>5. ExtentsOK'
    BY <1>1 DEF IInv, ExtentsOK
<1>6. current' \in ListedPages'
    BY <1>1, SamePages
<1>7. QED
    BY <1>1, <1>4, <1>5, <1>6, PutStep

\* INSERT into a page that is not the table's, and INSERT that cannot fetch the
\* page it has found.
LEMMA FoundStep ==
    ASSUME IInv, NEW t \in Tuple, NEW p \in PageId,
           InsertAstray(t, p) \/ FoundPageFails(t, p)
    PROVE  IInv'
<1>1. FindPage(t, p) /\ EndStatement /\ (PutRow(t, p) \/ pages' = pages)
    BY DEF InsertAstray, FoundPageFails
<1>2. pages' \in [PageId -> SoundPage]
    <2>1. Slots!InsertRow(pages[p], t) \in SoundPage /\ pages \in [PageId -> SoundPage]
        BY <1>1, FoundFacts, InvFacts
    <2>2. QED
        BY <1>1, <2>1 DEF PutRow
<1>3. ExtentsOK'
    BY <1>1 DEF IInv, ExtentsOK, FindPage
<1>4. QED
    BY <1>1, <1>2, <1>3, OverStep

\* allocate_extent returns an extent that is not in use, and it is the table's.
LEMMA NewExtentFacts ==
    ASSUME IInv, NEW t \in Tuple, TakeNewExtent(t)
    PROVE  /\ NewExtent \in Extent /\ NewExtent \notin ToSet(extents)
           /\ ExtentsOK'
           /\ ToSet(extents') = ToSet(extents) \cup {NewExtent}
           /\ Formatted \in [PageId -> SoundPage]
           /\ PagesOf(NewExtent)[1] \in PageId
           /\ ExtentOf(PagesOf(NewExtent)[1]) = NewExtent
<1> DEFINE e == NewExtent
<1>1. /\ extents \in Seq(Extent) /\ IsInjective(extents)
      /\ ToSet(extents) \subseteq used /\ used \subseteq Extent
      /\ pages \in [PageId -> SoundPage]
    BY DEF IInv, ExtentsOK
<1>2. Extent \ used # {} /\ extents' = Append(extents, e) /\ used' = used \cup {e}
    BY DEF TakeNewExtent, TakeExtent
<1>3. e \in Extent /\ e \notin used
    <2>1. Extent \ used \subseteq Nat
        BY Constants DEF Extent
    <2>2. QED
        BY <1>2, <2>1, MinIsLeast DEF NewExtent
<1> HIDE DEF e
<1>4. e \notin ToSet(extents)
    BY <1>1, <1>3
<1>5. /\ Append(extents, e) \in Seq(Extent)
      /\ ToSet(Append(extents, e)) = ToSet(extents) \cup {e}
      /\ IsInjective(Append(extents, e))
    BY <1>1, <1>3, <1>4, AppendFacts
<1>6. ExtentsOK'
    BY <1>1, <1>2, <1>3, <1>5 DEF ExtentsOK
<1>7. Formatted \in [PageId -> SoundPage]
    BY <1>1, EmptyPageFacts DEF Formatted
<1>8. PagesOf(e)[1] \in PageId /\ ExtentOf(PagesOf(e)[1]) = e
    <2>1. 0 \in 0..(EXTENT_SIZE - 1) /\ 0 + 1 = 1
        BY Constants
    <2>2. PagesOf(e)[0 + 1] \in PageId /\ ExtentOf(PagesOf(e)[0 + 1]) = e
        BY <1>3, <2>1, PageOfExtent
    <2>3. QED
        BY <2>1, <2>2
<1>9. QED
    BY <1>2, <1>3, <1>4, <1>5, <1>6, <1>7, <1>8 DEF e

\* INSERT into the first page of a new extent.
LEMMA InsertNewStep ==
    ASSUME IInv, NEW t \in Tuple, InsertIntoNewExtent(t)
    PROVE  IInv'
<1> DEFINE first == PagesOf(NewExtent)[1]
<1>1. /\ TakeNewExtent(t) /\ Slots!HasRoom(Slots!NoRows, t)
      /\ pages' = [Formatted EXCEPT ![first] = Slots!InsertRow(@, t)]
      /\ stmt' = "insert" /\ current' = first
      /\ UNCHANGED <<todo, slot, scanVars, stats>>
    BY DEF InsertIntoNewExtent
<1>2. /\ ExtentsOK' /\ ToSet(extents') = ToSet(extents) \cup {NewExtent}
      /\ Formatted \in [PageId -> SoundPage]
      /\ first \in PageId /\ ExtentOf(first) = NewExtent
    BY <1>1, NewExtentFacts
<1> HIDE DEF first
<1>3. Formatted[first] = Slots!NoRows
    BY <1>2 DEF Formatted
<1>4. Slots!InsertRow(Formatted[first], t) \in SoundPage
    BY <1>1, <1>3, EmptyPageFacts, InsertedRow
<1>5. pages' \in [PageId -> SoundPage]
    BY <1>1, <1>2, <1>4
<1>6. current' \in ListedPages'
    BY <1>1, <1>2 DEF ListedPages
<1>7. stmt \in {"idle", "insert"}
    BY <1>1 DEF TakeNewExtent, TakeExtent, Inserting
<1>8. QED
    BY <1>1, <1>2, <1>5, <1>6, <1>7, PutStep

\* An extent that stays empty, or is not listed.
LEMMA AllocateStep ==
    ASSUME IInv, NEW t \in Tuple, AllocateForNothing(t) \/ AllocationFails(t)
    PROVE  IInv'
<1>1. CASE AllocateForNothing(t)
    <2>1. TakeNewExtent(t) /\ pages' = Formatted /\ EndStatement
        BY <1>1 DEF AllocateForNothing
    <2>2. QED
        BY <2>1, NewExtentFacts, OverStep
<1>2. CASE AllocationFails(t)
    <2>1. /\ EndStatement /\ pages' = pages /\ extents' = extents
          /\ Extent \ used # {} /\ used' = used \cup {NewExtent}
        BY <1>2 DEF AllocationFails, TakeExtent
    <2>2. NewExtent \in Extent
        <3>1. Extent \ used \subseteq Nat
            BY Constants DEF Extent
        <3>2. QED
            BY <2>1, <3>1, MinIsLeast DEF NewExtent
    <2>3. ExtentsOK' /\ pages' \in [PageId -> SoundPage]
        BY <2>1, <2>2 DEF IInv, ExtentsOK
    <2>4. QED
        BY <2>1, <2>3, OverStep
<1>3. QED
    BY <1>1, <1>2

\* The end of a statement that leaves the table as it is.
LEMMA EndStep ==
    ASSUME IInv, EndStatement, UNCHANGED tableVars
    PROVE  IInv'
<1>1. pages' \in [PageId -> SoundPage] /\ ExtentsOK'
    BY DEF IInv, ExtentsOK, tableVars, extentVars
<1>2. QED
    BY <1>1, OverStep

\* The step changes neither pages nor extents.
LEMMA SameTable ==
    ASSUME IInv, UNCHANGED tableVars
    PROVE  /\ pages' = pages /\ extents' = extents
           /\ pages' \in [PageId -> SoundPage] /\ ExtentsOK'
           /\ ListedPages' = ListedPages /\ Stats' = Stats
<1>1. pages' = pages /\ extents' = extents /\ used' = used
    BY DEF tableVars, extentVars
<1>2. ListedPages' = ListedPages /\ Stats' = Stats
    BY <1>1, SamePages
<1>3. QED
    BY <1>1, <1>2 DEF IInv, ExtentsOK

\* SELECT or DELETE begins.
LEMMA StartScanStep ==
    ASSUME IInv, NEW match \in SUBSET Tuple, StartScan(match)
    PROVE  IInv'
<1>1. /\ stmt = "idle" /\ stmt' = "scan" /\ todo' = TablePages /\ where' = match
      /\ UNCHANGED tableVars /\ current' = current /\ slot' = slot /\ seen' = seen
      /\ skipped' = skipped /\ stats' = stats
    BY DEF StartScan
<1>2. current = INVALID_PAGE_ID /\ slot \in Nat \ {0} /\ seen \in [Tuple -> Nat]
      /\ skipped \in BOOLEAN /\ stats \in Seq(Stats) /\ stats = <<>>
    <2>1. current = INVALID_PAGE_ID
        BY <1>1 DEF IInv, CurrentOK
    <2>2. stats = <<>>
        BY <1>1, InvFacts
    <2>3. QED
        BY <2>1, <2>2, InvFacts
<1>3. /\ pages' \in [PageId -> SoundPage] /\ ExtentsOK'
      /\ ListedPages' = ListedPages /\ Stats' = Stats
    BY <1>1, SameTable
<1>4. /\ TablePages \in Seq(Nat) /\ ToSet(TablePages) = ListedPages
      /\ IsInjective(TablePages)
    BY InvFacts, TablePagesFacts
<1>5. Visited'
    BY <1>1 DEF Visited
<1>6. StatementOK'
    <2>1. stmt' \in {"idle", "insert", "scan", "migrate", "free", "remove"}
        BY <1>1
    <2>2. QED
        BY <1>1, <1>2, <1>4, <2>1 DEF StatementOK
<1>7. CurrentOK'
    BY <1>1, <1>2 DEF CurrentOK
<1>8. ScanOK'
    <2>1. INVALID_PAGE_ID \notin ListedPages
        BY ListedFacts
    <2>2. QED
        BY <1>1, <1>2, <1>3, <1>4, <2>1 DEF ScanOK
<1>9. CompactionOK'
    BY <1>1, <1>2, <1>3 DEF CompactionOK
<1>10. QED
    BY <1>3, <1>5, <1>6, <1>7, <1>8, <1>9 DEF IInv

\* A scan pins the next page or passes over it.
LEMMA ScanNextPageStep ==
    ASSUME IInv, ScanNextPage
    PROVE  IInv'
<1>1. /\ stmt = "scan" /\ todo # <<>> /\ current = INVALID_PAGE_ID
      /\ \/ current' = Head(todo) /\ skipped' = skipped
         \/ current' = current /\ skipped' = TRUE
      /\ todo' = Tail(todo) /\ slot' = 1
      /\ UNCHANGED tableVars /\ stmt' = stmt /\ where' = where /\ seen' = seen
      /\ stats' = stats
    BY DEF ScanNextPage
<1>2. /\ pages' \in [PageId -> SoundPage] /\ ExtentsOK'
      /\ ListedPages' = ListedPages /\ Stats' = Stats
    BY <1>1, SameTable
<1>3. ToSet(todo) \subseteq ListedPages /\ IsInjective(todo)
    BY <1>1 DEF IInv, ScanOK
<1>4. /\ Tail(todo) \in Seq(Nat) /\ Head(todo) \in ToSet(todo)
      /\ ToSet(todo) = ToSet(Tail(todo)) \cup {Head(todo)}
      /\ IsInjective(Tail(todo)) /\ Head(todo) \notin ToSet(Tail(todo))
    BY <1>1, <1>3, InvFacts, TailFacts
<1>5. Visited'
    BY <1>1 DEF Visited
<1>6. StatementOK'
    <2>1. stmt' \in {"idle", "insert", "scan", "migrate", "free", "remove"}
        BY <1>1
    <2>2. skipped' \in BOOLEAN
        BY <1>1, InvFacts
    <2>3. slot' \in Nat \ {0}
        BY <1>1
    <2>4. /\ todo' \in Seq(Nat) /\ where' \subseteq Tuple /\ (stmt' # "scan" => where' = {})
          /\ seen' \in [Tuple -> Nat]
        BY <1>1, <1>4, InvFacts
    <2>5. QED
        BY <2>1, <2>2, <2>3, <2>4 DEF StatementOK
<1>7. CurrentOK'
    BY <1>1, <1>2, <1>3, <1>4 DEF CurrentOK
<1>8. ScanOK'
    <2>1. INVALID_PAGE_ID \notin ToSet(Tail(todo))
        BY <1>3, <1>4, ListedFacts
    <2>2. current' \notin ToSet(Tail(todo))
        BY <1>1, <1>4, <2>1
    <2>3. QED
        BY <1>1, <1>2, <1>3, <1>4, <2>2 DEF ScanOK
<1>9. CompactionOK'
    <2>1. stats' \in Seq(Stats') /\ stats' = <<>>
        BY <1>1, <1>2, InvFacts
    <2>2. QED
        BY <1>1, <2>1 DEF CompactionOK
<1>10. QED
    BY <1>2, <1>5, <1>6, <1>7, <1>8, <1>9 DEF IInv

\* The row that a scan or a migration looks at.
LEMMA AtRowFacts ==
    ASSUME IInv, AtRow
    PROVE  /\ current \in ListedPages /\ current \in PageId /\ pages[current] \in SoundPage
           /\ slot \in 1..Len(pages[current].rows)
           /\ pages[current].rows[slot] \in Row
<1>1. current # INVALID_PAGE_ID /\ slot <= Len(pages[current].rows)
    BY DEF AtRow
<1>2. current \in ListedPages /\ slot \in Nat \ {0}
    BY <1>1, InvFacts
<1>3. current \in PageId /\ pages[current] \in SoundPage
    BY <1>2, ListedFacts
<1>4. /\ Len(pages[current].rows) \in Nat
      /\ \A i \in 1..Len(pages[current].rows) : pages[current].rows[i] \in Row
    BY <1>3, PageFacts
<1>5. slot \in 1..Len(pages[current].rows)
    BY <1>1, <1>2, <1>4
<1>6. QED
    BY <1>2, <1>3, <1>4, <1>5

\* A scan returns a row, which DELETE removes.
LEMMA ScanRowStep ==
    ASSUME IInv, ScanRow
    PROVE  IInv'
<1> DEFINE t == pages[current].rows[slot]
<1>1. /\ stmt = "scan" /\ AtRow /\ slot' = slot + 1
      /\ seen' = IF t = NoRow THEN seen ELSE [seen EXCEPT ![t] = @ + 1]
      /\ pages' = IF t \in where THEN [pages EXCEPT ![current] = Slots!DeleteRow(@, slot)]
                  ELSE pages
      /\ extents' = extents /\ used' = used /\ stmt' = stmt /\ current' = current
      /\ todo' = todo /\ where' = where /\ skipped' = skipped /\ stats' = stats
    BY DEF ScanRow, extentVars
<1>2. /\ current \in ListedPages /\ current \in PageId /\ pages[current] \in SoundPage
      /\ slot \in 1..Len(pages[current].rows)
      /\ t \in Row
    BY <1>1, AtRowFacts
<1> HIDE DEF t
<1>3. ListedPages' = ListedPages /\ Stats' = Stats
    BY <1>1, SamePages
<1>4. pages' \in [PageId -> SoundPage]
    <2>1. CASE t \in where
        <3>1. t \in Tuple
            BY <2>1, InvFacts
        <3>2. Slots!DeleteRow(pages[current], slot) \in SoundPage
            BY <1>2, <3>1, DeletedRow DEF t
        <3>3. QED
            BY <1>1, <2>1, <3>2, InvFacts
    <2>2. CASE t \notin where
        BY <1>1, <2>2, InvFacts
    <2>3. QED
        BY <2>1, <2>2
<1>5. ExtentsOK'
    BY <1>1 DEF IInv, ExtentsOK
<1>6. Visited'
    BY <1>1 DEF Visited
<1>7. StatementOK'
    <2>1. stmt' \in {"idle", "insert", "scan", "migrate", "free", "remove"}
        BY <1>1
    <2>2. seen' \in [Tuple -> Nat]
        <3>1. t # NoRow => t \in Tuple
            BY <1>2 DEF Row
        <3>2. QED
            BY <1>1, <3>1, InvFacts
    <2>3. slot' \in Nat \ {0}
        BY <1>1, InvFacts
    <2>4. skipped' \in BOOLEAN
        BY <1>1, InvFacts
    <2>5. /\ todo' \in Seq(Nat) /\ where' \subseteq Tuple /\ (stmt' # "scan" => where' = {})
        BY <1>1, InvFacts
    <2>6. QED
        BY <2>1, <2>2, <2>3, <2>4, <2>5 DEF StatementOK
<1>8. CurrentOK'
    BY <1>1, <1>2, <1>3 DEF CurrentOK
<1>9. ScanOK'
    BY <1>1, <1>3 DEF IInv, ScanOK
<1>10. CompactionOK'
    <2>1. stats' \in Seq(Stats') /\ stats' = <<>>
        BY <1>1, <1>3, InvFacts
    <2>2. QED
        BY <1>1, <2>1 DEF CompactionOK
<1>11. QED
    BY <1>4, <1>5, <1>6, <1>7, <1>8, <1>9, <1>10 DEF IInv

\* A scan unpins a page.
LEMMA ScanPageDoneStep ==
    ASSUME IInv, ScanPageDone
    PROVE  IInv'
<1>1. /\ stmt = "scan" /\ current' = INVALID_PAGE_ID /\ slot' = 1
      /\ UNCHANGED tableVars /\ stmt' = stmt /\ todo' = todo /\ where' = where
      /\ seen' = seen /\ skipped' = skipped /\ stats' = stats
    BY DEF ScanPageDone, scanVars
<1>2. /\ pages' \in [PageId -> SoundPage] /\ ExtentsOK'
      /\ ListedPages' = ListedPages /\ Stats' = Stats
    BY <1>1, SameTable
<1>3. Visited'
    BY <1>1 DEF Visited
<1>4. StatementOK'
    <2>1. stmt' \in {"idle", "insert", "scan", "migrate", "free", "remove"}
        BY <1>1
    <2>2. slot' \in Nat \ {0}
        BY <1>1
    <2>3. skipped' \in BOOLEAN
        BY <1>1, InvFacts
    <2>4. /\ todo' \in Seq(Nat) /\ where' \subseteq Tuple /\ (stmt' # "scan" => where' = {})
          /\ seen' \in [Tuple -> Nat]
        BY <1>1, InvFacts
    <2>5. QED
        BY <2>1, <2>2, <2>3, <2>4 DEF StatementOK
<1>5. CurrentOK'
    BY <1>1 DEF CurrentOK
<1>6. ScanOK'
    <2>1. ToSet(todo) \subseteq ListedPages /\ IsInjective(todo)
        BY <1>1 DEF IInv, ScanOK
    <2>2. INVALID_PAGE_ID \notin ToSet(todo)
        BY <2>1, ListedFacts
    <2>3. QED
        BY <1>1, <1>2, <2>1, <2>2 DEF ScanOK
<1>7. CompactionOK'
    <2>1. stats' \in Seq(Stats') /\ stats' = <<>>
        BY <1>1, <1>2, InvFacts
    <2>2. QED
        BY <1>1, <2>1 DEF CompactionOK
<1>8. QED
    BY <1>2, <1>3, <1>4, <1>5, <1>6, <1>7 DEF IInv

\* A step of the migration leaves rows and statistics well formed.
LEMMA MigrationStep ==
    ASSUME IInv, stmt = "migrate", stmt' = "migrate",
           pages' \in [PageId -> SoundPage], extents' = extents, used' = used,
           todo' \in Seq(Nat), slot' \in Nat \ {0}, UNCHANGED scanVars,
           ToSet(todo') \subseteq 1..Len(stats'), stats' \in Seq(Stats),
           current' \in ListedPages \cup {INVALID_PAGE_ID},
           current' # INVALID_PAGE_ID => todo' # <<>>
    PROVE  IInv'
<1>1. ListedPages' = ListedPages /\ Stats' = Stats
    BY SamePages
<1>2. ExtentsOK'
    BY DEF IInv, ExtentsOK
<1>3. Visited'
    BY DEF Visited
<1>4. StatementOK'
    <2>1. stmt' \in {"idle", "insert", "scan", "migrate", "free", "remove"}
        OBVIOUS
    <2>2. skipped' \in BOOLEAN
        BY InvFacts DEF scanVars
    <2>3. where' \subseteq Tuple /\ (stmt' # "scan" => where' = {}) /\ seen' \in [Tuple -> Nat]
        BY InvFacts DEF scanVars
    <2>4. QED
        BY <2>1, <2>2, <2>3 DEF StatementOK
<1>5. CurrentOK'
    BY <1>1 DEF CurrentOK
<1>6. ScanOK'
    BY DEF ScanOK
<1>7. CompactionOK'
    BY <1>1 DEF CompactionOK
<1>8. QED
    BY <1>2, <1>3, <1>4, <1>5, <1>6, <1>7 DEF IInv

\* COMPACT has found its pages and their live tuples.
LEMMA SurveyFacts ==
    ASSUME IInv, NEW fetched \in SUBSET ListedPages, NEW s \in SurveyPages(fetched)
    PROVE  s \in Seq(Stats)
<1> DEFINE S == {PageStats(p) : p \in fetched}
<1>1. S \subseteq Stats
    <2>1. ASSUME NEW p \in fetched PROVE PageStats(p) \in Stats
        <3>1. pages[p] \in SoundPage
            BY ListedFacts
        <3>2. Cardinality(Slots!Taken(pages[p])) \in Nat
            <4>1. /\ Slots!Taken(pages[p]) \subseteq 1..Len(pages[p].rows)
                  /\ Len(pages[p].rows) \in Nat
                BY <3>1, GapFacts, PageFacts
            <4>2. IsFiniteSet(1..Len(pages[p].rows))
                BY <4>1, FS_Interval
            <4>3. QED
                BY <4>1, <4>2, FS_Subset, FS_CardinalityType
        <3>3. Slots!FreeSpace(pages[p]) \in 0..(UINT32 - 1)
            <4>1. Slots!FreeSpace(pages[p]) \in 0..PAGE_SIZE
                BY <3>1, PageFacts
            <4>2. QED
                BY <4>1, Constants
        <3>4. QED
            BY <3>2, <3>3 DEF PageStats, Stats
    <2>2. QED
        BY <2>1
<1>2. IsFiniteSet(S) /\ Cardinality(S) \in Nat
    <2>1. PageId \subseteq Int /\ IsFiniteSet(PageId)
        <3>1. 0 \in Int /\ (MaxExtent + 1) * EXTENT_SIZE - 1 \in Int
            BY Constants, Products
        <3>2. QED
            BY <3>1, FS_Interval DEF PageId
    <2>2. IsFiniteSet(fetched)
        BY <2>1, FS_Subset DEF ListedPages
    <2>3. IsFiniteSet(S)
        <3>1. [p \in fetched |-> PageStats(p)] \in Surjection(fetched, S)
            BY DEF Surjection
        <3>2. QED
            BY <2>2, <3>1, FS_Surjection
    <2>4. QED
        BY <2>3, FS_CardinalityType
<1> HIDE DEF S
<1>3. s \in [1..Cardinality(S) -> S]
    BY DEF SurveyPages, SetToSeqs, S
<1>4. QED
    BY <1>1, <1>2, <1>3

\* COMPACT begins.
LEMMA StartCompactionStep ==
    ASSUME IInv, NEW fetched \in SUBSET ListedPages, StartCompaction(fetched)
    PROVE  IInv'
<1>1. /\ stmt = "idle" /\ stmt' = "migrate" /\ stats' \in SurveyPages(fetched)
      /\ todo' = [i \in DOMAIN stats' |-> i]
      /\ UNCHANGED tableVars /\ current' = current /\ slot' = slot /\ UNCHANGED scanVars
    BY DEF StartCompaction
<1>2. current = INVALID_PAGE_ID
    BY <1>1 DEF IInv, CurrentOK
<1>3. /\ pages' \in [PageId -> SoundPage] /\ ExtentsOK'
      /\ ListedPages' = ListedPages /\ Stats' = Stats
    BY <1>1, SameTable
<1>4. stats' \in Seq(Stats) /\ Len(stats') \in Nat /\ DOMAIN stats' = 1..Len(stats')
    <2>1. stats' \in Seq(Stats)
        BY <1>1, SurveyFacts
    <2>2. QED
        BY <2>1, LenProperties
<1>5. todo' \in Seq(Nat) /\ ToSet(todo') \subseteq 1..Len(stats')
    BY <1>1, <1>4 DEF ToSet
<1>6. Visited'
    BY <1>1 DEF Visited
<1>7. StatementOK'
    <2>1. stmt' \in {"idle", "insert", "scan", "migrate", "free", "remove"}
        BY <1>1
    <2>2. skipped' \in BOOLEAN
        BY <1>1, InvFacts DEF scanVars
    <2>3. slot' \in Nat \ {0}
        BY <1>1, InvFacts
    <2>4. where' = {} /\ seen' \in [Tuple -> Nat]
        BY <1>1, InvFacts DEF scanVars
    <2>5. QED
        BY <1>5, <2>1, <2>2, <2>3, <2>4 DEF StatementOK
<1>8. CurrentOK'
    BY <1>1, <1>2 DEF CurrentOK
<1>9. ScanOK'
    BY <1>1 DEF ScanOK
<1>10. CompactionOK'
    BY <1>1, <1>2, <1>3, <1>4, <1>5 DEF CompactionOK
<1>11. QED
    BY <1>3, <1>6, <1>7, <1>8, <1>9, <1>10 DEF IInv

\* What the invariant says of a migration.
LEMMA MigrationFacts ==
    ASSUME IInv, stmt = "migrate"
    PROVE  /\ ToSet(todo) \subseteq 1..Len(stats)
           /\ Len(stats) \in Nat /\ DOMAIN stats = 1..Len(stats)
           /\ \A k \in 1..Len(stats) : stats[k] \in Stats
           /\ current # INVALID_PAGE_ID => todo # <<>>
           /\ todo # <<>> => /\ Head(todo) \in 1..Len(stats)
                             /\ Tail(todo) \in Seq(Nat)
                             /\ ToSet(Tail(todo)) \subseteq 1..Len(stats)
<1>1. ToSet(todo) \subseteq 1..Len(stats) /\ (current # INVALID_PAGE_ID => todo # <<>>)
    BY DEF IInv, CompactionOK
<1>2. stats \in Seq(Stats) /\ todo \in Seq(Nat)
    BY InvFacts
<1>3. /\ Len(stats) \in Nat /\ DOMAIN stats = 1..Len(stats)
      /\ \A k \in 1..Len(stats) : stats[k] \in Stats
    BY <1>2, LenProperties, ElementOfSeq
<1>4. ASSUME todo # <<>>
      PROVE  /\ Head(todo) \in ToSet(todo) /\ Tail(todo) \in Seq(Nat)
             /\ ToSet(todo) = ToSet(Tail(todo)) \cup {Head(todo)}
    BY <1>2, <1>4, TailFacts
<1>5. QED
    BY <1>1, <1>3, <1>4

\* The migration goes to the next source, fetches it, or is done with it.
LEMMA SourceStep ==
    ASSUME IInv, SkipSource \/ FetchSource \/ SourceDone
    PROVE  IInv'
<1>1. /\ stmt = "migrate" /\ stmt' = stmt /\ stats' = stats /\ UNCHANGED scanVars
      /\ UNCHANGED tableVars
    BY DEF SkipSource, FetchSource, SourceDone
<1>2. /\ pages' \in [PageId -> SoundPage] /\ extents' = extents /\ used' = used
    BY <1>1, SameTable DEF tableVars, extentVars
<1>3. todo # <<>>
    BY <1>1, MigrationFacts DEF SkipSource, FetchSource, SourceDone
<1>4. /\ todo' \in {todo, Tail(todo)}
      /\ (current' = INVALID_PAGE_ID) \/ (current' = Source.id /\ todo' = todo)
    BY DEF SkipSource, FetchSource, SourceDone
<1>5. slot' \in Nat \ {0}
    BY InvFacts DEF SkipSource, FetchSource, SourceDone
<1>6. todo' \in Seq(Nat) /\ ToSet(todo') \subseteq 1..Len(stats')
    BY <1>1, <1>3, <1>4, MigrationFacts, InvFacts
<1>7. Source.id \in ListedPages
    BY <1>1, <1>3, MigrationFacts DEF Source, Stats
<1>8. /\ current' \in ListedPages \cup {INVALID_PAGE_ID}
      /\ current' # INVALID_PAGE_ID => todo' # <<>>
    BY <1>3, <1>4, <1>7
<1>9. stats' \in Seq(Stats)
    BY <1>1, InvFacts
<1>10. QED
    BY <1>1, <1>2, <1>5, <1>6, <1>8, <1>9, MigrationStep

\* A row stays where it is.
LEMMA LeaveTupleStep ==
    ASSUME IInv, LeaveTuple
    PROVE  IInv'
<1>1. /\ stmt = "migrate" /\ stmt' = stmt /\ stats' = stats /\ UNCHANGED scanVars
      /\ UNCHANGED tableVars /\ current' = current /\ todo' = todo /\ slot' = slot + 1
    BY DEF LeaveTuple
<1>2. pages' \in [PageId -> SoundPage] /\ extents' = extents /\ used' = used
    BY <1>1, SameTable DEF tableVars, extentVars
<1>3. slot' \in Nat \ {0}
    BY <1>1, InvFacts
<1>4. /\ todo' \in Seq(Nat) /\ ToSet(todo') \subseteq 1..Len(stats') /\ stats' \in Seq(Stats)
      /\ current' \in ListedPages \cup {INVALID_PAGE_ID}
      /\ current' # INVALID_PAGE_ID => todo' # <<>>
    BY <1>1, MigrationFacts, InvFacts
<1>5. QED
    BY <1>1, <1>2, <1>3, <1>4, MigrationStep

\* The destination of a row is another page of the table, and has room for it.
LEMMA DestinationFacts ==
    ASSUME IInv, MigrateTuple
    PROVE  LET t == pages[current].rows[slot]
               d == Destination(t)
               k == Max(Candidates(t))
           IN  /\ t \in Tuple /\ d \in ListedPages /\ d # current
               /\ Slots!HasRoom(pages[d], t)
               /\ k \in 1..Len(stats) /\ stats[k] \in Stats
<1> DEFINE t == pages[current].rows[slot]
           d == Destination(t)
           k == Max(Candidates(t))
<1>1. /\ stmt = "migrate" /\ AtRow /\ t # NoRow /\ Candidates(t) # {}
      /\ Slots!HasRoom(pages[d], t)
    BY DEF MigrateTuple, extentVars
<1>2. t \in Tuple
    BY <1>1, AtRowFacts DEF Row
<1> HIDE DEF t
<1>3. /\ Len(stats) \in Nat /\ DOMAIN stats = 1..Len(stats)
      /\ \A j \in 1..Len(stats) : stats[j] \in Stats
    BY <1>1, MigrationFacts
<1>4. k \in Candidates(t)
    <2> DEFINE n == Len(stats)
               C == Candidates(t)
    <2>1. n \in Nat /\ C \in SUBSET (0..n) /\ C # {}
        BY <1>1, <1>3 DEF Candidates
    <2> HIDE DEF n, C
    <2>2. Max(C) \in C
        BY <2>1, MaxIsGreatest
    <2>3. QED
        BY <2>2 DEF C
<1>5. k \in 1..Len(stats) /\ stats[k].id # current
    BY <1>3, <1>4 DEF Candidates
<1>6. d = stats[k].id
    BY DEF Destination
<1>7. d \in ListedPages /\ d # current
    BY <1>3, <1>5, <1>6 DEF Stats
<1>8. QED
    BY <1>1, <1>2, <1>3, <1>5, <1>7 DEF t

\* A row moves to another page.
LEMMA MigrateStep ==
    ASSUME IInv, MigrateTuple
    PROVE  IInv'
<1> DEFINE t == pages[current].rows[slot]
           d == Destination(t)
           k == Max(Candidates(t))
           left == RoomLeft(stats[k].free, t)
<1>1. /\ stmt = "migrate" /\ stmt' = stmt /\ AtRow /\ UNCHANGED scanVars
      /\ pages' = MoveRow(t, d) /\ extents' = extents /\ used' = used
      /\ stats' = [stats EXCEPT ![k].free = RoomLeft(@, t)]
      /\ current' = current /\ todo' = todo /\ slot' = slot + 1
    BY DEF MigrateTuple, extentVars
<1>2. /\ t \in Tuple /\ d \in ListedPages /\ d # current
      /\ Slots!HasRoom(pages[d], t)
      /\ k \in 1..Len(stats) /\ stats[k] \in Stats
    BY DestinationFacts
<1>3. /\ current \in PageId /\ pages[current] \in SoundPage
      /\ slot \in 1..Len(pages[current].rows)
    BY <1>1, AtRowFacts
<1>4. left \in 0..(UINT32 - 1)
    <2> DEFINE n == stats[k].free - (t.size + SLOT_SIZE)
    <2>1. n \in Int /\ UINT32 \in Nat /\ UINT32 > 0
        <3>1. stats[k].free \in Int
            BY <1>2 DEF Stats
        <3>2. t.size \in Int /\ SLOT_SIZE \in Int /\ UINT32 \in Nat /\ UINT32 > 0
            BY <1>2, Constants
        <3> HIDE DEF k, t
        <3>3. QED
            BY <3>1, <3>2
    <2>2. left = n % UINT32
        BY DEF RoomLeft
    <2> DEFINE m == UINT32
    <2> HIDE DEF n, left
    <2>3. m \in Nat /\ m > 0 /\ UINT32 = m
        BY <2>1
    <2> HIDE DEF m
    <2>4. (n % m) \in 0..(m - 1)
        BY <2>1, <2>3
    <2>5. QED
        BY <2>2, <2>3, <2>4
<1>5. Slots!DeleteRow(pages[current], slot) \in SoundPage
    BY <1>2, <1>3, DeletedRow
<1>6. d \in PageId /\ pages[d] \in SoundPage
    BY <1>2, ListedFacts
<1> HIDE DEF t, d, k
<1>7. Slots!InsertRow(pages[d], t) \in SoundPage
    BY <1>2, <1>6, InsertedRow
<1>8. pages' \in [PageId -> SoundPage]
    BY <1>1, <1>2, <1>3, <1>5, <1>6, <1>7, InvFacts DEF MoveRow
<1>9. stats' \in Seq(Stats) /\ Len(stats') = Len(stats)
    <2>1. stats' = [stats EXCEPT ![k] = [stats[k] EXCEPT !.free = left]]
        BY <1>1
    <2> HIDE DEF left
    <2>2. [stats[k] EXCEPT !.free = left] \in Stats
        BY <1>2, <1>4 DEF Stats
    <2>3. stats \in Seq(Stats)
        BY InvFacts
    <2>4. QED
        BY <1>2, <2>1, <2>2, <2>3, ExceptSeq
<1>10. slot' \in Nat \ {0}
    BY <1>1, InvFacts
<1>11. /\ todo' \in Seq(Nat) /\ ToSet(todo') \subseteq 1..Len(stats')
       /\ current' \in ListedPages \cup {INVALID_PAGE_ID}
       /\ current' # INVALID_PAGE_ID => todo' # <<>>
    BY <1>1, <1>9, MigrationFacts, InvFacts
<1>12. QED
    BY <1>1, <1>8, <1>9, <1>10, <1>11, MigrationStep

\* A step that frees extents, or is about to.
LEMMA FreeingStep ==
    ASSUME IInv, stmt' \in {"free", "remove"}, pages' \in [PageId -> SoundPage], ExtentsOK',
           todo' \in Seq(Nat), slot' = slot, UNCHANGED scanVars, stats' = <<>>,
           current' = INVALID_PAGE_ID, stmt \in {"migrate", "free", "remove"},
           stmt' = "remove" => todo' # <<>> /\ AllEmpty(Head(todo))'
    PROVE  IInv'
<1> DEFINE none == <<>>
<1>1. stats' = none /\ none \in Seq(Stats')
    BY Nothing
<1> HIDE DEF none
<1>2. Visited'
    BY DEF Visited
<1>3. StatementOK'
    <2>1. stmt' \in {"idle", "insert", "scan", "migrate", "free", "remove"}
        OBVIOUS
    <2>2. skipped' \in BOOLEAN
        BY InvFacts DEF scanVars
    <2>3. slot' \in Nat \ {0}
        BY InvFacts
    <2>4. where' = {} /\ seen' \in [Tuple -> Nat]
        BY InvFacts DEF scanVars
    <2>5. QED
        BY <2>1, <2>2, <2>3, <2>4 DEF StatementOK
<1>4. CurrentOK'
    BY DEF CurrentOK
<1>5. ScanOK'
    BY DEF ScanOK
<1>6. CompactionOK'
    BY <1>1 DEF CompactionOK, none
<1>7. QED
    BY <1>2, <1>3, <1>4, <1>5, <1>6 DEF IInv

\* The pages are compacted; then the extents are visited.
LEMMA DefragmentStep ==
    ASSUME IInv, NEW fetched \in SUBSET ListedPages, Defragment(fetched)
    PROVE  IInv'
<1>1. /\ stmt = "migrate" /\ todo = <<>>
      /\ pages' = [p \in PageId |-> IF p \in fetched THEN Slots!CompactRows(pages[p])
                                    ELSE pages[p]]
      /\ stmt' = "free" /\ todo' = extents /\ stats' = <<>>
      /\ extents' = extents /\ used' = used /\ current' = current /\ slot' = slot
      /\ UNCHANGED scanVars
    BY DEF Defragment, extentVars
<1>2. current = INVALID_PAGE_ID
    BY <1>1 DEF IInv, CompactionOK
<1>3. pages' \in [PageId -> SoundPage]
    <2>1. \A p \in PageId : pages[p] \in SoundPage /\ Slots!CompactRows(pages[p]) \in SoundPage
        BY InvFacts, CompactedRows
    <2>2. QED
        BY <1>1, <2>1
<1>4. ExtentsOK'
    BY <1>1 DEF IInv, ExtentsOK
<1>5. todo' \in Seq(Nat)
    <2>1. Extent \subseteq Nat
        BY Constants DEF Extent
    <2>2. extents \in Seq(Extent)
        BY InvFacts
    <2>3. extents \in Seq(Nat)
        BY <2>1, <2>2, SeqMonotonic
    <2>4. QED
        BY <1>1, <2>3
<1>6. QED
    BY <1>1, <1>2, <1>3, <1>4, <1>5, FreeingStep

\* What the invariant says while extents are visited.
LEMMA VisitFacts ==
    ASSUME IInv, stmt \in {"free", "remove"}, todo # <<>>
    PROVE  /\ Tail(todo) \in Seq(Nat)
           /\ current = INVALID_PAGE_ID /\ stats = <<>>
<1>1. current = INVALID_PAGE_ID
    BY DEF IInv, CurrentOK
<1>2. stats = <<>> /\ todo \in Seq(Nat)
    BY InvFacts
<1>3. QED
    BY <1>1, <1>2, TailFacts

\* COMPACT keeps an extent, finds that it is empty, or cannot remove it.
LEMMA VisitStep ==
    ASSUME IInv, KeepExtent \/ FindEmpty \/ NotRemoved
    PROVE  IInv'
<1>1. /\ stmt \in {"free", "remove"} /\ todo # <<>>
      /\ current' = current /\ slot' = slot /\ UNCHANGED scanVars /\ stats' = stats
      /\ UNCHANGED tableVars /\ pages' = pages
    <2>1. stmt = "remove" => todo # <<>>
        BY DEF IInv, CompactionOK
    <2>2. QED
        BY <2>1 DEF KeepExtent, FindEmpty, NotRemoved, tableVars
<1>2. pages' \in [PageId -> SoundPage] /\ ExtentsOK'
    BY <1>1, SameTable
<1>3. Tail(todo) \in Seq(Nat) /\ todo \in Seq(Nat) /\ current = INVALID_PAGE_ID /\ stats = <<>>
    BY <1>1, VisitFacts, InvFacts
<1>4. \/ stmt' = "free" /\ todo' = Tail(todo)
      \/ stmt' = "remove" /\ todo' = todo /\ AllEmpty(Head(todo))
    BY DEF KeepExtent, FindEmpty, NotRemoved
<1>5. stmt' = "remove" => todo' # <<>> /\ AllEmpty(Head(todo))'
    BY <1>1, <1>4 DEF AllEmpty
<1>6. QED
    BY <1>1, <1>2, <1>3, <1>4, <1>5, FreeingStep

\* The extent is no longer listed.
LEMMA UnlistFacts ==
    ASSUME IInv, Unlist
    PROVE  /\ stmt = "remove" /\ todo # <<>> /\ AllEmpty(Head(todo))
           /\ Head(todo) \in ToSet(extents)
           /\ extents' \in Seq(Extent) /\ ToSet(extents') = ToSet(extents) \ {Head(todo)}
           /\ Len(extents) \in Nat /\ Len(extents') = Len(extents) - 1
           /\ pages' = pages /\ pages' \in [PageId -> SoundPage]
           /\ used' \in {used, used \ {Head(todo)}} => ExtentsOK'
<1> DEFINE e == Head(todo)
<1>1. /\ stmt = "remove" /\ e \in ToSet(extents)
      /\ extents' = RemoveFirst(extents, e) /\ pages' = pages
    BY DEF Unlist
<1>2. todo # <<>> /\ AllEmpty(e)
    BY <1>1 DEF IInv, CompactionOK
<1> HIDE DEF e
<1>3. /\ extents' \in Seq(Extent) /\ ToSet(extents') = ToSet(extents) \ {e}
      /\ IsInjective(extents') /\ Len(extents') = Len(extents) - 1
    BY <1>1, InvFacts, RemoveFirstFacts
<1>4. used' \in {used, used \ {e}} => ExtentsOK'
    BY <1>1, <1>3 DEF IInv, ExtentsOK
<1>5. pages' \in [PageId -> SoundPage] /\ Len(extents) \in Nat
    BY <1>1, InvFacts, LenProperties
<1>6. QED
    BY <1>1, <1>2, <1>3, <1>4, <1>5 DEF e

\* COMPACT gives up an extent.
LEMMA RemoveStep ==
    ASSUME IInv, RemoveExtent \/ UnlinkFails \/ DeallocationFails
    PROVE  IInv'
<1>1. Unlist
    BY DEF RemoveExtent, UnlinkFails, DeallocationFails
<1>2. /\ stmt = "remove" /\ todo # <<>> /\ pages' \in [PageId -> SoundPage]
      /\ used' \in {used, used \ {Head(todo)}} => ExtentsOK'
    BY <1>1, UnlistFacts
<1>3. ExtentsOK'
    BY <1>2 DEF RemoveExtent, UnlinkFails, DeallocationFails
<1>4. CASE DeallocationFails
    BY <1>2, <1>3, <1>4, OverStep DEF DeallocationFails
<1>5. CASE RemoveExtent \/ UnlinkFails
    <2>1. /\ stmt' = "free" /\ todo' \in {todo, Tail(todo)}
          /\ UNCHANGED <<current, slot, scanVars, stats>>
        BY <1>5 DEF RemoveExtent, UnlinkFails
    <2>2. /\ Tail(todo) \in Seq(Nat) /\ todo \in Seq(Nat)
          /\ current = INVALID_PAGE_ID /\ stats = <<>>
        BY <1>2, VisitFacts, InvFacts
    <2>3. QED
        BY <1>2, <1>3, <2>1, <2>2, FreeingStep
<1>6. QED
    BY <1>4, <1>5 DEF RemoveExtent, UnlinkFails, DeallocationFails

\* The hint is no part of what the invariant is about.
LEMMA SameStatement ==
    ASSUME IInv, pages' = pages, extents' = extents, used' = used, stmt' = stmt,
           current' = current, todo' = todo, slot' = slot, UNCHANGED scanVars, stats' = stats
    PROVE  IInv'
<1>1. /\ where' = where /\ seen' = seen /\ skipped' = skipped
      /\ ListedPages' = ListedPages /\ Stats' = Stats
    BY SamePages DEF scanVars
<1>2. pages' \in [PageId -> SoundPage] /\ ExtentsOK'
    BY DEF IInv, ExtentsOK
<1>3. Visited'
    BY <1>1 DEF IInv, Visited
<1>4. StatementOK'
    BY <1>1 DEF IInv, StatementOK
<1>5. CurrentOK' /\ ScanOK'
    BY <1>1 DEF IInv, CurrentOK, ScanOK
<1>6. CompactionOK'
    BY <1>1 DEF IInv, CompactionOK, AllEmpty
<1>7. QED
    BY <1>2, <1>3, <1>4, <1>5, <1>6 DEF IInv

\* Every step preserves the invariant.
LEMMA NextInv ==
    ASSUME IInv, [Next]_vars
    PROVE  IInv'
<1>1. ASSUME NEW t \in Tuple, InsertIntoCurrent(t) PROVE IInv'
    <2>1. current \in PageId
        BY <1>1, InvFacts, ListedFacts DEF InsertIntoCurrent, NoCurrentRoom
    <2>2. QED
        BY <1>1, <2>1, InsertListedStep
<1>2. ASSUME NEW t \in Tuple, NEW p \in PageId, InsertIntoFound(t, p) PROVE IInv'
    BY <1>2, InsertListedStep
<1>3. ASSUME NEW t \in Tuple,
             InsertIntoNewExtent(t) \/ AllocateForNothing(t) \/ AllocationFails(t)
      PROVE  IInv'
    BY <1>3, InsertNewStep, AllocateStep
<1>4. CASE EndInsert \/ EndScan \/ EndCompaction
    BY <1>4, EndStep DEF EndInsert, EndScan, EndCompaction
<1>5. ASSUME NEW match \in SUBSET Tuple, StartScan(match) PROVE IInv'
    BY <1>5, StartScanStep
<1>6. CASE ScanNextPage \/ ScanRow \/ ScanPageDone
    BY <1>6, ScanNextPageStep, ScanRowStep, ScanPageDoneStep
<1>7. ASSUME NEW fetched \in SUBSET ListedPages, StartCompaction(fetched) \/ Defragment(fetched)
      PROVE  IInv'
    BY <1>7, StartCompactionStep, DefragmentStep
<1>8. CASE SkipSource \/ FetchSource \/ SourceDone \/ LeaveTuple \/ MigrateTuple
    BY <1>8, SourceStep, LeaveTupleStep, MigrateStep
<1>9. CASE \/ KeepExtent \/ FindEmpty \/ NotRemoved
           \/ RemoveExtent \/ UnlinkFails \/ DeallocationFails
    BY <1>9, VisitStep, RemoveStep
<1>10. CASE Reopen \/ UNCHANGED vars
    BY <1>10, SameStatement DEF Reopen, vars, tableVars, extentVars
<1>11. ASSUME NEW t \in Tuple, NEW p \in PageId, InsertAstray(t, p) \/ FoundPageFails(t, p)
       PROVE  IInv'
    BY <1>11, FoundStep
<1>12. QED
    BY <1>1, <1>2, <1>3, <1>4, <1>5, <1>6, <1>7, <1>8, <1>9, <1>10, <1>11 DEF Next

\* INSERT sets the hint to the page it pins; the others take it away, if they
\* change it at all.
LEMMA HintStep ==
    ASSUME IInv, HintOK, [Next]_vars
    PROVE  HintOK'
<1>1. ASSUME NEW t \in Tuple, InsertIntoCurrent(t) PROVE HintOK'
    BY <1>1 DEF InsertIntoCurrent, HintOK, extentVars
<1>2. ASSUME NEW t \in Tuple, NEW p \in PageId, InsertIntoFound(t, p) PROVE HintOK'
    BY <1>2 DEF InsertIntoFound, FindPage, Inserting, HintOK
<1>3. ASSUME NEW t \in Tuple, NEW p \in PageId, InsertAstray(t, p) \/ FoundPageFails(t, p)
      PROVE  HintOK'
    BY <1>3 DEF InsertAstray, FoundPageFails, FindPage, EndStatement, HintOK
<1>4. ASSUME NEW t \in Tuple, InsertIntoNewExtent(t) \/ AllocateForNothing(t) PROVE HintOK'
    <2>1. TakeNewExtent(t)
        BY <1>4 DEF InsertIntoNewExtent, AllocateForNothing
    <2>2. hint' = PagesOf(NewExtent)[1] /\ hint' \in PageId /\ astray' = astray /\ ~astray
        BY <2>1, NewExtentFacts DEF TakeNewExtent, TakeExtent, Inserting
    <2>3. stmt' = "insert" => current' = PagesOf(NewExtent)[1]
        BY <1>4 DEF InsertIntoNewExtent, AllocateForNothing, EndStatement
    <2>4. QED
        BY <2>2, <2>3 DEF HintOK
<1>5. ASSUME NEW t \in Tuple, AllocationFails(t) PROVE HintOK'
    BY <1>5 DEF AllocationFails, TakeExtent, EndStatement, HintOK
<1>6. CASE EndInsert \/ EndScan \/ EndCompaction
    BY <1>6 DEF EndInsert, EndScan, EndCompaction, EndStatement, tableVars, extentVars, HintOK
<1>7. CASE Reopen
    BY <1>7 DEF Reopen, HintOK
<1>8. CASE \/ \E match \in SUBSET Tuple : StartScan(match)
           \/ \E fetched \in SUBSET ListedPages : StartCompaction(fetched)
           \/ \E fetched \in SUBSET ListedPages : Defragment(fetched)
    BY <1>8 DEF StartScan, StartCompaction, Defragment, tableVars, extentVars, HintOK
<1>9. CASE ScanNextPage \/ ScanRow \/ ScanPageDone
    BY <1>9 DEF ScanNextPage, ScanRow, ScanPageDone, tableVars, extentVars, HintOK
<1>10. CASE SkipSource \/ FetchSource \/ SourceDone \/ LeaveTuple \/ MigrateTuple
    BY <1>10 DEF SkipSource, FetchSource, SourceDone, LeaveTuple, MigrateTuple, tableVars,
                 extentVars, HintOK
<1>11. CASE KeepExtent \/ FindEmpty \/ NotRemoved
    BY <1>11 DEF KeepExtent, FindEmpty, NotRemoved, tableVars, extentVars, HintOK
<1>12. CASE RemoveExtent \/ UnlinkFails \/ DeallocationFails
    BY <1>12 DEF RemoveExtent, UnlinkFails, DeallocationFails, Unlist, EndStatement, HintOK
<1>13. CASE UNCHANGED vars
    BY <1>13 DEF vars, tableVars, extentVars, HintOK
<1>14. QED
    BY <1>1, <1>2, <1>3, <1>4, <1>5, <1>6, <1>7, <1>8, <1>9, <1>10, <1>11, <1>12, <1>13 DEF Next

\* The invariant holds in every reachable state.
THEOREM Invariance == Spec => [](IInv /\ HintOK)
<1>1. Init => IInv /\ HintOK
    BY InitInv DEF Init, HintOK
<1>2. IInv /\ HintOK /\ [Next]_vars => IInv' /\ HintOK'
    BY NextInv, HintStep
<1>3. QED
    BY <1>1, <1>2, PTL DEF Spec

\* Pages, extents and the local variables of a statement have their types: no
\* insertion, deletion or compaction lets the free space of a page leave the
\* page, no extent is listed twice or is listed without being marked in the
\* GAM, and COMPACT's statistics stay within a uint32_t.
THEOREM TypeCorrect == Spec => []TypeOK
<1>1. ASSUME IInv, HintOK PROVE TypeOK
    <2>1. ASSUME NEW p \in PageId
          PROVE  /\ pages[p].rows \in Seq(Tuple \cup {NoRow})
                 /\ pages[p].freePtr \in HEADER_SIZE..PAGE_SIZE
        <3>1. pages[p] \in SoundPage
            BY <1>1, InvFacts
        <3>2. /\ pages[p].rows \in Seq(Row) /\ pages[p].freePtr \in Nat
              /\ HEADER_SIZE <= pages[p].freePtr /\ pages[p].freePtr <= PAGE_SIZE
            BY <3>1, PageFacts
        <3>3. QED
            BY <3>2, Constants DEF Row
    <2>2. current \in PageId \cup {INVALID_PAGE_ID}
        BY <1>1, InvFacts DEF ListedPages
    <2>3. ASSUME NEW k \in DOMAIN stats
          PROVE  /\ stats[k].id \in PageId /\ stats[k].live \in Nat
                 /\ stats[k].free \in 0..(UINT32 - 1)
        <3>1. stats[k] \in Stats
            BY <1>1, InvFacts, LenProperties, ElementOfSeq
        <3>2. QED
            BY <3>1 DEF Stats, ListedPages
    <2>4. /\ extents \in Seq(Extent) /\ IsInjective(extents)
          /\ ToSet(extents) \subseteq used /\ used \subseteq Extent
        BY <1>1 DEF IInv, ExtentsOK
    <2>5. /\ stmt \in {"idle", "insert", "scan", "migrate", "free", "remove"}
          /\ skipped \in BOOLEAN
        BY <1>1 DEF IInv, StatementOK
    <2>6. /\ todo \in Seq(Nat) /\ slot \in Nat \ {0} /\ where \subseteq Tuple
          /\ seen \in [Tuple -> Nat]
        BY <1>1 DEF IInv, StatementOK
    <2>7. hint \in PageId \cup {INVALID_PAGE_ID} /\ astray \in BOOLEAN
        BY <1>1 DEF HintOK
    <2>8. QED
        BY <2>1, <2>2, <2>3, <2>4, <2>5, <2>6, <2>7 DEF TypeOK
<1>2. QED
    BY <1>1, Invariance, PTL

-----------------------------------------------------------------------------
(* The table implements a bag of rows *)

\* How many copies of a row lie in a set of pages.
At(pgs, t) == [p \in PageId |-> Copies(pgs[p], t)]
Tally(pgs, P, t) == Cardinality(Pairs(P, At(pgs, t)))

\* The file has finitely many pages.
LEMMA FinitelyManyPages == IsFiniteSet(PageId)
<1>1. 0 \in Int /\ (MaxExtent + 1) * EXTENT_SIZE - 1 \in Int
    BY Constants, Products
<1>2. QED
    BY <1>1, FS_Interval DEF PageId

\* The copies of a row can be counted.
LEMMA TallyFacts ==
    ASSUME NEW pgs \in [PageId -> SoundPage], NEW P \in SUBSET PageId, NEW t
    PROVE  /\ Countable(P, At(pgs, t))
           /\ Tally(pgs, P, t) \in Nat
           /\ \A p \in P : At(pgs, t)[p] = Copies(pgs[p], t)
           /\ Tally(pgs, P, t)
                = Cardinality(UNION {{p} \X {i \in DOMAIN pgs[p].rows : pgs[p].rows[i] = t} : p \in P})
<1>1. \A p \in P : pgs[p] \in SoundPage /\ At(pgs, t)[p] = Copies(pgs[p], t)
    BY DEF At
<1>2. IsFiniteSet(P)
    BY FinitelyManyPages, FS_Subset
<1>3. \A p \in P : IsFiniteSet(At(pgs, t)[p])
    BY <1>1, GapFacts
<1>4. Countable(P, At(pgs, t))
    BY <1>2, <1>3 DEF Countable
<1>5. Tally(pgs, P, t) \in Nat
    BY <1>4, PairsFinite DEF Tally
<1>6. \A p \in P : At(pgs, t)[p] = {i \in DOMAIN pgs[p].rows : pgs[p].rows[i] = t}
    BY <1>1, PageFacts DEF Copies
<1>7. Pairs(P, At(pgs, t))
        = UNION {{p} \X {i \in DOMAIN pgs[p].rows : pgs[p].rows[i] = t} : p \in P}
    BY <1>6 DEF Pairs
<1>8. QED
    BY <1>1, <1>4, <1>5, <1>7 DEF Tally

\* An inserted row counts once.
LEMMA InsertedTally ==
    ASSUME NEW old \in [PageId -> SoundPage], NEW new \in [PageId -> SoundPage],
           NEW P \in SUBSET PageId, NEW q \in P, NEW t \in Tuple,
           Slots!HasRoom(old[q], t), new[q] = Slots!InsertRow(old[q], t),
           \A p \in P : p # q => new[p] = old[p]
    PROVE  \A u \in Tuple :
              Tally(new, P, u) = IF u = t THEN Tally(old, P, u) + 1 ELSE Tally(old, P, u)
<1>1. /\ old[q] \in SoundPage
      /\ Cardinality(Copies(new[q], t)) = Cardinality(Copies(old[q], t)) + 1
      /\ \A u \in Tuple \ {t} : Copies(new[q], u) = Copies(old[q], u)
    <2>1. old[q] \in SoundPage
        OBVIOUS
    <2>2. QED
        BY <2>1, InsertedRow
<1>2. ASSUME NEW u \in Tuple
      PROVE  /\ Countable(P, At(old, u)) /\ Countable(P, At(new, u))
             /\ \A p \in P : At(old, u)[p] = Copies(old[p], u)
             /\ \A p \in P : At(new, u)[p] = Copies(new[p], u)
    BY TallyFacts
<1>3. Tally(new, P, t) = Tally(old, P, t) + 1
    <2>1. Cardinality(At(new, t)[q]) = Cardinality(At(old, t)[q]) + 1
        BY <1>1, <1>2
    <2>2. \A p \in P : p # q => Cardinality(At(old, t)[p]) = Cardinality(At(new, t)[p])
        BY <1>2
    <2>3. Countable(P, At(old, t)) /\ Countable(P, At(new, t))
        BY <1>2
    <2>4. QED
        BY <2>1, <2>2, <2>3, OneMoreOnAPage DEF Tally
<1>4. ASSUME NEW u \in Tuple, u # t PROVE Tally(new, P, u) = Tally(old, P, u)
    <2>1. \A p \in P : Cardinality(At(new, u)[p]) = Cardinality(At(old, u)[p])
        BY <1>1, <1>2, <1>4
    <2>2. Countable(P, At(old, u)) /\ Countable(P, At(new, u))
        BY <1>2
    <2>3. QED
        BY <2>1, <2>2, SamePerPage DEF Tally
<1>5. QED
    BY <1>3, <1>4

\* A deleted row no longer counts.
LEMMA DeletedTally ==
    ASSUME NEW old \in [PageId -> SoundPage], NEW new \in [PageId -> SoundPage],
           NEW P \in SUBSET PageId, NEW q \in P, NEW i \in 1..Len(old[q].rows),
           old[q].rows[i] \in Tuple, new[q] = Slots!DeleteRow(old[q], i),
           \A p \in P : p # q => new[p] = old[p]
    PROVE  \A u \in Tuple :
              Tally(old, P, u) = IF u = old[q].rows[i] THEN Tally(new, P, u) + 1
                                 ELSE Tally(new, P, u)
<1> DEFINE t == old[q].rows[i]
<1>1. /\ old[q] \in SoundPage /\ new[q] \in SoundPage
      /\ \A u \in Tuple : Copies(new[q], u) = Copies(old[q], u) \ {i}
    <2>1. old[q] \in SoundPage /\ new[q] \in SoundPage
        OBVIOUS
    <2>2. QED
        BY <2>1, DeletedRow
<1>2. ASSUME NEW u \in Tuple
      PROVE  /\ Countable(P, At(old, u)) /\ Countable(P, At(new, u))
             /\ \A p \in P : At(old, u)[p] = Copies(old[p], u)
             /\ \A p \in P : At(new, u)[p] = Copies(new[p], u)
    BY TallyFacts
<1>3. /\ t \in Tuple /\ i \in Copies(old[q], t)
      /\ \A u : u # t => i \notin Copies(old[q], u)
    BY DEF Copies
<1> HIDE DEF t
<1>4. Tally(old, P, t) = Tally(new, P, t) + 1
    <2>1. IsFiniteSet(Copies(old[q], t)) /\ Cardinality(Copies(old[q], t)) \in Nat
        BY <1>1, GapFacts
    <2>2. Cardinality(Copies(old[q], t) \ {i}) = Cardinality(Copies(old[q], t)) - 1
        BY <1>3, <2>1, FS_RemoveElement
    <2>3. Cardinality(At(old, t)[q]) = Cardinality(At(new, t)[q]) + 1
        <3>1. At(old, t)[q] = Copies(old[q], t) /\ At(new, t)[q] = Copies(old[q], t) \ {i}
            BY <1>1, <1>2, <1>3
        <3>2. QED
            BY <2>1, <2>2, <3>1
    <2>4. \A p \in P : p # q => Cardinality(At(new, t)[p]) = Cardinality(At(old, t)[p])
        BY <1>2, <1>3
    <2>5. Countable(P, At(old, t)) /\ Countable(P, At(new, t))
        BY <1>2, <1>3
    <2>6. QED
        BY <2>3, <2>4, <2>5, OneMoreOnAPage DEF Tally
<1>5. ASSUME NEW u \in Tuple, u # t PROVE Tally(old, P, u) = Tally(new, P, u)
    <2>1. \A p \in P : Cardinality(At(new, u)[p]) = Cardinality(At(old, u)[p])
        <3>1. Copies(new[q], u) = Copies(old[q], u)
            BY <1>1, <1>3, <1>5
        <3>2. QED
            BY <1>2, <3>1
    <2>2. Countable(P, At(old, u)) /\ Countable(P, At(new, u))
        BY <1>2
    <2>3. QED
        BY <2>1, <2>2, SamePerPage DEF Tally
<1>6. QED
    BY <1>4, <1>5 DEF t

\* Pages without rows can come and go.
LEMMA EmptyPagesDoNotCount ==
    ASSUME NEW old \in [PageId -> SoundPage], NEW new \in [PageId -> SoundPage],
           NEW P \in SUBSET PageId, NEW Q \in SUBSET PageId,
           \A p \in P \cap Q : new[p] = old[p],
           \A p \in P \ Q : Slots!Taken(old[p]) = {},
           \A p \in Q \ P : Slots!Taken(new[p]) = {}
    PROVE  \A u \in Tuple : Tally(new, Q, u) = Tally(old, P, u)
<1>1. ASSUME NEW u \in Tuple PROVE Tally(new, Q, u) = Tally(old, P, u)
    <2>1. /\ \A p \in P : At(old, u)[p] = Copies(old[p], u)
          /\ \A p \in Q : At(new, u)[p] = Copies(new[p], u)
        BY TallyFacts
    <2>2. \A pg \in SoundPage : Slots!Taken(pg) = {} => Copies(pg, u) = {}
        BY GapFacts
    <2>3. \A p \in P \cap Q : At(old, u)[p] = At(new, u)[p]
        BY <2>1
    <2>4. \A p \in P \ Q : At(old, u)[p] = {}
        BY <2>1, <2>2
    <2>5. \A p \in Q \ P : At(new, u)[p] = {}
        BY <2>1, <2>2
    <2>6. Pairs(P, At(old, u)) = Pairs(Q, At(new, u))
        BY <2>3, <2>4, <2>5, PagesWithNothing
    <2>7. QED
        BY <2>6 DEF Tally
<1>2. QED
    BY <1>1

\* The rows of the table, and how many there are of each.
Rows == [t \in Tuple |-> Count(t)]

\* The counts are those of the table's pages.
LEMMA CountIs ==
    ASSUME NEW pgs \in [PageId -> SoundPage], NEW P \in SUBSET PageId,
           pgs = pages, P = ListedPages
    PROVE  \A t \in Tuple : Count(t) = Tally(pgs, P, t) /\ Rows[t] = Tally(pgs, P, t)
BY TallyFacts DEF Count, Rows

\* The same of the next state.
LEMMA NextCountIs ==
    ASSUME pages' \in [PageId -> SoundPage]
    PROVE  /\ ListedPages' \in SUBSET PageId
           /\ \A t \in Tuple : Count(t)' = Tally(pages', ListedPages', t)
           /\ Rows' = [t \in Tuple |-> Tally(pages', ListedPages', t)]
<1>1. ListedPages' \in SUBSET PageId
    BY DEF ListedPages
<1>2. \A t \in Tuple : Count(t)' = Tally(pages', ListedPages', t)
    BY <1>1, TallyFacts DEF Count
<1>3. Rows' = [t \in Tuple |-> Count(t)']
    BY DEF Rows
<1>4. QED
    BY <1>1, <1>2, <1>3

\* The counts of a state and the next one.
LEMMA CountFacts ==
    ASSUME IInv, IInv'
    PROVE  /\ pages \in [PageId -> SoundPage] /\ pages' \in [PageId -> SoundPage]
           /\ ListedPages \in SUBSET PageId /\ ListedPages' \in SUBSET PageId
           /\ \A t \in Tuple : Count(t) = Tally(pages, ListedPages, t)
           /\ \A t \in Tuple : Count(t)' = Tally(pages', ListedPages', t)
           /\ Rows = [t \in Tuple |-> Tally(pages, ListedPages, t)]
           /\ Rows' = [t \in Tuple |-> Tally(pages', ListedPages', t)]
           /\ \A t \in Tuple : Tally(pages, ListedPages, t) \in Nat
<1>1. /\ pages \in [PageId -> SoundPage] /\ pages' \in [PageId -> SoundPage]
      /\ ListedPages \in SUBSET PageId
    BY InvFacts DEF ListedPages, IInv
<1>2. \A t \in Tuple : Count(t) = Tally(pages, ListedPages, t)
    BY <1>1, CountIs
<1>3. Rows = [t \in Tuple |-> Tally(pages, ListedPages, t)]
    BY <1>2 DEF Rows
<1>4. \A t \in Tuple : Tally(pages, ListedPages, t) \in Nat
    BY <1>1, TallyFacts
<1>5. QED
    BY <1>1, <1>2, <1>3, <1>4, NextCountIs

\* A step that leaves pages and extents alone keeps the counts.
LEMMA SameRows ==
    ASSUME pages' = pages, extents' = extents
    PROVE  Rows' = Rows
<1>1. ListedPages' = ListedPages
    BY SamePages
<1>2. \A t \in Tuple : Count(t)' = Count(t)
    BY <1>1 DEF Count
<1>3. Rows' = [t \in Tuple |-> Count(t)']
    BY DEF Rows
<1>4. QED
    BY <1>2, <1>3 DEF Rows

\* INSERT puts the row on a page of the table.
LEMMA InsertListedRows ==
    ASSUME IInv, IInv', NEW t \in Tuple, NEW p \in PageId,
           (InsertIntoCurrent(t) /\ p = current) \/ InsertIntoFound(t, p)
    PROVE  Rows' = [Rows EXCEPT ![t] = @ + 1]
<1>1. /\ p \in ListedPages /\ Slots!HasRoom(pages[p], t)
      /\ pages' = [pages EXCEPT ![p] = Slots!InsertRow(@, t)] /\ extents' = extents
    BY InsertIntoListed DEF PutRow
<1>2. ListedPages' = ListedPages
    BY <1>1, SamePages
<1>3. /\ pages \in [PageId -> SoundPage] /\ pages' \in [PageId -> SoundPage]
      /\ ListedPages \in SUBSET PageId
      /\ Rows = [u \in Tuple |-> Tally(pages, ListedPages, u)]
      /\ Rows' = [u \in Tuple |-> Tally(pages', ListedPages, u)]
    BY <1>2, CountFacts
<1>4. /\ pages'[p] = Slots!InsertRow(pages[p], t)
      /\ \A q \in ListedPages : q # p => pages'[q] = pages[q]
    BY <1>1, <1>3
<1>5. \A u \in Tuple :
         Tally(pages', ListedPages, u)
           = IF u = t THEN Tally(pages, ListedPages, u) + 1 ELSE Tally(pages, ListedPages, u)
    <2>1. /\ pages \in [PageId -> SoundPage] /\ pages' \in [PageId -> SoundPage]
          /\ ListedPages \in SUBSET PageId
        BY <1>3
    <2>2. p \in ListedPages /\ Slots!HasRoom(pages[p], t)
        BY <1>1
    <2>3. QED
        BY <2>1, <2>2, <1>4, InsertedTally
<1>6. QED
    BY <1>3, <1>5

\* A new extent brings no row.
LEMMA NewExtentRows ==
    ASSUME IInv, NEW t \in Tuple, TakeNewExtent(t)
    PROVE  \A u \in Tuple : Tally(Formatted, ListedPages', u) = Tally(pages, ListedPages, u)
<1>1. /\ NewExtent \notin ToSet(extents) /\ ToSet(extents') = ToSet(extents) \cup {NewExtent}
      /\ Formatted \in [PageId -> SoundPage]
    BY NewExtentFacts
<1>2. pages \in [PageId -> SoundPage]
    BY InvFacts
<1>3. ListedPages \in SUBSET PageId /\ ListedPages' \in SUBSET PageId
    BY DEF ListedPages
<1>4. \A p \in ListedPages \cap ListedPages' : Formatted[p] = pages[p]
    BY <1>1 DEF ListedPages, Formatted
<1>5. ListedPages \ ListedPages' = {}
    BY <1>1 DEF ListedPages
<1>6. \A p \in ListedPages' \ ListedPages : Slots!Taken(Formatted[p]) = {}
    <2>1. \A p \in ListedPages' \ ListedPages : p \in PageId /\ ExtentOf(p) = NewExtent
        BY <1>1 DEF ListedPages
    <2>2. \A p \in ListedPages' \ ListedPages : Formatted[p] = Slots!NoRows
        BY <2>1 DEF Formatted
    <2>3. QED
        BY <2>2, EmptyPageFacts
<1>7. QED
    BY <1>1, <1>2, <1>3, <1>4, <1>5, <1>6, EmptyPagesDoNotCount

\* INSERT puts the row on the first page of a new extent.
LEMMA InsertNewRows ==
    ASSUME IInv, IInv', NEW t \in Tuple, InsertIntoNewExtent(t)
    PROVE  Rows' = [Rows EXCEPT ![t] = @ + 1]
<1> DEFINE first == PagesOf(NewExtent)[1]
<1>1. /\ TakeNewExtent(t) /\ Slots!HasRoom(Slots!NoRows, t)
      /\ pages' = [Formatted EXCEPT ![first] = Slots!InsertRow(@, t)]
    BY DEF InsertIntoNewExtent
<1>2. /\ ToSet(extents') = ToSet(extents) \cup {NewExtent}
      /\ Formatted \in [PageId -> SoundPage]
      /\ first \in PageId /\ ExtentOf(first) = NewExtent
    BY <1>1, NewExtentFacts
<1> HIDE DEF first
<1>3. first \in ListedPages'
    BY <1>2 DEF ListedPages
<1>4. Slots!HasRoom(Formatted[first], t)
    BY <1>1, <1>2 DEF Formatted
<1>5. /\ pages'[first] = Slots!InsertRow(Formatted[first], t)
      /\ \A q \in ListedPages' : q # first => pages'[q] = Formatted[q]
    <2>1. ListedPages' \subseteq PageId
        BY DEF ListedPages
    <2>2. QED
        BY <1>1, <1>2, <2>1
<1>6. /\ pages' \in [PageId -> SoundPage] /\ ListedPages' \in SUBSET PageId
      /\ Rows = [u \in Tuple |-> Tally(pages, ListedPages, u)]
      /\ Rows' = [u \in Tuple |-> Tally(pages', ListedPages', u)]
    BY CountFacts
<1>7. \A u \in Tuple :
         Tally(pages', ListedPages', u)
           = IF u = t THEN Tally(Formatted, ListedPages', u) + 1
             ELSE Tally(Formatted, ListedPages', u)
    BY <1>2, <1>3, <1>4, <1>5, <1>6, InsertedTally
<1>8. \A u \in Tuple : Tally(Formatted, ListedPages', u) = Tally(pages, ListedPages, u)
    BY <1>1, NewExtentRows
<1>9. QED
    BY <1>6, <1>7, <1>8

\* An extent that stays empty or is not listed changes no count.
LEMMA AllocateRows ==
    ASSUME IInv, IInv', NEW t \in Tuple, AllocateForNothing(t) \/ AllocationFails(t)
    PROVE  Rows' = Rows
<1>1. CASE AllocateForNothing(t)
    <2>1. TakeNewExtent(t) /\ pages' = Formatted
        BY <1>1 DEF AllocateForNothing
    <2>2. \A u \in Tuple : Tally(Formatted, ListedPages', u) = Tally(pages, ListedPages, u)
        BY <2>1, NewExtentRows
    <2>3. /\ Rows = [u \in Tuple |-> Tally(pages, ListedPages, u)]
          /\ Rows' = [u \in Tuple |-> Tally(pages', ListedPages', u)]
        BY CountFacts
    <2>4. QED
        BY <2>1, <2>2, <2>3
<1>2. CASE AllocationFails(t)
    BY <1>2, SameRows DEF AllocationFails
<1>3. QED
    BY <1>1, <1>2

\* A row on a page that is not the table's does not count.
LEMMA FoundRows ==
    ASSUME IInv, IInv', NEW t \in Tuple, NEW p \in PageId,
           InsertAstray(t, p) \/ FoundPageFails(t, p)
    PROVE  Rows' = Rows
<1>1. extents' = extents
    BY DEF InsertAstray, FoundPageFails, FindPage
<1>2. CASE FoundPageFails(t, p)
    BY <1>1, <1>2, SameRows DEF FoundPageFails
<1>3. CASE InsertAstray(t, p)
    <2>1. ListedPages' = ListedPages
        BY <1>1, SamePages
    <2>2. /\ pages \in [PageId -> SoundPage] /\ pages' \in [PageId -> SoundPage]
          /\ ListedPages \in SUBSET PageId
          /\ Rows = [u \in Tuple |-> Tally(pages, ListedPages, u)]
          /\ Rows' = [u \in Tuple |-> Tally(pages', ListedPages, u)]
        BY <2>1, CountFacts
    <2>3. \A q \in ListedPages \cap ListedPages : pages'[q] = pages[q]
        BY <1>3, <2>2 DEF InsertAstray, PutRow
    <2>4. \A u \in Tuple : Tally(pages', ListedPages, u) = Tally(pages, ListedPages, u)
        BY <2>2, <2>3, EmptyPagesDoNotCount
    <2>5. QED
        BY <2>2, <2>4
<1>4. QED
    BY <1>2, <1>3

\* What the step of a scan does to the counts.
LEMMA ScanRowRows ==
    ASSUME IInv, IInv', ScanRow
    PROVE  LET t == pages[current].rows[slot]
           IN  /\ t \in Row
               /\ t \notin where => Rows' = Rows
               /\ t \in where => /\ Rows[t] \in Nat /\ Rows[t] > 0
                                 /\ Rows' = [Rows EXCEPT ![t] = @ - 1]
<1> DEFINE t == pages[current].rows[slot]
<1>1. /\ AtRow /\ extents' = extents
      /\ pages' = IF t \in where THEN [pages EXCEPT ![current] = Slots!DeleteRow(@, slot)]
                  ELSE pages
    BY DEF ScanRow, extentVars
<1>2. ListedPages' = ListedPages
    BY <1>1, SamePages
<1>3. /\ pages \in [PageId -> SoundPage] /\ pages' \in [PageId -> SoundPage]
      /\ ListedPages \in SUBSET PageId
      /\ Rows = [u \in Tuple |-> Tally(pages, ListedPages, u)]
      /\ Rows' = [u \in Tuple |-> Tally(pages', ListedPages, u)]
      /\ \A u \in Tuple : Tally(pages, ListedPages, u) \in Nat
    BY <1>2, CountFacts
<1>4. /\ current \in ListedPages /\ current \in PageId
      /\ slot \in 1..Len(pages[current].rows) /\ t \in Row
    BY <1>1, AtRowFacts
<1>5. ASSUME t \notin where PROVE Rows' = Rows
    BY <1>1, <1>3, <1>5
<1>6. ASSUME t \in where
      PROVE  Rows[t] \in Nat /\ Rows[t] > 0 /\ Rows' = [Rows EXCEPT ![t] = @ - 1]
    <2>1. t \in Tuple
        BY <1>6, InvFacts
    <2>2. /\ pages'[current] = Slots!DeleteRow(pages[current], slot)
          /\ \A q \in ListedPages : q # current => pages'[q] = pages[q]
        BY <1>1, <1>3, <1>4, <1>6
    <2>3. \A u \in Tuple :
             Tally(pages, ListedPages, u)
               = IF u = t THEN Tally(pages', ListedPages, u) + 1
                 ELSE Tally(pages', ListedPages, u)
        <3>1. /\ pages \in [PageId -> SoundPage] /\ pages' \in [PageId -> SoundPage]
              /\ ListedPages \in SUBSET PageId
            BY <1>3
        <3>2. current \in ListedPages /\ slot \in 1..Len(pages[current].rows)
            BY <1>4
        <3>3. QED
            BY <2>1, <2>2, <3>1, <3>2, DeletedTally
    <2> HIDE DEF t
    <2>4. \A u \in Tuple : Tally(pages', ListedPages, u) \in Nat
        BY <1>3, TallyFacts
    <2>5. Rows[t] \in Nat /\ Rows[t] > 0
        BY <1>3, <2>1, <2>3, <2>4
    <2>6. \A u \in Tuple : Rows'[u] = IF u = t THEN Rows[u] - 1 ELSE Rows[u]
        BY <1>3, <2>3, <2>4
    <2>7. QED
        BY <1>3, <2>5, <2>6
<1>7. QED
    BY <1>4, <1>5, <1>6

\* COMPACT moves a row: it is inserted at one page and deleted from another.
LEMMA MigrateRows ==
    ASSUME IInv, IInv', MigrateTuple
    PROVE  Rows' = Rows
<1> DEFINE t == pages[current].rows[slot]
           d == Destination(t)
           mid == [pages EXCEPT ![d] = Slots!InsertRow(@, t)]
<1>1. AtRow /\ pages' = MoveRow(t, d) /\ extents' = extents
    BY DEF MigrateTuple, extentVars
<1>2. t \in Tuple /\ d \in ListedPages /\ d # current /\ Slots!HasRoom(pages[d], t)
    BY DestinationFacts
<1>3. current \in ListedPages /\ slot \in 1..Len(pages[current].rows)
    BY <1>1, AtRowFacts
<1>4. ListedPages' = ListedPages
    BY <1>1, SamePages
<1>5. /\ pages \in [PageId -> SoundPage] /\ pages' \in [PageId -> SoundPage]
      /\ ListedPages \in SUBSET PageId
      /\ Rows = [u \in Tuple |-> Tally(pages, ListedPages, u)]
      /\ Rows' = [u \in Tuple |-> Tally(pages', ListedPages, u)]
      /\ \A u \in Tuple : Tally(pages, ListedPages, u) \in Nat
    BY <1>4, CountFacts
<1>6. mid[current] = pages[current] /\ mid[current].rows[slot] = t
    BY <1>2, <1>3, <1>5
<1>7. pages' = [mid EXCEPT ![current] = Slots!DeleteRow(@, slot)]
    BY <1>1, <1>2, <1>5 DEF MoveRow
<1>8. mid \in [PageId -> SoundPage]
    <2>1. pages[d] \in SoundPage
        BY <1>2, ListedFacts
    <2>2. Slots!InsertRow(pages[d], t) \in SoundPage
        BY <1>2, <2>1, InsertedRow
    <2>3. QED
        BY <1>5, <2>2
<1>9. /\ mid[d] = Slots!InsertRow(pages[d], t)
      /\ \A q \in ListedPages : q # d => mid[q] = pages[q]
    BY <1>2, <1>5
<1> HIDE DEF mid
<1>10. /\ pages'[current] = Slots!DeleteRow(mid[current], slot)
       /\ \A q \in ListedPages : q # current => pages'[q] = mid[q]
    BY <1>3, <1>5, <1>7, <1>8
<1> HIDE DEF t, d
<1>11. \A u \in Tuple :
          Tally(mid, ListedPages, u)
            = IF u = t THEN Tally(pages, ListedPages, u) + 1 ELSE Tally(pages, ListedPages, u)
    <2>1. pages \in [PageId -> SoundPage] /\ ListedPages \in SUBSET PageId
        BY <1>5
    <2>2. QED
        BY <1>2, <1>8, <1>9, <2>1, InsertedTally
<1>12. \A u \in Tuple :
          Tally(mid, ListedPages, u)
            = IF u = t THEN Tally(pages', ListedPages, u) + 1
              ELSE Tally(pages', ListedPages, u)
    <2>1. pages' \in [PageId -> SoundPage] /\ ListedPages \in SUBSET PageId
        BY <1>5
    <2>2. slot \in 1..Len(mid[current].rows) /\ mid[current].rows[slot] = t
        BY <1>3, <1>6
    <2>3. mid[current].rows[slot] \in Tuple
        BY <1>2, <2>2
    <2>4. \A u \in Tuple :
             Tally(mid, ListedPages, u)
               = IF u = mid[current].rows[slot] THEN Tally(pages', ListedPages, u) + 1
                 ELSE Tally(pages', ListedPages, u)
        BY <1>3, <1>8, <1>10, <2>1, <2>2, <2>3, DeletedTally
    <2>5. QED
        BY <2>2, <2>4
<1>13. \A u \in Tuple : Tally(pages', ListedPages, u) \in Nat
    BY <1>5, TallyFacts
<1>14. \A u \in Tuple : Tally(pages', ListedPages, u) = Tally(pages, ListedPages, u)
    BY <1>5, <1>11, <1>12, <1>13
<1>15. QED
    BY <1>5, <1>14

\* The compaction of pages keeps the rows of each page.
LEMMA DefragmentRows ==
    ASSUME IInv, IInv', NEW fetched \in SUBSET ListedPages, Defragment(fetched)
    PROVE  Rows' = Rows
<1>1. /\ pages' = [p \in PageId |-> IF p \in fetched THEN Slots!CompactRows(pages[p])
                                    ELSE pages[p]]
      /\ extents' = extents
    BY DEF Defragment, extentVars
<1>2. ListedPages' = ListedPages
    BY <1>1, SamePages
<1>3. /\ pages \in [PageId -> SoundPage] /\ pages' \in [PageId -> SoundPage]
      /\ ListedPages \in SUBSET PageId
      /\ Rows = [u \in Tuple |-> Tally(pages, ListedPages, u)]
      /\ Rows' = [u \in Tuple |-> Tally(pages', ListedPages, u)]
    BY <1>2, CountFacts
<1>4. ASSUME NEW u \in Tuple, NEW p \in ListedPages
      PROVE  Cardinality(Copies(pages'[p], u)) = Cardinality(Copies(pages[p], u))
    <2>1. p \in PageId /\ pages[p] \in SoundPage
        BY ListedFacts
    <2>2. Cardinality(Copies(Slots!CompactRows(pages[p]), u)) = Cardinality(Copies(pages[p], u))
        BY <2>1, CompactedRows
    <2>3. pages'[p] = Slots!CompactRows(pages[p]) \/ pages'[p] = pages[p]
        BY <1>1, <2>1
    <2>4. QED
        BY <2>2, <2>3
<1>5. ASSUME NEW u \in Tuple
      PROVE  Tally(pages', ListedPages, u) = Tally(pages, ListedPages, u)
    <2>1. /\ Countable(ListedPages, At(pages, u))
          /\ \A p \in ListedPages : At(pages, u)[p] = Copies(pages[p], u)
        BY <1>3, TallyFacts
    <2>2. /\ Countable(ListedPages, At(pages', u))
          /\ \A p \in ListedPages : At(pages', u)[p] = Copies(pages'[p], u)
        BY <1>3, TallyFacts
    <2>3. \A p \in ListedPages : Cardinality(At(pages', u)[p]) = Cardinality(At(pages, u)[p])
        BY <1>4, <2>1, <2>2
    <2>4. QED
        BY <2>1, <2>2, <2>3, SamePerPage DEF Tally
<1>6. QED
    BY <1>3, <1>5

\* An extent that COMPACT gives up has no row.
LEMMA UnlistRows ==
    ASSUME IInv, IInv', Unlist
    PROVE  Rows' = Rows
<1> DEFINE e == Head(todo)
<1>1. AllEmpty(e) /\ pages' = pages
    BY UnlistFacts
<1>2. ToSet(extents') = ToSet(extents) \ {e}
    BY UnlistFacts
<1> HIDE DEF e
<1>4. /\ pages \in [PageId -> SoundPage]
      /\ ListedPages \in SUBSET PageId /\ ListedPages' \in SUBSET PageId
      /\ Rows = [u \in Tuple |-> Tally(pages, ListedPages, u)]
      /\ Rows' = [u \in Tuple |-> Tally(pages, ListedPages', u)]
    BY <1>1, CountFacts
<1>5. \A p \in ListedPages \ ListedPages' : Slots!Taken(pages[p]) = {}
    <2>1. ASSUME NEW p \in ListedPages \ ListedPages' PROVE Slots!Taken(pages[p]) = {}
        <3>1. p \in PageId /\ ExtentOf(p) = e
            BY <1>2 DEF ListedPages
        <3>2. p \in ToSet(PagesOf(e))
            BY <3>1, ExtentOfPage
        <3>3. QED
            BY <1>1, <3>2 DEF AllEmpty
    <2>2. QED
        BY <2>1
<1>6. ListedPages' \ ListedPages = {}
    BY <1>2 DEF ListedPages
<1>7. \A u \in Tuple : Tally(pages, ListedPages', u) = Tally(pages, ListedPages, u)
    BY <1>4, <1>5, <1>6, EmptyPagesDoNotCount
<1>8. QED
    BY <1>4, <1>7

\* What the table shows of a statement.
LEMMA RunningIs ==
    /\ stmt = "idle" => Running = "none"
    /\ stmt = "insert" => Running = "insert"
    /\ stmt = "scan" => Running = "scan"
    /\ stmt \in {"migrate", "free", "remove"} => Running = "compact"
BY DEF Running

\* The same of the next state.
LEMMA NextRunningIs ==
    /\ stmt' = "idle" => Running' = "none"
    /\ stmt' = "insert" => Running' = "insert"
    /\ stmt' = "scan" => Running' = "scan"
    /\ stmt' \in {"migrate", "free", "remove"} => Running' = "compact"
BY DEF Running

\* What is seen of the table.
BagVars == <<Rows, Running, where, HintStale, astray>>

\* The hint is right, or it is stale.
LEMMA StaleFacts ==
    /\ HintStale \in BOOLEAN /\ HintStale' \in BOOLEAN
    /\ hint \in ListedPages => ~HintStale
    /\ hint' \in ListedPages' => ~HintStale'
    /\ hint' = INVALID_PAGE_ID => ~HintStale'
    /\ hint' = hint /\ extents' = extents => HintStale' = HintStale
<1>1. extents' = extents => ListedPages' = ListedPages
    BY SamePages
<1>2. HintStale \in BOOLEAN /\ HintStale' \in BOOLEAN
    BY DEF HintStale
<1>3. hint' = hint /\ extents' = extents => HintStale' = HintStale
    BY <1>1 DEF HintStale
<1>4. QED
    BY <1>2, <1>3 DEF HintStale

\* INSERT is the insertion of a row into the bag.
LEMMA InsertIsInsert ==
    ASSUME IInv, IInv', HintOK, NEW t \in Tuple, NEW p \in PageId,
           \/ InsertIntoCurrent(t) /\ p = current
           \/ InsertIntoFound(t, p)
           \/ InsertIntoNewExtent(t)
    PROVE  Bag!Insert(t) /\ ~astray
<1>1. Rows' = [Rows EXCEPT ![t] = @ + 1]
    BY InsertListedRows, InsertNewRows
<1>2. /\ stmt \in {"idle", "insert"} /\ stmt' = "insert" /\ where' = where
      /\ astray' = astray /\ ~astray /\ ~HintStale'
    <2>1. CASE InsertIntoNewExtent(t)
        <3>1. /\ TakeNewExtent(t) /\ stmt' = "insert" /\ where' = where
              /\ current' = PagesOf(NewExtent)[1]
            BY <2>1 DEF InsertIntoNewExtent, scanVars
        <3>2. /\ stmt \in {"idle", "insert"} /\ hint' = PagesOf(NewExtent)[1]
              /\ astray' = astray /\ ~astray
            BY <3>1 DEF TakeNewExtent, TakeExtent, Inserting
        <3>3. hint' \in ListedPages'
            BY <3>1, <3>2, NewExtentFacts DEF ListedPages
        <3>4. QED
            BY <3>1, <3>2, <3>3, StaleFacts
    <2>2. CASE (InsertIntoCurrent(t) /\ p = current) \/ InsertIntoFound(t, p)
        <3>1. /\ stmt \in {"idle", "insert"} /\ stmt' = "insert" /\ where' = where
              /\ p \in ListedPages /\ extents' = extents
            BY <2>2, InsertIntoListed DEF scanVars
        <3>2. hint' = p /\ astray' = astray /\ ~astray
            BY <2>2 DEF InsertIntoCurrent, InsertIntoFound, FindPage, Inserting, extentVars,
                        HintOK
        <3>3. hint' \in ListedPages'
            BY <3>1, <3>2, SamePages
        <3>4. QED
            BY <3>1, <3>2, <3>3, StaleFacts
    <2>3. QED
        BY <2>1, <2>2
<1>3. Running \in {"none", "insert"} /\ Running' = "insert"
    BY <1>2, RunningIs, NextRunningIs
<1>4. HintStale' = FALSE
    BY <1>2, StaleFacts
<1>5. QED
    BY <1>1, <1>2, <1>3, <1>4 DEF Bag!Insert, Rows

\* INSERT follows a stale hint, and its row is lost; or it fails, and leaves no
\* hint that is worse.
LEMMA FoundIsLost ==
    ASSUME IInv, IInv', HintOK, NEW t \in Tuple, NEW p \in PageId, FindPage(t, p)
    PROVE  /\ HintStale' => HintStale
           /\ InsertAstray(t, p) => Bag!Lose /\ ~astray
<1>1. /\ stmt \in {"idle", "insert"} /\ ~astray /\ hint' = p /\ extents' = extents
      /\ p \in HintedPages \cup ListedPages
    BY DEF FindPage, Inserting
<1>2. ListedPages' = ListedPages
    BY <1>1, SamePages
<1>3. p \notin ListedPages => HintStale
    <2>1. ASSUME p \notin ListedPages
          PROVE  hint # INVALID_PAGE_ID /\ ExtentOf(p) = ExtentOf(hint)
        BY <1>1, <2>1 DEF HintedPages
    <2>2. p \notin ListedPages => hint \notin ListedPages
        BY <2>1 DEF ListedPages
    <2>3. QED
        BY <2>1, <2>2 DEF HintStale
<1>4. HintStale' => p \notin ListedPages
    BY <1>1, <1>2, StaleFacts
<1>5. ASSUME InsertAstray(t, p) PROVE Bag!Lose
    <2>1. p \notin ListedPages /\ astray' = TRUE /\ EndStatement
        BY <1>5 DEF InsertAstray
    <2>2. p # INVALID_PAGE_ID
        BY ExtentOfPage
    <2>3. HintStale /\ HintStale'
        BY <1>1, <1>2, <1>3, <2>1, <2>2 DEF HintStale
    <2>4. HintStale' = HintStale
        BY <2>3, StaleFacts
    <2>5. stmt' = "idle" /\ where' = where
        BY <1>1, <2>1, InvFacts DEF EndStatement
    <2>6. Running \in {"none", "insert"} /\ Running' = "none"
        BY <1>1, <2>5, RunningIs, NextRunningIs
    <2>7. Rows' = Rows
        BY <1>5, FoundRows
    <2>8. QED
        BY <2>1, <2>3, <2>4, <2>5, <2>6, <2>7 DEF Bag!Lose, Rows
<1>6. QED
    BY <1>1, <1>3, <1>4, <1>5

\* The end of a statement ends it in the bag, too; an extent can also be taken
\* and a hint lost while no statement shows.
LEMMA EndIsEnd ==
    ASSUME IInv, IInv', HintOK, EndStatement, Rows' = Rows, astray' = astray,
           HintStale' => HintStale
    PROVE  Bag!Next \/ UNCHANGED BagVars
<1>1. stmt' = "idle" /\ where' = {}
    BY DEF EndStatement
<1>2. HintStale' = HintStale \/ HintStale' = FALSE
    BY StaleFacts
<1>3. CASE stmt = "idle"
    <2>1. where' = where /\ Running' = Running
        BY <1>1, <1>3, InvFacts, RunningIs, NextRunningIs
    <2>2. CASE HintStale' = HintStale
        BY <2>1, <2>2 DEF BagVars
    <2>3. CASE HintStale' = FALSE
        BY <2>1, <2>3 DEF Bag!Next, Bag!Recover, Rows
    <2>4. QED
        BY <1>2, <2>2, <2>3
<1>4. CASE stmt # "idle"
    <2>1. Running # "none" /\ Running' = "none"
        BY <1>1, <1>4, RunningIs, NextRunningIs DEF IInv, StatementOK
    <2>2. ~astray
        BY <1>4 DEF HintOK
    <2>3. HintStale' \in {HintStale, FALSE}
        BY <1>2
    <2>4. Bag!End
        BY <1>1, <2>1, <2>3 DEF Bag!End, Rows
    <2>5. QED
        BY <2>2, <2>4 DEF Bag!Next, Bag!Step
<1>5. QED
    BY <1>3, <1>4

\* COMPACT gives up an extent: the hint is taken away, or may be stale.
LEMMA RemovalIsSpoil ==
    ASSUME IInv, IInv', HintOK, RemoveExtent \/ UnlinkFails \/ DeallocationFails
    PROVE  Bag!Next
<1>1. Unlist
    BY DEF RemoveExtent, UnlinkFails, DeallocationFails
<1>2. Rows' = Rows /\ astray' = astray /\ stmt = "remove"
    BY <1>1, UnlistRows DEF Unlist
<1>3. Running = "compact" /\ where = {} /\ ~astray
    BY <1>2, RunningIs, InvFacts DEF HintOK
<1>4. \/ Running' = "compact" /\ where' = where
      \/ Running' = "none" /\ where' = where
    BY <1>2, <1>3, NextRunningIs DEF RemoveExtent, UnlinkFails, DeallocationFails, EndStatement,
       scanVars
<1>5. CASE HintStale'
    <2>1. HintStale' = TRUE
        BY <1>5, StaleFacts
    <2>2. Bag!Spoil
        BY <1>2, <1>3, <1>4, <2>1 DEF Bag!Spoil, Rows
    <2>3. QED
        BY <1>3, <2>2 DEF Bag!Next, Bag!Step
<1>6. CASE ~HintStale'
    <2>1. HintStale' = FALSE
        BY <1>6, StaleFacts
    <2>2. CASE Running' = "compact" /\ where' = where
        BY <1>2, <1>3, <2>1, <2>2 DEF Bag!Next, Bag!Recover, Rows
    <2>3. CASE Running' = "none" /\ where' = where
        <3>1. Bag!End
            BY <1>2, <1>3, <2>1, <2>3 DEF Bag!End, Rows
        <3>2. QED
            BY <1>3, <3>1 DEF Bag!Next, Bag!Step
    <2>4. QED
        BY <1>4, <2>2, <2>3
<1>7. QED
    BY <1>5, <1>6

\* The bag does not see the other steps.
LEMMA SilentSteps ==
    ASSUME IInv, IInv',
           \/ ScanNextPage \/ ScanPageDone \/ SkipSource \/ FetchSource \/ LeaveTuple
           \/ MigrateTuple \/ SourceDone \/ KeepExtent \/ FindEmpty \/ NotRemoved
           \/ \E fetched \in SUBSET ListedPages : Defragment(fetched)
           \/ UNCHANGED vars
    PROVE  UNCHANGED BagVars
<1>1. CASE MigrateTuple
    <2>1. Rows' = Rows
        BY <1>1, MigrateRows
    <2>2. /\ stmt = "migrate" /\ stmt' = "migrate" /\ where' = where
          /\ hint' = hint /\ extents' = extents /\ astray' = astray
        BY <1>1 DEF MigrateTuple, scanVars, extentVars
    <2>3. QED
        BY <2>1, <2>2, RunningIs, NextRunningIs, StaleFacts DEF BagVars
<1>2. ASSUME NEW fetched \in SUBSET ListedPages, Defragment(fetched)
      PROVE  UNCHANGED BagVars
    <2>1. Rows' = Rows
        BY <1>2, DefragmentRows
    <2>2. /\ stmt = "migrate" /\ stmt' = "free" /\ where' = where
          /\ hint' = hint /\ extents' = extents /\ astray' = astray
        BY <1>2 DEF Defragment, scanVars, extentVars
    <2>3. QED
        BY <2>1, <2>2, RunningIs, NextRunningIs, StaleFacts DEF BagVars
<1>3. CASE KeepExtent \/ FindEmpty \/ NotRemoved
    <2>1. /\ stmt \in {"free", "remove"} /\ stmt' \in {"free", "remove"} /\ where' = where
          /\ pages' = pages /\ hint' = hint /\ extents' = extents /\ astray' = astray
        BY <1>3 DEF KeepExtent, FindEmpty, NotRemoved, scanVars, tableVars, extentVars
    <2>2. Rows' = Rows
        BY <2>1, SameRows
    <2>3. QED
        BY <2>1, <2>2, RunningIs, NextRunningIs, StaleFacts DEF BagVars
<1>4. CASE \/ ScanNextPage \/ ScanPageDone \/ SkipSource \/ FetchSource \/ LeaveTuple
           \/ SourceDone \/ UNCHANGED vars
    <2>1. /\ pages' = pages /\ extents' = extents /\ hint' = hint /\ astray' = astray
          /\ stmt' = stmt /\ where' = where
        BY <1>4 DEF ScanNextPage, ScanPageDone, SkipSource, FetchSource, LeaveTuple, SourceDone,
                    vars, tableVars, extentVars, scanVars
    <2>2. Rows' = Rows
        BY <2>1, SameRows
    <2>3. stmt \in {"idle", "insert", "scan", "migrate", "free", "remove"}
        BY DEF IInv, StatementOK
    <2>4. QED
        BY <2>1, <2>2, <2>3, RunningIs, NextRunningIs, StaleFacts DEF BagVars
<1>5. QED
    BY <1>1, <1>2, <1>3, <1>4

\* A statement begins.
LEMMA BeginIsBegin ==
    ASSUME IInv, IInv',
           \/ \E match \in SUBSET Tuple : StartScan(match)
           \/ \E fetched \in SUBSET ListedPages : StartCompaction(fetched)
    PROVE  Bag!Begin /\ ~astray
<1>1. ASSUME NEW match \in SUBSET Tuple, StartScan(match) PROVE Bag!Begin /\ ~astray
    <2>1. /\ pages' = pages /\ extents' = extents /\ hint' = hint /\ astray' = astray
          /\ ~astray /\ stmt = "idle" /\ stmt' = "scan" /\ where' = match
        BY <1>1 DEF StartScan, tableVars, extentVars
    <2>2. Rows' = Rows
        BY <2>1, SameRows
    <2>3. Running = "none" /\ Running' = "scan"
        BY <2>1, RunningIs, NextRunningIs
    <2>4. QED
        BY <2>1, <2>2, <2>3, StaleFacts DEF Bag!Begin, Rows
<1>2. ASSUME NEW fetched \in SUBSET ListedPages, StartCompaction(fetched) PROVE Bag!Begin /\ ~astray
    <2>1. /\ pages' = pages /\ extents' = extents /\ hint' = hint /\ astray' = astray
          /\ ~astray /\ stmt = "idle" /\ stmt' = "migrate" /\ where' = where
        BY <1>2 DEF StartCompaction, tableVars, extentVars, scanVars
    <2>2. Rows' = Rows
        BY <2>1, SameRows
    <2>3. Running = "none" /\ Running' = "compact"
        BY <2>1, RunningIs, NextRunningIs
    <2>4. where' = {}
        BY <2>1, InvFacts
    <2>5. QED
        BY <2>1, <2>2, <2>3, <2>4, StaleFacts DEF Bag!Begin, Rows
<1>3. QED
    BY <1>1, <1>2

\* What a scan removes is removed from the bag.
LEMMA ScanRowIsDelete ==
    ASSUME IInv, IInv', HintOK, ScanRow
    PROVE  UNCHANGED BagVars \/ Bag!Next
<1> DEFINE t == pages[current].rows[slot]
<1>1. /\ t \in Row
      /\ t \notin where => Rows' = Rows
      /\ t \in where => /\ Rows[t] \in Nat /\ Rows[t] > 0
                        /\ Rows' = [Rows EXCEPT ![t] = @ - 1]
    BY ScanRowRows
<1>2. /\ stmt = "scan" /\ stmt' = "scan" /\ where' = where
      /\ hint' = hint /\ extents' = extents /\ astray' = astray /\ ~astray
    BY DEF ScanRow, extentVars, HintOK
<1>3. Running = "scan" /\ Running' = "scan" /\ HintStale' = HintStale
    BY <1>2, RunningIs, NextRunningIs, StaleFacts
<1> HIDE DEF t
<1>4. CASE t \in where
    <2>1. t \in Tuple
        BY <1>4, InvFacts
    <2>2. Bag!Delete(t)
        BY <1>1, <1>2, <1>3, <1>4 DEF Bag!Delete, Rows
    <2>3. QED
        BY <1>2, <2>1, <2>2 DEF Bag!Next, Bag!Step
<1>5. CASE t \notin where
    BY <1>1, <1>2, <1>3, <1>5 DEF BagVars
<1>6. QED
    BY <1>4, <1>5

\* Every step is a step of the bag or none.
LEMMA BagStep ==
    ASSUME IInv, IInv', HintOK, [Next]_vars
    PROVE  [Bag!Next]_BagVars
<1>1. ASSUME NEW t \in Tuple, InsertIntoCurrent(t) PROVE Bag!Next
    <2>1. current \in PageId
        BY <1>1, InvFacts, ListedFacts DEF InsertIntoCurrent, NoCurrentRoom
    <2>2. QED
        BY <1>1, <2>1, InsertIsInsert DEF Bag!Next, Bag!Step
<1>2. ASSUME NEW t \in Tuple, NEW p \in PageId, InsertIntoFound(t, p) PROVE Bag!Next
    BY <1>2, InsertIsInsert DEF Bag!Next, Bag!Step
<1>3. ASSUME NEW t \in Tuple, InsertIntoNewExtent(t) PROVE Bag!Next
    <2>1. PagesOf(NewExtent)[1] \in PageId
        BY <1>3, NewExtentFacts DEF InsertIntoNewExtent
    <2>2. QED
        BY <1>3, <2>1, InsertIsInsert DEF Bag!Next, Bag!Step
<1>4. ASSUME NEW t \in Tuple, NEW p \in PageId, InsertAstray(t, p) PROVE Bag!Next
    <2>1. Bag!Lose /\ ~astray
        BY <1>4, FoundIsLost DEF InsertAstray
    <2>2. QED
        BY <2>1 DEF Bag!Next, Bag!Step
<1>5. ASSUME NEW t \in Tuple, NEW p \in PageId, FoundPageFails(t, p)
      PROVE  Bag!Next \/ UNCHANGED BagVars
    <2>1. EndStatement /\ FindPage(t, p) /\ astray' = astray /\ Rows' = Rows
        BY <1>5, FoundRows DEF FoundPageFails
    <2>2. QED
        BY <2>1, FoundIsLost, EndIsEnd
<1>6. ASSUME NEW t \in Tuple, AllocateForNothing(t) \/ AllocationFails(t)
      PROVE  Bag!Next \/ UNCHANGED BagVars
    <2>1. EndStatement /\ Rows' = Rows /\ astray' = astray
        BY <1>6, AllocateRows DEF AllocateForNothing, AllocationFails, TakeNewExtent, TakeExtent
    <2>2. HintStale' => HintStale
        <3>1. CASE AllocateForNothing(t)
            <4>1. TakeNewExtent(t) /\ hint' = PagesOf(NewExtent)[1]
                BY <3>1 DEF AllocateForNothing, TakeNewExtent
            <4>2. hint' \in ListedPages'
                BY <4>1, NewExtentFacts DEF ListedPages
            <4>3. QED
                BY <4>2, StaleFacts
        <3>2. CASE AllocationFails(t)
            BY <3>2, StaleFacts DEF AllocationFails
        <3>3. QED
            BY <1>6, <3>1, <3>2
    <2>3. QED
        BY <2>1, <2>2, EndIsEnd
<1>7. CASE EndInsert \/ EndScan \/ EndCompaction
    <2>1. /\ EndStatement /\ pages' = pages /\ extents' = extents
          /\ hint' = hint /\ astray' = astray
        BY <1>7 DEF EndInsert, EndScan, EndCompaction, tableVars, extentVars
    <2>2. QED
        BY <2>1, SameRows, StaleFacts, EndIsEnd
<1>8. CASE Reopen
    <2>1. /\ Rows' = Rows /\ stmt' = stmt /\ stmt = "idle" /\ where' = where
          /\ astray' = astray /\ hint' = INVALID_PAGE_ID
        BY <1>8, SameRows DEF Reopen, scanVars
    <2>2. HintStale' = FALSE /\ Running' = Running
        BY <2>1, StaleFacts, RunningIs, NextRunningIs
    <2>3. QED
        BY <2>1, <2>2 DEF Bag!Next, Bag!Recover, Rows
<1>9. CASE \/ \E match \in SUBSET Tuple : StartScan(match)
           \/ \E fetched \in SUBSET ListedPages : StartCompaction(fetched)
    BY <1>9, BeginIsBegin DEF Bag!Next, Bag!Step
<1>10. CASE ScanRow
    BY <1>10, ScanRowIsDelete
<1>11. CASE RemoveExtent \/ UnlinkFails \/ DeallocationFails
    BY <1>11, RemovalIsSpoil
<1>12. CASE \/ ScanNextPage \/ ScanPageDone \/ SkipSource \/ FetchSource \/ LeaveTuple
            \/ MigrateTuple \/ SourceDone \/ KeepExtent \/ FindEmpty \/ NotRemoved
            \/ \E fetched \in SUBSET ListedPages : Defragment(fetched)
            \/ UNCHANGED vars
    BY <1>12, SilentSteps
<1>13. QED
    BY <1>1, <1>2, <1>3, <1>4, <1>5, <1>6, <1>7, <1>8, <1>9, <1>10, <1>11, <1>12 DEF Next

\* A new table has no rows.
LEMMA BagInit == Init => Bag!Init
<1> SUFFICES ASSUME Init PROVE Bag!Init
    OBVIOUS
<1>1. IInv /\ stmt = "idle" /\ where = {} /\ extents = <<>>
    BY InitInv DEF Init
<1>2. ListedPages = {}
    BY <1>1, Nothing DEF ListedPages
<1>3. \A t \in Tuple : Count(t) = 0
    <2>1. pages \in [PageId -> SoundPage] /\ ListedPages \in SUBSET PageId
        BY <1>1, <1>2, InvFacts
    <2>2. \A t \in Tuple : Count(t) = Cardinality(Pairs(ListedPages, At(pages, t)))
        BY <2>1, CountIs DEF Tally
    <2>3. \A f : Pairs(ListedPages, f) = {}
        BY <1>2 DEF Pairs
    <2>4. QED
        BY <2>2, <2>3, FS_EmptySet
<1>4. Running = "none"
    BY <1>1, RunningIs
<1>5. HintStale = FALSE /\ astray = FALSE
    BY DEF Init, HintStale
<1>6. QED
    BY <1>1, <1>3, <1>4, <1>5 DEF Bag!Init

\* The table implements a bag of rows.  INSERT adds one copy of its row,
\* whichever page it goes to; DELETE removes rows that its WHERE clause matches
\* and no other, and COMPACT, whatever it moves, packs and frees, keeps every
\* row as often as it was there.  A row is lost only by an INSERT that follows
\* a hint which a removal that failed half-way has left behind; nothing is said
\* of the table after that.
THEOREM Refinement == Spec => ImplementsBag
<1>1. IInv /\ HintOK /\ IInv' /\ [Next]_vars => [Bag!Next]_BagVars
    BY BagStep
<1>2. [Bag!Next]_BagVars
        => [Bag!Next]_<<[t \in Tuple |-> Count(t)], Running, where, HintStale, astray>>
    BY DEF BagVars, Rows
<1>3. QED
    BY <1>1, <1>2, BagInit, Invariance, PTL DEF Spec, ImplementsBag, Bag!Spec, Bag!bagVars

-----------------------------------------------------------------------------
(* What a scan has returned *)

\* The slots of a page that a scan has passed: those before its slot on the
\* page it has pinned, none on a page that it has still to visit.
Behind(p, cur, s, left) ==
    IF p = cur THEN 1..(s - 1) ELSE IF p \in left THEN {} ELSE Nat

Passed(pgs, cur, s, left, t) ==
    [p \in PageId |-> Copies(pgs[p], t) \cap Behind(p, cur, s, left)]

\* As long as no page was passed over, the scan has returned each copy behind
\* it once, and DELETE has left none behind it that matches.
ScanInv ==
    stmt = "scan" /\ ~skipped =>
        \A t \in Tuple :
            Cardinality(Pairs(ListedPages, Passed(pages, current, slot, ToSet(todo), t)))
              = IF t \in where THEN 0 ELSE seen[t]

\* The copies that were passed can be counted.
LEMMA PassedFacts ==
    ASSUME NEW pgs \in [PageId -> SoundPage], NEW P \in SUBSET PageId,
           NEW cur, NEW s, NEW left, NEW t
    PROVE  /\ Countable(P, Passed(pgs, cur, s, left, t))
           /\ \A p \in P : Passed(pgs, cur, s, left, t)[p]
                             = Copies(pgs[p], t) \cap Behind(p, cur, s, left)
<1>1. \A p \in P : Passed(pgs, cur, s, left, t)[p]
                     = Copies(pgs[p], t) \cap Behind(p, cur, s, left)
    BY DEF Passed
<1>2. IsFiniteSet(P)
    BY FinitelyManyPages, FS_Subset
<1>3. \A p \in P : IsFiniteSet(Copies(pgs[p], t))
    <2>1. \A p \in P : pgs[p] \in SoundPage
        OBVIOUS
    <2>2. QED
        BY <2>1, GapFacts
<1>4. \A p \in P : IsFiniteSet(Passed(pgs, cur, s, left, t)[p])
    BY <1>1, <1>3, FS_Subset
<1>5. QED
    BY <1>1, <1>2, <1>4 DEF Countable

\* A scan begins with nothing behind it.
LEMMA StartScanInv ==
    ASSUME IInv, IInv', NEW match \in SUBSET Tuple, StartScan(match)
    PROVE  ScanInv'
<1>1. /\ stmt = "idle" /\ todo' = TablePages /\ current' = current /\ seen' = seen
      /\ pages' = pages /\ extents' = extents
    BY DEF StartScan, tableVars, extentVars
<1>2. seen = NoRowsSeen /\ current = INVALID_PAGE_ID
    BY <1>1 DEF IInv, Visited, CurrentOK
<1>3. ToSet(TablePages) = ListedPages /\ ListedPages' = ListedPages
    BY <1>1, InvFacts, TablePagesFacts, SamePages
<1>4. ASSUME NEW t \in Tuple
      PROVE  Pairs(ListedPages', Passed(pages', current', slot', ToSet(todo'), t)) = {}
    <2>1. \A p \in ListedPages : Behind(p, current', slot', ToSet(todo')) = {}
        BY <1>1, <1>2, <1>3, ListedFacts DEF Behind
    <2>2. \A p \in ListedPages : Passed(pages', current', slot', ToSet(todo'), t)[p] = {}
        BY <2>1 DEF Passed, ListedPages
    <2>3. QED
        BY <1>3, <2>2 DEF Pairs
<1>5. \A t \in Tuple : seen'[t] = 0
    BY <1>1, <1>2 DEF NoRowsSeen
<1>6. QED
    BY <1>4, <1>5, FS_EmptySet DEF ScanInv

\* Pinning a page or unpinning it passes no slot, if the scan has come to the
\* end of the page.
LEMMA PageInv ==
    ASSUME IInv, ScanInv, ScanNextPage \/ ScanPageDone
    PROVE  ScanInv'
<1>1. /\ stmt = "scan" /\ pages' = pages /\ extents' = extents /\ where' = where /\ seen' = seen
      /\ skipped' = skipped \/ skipped' = TRUE
    BY DEF ScanNextPage, ScanPageDone, tableVars, extentVars, scanVars
<1> SUFFICES ASSUME ~skipped' PROVE ScanInv'
    BY DEF ScanInv
<1>2. ~skipped /\ ListedPages' = ListedPages
    BY <1>1, SamePages
<1>3. /\ ToSet(todo) \subseteq ListedPages /\ IsInjective(todo)
      /\ current \notin ToSet(todo) /\ todo \in Seq(Nat)
    BY <1>1, InvFacts DEF IInv, ScanOK
<1>4. ASSUME NEW t \in Tuple, NEW p \in ListedPages
      PROVE  Copies(pages[p], t) \cap Behind(p, current', slot', ToSet(todo'))
               = Copies(pages[p], t) \cap Behind(p, current, slot, ToSet(todo))
    <2>1. pages[p] \in SoundPage /\ p # INVALID_PAGE_ID
        BY ListedFacts
    <2>2. CASE ScanNextPage
        <3>1. /\ current = INVALID_PAGE_ID /\ todo # <<>> /\ current' = Head(todo)
              /\ todo' = Tail(todo) /\ slot' = 1
            BY <1>2, <2>2 DEF ScanNextPage
        <3>2. ToSet(todo) = ToSet(Tail(todo)) \cup {Head(todo)}
            BY <1>3, <3>1, TailFacts
        <3>3. 1..(slot' - 1) = {}
            BY <3>1
        <3>4. QED
            BY <2>1, <3>1, <3>2, <3>3 DEF Behind
    <2>3. CASE ScanPageDone
        <3>1. /\ current # INVALID_PAGE_ID /\ ~AtRow /\ current' = INVALID_PAGE_ID
              /\ todo' = todo
            BY <2>3 DEF ScanPageDone
        <3>2. CASE p = current
            <4>1. slot \in Nat /\ Len(pages[p].rows) \in Nat /\ ~(slot <= Len(pages[p].rows))
                BY <2>1, <3>1, <3>2, InvFacts, PageFacts DEF AtRow
            <4>2. Copies(pages[p], t) \subseteq 1..(slot - 1) /\ Copies(pages[p], t) \subseteq Nat
                BY <4>1 DEF Copies
            <4>3. Behind(p, current', slot', ToSet(todo')) = Nat
                BY <1>3, <2>1, <3>1, <3>2 DEF Behind
            <4>4. Behind(p, current, slot, ToSet(todo)) = 1..(slot - 1)
                BY <3>2 DEF Behind
            <4>5. QED
                BY <4>2, <4>3, <4>4
        <3>3. CASE p # current
            BY <2>1, <3>1, <3>3 DEF Behind
        <3>4. QED
            BY <3>2, <3>3
    <2>4. QED
        BY <2>2, <2>3
<1>5. ASSUME NEW t \in Tuple
      PROVE  Pairs(ListedPages', Passed(pages', current', slot', ToSet(todo'), t))
               = Pairs(ListedPages, Passed(pages, current, slot, ToSet(todo), t))
    <2>1. \A p \in ListedPages :
             Passed(pages', current', slot', ToSet(todo'), t)[p]
               = Passed(pages, current, slot, ToSet(todo), t)[p]
        BY <1>1, <1>4 DEF Passed, ListedPages
    <2>2. QED
        BY <1>2, <2>1 DEF Pairs
<1>6. QED
    BY <1>1, <1>2, <1>5 DEF ScanInv

\* The scan passes one slot: it returns the row, and DELETE removes it if it
\* matches, without an effect on the slots behind or before the scan.
LEMMA ScanRowInv ==
    ASSUME IInv, IInv', ScanInv, ScanRow
    PROVE  ScanInv'
<1> DEFINE c == current
           r == pages[c].rows[slot]
           f(t) == Passed(pages, c, slot, ToSet(todo), t)
           g(t) == Passed(pages', c, slot + 1, ToSet(todo), t)
<1>1. /\ stmt = "scan" /\ AtRow /\ slot' = slot + 1
      /\ seen' = IF r = NoRow THEN seen ELSE [seen EXCEPT ![r] = @ + 1]
      /\ pages' = IF r \in where THEN [pages EXCEPT ![c] = Slots!DeleteRow(@, slot)]
                  ELSE pages
      /\ extents' = extents /\ current' = c /\ todo' = todo /\ where' = where
      /\ skipped' = skipped
    BY DEF ScanRow, extentVars
<1> SUFFICES ASSUME ~skipped PROVE ScanInv'
    BY <1>1 DEF ScanInv
<1>2. /\ pages \in [PageId -> SoundPage] /\ pages' \in [PageId -> SoundPage]
      /\ ListedPages \in SUBSET PageId
    BY CountFacts
<1>3. /\ c \in ListedPages /\ c \in PageId /\ pages[c] \in SoundPage
      /\ slot \in 1..Len(pages[c].rows) /\ r \in Row
    BY <1>1, AtRowFacts
<1>4. where \subseteq Tuple /\ seen \in [Tuple -> Nat] /\ slot \in Nat /\ slot > 0
    BY <1>3, InvFacts
<1>5. ListedPages' = ListedPages
    BY <1>1, SamePages
<1>6. ASSUME NEW t \in Tuple
      PROVE  /\ Countable(ListedPages, f(t)) /\ Countable(ListedPages, g(t))
             /\ f(t)[c] = Copies(pages[c], t) \cap 1..(slot - 1)
             /\ g(t)[c] = Copies(pages'[c], t) \cap 1..slot
             /\ \A p \in ListedPages : p # c => g(t)[p] = f(t)[p]
    <2>1. /\ Countable(ListedPages, f(t)) /\ Countable(ListedPages, g(t))
          /\ \A p \in ListedPages :
                /\ f(t)[p] = Copies(pages[p], t) \cap Behind(p, c, slot, ToSet(todo))
                /\ g(t)[p] = Copies(pages'[p], t) \cap Behind(p, c, slot + 1, ToSet(todo))
        <3>1. /\ Countable(ListedPages, f(t))
              /\ \A p \in ListedPages :
                    f(t)[p] = Copies(pages[p], t) \cap Behind(p, c, slot, ToSet(todo))
            BY <1>2, PassedFacts
        <3>2. /\ Countable(ListedPages, g(t))
              /\ \A p \in ListedPages :
                    g(t)[p] = Copies(pages'[p], t) \cap Behind(p, c, slot + 1, ToSet(todo))
            BY <1>2, PassedFacts
        <3>3. QED
            BY <3>1, <3>2
    <2> HIDE DEF f, g
    <2>2. Behind(c, c, slot, ToSet(todo)) = 1..(slot - 1)
        BY DEF Behind
    <2>3. Behind(c, c, slot + 1, ToSet(todo)) = 1..slot
        BY <1>4 DEF Behind
    <2>4. \A p \in ListedPages : p # c =>
             /\ pages'[p] = pages[p]
             /\ Behind(p, c, slot + 1, ToSet(todo)) = Behind(p, c, slot, ToSet(todo))
        BY <1>1, <1>2 DEF Behind
    <2>5. QED
        BY <1>3, <2>1, <2>2, <2>3, <2>4
<1> HIDE DEF f, g, c
<1>7. /\ 1..slot = 1..(slot - 1) \cup {slot} /\ slot \notin 1..(slot - 1)
    BY <1>4
<1>8. ASSUME NEW t \in Tuple
      PROVE  /\ slot \in Copies(pages[c], t) <=> t = r
             /\ r \notin where => Copies(pages'[c], t) = Copies(pages[c], t)
             /\ r \in where => Copies(pages'[c], t) = Copies(pages[c], t) \ {slot}
    <2>1. slot \in Copies(pages[c], t) <=> t = r
        BY <1>3 DEF Copies
    <2>2. ASSUME r \in where PROVE Copies(pages'[c], t) = Copies(pages[c], t) \ {slot}
        <3>1. pages'[c] = Slots!DeleteRow(pages[c], slot)
            BY <1>1, <1>2, <1>3, <2>2
        <3>2. r \in Tuple
            BY <1>4, <2>2
        <3>3. Copies(Slots!DeleteRow(pages[c], slot), t) = Copies(pages[c], t) \ {slot}
            BY <1>3, <3>2, DeletedRow
        <3>4. QED
            BY <3>1, <3>3
    <2>3. r \notin where => pages' = pages
        BY <1>1
    <2>4. QED
        BY <2>1, <2>2, <2>3
<1> HIDE DEF r
<1>9. ASSUME NEW t \in Tuple, t # r \/ t \in where
      PROVE  Cardinality(Pairs(ListedPages, g(t))) = Cardinality(Pairs(ListedPages, f(t)))
    <2>1. g(t)[c] = f(t)[c]
        <3> DEFINE A == 1..(slot - 1)
                   B == Copies(pages[c], t)
        <3>1. /\ f(t)[c] = B \cap A /\ g(t)[c] = Copies(pages'[c], t) \cap (A \cup {slot})
              /\ slot \notin A
            BY <1>6, <1>7
        <3>2. slot \in B <=> t = r
            BY <1>8
        <3>3. /\ r \notin where => Copies(pages'[c], t) = B
              /\ r \in where => Copies(pages'[c], t) = B \ {slot}
            BY <1>8
        <3> HIDE DEF A, B
        <3>4. CASE r \in where
            BY <3>1, <3>3, <3>4
        <3>5. CASE r \notin where
            BY <1>9, <3>1, <3>2, <3>3, <3>5
        <3>6. QED
            BY <3>4, <3>5
    <2>2. \A p \in ListedPages : Cardinality(g(t)[p]) = Cardinality(f(t)[p])
        BY <1>6, <2>1
    <2>3. Countable(ListedPages, f(t)) /\ Countable(ListedPages, g(t))
        BY <1>6
    <2>4. QED
        BY <2>2, <2>3, SamePerPage
<1>10. ASSUME NEW t \in Tuple, t = r, t \notin where
       PROVE  Cardinality(Pairs(ListedPages, g(t))) = Cardinality(Pairs(ListedPages, f(t))) + 1
    <2>1. g(t)[c] = f(t)[c] \cup {slot} /\ slot \notin f(t)[c]
        BY <1>6, <1>7, <1>8, <1>10
    <2>2. Countable(ListedPages, f(t)) /\ Countable(ListedPages, g(t))
        BY <1>6
    <2>3. IsFiniteSet(f(t)[c])
        BY <1>3, <2>2 DEF Countable
    <2>4. Cardinality(g(t)[c]) = Cardinality(f(t)[c]) + 1
        BY <2>1, <2>3, FS_AddElement
    <2>5. \A p \in ListedPages : p # c => Cardinality(f(t)[p]) = Cardinality(g(t)[p])
        BY <1>6
    <2>6. QED
        BY <1>3, <2>2, <2>4, <2>5, OneMoreOnAPage
<1>11. ASSUME NEW t \in Tuple
       PROVE  Cardinality(Pairs(ListedPages, g(t))) = IF t \in where THEN 0 ELSE seen'[t]
    <2>1. Cardinality(Pairs(ListedPages, f(t))) = IF t \in where THEN 0 ELSE seen[t]
        BY <1>1 DEF ScanInv, f, c
    <2>2. CASE t \in where
        BY <1>9, <2>1, <2>2
    <2>3. CASE t # r
        <3>1. seen'[t] = seen[t]
            BY <1>1, <1>4, <2>3
        <3>2. QED
            BY <1>9, <2>1, <2>3, <3>1
    <2>4. CASE t = r /\ t \notin where
        <3>1. t # NoRow
            BY Constants
        <3>2. seen'[t] = seen[t] + 1
            BY <1>1, <1>4, <2>4, <3>1
        <3>3. QED
            BY <1>10, <2>1, <2>4, <3>2
    <2>5. QED
        BY <2>2, <2>3, <2>4
<1>12. QED
    BY <1>1, <1>5, <1>11 DEF ScanInv, g

\* Every step keeps what is known of a scan.
LEMMA ScanInvStep ==
    ASSUME IInv, IInv', ScanInv, [Next]_vars
    PROVE  ScanInv'
<1>1. ASSUME NEW match \in SUBSET Tuple, StartScan(match) PROVE ScanInv'
    BY <1>1, StartScanInv
<1>2. CASE ScanNextPage \/ ScanPageDone
    BY <1>2, PageInv
<1>3. CASE ScanRow
    BY <1>3, ScanRowInv
<1>4. CASE UNCHANGED vars
    <2>1. /\ pages' = pages /\ extents' = extents /\ stmt' = stmt /\ current' = current
          /\ todo' = todo /\ slot' = slot /\ where' = where /\ seen' = seen
          /\ skipped' = skipped
        BY <1>4 DEF vars, tableVars, extentVars, scanVars
    <2>2. ListedPages' = ListedPages
        BY <2>1, SamePages
    <2>3. QED
        BY <2>1, <2>2 DEF ScanInv
<1>5. CASE stmt' # "scan"
    BY <1>5 DEF ScanInv
<1>6. ASSUME NEW t \in Tuple,
             \/ InsertIntoCurrent(t) \/ InsertIntoNewExtent(t) \/ AllocateForNothing(t)
             \/ AllocationFails(t)
             \/ \E p \in PageId : InsertIntoFound(t, p) \/ InsertAstray(t, p)
                                    \/ FoundPageFails(t, p)
      PROVE  stmt' # "scan"
    BY <1>6 DEF InsertIntoCurrent, InsertIntoFound, InsertAstray, FoundPageFails,
                InsertIntoNewExtent, AllocateForNothing, AllocationFails, EndStatement
<1>7. ASSUME EndInsert \/ EndScan \/ EndCompaction \/ Reopen PROVE stmt' # "scan"
    BY <1>7 DEF EndInsert, EndScan, EndCompaction, EndStatement, Reopen
<1>8. ASSUME \/ \E fetched \in SUBSET ListedPages : StartCompaction(fetched)
             \/ \E fetched \in SUBSET ListedPages : Defragment(fetched)
             \/ SkipSource \/ FetchSource \/ LeaveTuple \/ MigrateTuple \/ SourceDone
             \/ KeepExtent \/ FindEmpty \/ NotRemoved
             \/ RemoveExtent \/ UnlinkFails \/ DeallocationFails
      PROVE  stmt' # "scan"
    BY <1>8 DEF StartCompaction, Defragment, SkipSource, FetchSource, LeaveTuple, MigrateTuple,
                SourceDone, KeepExtent, FindEmpty, NotRemoved, RemoveExtent, UnlinkFails,
                DeallocationFails, EndStatement
<1>9. QED
    BY <1>1, <1>2, <1>3, <1>4, <1>5, <1>6, <1>7, <1>8 DEF Next

\* What a scan has behind it when it ends is the table.
LEMMA ScanEnd ==
    ASSUME IInv, IInv', ScanInv, EndScan, todo = <<>>, ~skipped, NEW t \in Tuple
    PROVE  Count(t) = IF t \in where THEN 0 ELSE seen[t]
<1>1. stmt = "scan" /\ current = INVALID_PAGE_ID
    BY DEF EndScan
<1>2. /\ pages \in [PageId -> SoundPage] /\ ListedPages \in SUBSET PageId
      /\ Count(t) = Cardinality(Pairs(ListedPages, At(pages, t)))
    BY CountFacts DEF Tally
<1>3. ToSet(todo) = {}
    BY Nothing
<1>4. ASSUME NEW p \in ListedPages
      PROVE  Passed(pages, current, slot, ToSet(todo), t)[p] = At(pages, t)[p]
    <2>1. p \in PageId /\ pages[p] \in SoundPage /\ p # INVALID_PAGE_ID
        BY ListedFacts
    <2>2. Behind(p, current, slot, ToSet(todo)) = Nat
        BY <1>1, <1>3, <2>1 DEF Behind
    <2>3. Copies(pages[p], t) \subseteq Nat
        BY <2>1, PageFacts DEF Copies
    <2>4. QED
        BY <2>1, <2>2, <2>3 DEF Passed, At
<1>5. Pairs(ListedPages, Passed(pages, current, slot, ToSet(todo), t))
        = Pairs(ListedPages, At(pages, t))
    BY <1>4 DEF Pairs
<1>6. QED
    BY <1>1, <1>2, <1>5 DEF ScanInv

\* A scan that could fetch every page has returned every row of the table as
\* often as the table has it; a DELETE has removed the rows that match, all of
\* them, although it removes slots and shortens directories under the scan.
THEOREM CompleteScans == Spec => ScanIsComplete
<1>1. Init => ScanInv
    BY DEF Init, ScanInv
<1>2. IInv /\ IInv' /\ ScanInv /\ [Next]_vars => ScanInv'
    BY ScanInvStep
<1>3. ASSUME IInv, IInv', ScanInv
      PROVE  EndScan /\ todo = <<>> /\ ~skipped
                => \A t \in Tuple : Count(t) = IF t \in where THEN 0 ELSE seen[t]
    BY <1>3, ScanEnd
<1>4. QED
    BY <1>1, <1>2, <1>3, Invariance, PTL DEF Spec, ScanIsComplete

-----------------------------------------------------------------------------
(* Every step of a scan or a compaction brings it nearer its end *)

Freeing  == stmt \in {"free", "remove"}
Visiting == stmt \in {"scan", "migrate"} \/ Freeing

\* How far a statement is from its end: the pages it has yet to pin and to
\* release, and the slots left in the page it has pinned.  An extent that was
\* removed is visited once more, but then the table has one extent less.
Pinned == IF current # INVALID_PAGE_ID THEN 1 ELSE 0
VisitsLeft ==
    CASE stmt = "scan"    -> 2 * Len(todo) + Pinned
      [] stmt = "migrate" -> 2 * Len(todo) - Pinned
      [] stmt = "free"    -> 2 * (Len(todo) + Len(extents))
      [] stmt = "remove"  -> 2 * (Len(todo) + Len(extents)) - 1
SlotsLeft == IF AtRow THEN Len(pages[current].rows) - slot + 1 ELSE 0

NearerItsEnd ==
    \/ stmt' = "idle"
    \/ stmt = "migrate" /\ stmt' = "free"
    \/ (stmt' = stmt \/ (Freeing /\ Freeing')) /\ VisitsLeft' < VisitsLeft
    \/ stmt' = stmt /\ VisitsLeft' = VisitsLeft /\ SlotsLeft' < SlotsLeft

\* No step of a scan or a compaction leaves it as far from its end as it was:
\* rows that are removed or moved while the slots of a page are visited never
\* add a slot that is still to be visited, and COMPACT's phases follow each
\* other.  Both numbers are naturals, so that a statement cannot go on for
\* ever.
StatementShortens ==
    [][Visiting => VisitsLeft \in Nat /\ SlotsLeft \in Nat /\ NearerItsEnd]_vars

\* What is left is counted in naturals.
LEMMA LeftFacts ==
    ASSUME IInv, Visiting
    PROVE  /\ Len(todo) \in Nat /\ VisitsLeft \in Nat /\ SlotsLeft \in Nat
           /\ todo # <<>> => Len(todo) > 0 /\ Len(Tail(todo)) = Len(todo) - 1
           /\ AtRow => SlotsLeft = Len(pages[current].rows) - slot + 1 /\ SlotsLeft > 0
<1>1. todo \in Seq(Nat) /\ Len(todo) \in Nat
    BY InvFacts, LenProperties
<1>2. ASSUME todo # <<>> PROVE Len(todo) > 0 /\ Len(Tail(todo)) = Len(todo) - 1
    BY <1>1, <1>2, EmptySeq, HeadTailProperties
<1>3. stmt = "migrate" /\ current # INVALID_PAGE_ID => todo # <<>>
    BY MigrationFacts
<1>4. VisitsLeft \in Nat
    <2> DEFINE n == Len(todo)
           m == Len(extents)
    <2>1. /\ n \in Nat /\ (stmt = "migrate" /\ current # INVALID_PAGE_ID => n > 0)
          /\ m \in Nat
        BY <1>1, <1>2, <1>3, InvFacts, LenProperties
    <2>2. stmt = "remove" => n > 0
        BY <1>2 DEF IInv, CompactionOK
    <2> HIDE DEF n, m
    <2>3. QED
        BY <2>1, <2>2 DEF VisitsLeft, Pinned, Visiting, Freeing, n, m
<1>5. ASSUME AtRow
      PROVE  SlotsLeft = Len(pages[current].rows) - slot + 1 /\ SlotsLeft > 0 /\ SlotsLeft \in Nat
    <2>1. slot \in 1..Len(pages[current].rows) /\ Len(pages[current].rows) \in Nat
        BY <1>5, AtRowFacts, PageFacts
    <2>2. SlotsLeft = Len(pages[current].rows) - slot + 1
        BY <1>5 DEF SlotsLeft
    <2>3. QED
        BY <2>1, <2>2
<1>6. SlotsLeft \in Nat
    BY <1>5 DEF SlotsLeft
<1>7. QED
    BY <1>1, <1>2, <1>4, <1>5, <1>6

\* A slot of the pinned page is visited, and the page gets no further slots.
LEMMA SlotVisited ==
    ASSUME IInv, IInv', Visiting, AtRow, stmt' = stmt, todo' = todo, current' = current,
           slot' = slot + 1, extents' = extents,
           Len(pages'[current].rows) <= Len(pages[current].rows)
    PROVE  NearerItsEnd
<1> DEFINE m == Len(pages[current].rows)
           n == Len(pages'[current].rows)
<1>1. VisitsLeft' = VisitsLeft
    BY DEF VisitsLeft, Pinned
<1>2. Visiting'
    BY DEF Visiting, Freeing
<1>3. m \in Nat /\ slot \in 1..m /\ current \in PageId
    BY AtRowFacts, PageFacts
<1>4. n \in Nat /\ n <= m
    <2>1. pages'[current] \in SoundPage
        BY <1>3 DEF IInv
    <2>2. QED
        BY <2>1, PageFacts
<1>5. SlotsLeft = m - slot + 1
    BY LeftFacts
<1>6. SlotsLeft' = IF AtRow' THEN n - (slot + 1) + 1 ELSE 0
    BY DEF SlotsLeft
<1> HIDE DEF m, n
<1>7. SlotsLeft' < SlotsLeft
    BY <1>3, <1>4, <1>5, <1>6
<1>8. QED
    BY <1>1, <1>7 DEF NearerItsEnd

\* No step of a scan or a compaction leaves it as far from its end as it was,
\* so that neither goes on for ever, although rows are removed from the page
\* that is being read and put into pages that are still to be visited.
THEOREM StatementsShorten == Spec => StatementShortens
<1>1. ASSUME IInv, IInv', [Next]_vars, Visiting
      PROVE  UNCHANGED vars \/ NearerItsEnd
    <2>1. VisitsLeft \in Nat /\ Len(todo) \in Nat
          /\ (todo # <<>> => Len(todo) > 0 /\ Len(Tail(todo)) = Len(todo) - 1)
        BY <1>1, LeftFacts
    <2>2. CASE EndScan \/ EndCompaction
        BY <2>2 DEF EndScan, EndCompaction, EndStatement, NearerItsEnd
    <2>3. CASE ScanNextPage
        <3>1. /\ stmt = "scan" /\ stmt' = "scan" /\ current = INVALID_PAGE_ID /\ todo # <<>>
              /\ todo' = Tail(todo)
            BY <2>3 DEF ScanNextPage
        <3>2. VisitsLeft = 2 * Len(todo) /\ VisitsLeft' = 2 * Len(Tail(todo)) + Pinned'
            BY <2>1, <3>1 DEF VisitsLeft, Pinned
        <3>3. Pinned' \in {0, 1}
            BY DEF Pinned
        <3>4. VisitsLeft' < VisitsLeft
            BY <2>1, <3>1, <3>2, <3>3
        <3>5. QED
            BY <3>1, <3>4 DEF NearerItsEnd
    <2>4. CASE ScanRow
        <3> DEFINE t == pages[current].rows[slot]
        <3>1. /\ AtRow /\ slot' = slot + 1
              /\ pages' = IF t \in where THEN [pages EXCEPT ![current] = Slots!DeleteRow(@, slot)]
                          ELSE pages
              /\ stmt' = stmt /\ todo' = todo /\ current' = current /\ extents' = extents
            BY <2>4 DEF ScanRow, extentVars
        <3>2. /\ current \in PageId /\ pages[current] \in SoundPage
              /\ slot \in 1..Len(pages[current].rows) /\ Len(pages[current].rows) \in Nat
            BY <1>1, <3>1, AtRowFacts, PageFacts
        <3>3. Len(pages'[current].rows) <= Len(pages[current].rows)
            <4>1. CASE t \in where
                <5>1. t \in Tuple
                    BY <1>1, <4>1, InvFacts
                <5>2. Len(Slots!DeleteRow(pages[current], slot).rows) <= Len(pages[current].rows)
                    BY <3>2, <5>1, DeletedRow
                <5>3. pages'[current] = Slots!DeleteRow(pages[current], slot)
                    BY <1>1, <3>1, <3>2, <4>1, InvFacts
                <5>4. QED
                    BY <5>2, <5>3
            <4>2. CASE t \notin where
                BY <3>1, <3>2, <4>2
            <4>3. QED
                BY <4>1, <4>2
        <3>4. QED
            BY <1>1, <3>1, <3>3, SlotVisited
    <2>5. CASE ScanPageDone
        <3>1. /\ stmt = "scan" /\ stmt' = "scan" /\ current # INVALID_PAGE_ID
              /\ current' = INVALID_PAGE_ID /\ todo' = todo
            BY <2>5 DEF ScanPageDone
        <3>2. VisitsLeft = 2 * Len(todo) + 1 /\ VisitsLeft' = 2 * Len(todo)
            BY <2>1, <3>1 DEF VisitsLeft, Pinned
        <3>3. QED
            BY <2>1, <3>1, <3>2 DEF NearerItsEnd
    <2>6. CASE SkipSource \/ FetchSource \/ SourceDone
        <3>1. stmt = "migrate" /\ stmt' = "migrate" /\ todo # <<>>
            BY <1>1, <2>6, MigrationFacts DEF SkipSource, FetchSource, SourceDone
        <3>2. \/ current = INVALID_PAGE_ID /\ todo' = Tail(todo) /\ current' = current
              \/ /\ current = INVALID_PAGE_ID /\ todo' = todo
                 /\ current' # INVALID_PAGE_ID
              \/ /\ current # INVALID_PAGE_ID /\ todo' = Tail(todo)
                 /\ current' = INVALID_PAGE_ID
            <4>1. CASE FetchSource
                <5>1. Source.id \in ListedPages
                    BY <1>1, <3>1, MigrationFacts DEF Source, Stats
                <5>2. QED
                    BY <4>1, <5>1, ListedFacts, <1>1 DEF FetchSource
            <4>2. CASE SkipSource \/ SourceDone
                BY <4>2 DEF SkipSource, SourceDone
            <4>3. QED
                BY <2>6, <4>1, <4>2
        <3>3. VisitsLeft = 2 * Len(todo) - Pinned /\ VisitsLeft' = 2 * Len(todo') - Pinned'
            BY <3>1 DEF VisitsLeft
        <3>4. VisitsLeft' < VisitsLeft
            BY <2>1, <3>1, <3>2, <3>3 DEF Pinned
        <3>5. QED
            BY <3>1, <3>4 DEF NearerItsEnd
    <2>7. CASE LeaveTuple
        <3>1. /\ AtRow /\ slot' = slot + 1 /\ pages' = pages
              /\ stmt' = stmt /\ todo' = todo /\ current' = current /\ extents' = extents
            BY <2>7 DEF LeaveTuple, tableVars, extentVars
        <3>2. Len(pages'[current].rows) <= Len(pages[current].rows)
            BY <1>1, <3>1, AtRowFacts, PageFacts
        <3>3. QED
            BY <1>1, <3>1, <3>2, SlotVisited
    <2>8. CASE MigrateTuple
        <3> DEFINE t == pages[current].rows[slot]
                   d == Destination(t)
        <3>1. /\ AtRow /\ slot' = slot + 1 /\ pages' = MoveRow(t, d)
              /\ stmt' = stmt /\ todo' = todo /\ current' = current /\ extents' = extents
            BY <2>8 DEF MigrateTuple, extentVars
        <3>2. t \in Tuple /\ d \in ListedPages /\ d # current
            BY <1>1, <2>8, DestinationFacts
        <3>3. /\ current \in PageId /\ pages[current] \in SoundPage
              /\ slot \in 1..Len(pages[current].rows)
            BY <1>1, <3>1, AtRowFacts
        <3>4. Len(Slots!DeleteRow(pages[current], slot).rows) <= Len(pages[current].rows)
            BY <3>2, <3>3, DeletedRow
        <3> HIDE DEF d
        <3>5. pages'[current] = Slots!DeleteRow(pages[current], slot)
            BY <1>1, <3>1, <3>2, <3>3, InvFacts DEF MoveRow
        <3>6. QED
            BY <1>1, <3>1, <3>4, <3>5, SlotVisited
    <2>9. CASE \E fetched \in SUBSET ListedPages : Defragment(fetched)
        BY <2>9 DEF Defragment, NearerItsEnd
    <2>10. CASE KeepExtent \/ FindEmpty \/ NotRemoved
        <3>1. /\ stmt \in {"free", "remove"} /\ stmt' \in {"free", "remove"} /\ todo # <<>>
              /\ extents' = extents /\ Len(extents) \in Nat
              /\ \/ stmt = "free" /\ stmt' = "free" /\ todo' = Tail(todo)
                 \/ stmt = "free" /\ stmt' = "remove" /\ todo' = todo
                 \/ stmt = "remove" /\ stmt' = "free" /\ todo' = Tail(todo)
            <4>1. stmt = "remove" => todo # <<>>
                BY <1>1 DEF IInv, CompactionOK
            <4>2. Len(extents) \in Nat
                BY <1>1, InvFacts, LenProperties
            <4>3. QED
                BY <2>10, <4>1, <4>2 DEF KeepExtent, FindEmpty, NotRemoved, tableVars, extentVars
        <3> DEFINE n == Len(todo)
                   m == Len(extents)
        <3>2. /\ stmt = "free" => VisitsLeft = 2 * (n + m)
              /\ stmt = "remove" => VisitsLeft = 2 * (n + m) - 1
              /\ stmt' = "free" => VisitsLeft' = 2 * (Len(todo') + m)
              /\ stmt' = "remove" => VisitsLeft' = 2 * (Len(todo') + m) - 1
            BY <3>1 DEF VisitsLeft
        <3>3. n \in Nat /\ m \in Nat /\ n > 0 /\ Len(Tail(todo)) = n - 1
            BY <2>1, <3>1
        <3> HIDE DEF n, m
        <3>4. VisitsLeft' < VisitsLeft
            <4>1. Len(todo) = n
                BY DEF n
            <4>2. QED
                BY <3>1, <3>2, <3>3, <4>1
        <3>5. QED
            BY <3>1, <3>4 DEF NearerItsEnd, Freeing
    <2>11. CASE RemoveExtent \/ UnlinkFails
        <3> DEFINE n == Len(todo)
                   m == Len(extents)
        <3>1. /\ stmt = "remove" /\ stmt' = "free" /\ Unlist
              /\ todo' = todo \/ todo' = Tail(todo)
            BY <2>11 DEF RemoveExtent, UnlinkFails, Unlist
        <3>2. todo # <<>> /\ m \in Nat /\ Len(extents') = m - 1
            BY <1>1, <3>1, UnlistFacts
        <3>3. n \in Nat /\ n > 0 /\ (Len(todo') = n \/ Len(todo') = n - 1)
            BY <2>1, <3>1, <3>2
        <3>4. VisitsLeft = 2 * (n + m) - 1 /\ VisitsLeft' = 2 * (Len(todo') + (m - 1))
            BY <3>1, <3>2 DEF VisitsLeft
        <3> HIDE DEF n, m
        <3>5. VisitsLeft' < VisitsLeft
            BY <3>2, <3>3, <3>4
        <3>6. QED
            BY <3>1, <3>5 DEF NearerItsEnd, Freeing
    <2>12. CASE DeallocationFails
        BY <2>12 DEF DeallocationFails, EndStatement, NearerItsEnd
    <2>13. /\ \A t \in Tuple : ~InsertIntoCurrent(t) /\ ~InsertIntoNewExtent(t)
                                /\ ~AllocateForNothing(t) /\ ~AllocationFails(t)
           /\ \A t \in Tuple, p \in PageId : ~InsertIntoFound(t, p) /\ ~InsertAstray(t, p)
                                             /\ ~FoundPageFails(t, p)
           /\ ~EndInsert /\ ~Reopen
           /\ \A match \in SUBSET Tuple : ~StartScan(match)
           /\ \A fetched \in SUBSET ListedPages : ~StartCompaction(fetched)
        <3>1. stmt \notin {"idle", "insert"}
            BY <1>1 DEF Visiting, Freeing
        <3>2. QED
            BY <3>1 DEF InsertIntoCurrent, InsertIntoNewExtent, AllocateForNothing,
               AllocationFails, TakeNewExtent, TakeExtent, InsertIntoFound, InsertAstray,
               FoundPageFails, FindPage, Inserting, EndInsert, Reopen, StartScan, StartCompaction
    <2>14. QED
        BY <1>1, <2>2, <2>3, <2>4, <2>5, <2>6, <2>7, <2>8, <2>9, <2>10, <2>11, <2>12, <2>13
           DEF Next
<1>2. ASSUME IInv, IInv', [Next]_vars
      PROVE  [Visiting => VisitsLeft \in Nat /\ SlotsLeft \in Nat /\ NearerItsEnd]_vars
    BY <1>1, <1>2, LeftFacts
<1>3. QED
    BY <1>2, Invariance, PTL DEF Spec, StatementShortens
=============================================================================
