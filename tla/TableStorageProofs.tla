-------------------------- MODULE TableStorageProofs -------------------------
(***************************************************************************)
(* The invariants of the IAM chains, their action properties and their     *)
(* refinement of TableExtents; then what the statements on several tables  *)
(* do to each other: they take the steps of the IAM chains, so that they   *)
(* keep all of that, and each table has the rows that were put into it.    *)
(* For every set of tables and rows, every extent size, every number of    *)
(* rows per page and of entries per IAM page, and every database.          *)
(***************************************************************************)
EXTENDS TableStorage, CommonLemmas

-----------------------------------------------------------------------------
(* The inductive invariant *)

IamPages(t) == ToSet(chain[t])
Entries(p)  == ToSet(list[p])

\* No IAM page is linked twice, and no two tables have one in an extent.
ChainsDisjoint ==
    /\ \A t \in Table : IsInjective(chain[t])
    /\ \A t, u \in Table : t # u => IamExtents(t) \cap IamExtents(u) = {}

\* No extent is listed twice, nor does it hold an IAM page.
ListsDisjoint ==
    /\ \A t \in Table : \A p \in IamPages(t) : IsInjective(list[p])
    /\ \A t, u \in Table : \A p \in IamPages(t), q \in IamPages(u) :
          p # q => Entries(p) \cap Entries(q) = {}
    /\ \A t, u \in Table : Listed(t) \cap IamExtents(u) = {}

\* Every extent that is listed or holds an IAM page is marked.
InUseIsMarked == \A t \in Table : Listed(t) \cup IamExtents(t) \subseteq used

\* TailIsLast, by position.
Ascends(c) ==
    \A i, j \in 1..Len(c) : i < j /\ ExtentOf(c[i]) = ExtentOf(c[j]) => c[i] < c[j]
ChainsAscend == \A t \in Table : Ascends(chain[t])

IamInv ==
    /\ TypeOK
    /\ ChainsDisjoint
    /\ ListsDisjoint
    /\ InUseIsMarked
    /\ ChainsAscend

-----------------------------------------------------------------------------
(* Pages and extents *)

\* The first page of an extent lies in it.
LEMMA FirstPage ==
    ASSUME NEW e \in Extent
    PROVE  FirstPageOf(e) \in PageId /\ ExtentOf(FirstPageOf(e)) = e
<1>1. /\ e \in Nat /\ EXTENT_SIZE \in Nat \ {0} /\ MaxExtent \in Nat
      /\ MaxExtent + 1 \in Nat /\ e + 1 \in Nat /\ e + 1 <= MaxExtent + 1
    BY IamAssumption DEF Extent
<1>2. /\ e * EXTENT_SIZE \in Nat
      /\ (e + 1) * EXTENT_SIZE = e * EXTENT_SIZE + EXTENT_SIZE
      /\ (e + 1) * EXTENT_SIZE <= (MaxExtent + 1) * EXTENT_SIZE
      /\ (MaxExtent + 1) * EXTENT_SIZE \in Nat
    BY <1>1, Products
<1>3. e * EXTENT_SIZE \in 0..((MaxExtent + 1) * EXTENT_SIZE - 1)
    BY <1>1, <1>2
<1>4. 0 \in 0..(EXTENT_SIZE - 1) /\ e * EXTENT_SIZE = e * EXTENT_SIZE + 0
    BY <1>1, <1>2
<1>5. (e * EXTENT_SIZE) \div EXTENT_SIZE = e
    BY <1>1, <1>2, <1>4, DivisionUnique
<1>6. QED
    BY <1>3, <1>5 DEF FirstPageOf, ExtentOf, PageId

\* Every page lies in an extent.
LEMMA PageExtent ==
    ASSUME NEW p \in PageId
    PROVE  ExtentOf(p) \in Extent
<1> DEFINE q == p \div EXTENT_SIZE
<1>1. /\ p \in Nat /\ EXTENT_SIZE \in Nat \ {0} /\ MaxExtent \in Nat
      /\ MaxExtent + 1 \in Nat
    BY IamAssumption DEF PageId
<1>2. (MaxExtent + 1) * EXTENT_SIZE \in Nat
    BY <1>1, Products
<1>3. p < (MaxExtent + 1) * EXTENT_SIZE
    BY <1>1, <1>2 DEF PageId
<1>4. q \in Nat /\ p % EXTENT_SIZE \in 0..(EXTENT_SIZE - 1)
      /\ p = q * EXTENT_SIZE + (p % EXTENT_SIZE)
    BY <1>1, Division
<1> HIDE DEF q
<1>5. q * EXTENT_SIZE \in Nat
      /\ (MaxExtent + 1 <= q => (MaxExtent + 1) * EXTENT_SIZE <= q * EXTENT_SIZE)
    BY <1>1, <1>4, Products
<1>6. q < MaxExtent + 1
    BY <1>1, <1>2, <1>3, <1>4, <1>5
<1>7. QED
    BY <1>1, <1>4, <1>6 DEF q, ExtentOf, Extent

\* The page after one that is not the last of its extent lies in the same.
LEMMA NextPage ==
    ASSUME NEW p \in PageId, p % EXTENT_SIZE < EXTENT_SIZE - 1
    PROVE  p + 1 \in PageId /\ ExtentOf(p + 1) = ExtentOf(p)
<1> DEFINE q == p \div EXTENT_SIZE
           r == p % EXTENT_SIZE
<1>1. /\ p \in Nat /\ EXTENT_SIZE \in Nat \ {0} /\ MaxExtent \in Nat
      /\ MaxExtent + 1 \in Nat
    BY IamAssumption DEF PageId
<1>2. q \in Extent
    BY PageExtent DEF ExtentOf
<1>3. r \in 0..(EXTENT_SIZE - 1) /\ p = q * EXTENT_SIZE + r /\ r < EXTENT_SIZE - 1
    BY <1>1, Division
<1> HIDE DEF q, r
<1>4. q \in Nat /\ q + 1 \in Nat /\ q + 1 <= MaxExtent + 1
    BY <1>1, <1>2 DEF Extent
<1>5. /\ q * EXTENT_SIZE \in Nat
      /\ (q + 1) * EXTENT_SIZE = q * EXTENT_SIZE + EXTENT_SIZE
      /\ (q + 1) * EXTENT_SIZE <= (MaxExtent + 1) * EXTENT_SIZE
      /\ (MaxExtent + 1) * EXTENT_SIZE \in Nat
    BY <1>1, <1>4, Products
<1>6. r + 1 \in 0..(EXTENT_SIZE - 1) /\ p + 1 = q * EXTENT_SIZE + (r + 1) /\ p + 1 \in Nat
    BY <1>1, <1>3, <1>5
<1>7. (p + 1) \div EXTENT_SIZE = q
    BY <1>1, <1>4, <1>6, DivisionUnique
<1>8. p + 1 \in PageId
    BY <1>1, <1>3, <1>5, <1>6 DEF PageId
<1>9. QED
    BY <1>7, <1>8 DEF q, ExtentOf

\* allocate_extent returns a free extent, and so does a second call.
LEMMA NewExtentIsFree ==
    /\ Free # {} => NewExtent \in Free
    /\ Free \ {NewExtent} # {} => SecondExtent \in Free /\ SecondExtent # NewExtent
<1>1. Free \in SUBSET Nat /\ Free \ {NewExtent} \in SUBSET Nat
    BY IamAssumption DEF Free, Extent
<1>2. Free # {} => NewExtent \in Free
    BY <1>1, MinIsLeast DEF NewExtent
<1>3. Free \ {NewExtent} # {} => SecondExtent \in Free \ {NewExtent}
    BY <1>1, MinIsLeast DEF SecondExtent
<1>4. QED
    BY <1>2, <1>3

-----------------------------------------------------------------------------
(* Chains *)

\* The state's types, one by one.
LEMMA IamTypes ==
    ASSUME TypeOK
    PROVE  /\ used \subseteq Extent
           /\ \A t \in Table : /\ chain[t] \in Seq(PageId) /\ Len(chain[t]) \in Nat
                               /\ IamPages(t) = {chain[t][i] : i \in 1..Len(chain[t])}
                               /\ IamPages(t) \subseteq PageId
                               /\ IamExtents(t) \subseteq Extent
                               /\ Listed(t) \subseteq Extent
                               /\ hint[t] \in PageId \cup {INVALID_PAGE_ID}
           /\ \A p \in PageId : list[p] \in Seq(Extent) /\ Entries(p) \subseteq Extent
<1>1. /\ used \subseteq Extent
      /\ \A t \in Table : chain[t] \in Seq(PageId)
      /\ \A p \in PageId : list[p] \in Seq(Extent)
      /\ \A t \in Table : hint[t] \in PageId \cup {INVALID_PAGE_ID}
    BY DEF TypeOK
<1>2. ASSUME NEW t \in Table
      PROVE  /\ Len(chain[t]) \in Nat
             /\ IamPages(t) = {chain[t][i] : i \in 1..Len(chain[t])}
             /\ IamPages(t) \subseteq PageId
    <2>1. chain[t] \in Seq(PageId)
        BY <1>1
    <2>2. QED
        BY <2>1, ToSetFacts DEF IamPages
<1>3. ASSUME NEW p \in PageId PROVE Entries(p) \subseteq Extent
    <2>1. list[p] \in Seq(Extent)
        BY <1>1
    <2>2. QED
        BY <2>1, ToSetFacts DEF Entries
<1>4. ASSUME NEW t \in Table
      PROVE  IamExtents(t) \subseteq Extent /\ Listed(t) \subseteq Extent
    <2>1. IamExtents(t) \subseteq Extent
        BY <1>2, PageExtent DEF IamExtents, IamPages
    <2>2. Listed(t) \subseteq Extent
        BY <1>2, <1>3 DEF Listed, IamPages, Entries
    <2>3. QED
        BY <2>1, <2>2
<1>5. QED
    BY <1>1, <1>2, <1>3, <1>4

\* A page past all pages of its extent can be appended to a chain.
LEMMA AppendAscends ==
    ASSUME NEW c \in Seq(PageId), Ascends(c), NEW g \in PageId,
           \A p \in ToSet(c) : ExtentOf(p) = ExtentOf(g) => p < g
    PROVE  Ascends(Append(c, g))
<1> DEFINE d == Append(c, g)
<1>1. /\ Len(d) = Len(c) + 1 /\ Len(c) \in Nat
      /\ \A i \in 1..Len(c) : d[i] = c[i]
      /\ d[Len(c) + 1] = g
    BY AppendFacts, LenProperties
<1> HIDE DEF d
<1>2. \A i \in 1..Len(c) : c[i] \in ToSet(c)
    BY ToSetFacts
<1>3. ASSUME NEW i \in 1..Len(d), NEW j \in 1..Len(d), i < j,
             ExtentOf(d[i]) = ExtentOf(d[j])
      PROVE  d[i] < d[j]
    <2>1. i \in 1..Len(c) /\ d[i] = c[i]
        BY <1>1, <1>3
    <2>2. CASE j \in 1..Len(c)
        BY <1>1, <1>3, <2>1, <2>2 DEF Ascends
    <2>3. CASE j = Len(c) + 1
        BY <1>1, <1>2, <1>3, <2>1, <2>3
    <2>4. QED
        BY <1>1, <2>2, <2>3
<1>4. QED
    BY <1>3 DEF Ascends, d

\* Without one of its pages a chain still ascends.
LEMMA RemoveAtAscends ==
    ASSUME NEW c \in Seq(PageId), Ascends(c), NEW k \in 1..Len(c)
    PROVE  Ascends(RemoveAt(c, k))
<1> DEFINE d == RemoveAt(c, k)
           at(i) == IF i < k THEN i ELSE i + 1
<1>1. /\ Len(d) = Len(c) - 1 /\ Len(c) \in Nat
      /\ \A i \in 1..(Len(c) - 1) : d[i] = IF i < k THEN c[i] ELSE c[i + 1]
    BY RemoveAtFacts, LenProperties
<1> HIDE DEF d
<1>2. ASSUME NEW i \in 1..Len(d) PROVE at(i) \in 1..Len(c) /\ d[i] = c[at(i)]
    BY <1>1
<1>3. ASSUME NEW i \in 1..Len(d), NEW j \in 1..Len(d), i < j PROVE at(i) < at(j)
    BY <1>1, <1>3
<1> HIDE DEF at
<1>4. ASSUME NEW i \in 1..Len(d), NEW j \in 1..Len(d), i < j,
             ExtentOf(d[i]) = ExtentOf(d[j])
      PROVE  d[i] < d[j]
    BY <1>2, <1>3, <1>4 DEF Ascends
<1>5. QED
    BY <1>4 DEF Ascends, d

-----------------------------------------------------------------------------
(* What a step changes *)

\* No linked page changes: the invariant and the tables' extents stay.
LEMMA LinkedPagesStay ==
    ASSUME IamInv, TypeOK', chain' = chain, used \subseteq used',
           \A t \in Table : \A p \in IamPages(t) : list'[p] = list[p]
    PROVE  /\ IamInv'
           /\ \A t \in Table : Listed(t)' = Listed(t) /\ IamExtents(t)' = IamExtents(t)
<1>1. ASSUME NEW t \in Table
      PROVE  /\ IamPages(t)' = IamPages(t)
             /\ IamExtents(t)' = IamExtents(t)
             /\ \A p \in IamPages(t) : Entries(p)' = Entries(p)
    BY DEF IamPages, IamExtents, Entries
<1>2. ASSUME NEW t \in Table PROVE Listed(t)' = Listed(t)
    BY DEF Listed, IamPages
<1>3. ChainsDisjoint'
    BY <1>1 DEF IamInv, ChainsDisjoint
<1>4. ListsDisjoint'
    <2>1. \A t \in Table : \A p \in IamPages(t)' : IsInjective(list'[p])
        BY <1>1 DEF IamInv, ListsDisjoint
    <2>2. ASSUME NEW t \in Table, NEW u \in Table,
                 NEW p \in IamPages(t)', NEW q \in IamPages(u)', p # q
          PROVE  Entries(p)' \cap Entries(q)' = {}
        <3>1. p \in IamPages(t) /\ q \in IamPages(u)
            BY <1>1
        <3>2. Entries(p)' = Entries(p) /\ Entries(q)' = Entries(q)
            BY <1>1, <3>1
        <3>3. QED
            BY <2>2, <3>1, <3>2 DEF IamInv, ListsDisjoint
    <2>3. \A t, u \in Table : Listed(t)' \cap IamExtents(u)' = {}
        BY <1>1, <1>2 DEF IamInv, ListsDisjoint
    <2>4. QED
        BY <2>1, <2>2, <2>3 DEF ListsDisjoint
<1>5. InUseIsMarked'
    BY <1>1, <1>2 DEF IamInv, InUseIsMarked
<1>6. ChainsAscend'
    BY DEF IamInv, ChainsAscend
<1>7. QED
    BY <1>1, <1>2, <1>3, <1>4, <1>5, <1>6 DEF IamInv

\* A page in no chain, past all IAM pages of its extent, becomes the tail of a
\* table's chain, with entries that nobody has.
LEMMA PageLinked ==
    ASSUME IamInv, TypeOK',
           NEW t \in Table, NEW g \in PageId, NEW l \in Seq(Extent),
           chain' = [chain EXCEPT ![t] = Append(@, g)],
           list' = [list EXCEPT ![g] = l],
           used \cup {ExtentOf(g)} \cup ToSet(l) \subseteq used',
           IsInjective(l), ToSet(l) \cap used = {}, ExtentOf(g) \notin ToSet(l),
           \A u \in Table : ExtentOf(g) \notin Listed(u),
           \A u \in Table : u # t => ExtentOf(g) \notin IamExtents(u),
           \A p \in IamPages(t) : ExtentOf(p) = ExtentOf(g) => p < g
    PROVE  /\ IamInv'
           /\ \A u \in Table : Listed(u)' = IF u = t THEN Listed(t) \cup ToSet(l)
                                            ELSE Listed(u)
           /\ \A u \in Table : IamExtents(u)' = IF u = t THEN IamExtents(t) \cup {ExtentOf(g)}
                                                ELSE IamExtents(u)
<1>0. /\ chain \in [Table -> Seq(PageId)] /\ list \in [PageId -> Seq(Extent)]
      /\ \A u \in Table : chain[u] \in Seq(PageId) /\ IamPages(u) \subseteq PageId
    BY IamTypes DEF IamInv, TypeOK
<1>1. \A u \in Table : g \notin IamPages(u)
    <2>1. g \notin IamPages(t)
        BY <1>0 DEF PageId
    <2>2. ASSUME NEW u \in Table, u # t PROVE g \notin IamPages(u)
        BY <2>2 DEF IamPages, IamExtents
    <2>3. QED
        BY <2>1, <2>2
<1>2. /\ chain'[t] = Append(chain[t], g)
      /\ \A u \in Table : u # t => chain'[u] = chain[u]
    BY <1>0
<1>3. /\ IamPages(t)' = IamPages(t) \cup {g}
      /\ \A u \in Table : u # t => IamPages(u)' = IamPages(u)
    BY <1>0, <1>2, AppendFacts DEF IamPages
<1>4. /\ Entries(g)' = ToSet(l) /\ list'[g] = l
      /\ \A u \in Table : \A p \in IamPages(u) :
            list'[p] = list[p] /\ Entries(p)' = Entries(p)
    BY <1>0, <1>1 DEF Entries
<1>5. ASSUME NEW u \in Table
      PROVE  /\ Listed(u) = UNION {Entries(p) : p \in IamPages(u)}
             /\ Listed(u)' = UNION {Entries(p)' : p \in IamPages(u)'}
             /\ IamExtents(u) = {ExtentOf(p) : p \in IamPages(u)}
             /\ IamExtents(u)' = {ExtentOf(p) : p \in IamPages(u)'}
    BY DEF Listed, Entries, IamPages, IamExtents
<1>6. Listed(t)' = Listed(t) \cup ToSet(l)
    BY <1>3, <1>4, <1>5
<1>7. ASSUME NEW u \in Table, u # t PROVE Listed(u)' = Listed(u)
    <2>1. chain'[u] = chain[u] /\ \A p \in IamPages(u) : list'[p] = list[p]
        BY <1>2, <1>4, <1>7
    <2>2. QED
        BY <2>1 DEF Listed, IamPages
<1>8. /\ IamExtents(t)' = IamExtents(t) \cup {ExtentOf(g)}
      /\ \A u \in Table : u # t => IamExtents(u)' = IamExtents(u)
    <2>1. IamExtents(t)' = IamExtents(t) \cup {ExtentOf(g)}
        BY <1>3, <1>5
    <2>2. \A u \in Table : u # t => IamExtents(u)' = IamExtents(u)
        BY <1>2 DEF IamExtents
    <2>3. QED
        BY <2>1, <2>2
<1>9. ChainsDisjoint'
    <2>1. ASSUME NEW u \in Table PROVE IsInjective(chain'[u])
        <3>1. CASE u # t
            BY <1>2, <3>1 DEF IamInv, ChainsDisjoint
        <3>2. CASE u = t
            <4>1. IsInjective(chain[t]) /\ g \notin ToSet(chain[t])
                BY <1>1 DEF IamInv, ChainsDisjoint, IamPages
            <4>2. IsInjective(Append(chain[t], g))
                BY <1>0, <4>1, AppendFacts
            <4>3. QED
                BY <1>2, <3>2, <4>2
        <3>3. QED
            BY <3>1, <3>2
    <2>2. ASSUME NEW u \in Table, NEW v \in Table, u # v
          PROVE  IamExtents(u)' \cap IamExtents(v)' = {}
        <3>1. IamExtents(u) \cap IamExtents(v) = {}
            BY <2>2 DEF IamInv, ChainsDisjoint
        <3>2. QED
            BY <1>8, <2>2, <3>1
    <2>3. QED
        BY <2>1, <2>2 DEF ChainsDisjoint
<1>10. InUseIsMarked'
    <2>1. ASSUME NEW u \in Table PROVE Listed(u)' \cup IamExtents(u)' \subseteq used'
        <3>1. Listed(u) \cup IamExtents(u) \subseteq used
            BY DEF IamInv, InUseIsMarked
        <3>2. QED
            BY <1>6, <1>7, <1>8, <3>1
    <2>2. QED
        BY <2>1 DEF InUseIsMarked
<1>11. ListsDisjoint'
    <2>1. ASSUME NEW u \in Table, NEW p \in IamPages(u)' PROVE IsInjective(list'[p])
        <3>1. CASE p = g
            BY <1>4, <3>1
        <3>2. CASE p \in IamPages(u)
            BY <1>4, <3>2 DEF IamInv, ListsDisjoint
        <3>3. QED
            BY <1>3, <2>1, <3>1, <3>2
    <2>2. ASSUME NEW u \in Table, NEW p \in IamPages(u)
          PROVE  Entries(p) \cap ToSet(l) = {}
        BY <1>5, <2>2 DEF IamInv, InUseIsMarked
    <2>3. ASSUME NEW u \in Table, NEW v \in Table,
                 NEW p \in IamPages(u)', NEW q \in IamPages(v)', p # q
          PROVE  Entries(p)' \cap Entries(q)' = {}
        <3>1. (p = g \/ p \in IamPages(u)) /\ (q = g \/ q \in IamPages(v))
            BY <1>3, <2>3
        <3>2. CASE p = g /\ q \in IamPages(v)
            BY <1>4, <2>2, <3>2
        <3>3. CASE q = g /\ p \in IamPages(u)
            BY <1>4, <2>2, <3>3
        <3>4. CASE p \in IamPages(u) /\ q \in IamPages(v)
            <4>1. Entries(p) \cap Entries(q) = {}
                BY <2>3, <3>4 DEF IamInv, ListsDisjoint
            <4>2. QED
                BY <1>4, <3>4, <4>1
        <3>5. QED
            BY <2>3, <3>1, <3>2, <3>3, <3>4
    <2>4. ASSUME NEW u \in Table, NEW v \in Table
          PROVE  Listed(u)' \cap IamExtents(v)' = {}
        <3>1. Listed(u) \cap IamExtents(v) = {}
            BY DEF IamInv, ListsDisjoint
        <3>2. IamExtents(v) \subseteq used
            BY DEF IamInv, InUseIsMarked
        <3>3. QED
            BY <1>6, <1>7, <1>8, <3>1, <3>2
    <2>5. QED
        BY <2>1, <2>3, <2>4 DEF ListsDisjoint
<1>12. ChainsAscend'
    <2>1. ASSUME NEW u \in Table PROVE Ascends(chain'[u])
        <3>1. Ascends(chain[u])
            BY DEF IamInv, ChainsAscend
        <3>2. CASE u # t
            BY <1>2, <3>1, <3>2
        <3>3. CASE u = t
            <4>1. Ascends(Append(chain[t], g))
                BY <1>0, <3>1, <3>3, AppendAscends DEF IamPages
            <4>2. QED
                BY <1>2, <3>3, <4>1
        <3>4. QED
            BY <3>2, <3>3
    <2>2. QED
        BY <2>1 DEF ChainsAscend
<1>13. QED
    BY <1>6, <1>7, <1>8, <1>9, <1>10, <1>11, <1>12 DEF IamInv

\* The entries of one page of a table's chain change: entries that nobody has
\* come, others go, and with its last entry the page may go.
LEMMA EntriesChanged ==
    ASSUME IamInv, TypeOK',
           NEW t \in Table, NEW g \in IamPages(t), NEW l \in Seq(Extent),
           list' = [list EXCEPT ![g] = l],
           IsInjective(l), (ToSet(l) \ Entries(g)) \cap used = {},
           ToSet(l) \cup (used \ (Entries(g) \ ToSet(l))) \subseteq used',
           \A u \in Table : u # t => chain'[u] = chain[u],
           IamPages(t)' \subseteq IamPages(t),
           \A p \in IamPages(t) : p \in IamPages(t)' \/ (p = g /\ ToSet(l) = {}),
           IsInjective(chain'[t]), Ascends(chain'[t])
    PROVE  /\ IamInv'
           /\ \A u \in Table : Listed(u)' = IF u = t THEN (Listed(t) \ Entries(g)) \cup ToSet(l)
                                            ELSE Listed(u)
           /\ \A u \in Table : u # t => IamExtents(u)' = IamExtents(u)
           /\ IamExtents(t)' \subseteq IamExtents(t)
<1>0. /\ list \in [PageId -> Seq(Extent)]
      /\ \A u \in Table : IamPages(u) \subseteq PageId
    BY IamTypes DEF IamInv, TypeOK
<1>1. /\ Entries(g)' = ToSet(l) /\ list'[g] = l
      /\ \A p \in PageId : p # g => list'[p] = list[p] /\ Entries(p)' = Entries(p)
    BY <1>0 DEF Entries
<1>2. \A u \in Table : IamPages(u)' \subseteq IamPages(u)
    BY DEF IamPages
<1>3. ASSUME NEW u \in Table, u # t PROVE g \notin IamPages(u)
    <2>1. IamExtents(u) \cap IamExtents(t) = {}
        BY <1>3 DEF IamInv, ChainsDisjoint
    <2>2. ExtentOf(g) \in IamExtents(t)
        BY DEF IamExtents, IamPages
    <2>3. QED
        BY <2>1, <2>2 DEF IamExtents, IamPages
<1>4. ASSUME NEW u \in Table
      PROVE  /\ \A x : x \in Listed(u) <=> \E p \in IamPages(u) : x \in Entries(p)
             /\ \A x : x \in Listed(u)' <=> \E p \in IamPages(u)' : x \in Entries(p)'
    BY DEF Listed, Entries, IamPages
<1>5. \A u \in Table : u # t => Listed(u)' = Listed(u) /\ IamExtents(u)' = IamExtents(u)
    <2>1. ASSUME NEW u \in Table, u # t PROVE Listed(u)' = Listed(u)
        <3>1. chain'[u] = chain[u] /\ \A p \in IamPages(u) : list'[p] = list[p]
            BY <1>0, <1>1, <1>3, <2>1
        <3>2. QED
            BY <3>1 DEF Listed, IamPages
    <2>2. \A u \in Table : u # t => IamExtents(u)' = IamExtents(u)
        BY DEF IamExtents
    <2>3. QED
        BY <2>1, <2>2
<1>6. \A p \in IamPages(t) : p # g => Entries(p) \cap Entries(g) = {}
    BY DEF IamInv, ListsDisjoint
<1>7. Listed(t)' = (Listed(t) \ Entries(g)) \cup ToSet(l)
    <2>1. ASSUME NEW x \in Listed(t)' PROVE x \in (Listed(t) \ Entries(g)) \cup ToSet(l)
        <3>1. PICK p \in IamPages(t)' : x \in Entries(p)'
            BY <1>4, <2>1
        <3>2. CASE p = g
            BY <1>1, <3>1, <3>2
        <3>3. CASE p # g
            <4>1. p \in IamPages(t) /\ x \in Entries(p)
                BY <1>0, <1>1, <1>2, <3>1, <3>3
            <4>2. QED
                BY <1>4, <1>6, <3>3, <4>1
        <3>4. QED
            BY <3>2, <3>3
    <2>2. ASSUME NEW x \in ToSet(l) PROVE x \in Listed(t)'
        BY <1>1, <1>4, <2>2
    <2>3. ASSUME NEW x \in Listed(t), x \notin Entries(g) PROVE x \in Listed(t)'
        <3>1. PICK p \in IamPages(t) : x \in Entries(p)
            BY <1>4
        <3>2. p # g /\ p \in PageId /\ p \in IamPages(t)'
            BY <1>0, <2>3, <3>1
        <3>3. x \in Entries(p)'
            BY <1>1, <3>1, <3>2
        <3>4. QED
            BY <1>4, <3>2, <3>3
    <2>4. QED
        BY <2>1, <2>2, <2>3
<1>8. IamExtents(t)' \subseteq IamExtents(t)
    <2>1. /\ IamExtents(t) = {ExtentOf(p) : p \in IamPages(t)}
          /\ IamExtents(t)' = {ExtentOf(p) : p \in IamPages(t)'}
        BY DEF IamExtents, IamPages
    <2>2. QED
        BY <1>2, <2>1
<1>9. ChainsDisjoint'
    <2>1. ASSUME NEW u \in Table PROVE IsInjective(chain'[u])
        BY DEF IamInv, ChainsDisjoint
    <2>2. ASSUME NEW u \in Table, NEW v \in Table, u # v
          PROVE  IamExtents(u)' \cap IamExtents(v)' = {}
        <3>1. IamExtents(u) \cap IamExtents(v) = {}
            BY <2>2 DEF IamInv, ChainsDisjoint
        <3>2. QED
            BY <1>5, <1>8, <2>2, <3>1
    <2>3. QED
        BY <2>1, <2>2 DEF ChainsDisjoint
<1>10. Entries(g) \subseteq Listed(t) /\ Listed(t) \subseteq used
    BY <1>4 DEF IamInv, InUseIsMarked
<1>11. ASSUME NEW u \in Table PROVE Entries(g) \cap IamExtents(u) = {}
    <2>1. Listed(t) \cap IamExtents(u) = {}
        BY DEF IamInv, ListsDisjoint
    <2>2. QED
        BY <1>10, <2>1
<1>12. ASSUME NEW u \in Table, u # t PROVE Entries(g) \cap Listed(u) = {}
    <2>1. ASSUME NEW q \in IamPages(u) PROVE Entries(g) \cap Entries(q) = {}
        <3>1. q # g
            BY <1>3, <1>12
        <3>2. QED
            BY <3>1 DEF IamInv, ListsDisjoint
    <2>2. QED
        BY <1>4, <2>1
<1>13. InUseIsMarked'
    <2>1. ASSUME NEW u \in Table PROVE Listed(u)' \cup IamExtents(u)' \subseteq used'
        <3>1. Listed(u) \cup IamExtents(u) \subseteq used
            BY DEF IamInv, InUseIsMarked
        <3>2. CASE u = t
            BY <1>7, <1>8, <1>11, <3>1, <3>2
        <3>3. CASE u # t
            BY <1>5, <1>11, <1>12, <3>1, <3>3
        <3>4. QED
            BY <3>2, <3>3
    <2>2. QED
        BY <2>1 DEF InUseIsMarked
<1>14. ListsDisjoint'
    <2>1. ASSUME NEW u \in Table, NEW p \in IamPages(u)' PROVE IsInjective(list'[p])
        <3>1. p \in IamPages(u) /\ p \in PageId
            BY <1>0, <1>2
        <3>2. CASE p = g
            BY <1>1, <3>2
        <3>3. CASE p # g
            <4>1. list'[p] = list[p]
                BY <1>1, <3>1, <3>3
            <4>2. QED
                BY <3>1, <4>1 DEF IamInv, ListsDisjoint
        <3>4. QED
            BY <3>2, <3>3
    <2>2. ASSUME NEW u \in Table, NEW p \in IamPages(u), p # g
          PROVE  Entries(p) \cap ToSet(l) = {} /\ Entries(p)' = Entries(p)
        <3>1. Entries(p) \cap Entries(g) = {}
            BY <2>2 DEF IamInv, ListsDisjoint
        <3>2. Entries(p) \subseteq used
            BY <1>4, <2>2 DEF IamInv, InUseIsMarked
        <3>3. Entries(p)' = Entries(p)
            BY <1>0, <1>1, <2>2
        <3>4. QED
            BY <3>1, <3>2, <3>3
    <2>3. ASSUME NEW u \in Table, NEW v \in Table,
                 NEW p \in IamPages(u)', NEW q \in IamPages(v)', p # q
          PROVE  Entries(p)' \cap Entries(q)' = {}
        <3>1. p \in IamPages(u) /\ q \in IamPages(v)
            BY <1>2
        <3>2. CASE p = g
            BY <1>1, <2>2, <2>3, <3>1, <3>2
        <3>3. CASE q = g
            BY <1>1, <2>2, <2>3, <3>1, <3>3
        <3>4. CASE p # g /\ q # g
            <4>1. Entries(p) \cap Entries(q) = {}
                BY <2>3, <3>1 DEF IamInv, ListsDisjoint
            <4>2. QED
                BY <2>2, <3>1, <3>4, <4>1
        <3>5. QED
            BY <3>2, <3>3, <3>4
    <2>4. ASSUME NEW u \in Table, NEW v \in Table
          PROVE  Listed(u)' \cap IamExtents(v)' = {}
        <3>1. Listed(u) \cap IamExtents(v) = {}
            BY DEF IamInv, ListsDisjoint
        <3>2. IamExtents(v) \subseteq used /\ IamExtents(v)' \subseteq IamExtents(v)
            BY <1>5, <1>8 DEF IamInv, InUseIsMarked
        <3>3. CASE u = t
            BY <1>7, <1>11, <3>1, <3>2, <3>3
        <3>4. CASE u # t
            BY <1>5, <3>1, <3>2, <3>4
        <3>5. QED
            BY <3>3, <3>4
    <2>5. QED
        BY <2>1, <2>3, <2>4 DEF ListsDisjoint
<1>15. ChainsAscend'
    <2>1. ASSUME NEW u \in Table PROVE Ascends(chain'[u])
        BY DEF IamInv, ChainsAscend
    <2>2. QED
        BY <2>1 DEF ChainsAscend
<1>16. QED
    BY <1>5, <1>7, <1>8, <1>9, <1>13, <1>14, <1>15 DEF IamInv

-----------------------------------------------------------------------------
(* The page that link_new_iam_page takes *)

\* It is in no chain and follows all IAM pages of its extent, which is the
\* tail's or one that was free.
LEMMA NewPageIsFree ==
    ASSUME IamInv, NEW t \in Table, NeedsIamPage(t)
    PROVE  /\ NewIamPage(t) \in PageId
           /\ \A u \in Table : ExtentOf(NewIamPage(t)) \notin Listed(u)
           /\ \A u \in Table : u # t => ExtentOf(NewIamPage(t)) \notin IamExtents(u)
           /\ \A p \in IamPages(t) :
                 ExtentOf(p) = ExtentOf(NewIamPage(t)) => p < NewIamPage(t)
           /\ \A u \in Table : NewIamPage(t) \notin IamPages(u)
           /\ ExtentsTaken(t) \subseteq Free /\ NewExtent \in ExtentsTaken(t)
           /\ ExtentOf(NewIamPage(t)) # NewExtent
           /\ ExtentOf(NewIamPage(t)) \in used \cup ExtentsTaken(t)
           /\ ExtentsTaken(t) \subseteq {NewExtent, ExtentOf(NewIamPage(t))}
<1> DEFINE g == NewIamPage(t)
           c == chain[t]
<1>0. /\ c \in Seq(PageId) /\ Len(c) \in Nat /\ IamPages(t) = {c[i] : i \in 1..Len(c)}
      /\ \A u \in Table : IamPages(u) \subseteq PageId
    BY IamTypes DEF IamInv
<1>1. NewExtent \in Free /\ NewExtent \notin used
    BY NewExtentIsFree DEF NeedsIamPage, Free
<1>2. \A u \in Table : /\ Listed(u) \subseteq used /\ IamExtents(u) \subseteq used
                       /\ Listed(u) \cap IamExtents(t) = {}
                       /\ u # t => IamExtents(u) \cap IamExtents(t) = {}
    BY DEF IamInv, InUseIsMarked, ListsDisjoint, ChainsDisjoint
<1>3. \A u \in Table : \A p \in IamPages(u) : ExtentOf(p) \in IamExtents(u)
    BY DEF IamPages, IamExtents
<1>4. ASSUME NEW p \in PageId PROVE p \in Nat
    BY DEF PageId
<1>5. CASE InTailExtent(t)
    <2> DEFINE last == c[Len(c)]
    <2>1. Len(c) \in 1..Len(c)
        <3>1. c # <<>>
            BY DEF NeedsIamPage
        <3>2. QED
            BY <1>0, <3>1, EmptySeq
    <2>2. last \in IamPages(t) /\ last \in PageId /\ TailPage(t) = last
        BY <1>0, <2>1 DEF TailPage, Last
    <2>3. g = last + 1 /\ g \in PageId /\ ExtentOf(g) = ExtentOf(last)
        BY <1>5, <2>2, NextPage DEF InTailExtent, NewIamPage
    <2>4. last \in Nat /\ g \in Nat
        BY <1>4, <2>2, <2>3
    <2> HIDE DEF g, last
    <2>5. ASSUME NEW p \in IamPages(t), ExtentOf(p) = ExtentOf(g) PROVE p < g
        <3>1. PICK i \in 1..Len(c) : p = c[i]
            BY <1>0
        <3>2. p \in Nat
            BY <1>0, <1>4
        <3>3. CASE i = Len(c)
            <4>1. p = last
                BY <3>1, <3>3 DEF last
            <4>2. QED
                BY <2>3, <2>4, <4>1
        <3>4. CASE i < Len(c)
            <4>1. p < last
                BY <2>1, <2>3, <2>5, <3>1, <3>4 DEF last, IamInv, ChainsAscend, Ascends
            <4>2. QED
                BY <2>3, <2>4, <3>2, <4>1
        <3>5. QED
            BY <1>0, <3>1, <3>3, <3>4
    <2>6. ExtentOf(g) \in IamExtents(t)
        BY <1>3, <2>2, <2>3
    <2>7. g \notin IamPages(t)
        BY <2>5, <2>4
    <2>8. ExtentsTaken(t) = {NewExtent}
        BY <1>5 DEF ExtentsTaken
    <2>9. /\ g \in PageId
          /\ \A u \in Table : ExtentOf(g) \notin Listed(u)
          /\ \A u \in Table : u # t => ExtentOf(g) \notin IamExtents(u)
          /\ \A u \in Table : g \notin IamPages(u)
          /\ ExtentOf(g) # NewExtent /\ ExtentOf(g) \in used
        BY <1>1, <1>2, <1>3, <2>3, <2>6, <2>7
    <2>10. QED
        BY <1>1, <2>5, <2>8, <2>9 DEF g
<1>6. CASE ~InTailExtent(t)
    <2>1. SecondExtent \in Free /\ SecondExtent # NewExtent /\ SecondExtent \notin used
        BY <1>1, <1>6, NewExtentIsFree DEF NeedsIamPage, Free
    <2>2. SecondExtent \in Extent
        BY <2>1 DEF Free
    <2>3. g \in PageId /\ ExtentOf(g) = SecondExtent
        BY <1>6, <2>2, FirstPage DEF NewIamPage
    <2>4. ExtentsTaken(t) = {NewExtent, SecondExtent}
        BY <1>6 DEF ExtentsTaken
    <2> HIDE DEF g
    <2>5. \A u \in Table : ExtentOf(g) \notin Listed(u) /\ ExtentOf(g) \notin IamExtents(u)
        BY <1>2, <2>1, <2>3
    <2>6. \A u \in Table : \A p \in IamPages(u) : ExtentOf(p) # ExtentOf(g)
        BY <1>3, <2>5
    <2>7. QED
        BY <1>1, <2>1, <2>3, <2>4, <2>5, <2>6 DEF g
<1>7. QED
    BY <1>5, <1>6

-----------------------------------------------------------------------------
(* What each action does to the tables' extents *)

\* The tables' extents, one by one, as a step leaves them.
SameExtents == \A t \in Table : Listed(t)' = Listed(t) /\ IamExtents(t)' = IamExtents(t)

\* Calls that fail before they change a linked page, the searches and the
\* restart: every table keeps its extents.
LEMMA NothingLinked ==
    ASSUME IamInv, NEW t \in Table,
           \/ CreateFails(t) \/ LinkFails(t) \/ AllocationFails(t)
           \/ \E p \in PageId : ScanExtentForward(t, p) \/ ScanIamChain(t, p)
           \/ Restart
    PROVE  /\ IamInv' /\ SameExtents /\ used \subseteq used'
           /\ \A u \in Table : u # t /\ ~Restart => hint'[u] = hint[u]
<1>0. /\ used \subseteq Extent
      /\ chain \in [Table -> Seq(PageId)] /\ list \in [PageId -> Seq(Extent)]
      /\ \A p \in PageId : Len(list[p]) <= IAM_MAX_EXTENTS
      /\ hint \in [Table -> PageId \cup {INVALID_PAGE_ID}]
    BY DEF IamInv, TypeOK
<1>1. IAM_MAX_EXTENTS \in Nat \ {0} /\ Free \subseteq Extent
    BY IamAssumption DEF Free
<1>2. CASE CreateFails(t) \/ AllocationFails(t)
    <2>1. /\ used \subseteq used' /\ used' \subseteq Extent
          /\ chain' = chain /\ list' = list /\ hint' = hint
        BY <1>0, <1>1, <1>2, NewExtentIsFree
        DEF CreateFails, AllocationFails, ExtentsTaken, NeedsIamPage
    <2>2. TypeOK'
        BY <1>0, <2>1 DEF TypeOK
    <2>3. IamInv' /\ SameExtents
        BY <2>1, <2>2, LinkedPagesStay DEF SameExtents
    <2>4. QED
        BY <2>1, <2>3
<1>3. CASE \/ \E p \in PageId : ScanExtentForward(t, p) \/ ScanIamChain(t, p)
           \/ Restart
    <2>1. /\ hint' \in [Table -> PageId \cup {INVALID_PAGE_ID}]
          /\ used' = used /\ chain' = chain /\ list' = list
          /\ \A u \in Table : u # t /\ ~Restart => hint'[u] = hint[u]
        BY <1>0, <1>3 DEF ScanExtentForward, ScanIamChain, Restart
    <2>2. TypeOK'
        BY <1>0, <2>1 DEF TypeOK
    <2>3. IamInv' /\ SameExtents
        BY <2>1, <2>2, LinkedPagesStay DEF SameExtents
    <2>4. QED
        BY <2>1, <2>3
<1>4. CASE LinkFails(t)
    <2>1. NewIamPage(t) \in PageId /\ \A u \in Table : NewIamPage(t) \notin IamPages(u)
        BY <1>4, NewPageIsFree DEF LinkFails
    <2>2. ExtentsTaken(t) \subseteq Extent /\ NewExtent \in Extent
        BY <1>1, <1>4, NewPageIsFree DEF LinkFails
    <2>3. /\ <<NewExtent>> \in Seq(Extent) /\ Len(<<NewExtent>>) = 1
          /\ 1 <= IAM_MAX_EXTENTS
        BY <1>1, <2>2
    <2>4. /\ used' = used \cup ExtentsTaken(t) /\ chain' = chain /\ hint' = hint
          /\ list' = [list EXCEPT ![NewIamPage(t)] = <<NewExtent>>]
        BY <1>4 DEF LinkFails
    <2>5. /\ list' \in [PageId -> Seq(Extent)]
          /\ \A p \in PageId : Len(list'[p]) <= IAM_MAX_EXTENTS
        BY <1>0, <2>1, <2>3, <2>4
    <2>6. TypeOK'
        BY <1>0, <2>2, <2>4, <2>5 DEF TypeOK
    <2>7. \A u \in Table : \A p \in IamPages(u) : list'[p] = list[p]
        <3>1. \A u \in Table : IamPages(u) \subseteq PageId
            BY IamTypes DEF IamInv
        <3>2. QED
            BY <1>0, <2>1, <2>4, <3>1
    <2>8. IamInv' /\ SameExtents
        BY <2>4, <2>6, <2>7, LinkedPagesStay DEF SameExtents
    <2>9. QED
        BY <2>4, <2>8
<1>5. QED
    BY <1>2, <1>3, <1>4

\* create_iam_chain: the new extent holds the head.
LEMMA CreateIamChainEffect ==
    ASSUME IamInv, NEW t \in Table, CreateIamChain(t)
    PROVE  /\ IamInv'
           /\ \A u \in Table : Listed(u)' = Listed(u)
           /\ \A u \in Table : IamExtents(u)' = IF u = t THEN IamExtents(t) \cup {NewExtent}
                                                ELSE IamExtents(u)
<1> DEFINE g == FirstPageOf(NewExtent)
<1>0. /\ used \subseteq Extent
      /\ chain \in [Table -> Seq(PageId)] /\ list \in [PageId -> Seq(Extent)]
      /\ \A p \in PageId : Len(list[p]) <= IAM_MAX_EXTENTS
      /\ hint \in [Table -> PageId \cup {INVALID_PAGE_ID}]
    BY DEF IamInv, TypeOK
<1>1. NewExtent \in Extent /\ NewExtent \notin used
    BY NewExtentIsFree DEF CreateIamChain, Free
<1>2. g \in PageId /\ ExtentOf(g) = NewExtent
    BY <1>1, FirstPage
<1> HIDE DEF g
<1>3. /\ used' = used \cup {NewExtent} /\ hint' = hint /\ chain[t] = <<>>
      /\ chain' = [chain EXCEPT ![t] = <<g>>]
      /\ list' = [list EXCEPT ![g] = <<>>]
    BY DEF CreateIamChain, g
<1>4. /\ <<g>> = Append(<<>>, g) /\ <<g>> \in Seq(PageId)
      /\ <<>> \in Seq(Extent) /\ Len(<<>>) = 0
    BY <1>2
<1>5. ToSet(<<>>) = {} /\ IsInjective(<<>>)
    <2>1. \A i : i \notin 1..0
        OBVIOUS
    <2> DEFINE none == <<>>
    <2>2. none \in Seq(Extent) /\ Len(none) = 0
        BY <1>4
    <2> HIDE DEF none
    <2>3. ToSet(none) = {none[i] : i \in 1..Len(none)}
        BY <2>2, ToSetFacts
    <2>4. IsInjective(none) <=> \A i, j \in 1..Len(none) : none[i] = none[j] => i = j
        BY <2>2, ToSetFacts
    <2>5. QED
        BY <2>1, <2>2, <2>3, <2>4 DEF none
<1>6. chain' = [chain EXCEPT ![t] = Append(@, g)]
    BY <1>3, <1>4
<1>7. TypeOK'
    <2>1. used' \subseteq Extent
        BY <1>0, <1>1, <1>3
    <2>2. chain' \in [Table -> Seq(PageId)]
        BY <1>0, <1>3, <1>4
    <2>3. /\ list' \in [PageId -> Seq(Extent)]
          /\ \A p \in PageId : Len(list'[p]) <= IAM_MAX_EXTENTS
        BY <1>0, <1>2, <1>3, <1>4, IamAssumption
    <2>4. QED
        BY <1>0, <1>3, <2>1, <2>2, <2>3 DEF TypeOK
<1>8. \A u \in Table : ExtentOf(g) \notin Listed(u) /\ ExtentOf(g) \notin IamExtents(u)
    BY <1>1, <1>2 DEF IamInv, InUseIsMarked
<1>9. \A p \in IamPages(t) : ExtentOf(p) # ExtentOf(g)
    BY <1>8 DEF IamPages, IamExtents
<1>10. /\ used \cup {ExtentOf(g)} \cup ToSet(<<>>) \subseteq used'
       /\ ToSet(<<>>) \cap used = {} /\ ExtentOf(g) \notin ToSet(<<>>)
       /\ \A p \in IamPages(t) : ExtentOf(p) = ExtentOf(g) => p < g
    BY <1>2, <1>3, <1>5, <1>9
<1>11. list' = [list EXCEPT ![g] = <<>>] /\ <<>> \in Seq(Extent) /\ IsInjective(<<>>)
    BY <1>3, <1>4, <1>5
<1>12. /\ IamInv'
       /\ \A u \in Table : Listed(u)' = IF u = t THEN Listed(t) \cup ToSet(<<>>)
                                        ELSE Listed(u)
       /\ \A u \in Table : IamExtents(u)' = IF u = t THEN IamExtents(t) \cup {ExtentOf(g)}
                                            ELSE IamExtents(u)
    BY <1>2, <1>6, <1>7, <1>8, <1>10, <1>11, PageLinked
<1>13. QED
    BY <1>2, <1>5, <1>12

\* A list with one entry.
LEMMA OneEntry ==
    ASSUME NEW e \in Extent
    PROVE  /\ <<e>> \in Seq(Extent) /\ Len(<<e>>) = 1
           /\ ToSet(<<e>>) = {e} /\ IsInjective(<<e>>)
<1> DEFINE s == <<e>>
<1>1. s \in Seq(Extent) /\ Len(s) = 1 /\ s[1] = e
    OBVIOUS
<1> HIDE DEF s
<1>2. \A i \in 1..Len(s) : i = 1
    BY <1>1
<1>3. ToSet(s) = {s[i] : i \in 1..Len(s)} /\ 1 \in 1..Len(s)
    BY <1>1, ToSetFacts
<1>4. ToSet(s) = {e}
    BY <1>1, <1>2, <1>3
<1>5. IsInjective(s)
    BY <1>1, <1>2, ToSetFacts
<1>6. QED
    BY <1>1, <1>4, <1>5 DEF s

\* link_new_iam_page: the table gets the new extent, and the extent of the new
\* IAM page holds that.
LEMMA LinkNewIamPageEffect ==
    ASSUME IamInv, NEW t \in Table, LinkNewIamPage(t)
    PROVE  /\ IamInv'
           /\ \A u \in Table : Listed(u)' = IF u = t THEN Listed(t) \cup {NewExtent}
                                            ELSE Listed(u)
           /\ \A u \in Table : IamExtents(u)' =
                 IF u = t THEN IamExtents(t) \cup {ExtentOf(NewIamPage(t))}
                 ELSE IamExtents(u)
<1> DEFINE g == NewIamPage(t)
<1>0. /\ used \subseteq Extent
      /\ chain \in [Table -> Seq(PageId)] /\ list \in [PageId -> Seq(Extent)]
      /\ \A p \in PageId : Len(list[p]) <= IAM_MAX_EXTENTS
      /\ hint \in [Table -> PageId \cup {INVALID_PAGE_ID}]
    BY DEF IamInv, TypeOK
<1>1. /\ g \in PageId
      /\ \A u \in Table : ExtentOf(g) \notin Listed(u)
      /\ \A u \in Table : u # t => ExtentOf(g) \notin IamExtents(u)
      /\ \A p \in IamPages(t) : ExtentOf(p) = ExtentOf(g) => p < g
      /\ ExtentsTaken(t) \subseteq Free /\ NewExtent \in ExtentsTaken(t)
      /\ ExtentOf(g) # NewExtent
      /\ ExtentOf(g) \in used \cup ExtentsTaken(t)
    BY NewPageIsFree DEF LinkNewIamPage
<1>2. /\ used' = used \cup ExtentsTaken(t)
      /\ list' = [list EXCEPT ![g] = <<NewExtent>>]
      /\ chain' = [chain EXCEPT ![t] = Append(@, g)]
      /\ hint' = [hint EXCEPT ![t] = FirstPageOf(NewExtent)]
    BY DEF LinkNewIamPage
<1> HIDE DEF g
<1>3. NewExtent \in Extent /\ NewExtent \notin used /\ ExtentsTaken(t) \subseteq Extent
    BY <1>1 DEF Free
<1>4. /\ <<NewExtent>> \in Seq(Extent) /\ Len(<<NewExtent>>) = 1
      /\ ToSet(<<NewExtent>>) = {NewExtent} /\ IsInjective(<<NewExtent>>)
    BY <1>3, OneEntry
<1>5. TypeOK'
    <2>1. used' \subseteq Extent
        BY <1>0, <1>2, <1>3
    <2>2. chain' \in [Table -> Seq(PageId)]
        <3>1. Append(chain[t], g) \in Seq(PageId)
            BY <1>0, <1>1, AppendFacts
        <3>2. QED
            BY <1>0, <1>2, <3>1
    <2>3. /\ list' \in [PageId -> Seq(Extent)]
          /\ \A p \in PageId : Len(list'[p]) <= IAM_MAX_EXTENTS
        BY <1>0, <1>1, <1>2, <1>4, IamAssumption
    <2>4. hint' \in [Table -> PageId \cup {INVALID_PAGE_ID}]
        BY <1>0, <1>2, <1>3, FirstPage
    <2>5. QED
        BY <2>1, <2>2, <2>3, <2>4 DEF TypeOK
<1>6. /\ used \cup {ExtentOf(g)} \cup ToSet(<<NewExtent>>) \subseteq used'
      /\ ToSet(<<NewExtent>>) \cap used = {} /\ ExtentOf(g) \notin ToSet(<<NewExtent>>)
    BY <1>1, <1>2, <1>3, <1>4
<1>7. /\ IamInv'
      /\ \A u \in Table : Listed(u)' = IF u = t THEN Listed(t) \cup ToSet(<<NewExtent>>)
                                       ELSE Listed(u)
      /\ \A u \in Table : IamExtents(u)' = IF u = t THEN IamExtents(t) \cup {ExtentOf(g)}
                                           ELSE IamExtents(u)
    BY <1>1, <1>2, <1>4, <1>5, <1>6, PageLinked
<1>8. QED
    BY <1>4, <1>7 DEF g

\* RecordExtent: the table gets the new extent.
LEMMA RecordExtentEffect ==
    ASSUME IamInv, NEW t \in Table, RecordExtent(t)
    PROVE  /\ IamInv'
           /\ \A u \in Table : Listed(u)' = IF u = t THEN Listed(t) \cup {NewExtent}
                                            ELSE Listed(u)
           /\ \A u \in Table : IamExtents(u)' = IamExtents(u)
<1> DEFINE g == chain[t][Min(Roomy(t))]
           l == Append(list[g], NewExtent)
<1>0. /\ used \subseteq Extent
      /\ chain \in [Table -> Seq(PageId)] /\ list \in [PageId -> Seq(Extent)]
      /\ \A p \in PageId : Len(list[p]) <= IAM_MAX_EXTENTS
      /\ hint \in [Table -> PageId \cup {INVALID_PAGE_ID}]
    BY DEF IamInv, TypeOK
<1>1. NewExtent \in Extent /\ NewExtent \notin used
    BY NewExtentIsFree DEF RecordExtent, Free
<1>2. Min(Roomy(t)) \in 1..Len(chain[t]) /\ HasSpace(g)
    <2>1. chain[t] \in Seq(PageId)
        BY <1>0
    <2>2. DOMAIN chain[t] = 1..Len(chain[t])
        BY <2>1, LenProperties
    <2>3. Roomy(t) \in SUBSET Nat /\ Roomy(t) # {}
        BY <2>2 DEF RecordExtent, Roomy
    <2>4. Min(Roomy(t)) \in Roomy(t)
        BY <2>3, MinIsLeast
    <2>5. QED
        BY <2>2, <2>4 DEF Roomy
<1>3. /\ used' = used \cup {NewExtent} /\ chain' = chain
      /\ list' = [list EXCEPT ![g] = l]
      /\ hint' = [hint EXCEPT ![t] = FirstPageOf(NewExtent)]
    BY DEF RecordExtent
<1>4. g \in IamPages(t) /\ g \in PageId
    BY <1>2, IamTypes DEF IamInv
<1> HIDE DEF g
<1>5. NewExtent \notin Entries(g) /\ IsInjective(list[g])
    <2>1. Entries(g) \subseteq Listed(t)
        BY <1>4 DEF Entries, Listed, IamPages
    <2>2. QED
        BY <1>1, <1>4, <2>1 DEF IamInv, InUseIsMarked, ListsDisjoint
<1>6. list[g] \in Seq(Extent) /\ Len(list[g]) \in Nat /\ Len(list[g]) < IAM_MAX_EXTENTS
    <2>1. list[g] \in Seq(Extent) /\ Len(list[g]) < IAM_MAX_EXTENTS
        BY <1>0, <1>2, <1>4 DEF HasSpace
    <2>2. QED
        BY <2>1, LenProperties
<1>7. /\ l \in Seq(Extent) /\ Len(l) = Len(list[g]) + 1
      /\ ToSet(l) = Entries(g) \cup {NewExtent} /\ IsInjective(l)
    BY <1>1, <1>5, <1>6, AppendFacts DEF Entries
<1> HIDE DEF l
<1>8. TypeOK'
    <2>1. used' \subseteq Extent
        BY <1>0, <1>1, <1>3
    <2>2. Len(l) <= IAM_MAX_EXTENTS
        BY <1>6, <1>7, IamAssumption
    <2>3. /\ list' \in [PageId -> Seq(Extent)]
          /\ \A p \in PageId : Len(list'[p]) <= IAM_MAX_EXTENTS
        BY <1>0, <1>3, <1>4, <1>7, <2>2
    <2>4. hint' \in [Table -> PageId \cup {INVALID_PAGE_ID}]
        BY <1>0, <1>1, <1>3, FirstPage
    <2>5. QED
        BY <1>0, <1>3, <2>1, <2>3, <2>4 DEF TypeOK
<1>9. /\ (ToSet(l) \ Entries(g)) \cap used = {}
      /\ ToSet(l) \cup (used \ (Entries(g) \ ToSet(l))) \subseteq used'
    <2>1. Entries(g) \subseteq used
        BY <1>4 DEF IamInv, InUseIsMarked, Listed, Entries, IamPages
    <2>2. QED
        BY <1>1, <1>3, <1>7, <2>1
<1>10. IamPages(t)' = IamPages(t) /\ IsInjective(chain'[t]) /\ Ascends(chain'[t])
    BY <1>3 DEF IamInv, ChainsDisjoint, ChainsAscend, IamPages
<1>11. /\ IamInv'
       /\ \A u \in Table : Listed(u)' = IF u = t THEN (Listed(t) \ Entries(g)) \cup ToSet(l)
                                        ELSE Listed(u)
    BY <1>3, <1>4, <1>7, <1>8, <1>9, <1>10, EntriesChanged
<1>12. Entries(g) \subseteq Listed(t)
    BY <1>4 DEF Listed, Entries, IamPages
<1>13. \A u \in Table : IamExtents(u)' = IamExtents(u)
    BY <1>3 DEF IamExtents
<1>14. (Listed(t) \ Entries(g)) \cup ToSet(l) = Listed(t) \cup {NewExtent}
    BY <1>7, <1>12
<1>15. QED
    BY <1>11, <1>13, <1>14

\* The IAM page that lists an extent is found in the chain.
LEMMA Found ==
    ASSUME IamInv, NEW t \in Table, NEW e \in Listed(t)
    PROVE  /\ Position(t, e) \in 1..Len(chain[t])
           /\ IamPageOf(t, e) \in IamPages(t)
           /\ e \in Entries(IamPageOf(t, e))
<1> DEFINE S == {i \in DOMAIN chain[t] : e \in ToSet(list[chain[t][i]])}
<1>1. chain[t] \in Seq(PageId) /\ IamPages(t) = {chain[t][i] : i \in 1..Len(chain[t])}
    BY IamTypes DEF IamInv
<1>2. DOMAIN chain[t] = 1..Len(chain[t])
    BY <1>1, LenProperties
<1>3. PICK p \in IamPages(t) : e \in ToSet(list[p])
    BY DEF Listed, IamPages
<1>4. S \in SUBSET Nat /\ S # {}
    BY <1>1, <1>2, <1>3
<1>5. Min(S) \in S
    BY <1>4, MinIsLeast
<1>6. QED
    BY <1>1, <1>2, <1>5 DEF Position, IamPageOf, Entries

\* remove_extent_from_iam, as far as it gets: the table loses the extent, and
\* perhaps the IAM page that listed it, if that is empty.
LEMMA UnlistEffect ==
    ASSUME IamInv, NEW t \in Table, NEW e \in Listed(t), Unlist(t, e),
           used' \subseteq used, used \ {e} \subseteq used',
           \/ chain' = chain
           \/ /\ Len(list[IamPageOf(t, e)]) = 1
              /\ chain' = [chain EXCEPT ![t] = RemoveAt(@, Position(t, e))],
           hint' \in [Table -> PageId \cup {INVALID_PAGE_ID}]
    PROVE  /\ IamInv'
           /\ \A u \in Table : Listed(u)' = IF u = t THEN Listed(t) \ {e} ELSE Listed(u)
           /\ \A u \in Table : u # t => IamExtents(u)' = IamExtents(u)
           /\ IamExtents(t)' \subseteq IamExtents(t)
<1> DEFINE g == IamPageOf(t, e)
           l == RemoveFirst(list[g], e)
           k == Position(t, e)
<1>0. /\ used \subseteq Extent
      /\ chain \in [Table -> Seq(PageId)] /\ list \in [PageId -> Seq(Extent)]
      /\ \A p \in PageId : Len(list[p]) <= IAM_MAX_EXTENTS
    BY DEF IamInv, TypeOK
<1>1. k \in 1..Len(chain[t]) /\ g = chain[t][k] /\ g \in IamPages(t) /\ e \in Entries(g)
    BY Found DEF IamPageOf
<1>2. IamPages(t) \subseteq PageId /\ g \in PageId /\ chain[t] \in Seq(PageId)
    BY <1>0, <1>1, IamTypes DEF IamInv
<1>3. list' = [list EXCEPT ![g] = l]
    BY DEF Unlist
<1>4. list[g] \in Seq(Extent) /\ IsInjective(list[g]) /\ e \in ToSet(list[g])
    BY <1>0, <1>1, <1>2 DEF Entries, IamInv, ListsDisjoint
<1>5. /\ l \in Seq(Extent) /\ Len(l) = Len(list[g]) - 1
      /\ ToSet(l) = Entries(g) \ {e} /\ IsInjective(l)
    BY <1>4, RemoveFirstFacts DEF Entries
<1>6. Len(list[g]) \in Nat /\ Len(list[g]) <= IAM_MAX_EXTENTS
    BY <1>0, <1>2, <1>4, LenProperties
<1> HIDE DEF l, g, k
<1>7. /\ \/ chain' = chain
         \/ chain' = [chain EXCEPT ![t] = RemoveAt(chain[t], k)] /\ Len(list[g]) = 1
    BY DEF g, k
<1>8. /\ chain' \in [Table -> Seq(PageId)]
      /\ \A u \in Table : u # t => chain'[u] = chain[u]
      /\ IsInjective(chain'[t]) /\ Ascends(chain'[t])
      /\ IamPages(t)' \subseteq IamPages(t)
      /\ \A p \in IamPages(t) : p \in IamPages(t)' \/ (p = g /\ ToSet(l) = {})
    <2>0. IsInjective(chain[t]) /\ Ascends(chain[t])
        BY DEF IamInv, ChainsDisjoint, ChainsAscend
    <2>1. CASE chain' = chain
        <3>1. IamPages(t)' = IamPages(t)
            BY <2>1 DEF IamPages
        <3>2. QED
            BY <1>0, <2>0, <2>1, <3>1
    <2>2. CASE chain' = [chain EXCEPT ![t] = RemoveAt(chain[t], k)] /\ Len(list[g]) = 1
        <3>1. /\ RemoveAt(chain[t], k) \in Seq(PageId)
              /\ IsInjective(RemoveAt(chain[t], k))
              /\ ToSet(RemoveAt(chain[t], k)) = ToSet(chain[t]) \ {g}
              /\ Ascends(RemoveAt(chain[t], k))
            BY <1>1, <1>2, <2>0, RemoveAtFacts, RemoveAtInjective, RemoveAtAscends
        <3>2. /\ chain' \in [Table -> Seq(PageId)]
              /\ chain'[t] = RemoveAt(chain[t], k)
              /\ \A u \in Table : u # t => chain'[u] = chain[u]
            BY <1>0, <2>2, <3>1
        <3>3. IamPages(t)' = IamPages(t) \ {g}
            BY <3>1, <3>2 DEF IamPages
        <3>4. ToSet(l) = {}
            <4>1. Len(l) = 0
                BY <1>5, <2>2
            <4>2. ToSet(l) = {l[i] : i \in 1..Len(l)}
                BY <1>5, ToSetFacts
            <4>3. 1..0 = {}
                OBVIOUS
            <4>4. QED
                BY <4>1, <4>2, <4>3
        <3>5. QED
            BY <3>1, <3>2, <3>3, <3>4
    <2>3. QED
        BY <1>7, <2>1, <2>2
<1>9. TypeOK'
    <2>1. Len(l) <= IAM_MAX_EXTENTS
        BY <1>5, <1>6, IamAssumption
    <2>2. /\ list' \in [PageId -> Seq(Extent)]
          /\ \A p \in PageId : Len(list'[p]) <= IAM_MAX_EXTENTS
        BY <1>0, <1>2, <1>3, <1>5, <2>1
    <2>3. QED
        BY <1>0, <1>8, <2>2 DEF TypeOK
<1>10. Entries(g) \subseteq Listed(t) /\ Listed(t) \subseteq used
    BY <1>1 DEF Entries, Listed, IamPages, IamInv, InUseIsMarked
<1>11. /\ (ToSet(l) \ Entries(g)) \cap used = {}
       /\ ToSet(l) \cup (used \ (Entries(g) \ ToSet(l))) \subseteq used'
    BY <1>1, <1>5, <1>10
<1>12. /\ IamInv'
       /\ \A u \in Table : Listed(u)' = IF u = t THEN (Listed(t) \ Entries(g)) \cup ToSet(l)
                                        ELSE Listed(u)
       /\ \A u \in Table : u # t => IamExtents(u)' = IamExtents(u)
       /\ IamExtents(t)' \subseteq IamExtents(t)
    <2>1. g \in IamPages(t) /\ l \in Seq(Extent) /\ IsInjective(l)
        BY <1>1, <1>5
    <2>2. list' = [list EXCEPT ![g] = l]
        BY <1>3
    <2>3. /\ \A u \in Table : u # t => chain'[u] = chain[u]
          /\ IsInjective(chain'[t]) /\ Ascends(chain'[t])
          /\ IamPages(t)' \subseteq IamPages(t)
          /\ \A p \in IamPages(t) : p \in IamPages(t)' \/ (p = g /\ ToSet(l) = {})
        BY <1>8
    <2>4. QED
        BY <1>9, <1>11, <2>1, <2>2, <2>3, EntriesChanged
<1>13. (Listed(t) \ Entries(g)) \cup ToSet(l) = Listed(t) \ {e}
    BY <1>1, <1>5, <1>10
<1>14. QED
    BY <1>12, <1>13

\* RemoveExtent and RemoveFails: the table loses the extent.
LEMMA RemoveEffect ==
    ASSUME IamInv, NEW t \in Table, NEW e \in Extent, RemoveExtent(t, e) \/ RemoveFails(t, e)
    PROVE  /\ IamInv' /\ e \in Listed(t)
           /\ \A u \in Table : Listed(u)' = IF u = t THEN Listed(t) \ {e} ELSE Listed(u)
           /\ \A u \in Table : u # t => IamExtents(u)' = IamExtents(u)
           /\ IamExtents(t)' \subseteq IamExtents(t)
<1>1. e \in Listed(t) /\ Unlist(t, e)
    BY DEF RemoveExtent, RemoveFails
<1>2. used' \subseteq used /\ used \ {e} \subseteq used'
    BY DEF RemoveExtent, RemoveFails, Unmarked
<1>3. \/ chain' = chain
      \/ /\ Len(list[IamPageOf(t, e)]) = 1
         /\ chain' = [chain EXCEPT ![t] = RemoveAt(@, Position(t, e))]
    BY DEF RemoveExtent, RemoveFails, ToUnlink, WithoutPage
<1>4. hint' \in [Table -> PageId \cup {INVALID_PAGE_ID}]
    <2>1. hint \in [Table -> PageId \cup {INVALID_PAGE_ID}]
        BY DEF IamInv, TypeOK
    <2>2. QED
        BY <2>1 DEF RemoveExtent, RemoveFails, ForgetHint
<1>5. QED
    BY <1>1, <1>2, <1>3, <1>4, UnlistEffect

-----------------------------------------------------------------------------
(* The invariant *)

\* No table has an IAM page or an extent yet.
LEMMA NoChains ==
    ASSUME Init, NEW t \in Table
    PROVE  /\ IsInjective(chain[t]) /\ Ascends(chain[t])
           /\ IamPages(t) = {} /\ Listed(t) = {} /\ IamExtents(t) = {}
<1>1. chain[t] = <<>>
    BY DEF Init
<1>2. chain[t] \in Seq(PageId) /\ 1..Len(chain[t]) = {}
    BY <1>1
<1>3. ToSet(chain[t]) = {chain[t][i] : i \in 1..Len(chain[t])}
    BY <1>2, ToSetFacts
<1>4. IsInjective(chain[t])
    BY <1>2, ToSetFacts
<1>5. ToSet(chain[t]) = {}
    BY <1>2, <1>3
<1>6. QED
    BY <1>2, <1>4, <1>5 DEF Ascends, IamPages, Listed, IamExtents

\* The invariant holds at first.
LEMMA InitIamInv == Init => IamInv
<1> SUFFICES ASSUME Init PROVE IamInv
    OBVIOUS
<1>1. <<>> \in Seq(PageId) /\ <<>> \in Seq(Extent) /\ Len(<<>>) = 0 /\ 1..0 = {}
    OBVIOUS
<1>2. TypeOK
    BY <1>1, IamAssumption DEF Init, TypeOK, Extent
<1>3. ASSUME NEW t \in Table
      PROVE  /\ IsInjective(chain[t]) /\ Ascends(chain[t])
             /\ IamPages(t) = {} /\ Listed(t) = {} /\ IamExtents(t) = {}
    BY NoChains
<1>4. QED
    BY <1>2, <1>3
    DEF IamInv, ChainsDisjoint, ListsDisjoint, InUseIsMarked, ChainsAscend

\* Every action preserves it.
LEMMA NextIamInv == IamInv /\ [Next]_vars => IamInv'
<1> SUFFICES ASSUME IamInv, [Next]_vars PROVE IamInv'
    OBVIOUS
<1>1. ASSUME NEW t \in Table, CreateIamChain(t) PROVE IamInv'
    BY <1>1, CreateIamChainEffect
<1>2. ASSUME NEW t \in Table, CreateFails(t) PROVE IamInv'
    BY <1>2, NothingLinked
<1>3. ASSUME NEW t \in Table, RecordExtent(t) PROVE IamInv'
    BY <1>3, RecordExtentEffect
<1>4. ASSUME NEW t \in Table, LinkNewIamPage(t) PROVE IamInv'
    BY <1>4, LinkNewIamPageEffect
<1>5. ASSUME NEW t \in Table, LinkFails(t) \/ AllocationFails(t) PROVE IamInv'
    BY <1>5, NothingLinked
<1>6. ASSUME NEW t \in Table, NEW p \in PageId,
             ScanExtentForward(t, p) \/ ScanIamChain(t, p)
      PROVE  IamInv'
    BY <1>6, NothingLinked
<1>7. ASSUME NEW t \in Table, NEW e \in Extent, RemoveExtent(t, e) \/ RemoveFails(t, e)
      PROVE  IamInv'
    BY <1>7, RemoveEffect
<1>8. CASE Restart \/ UNCHANGED vars
    <2>1. /\ used' = used /\ chain' = chain /\ list' = list
          /\ hint' \in [Table -> PageId \cup {INVALID_PAGE_ID}]
        BY <1>8 DEF Restart, vars, IamInv, TypeOK
    <2>2. TypeOK'
        BY <2>1 DEF IamInv, TypeOK
    <2>3. QED
        BY <2>1, <2>2, LinkedPagesStay
<1>9. QED
    BY <1>1, <1>2, <1>3, <1>4, <1>5, <1>6, <1>7, <1>8 DEF Next

\* Every extent in use is in one place and marked, no IAM page is linked twice,
\* and chains ascend within extents, at every moment.
THEOREM IamInvariance == Spec => []IamInv
BY InitIamInv, NextIamInv, PTL DEF Spec

-----------------------------------------------------------------------------
(* The properties *)

\* The variables keep their types: no page beyond the database is linked or
\* hinted at, and no IAM page has more entries than it has room for.
THEOREM TypeCorrect == Spec => []TypeOK
<1>1. IamInv => TypeOK
    BY DEF IamInv
<1>2. QED
    BY <1>1, IamInvariance, PTL

\* By position: two entries of the IAM pages that are the same extent are the
\* same entry.
LEMMA InvOneOwner == IamInv => OneOwner
<1> SUFFICES ASSUME IamInv PROVE OneOwner
    OBVIOUS
<1>0. /\ \A t \in Table : /\ chain[t] \in Seq(PageId)
                          /\ IamPages(t) = {chain[t][i] : i \in 1..Len(chain[t])}
                          /\ IamPages(t) \subseteq PageId
      /\ \A p \in PageId : list[p] \in Seq(Extent)
    BY IamTypes DEF IamInv
<1>1. ASSUME NEW s \in Slots
      PROVE  /\ s = <<s[1], s[2], s[3]>> /\ s[1] \in Table
             /\ s[2] \in 1..Len(chain[s[1]]) /\ chain[s[1]][s[2]] \in IamPages(s[1])
             /\ s[3] \in 1..Len(list[chain[s[1]][s[2]]])
             /\ ListedAt(s) \in Entries(chain[s[1]][s[2]])
    <2>1. /\ s = <<s[1], s[2], s[3]>> /\ s[1] \in Table
          /\ s[2] \in DOMAIN chain[s[1]] /\ s[3] \in DOMAIN list[chain[s[1]][s[2]]]
        BY DEF Slots
    <2>2. s[2] \in 1..Len(chain[s[1]])
        <3>1. chain[s[1]] \in Seq(PageId)
            BY <1>0, <2>1
        <3>2. DOMAIN chain[s[1]] = 1..Len(chain[s[1]])
            BY <3>1, LenProperties
        <3>3. QED
            BY <2>1, <3>2
    <2>3. chain[s[1]][s[2]] \in IamPages(s[1])
        BY <1>0, <2>1, <2>2
    <2>4. list[chain[s[1]][s[2]]] \in Seq(Extent)
        BY <1>0, <2>1, <2>3
    <2>5. s[3] \in 1..Len(list[chain[s[1]][s[2]]])
        <3>1. DOMAIN list[chain[s[1]][s[2]]] = 1..Len(list[chain[s[1]][s[2]]])
            BY <2>4, LenProperties
        <3>2. QED
            BY <2>1, <3>1
    <2>6. ListedAt(s) \in Entries(chain[s[1]][s[2]])
        BY <2>4, <2>5, ToSetFacts DEF ListedAt, Entries
    <2>7. QED
        BY <2>1, <2>2, <2>3, <2>5, <2>6
<1>2. ASSUME NEW r \in Slots, NEW s \in Slots, ListedAt(r) = ListedAt(s) PROVE r = s
    <2> DEFINE p == chain[r[1]][r[2]]
               q == chain[s[1]][s[2]]
    <2>1. p = q
        BY <1>1, <1>2 DEF IamInv, ListsDisjoint
    <2>2. r[1] = s[1]
        <3>1. ExtentOf(p) \in IamExtents(r[1]) /\ ExtentOf(q) \in IamExtents(s[1])
            BY <1>1 DEF IamExtents, IamPages
        <3>2. QED
            BY <1>1, <2>1, <3>1 DEF IamInv, ChainsDisjoint
    <2>3. r[2] = s[2]
        <3>1. IsInjective(chain[r[1]]) /\ chain[r[1]] \in Seq(PageId)
            BY <1>0, <1>1 DEF IamInv, ChainsDisjoint
        <3>2. QED
            BY <1>1, <2>1, <2>2, <3>1, ToSetFacts
    <2>4. r[3] = s[3]
        <3>1. IsInjective(list[p]) /\ list[p] \in Seq(Extent)
            BY <1>0, <1>1 DEF IamInv, ListsDisjoint
        <3>2. list[p][r[3]] = list[p][s[3]]
            BY <1>2, <2>1 DEF ListedAt
        <3>3. r[3] \in 1..Len(list[p]) /\ s[3] \in 1..Len(list[p])
            BY <1>1, <2>1
        <3>4. QED
            BY <3>1, <3>2, <3>3, ToSetFacts
    <2>5. QED
        BY <1>1, <2>2, <2>3, <2>4
<1>3. \A t \in Table : /\ IsInjective(chain[t])
                       /\ Listed(t) \cup IamExtents(t) \subseteq used
    BY DEF IamInv, ChainsDisjoint, InUseIsMarked
<1>4. \A t, u \in Table : /\ Listed(t) \cap IamExtents(u) = {}
                          /\ t # u => IamExtents(t) \cap IamExtents(u) = {}
    BY DEF IamInv, ChainsDisjoint, ListsDisjoint
<1>5. QED
    BY <1>2, <1>3, <1>4 DEF OneOwner

\* Every extent that is in use has one owner, whatever calls fail half-way.
THEOREM ExtentsHaveOneOwner == Spec => []OneOwner
BY IamInvariance, InvOneOwner, PTL

\* The ascending chains are those of TailIsLast.
LEMMA InvTailIsLast == IamInv => TailIsLast
<1> SUFFICES ASSUME IamInv, NEW t \in Table PROVE
        \A i, j \in DOMAIN chain[t] :
            i < j /\ ExtentOf(chain[t][i]) = ExtentOf(chain[t][j]) => chain[t][i] < chain[t][j]
    BY DEF TailIsLast
<1>1. chain[t] \in Seq(PageId)
    BY IamTypes DEF IamInv
<1>2. DOMAIN chain[t] = 1..Len(chain[t])
    BY <1>1, LenProperties
<1>3. QED
    BY <1>2 DEF IamInv, ChainsAscend, Ascends

\* The page after the tail is in no chain, at every moment.
THEOREM TailsAreLast == Spec => []TailIsLast
BY IamInvariance, InvTailIsLast, PTL

-----------------------------------------------------------------------------
(* Action properties *)

\* A hint that is kept, or none, stays in its table as long as the table loses
\* no extent.
LEMMA KeptHint ==
    ASSUME NEW t \in Table, HintInTable(t), Listed(t) \subseteq Listed(t)',
           hint'[t] = hint[t] \/ hint'[t] = INVALID_PAGE_ID
    PROVE  HintInTable(t)'
BY DEF HintInTable

\* What each action does to the hints.
LEMMA HintStep ==
    ASSUME IamInv, Next, NEW t \in Table, HintInTable(t),
           ~(\E e \in Extent : RemoveFails(t, e))
    PROVE  HintInTable(t)'
<1>0. /\ hint \in [Table -> PageId \cup {INVALID_PAGE_ID}]
      /\ Free # {} => NewExtent \in Extent /\ ExtentOf(FirstPageOf(NewExtent)) = NewExtent
    BY NewExtentIsFree, FirstPage DEF IamInv, TypeOK, Free
<1>1. ASSUME NEW u \in Table, CreateIamChain(u) PROVE HintInTable(t)'
    <2>1. Listed(t)' = Listed(t) /\ hint' = hint
        BY <1>1, CreateIamChainEffect DEF CreateIamChain
    <2>2. QED
        BY <2>1, KeptHint
<1>2. ASSUME NEW u \in Table, CreateFails(u) \/ LinkFails(u) \/ AllocationFails(u)
      PROVE  HintInTable(t)'
    <2>1. Listed(t)' = Listed(t) /\ hint' = hint
        BY <1>2, NothingLinked DEF SameExtents, CreateFails, LinkFails, AllocationFails
    <2>2. QED
        BY <2>1, KeptHint
<1>3. ASSUME NEW u \in Table, RecordExtent(u) \/ LinkNewIamPage(u) PROVE HintInTable(t)'
    <2>1. /\ Listed(t)' = IF t = u THEN Listed(u) \cup {NewExtent} ELSE Listed(t)
          /\ hint' = [hint EXCEPT ![u] = FirstPageOf(NewExtent)] /\ Free # {}
        BY <1>3, RecordExtentEffect, LinkNewIamPageEffect
        DEF RecordExtent, LinkNewIamPage, NeedsIamPage
    <2>2. CASE t = u
        <3>1. hint'[t] = FirstPageOf(NewExtent) /\ NewExtent \in Listed(t)'
            BY <1>0, <2>1, <2>2
        <3>2. QED
            BY <1>0, <2>1, <3>1 DEF HintInTable
    <2>3. CASE t # u
        <3>1. hint'[t] = hint[t] /\ Listed(t)' = Listed(t)
            BY <1>0, <2>1, <2>3
        <3>2. QED
            BY <3>1, KeptHint
    <2>4. QED
        BY <2>2, <2>3
<1>4. ASSUME NEW u \in Table, NEW p \in PageId, ScanExtentForward(u, p) \/ ScanIamChain(u, p)
      PROVE  HintInTable(t)'
    <2>1. Listed(t)' = Listed(t)
        BY <1>4, NothingLinked DEF SameExtents
    <2>2. CASE t = u
        <3>1. hint'[t] = p
            BY <1>0, <1>4, <2>2 DEF ScanExtentForward, ScanIamChain
        <3>2. ExtentOf(p) \in Listed(t)
            BY <1>4, <2>2 DEF ScanExtentForward, ScanIamChain, HintInTable
        <3>3. QED
            BY <2>1, <3>1, <3>2 DEF HintInTable
    <2>3. CASE t # u
        <3>1. hint'[t] = hint[t]
            BY <1>0, <1>4, <2>3 DEF ScanExtentForward, ScanIamChain
        <3>2. QED
            BY <2>1, <3>1, KeptHint
    <2>4. QED
        BY <2>2, <2>3
<1>5. ASSUME NEW u \in Table, NEW e \in Extent, RemoveExtent(u, e) \/ RemoveFails(u, e)
      PROVE  HintInTable(t)'
    <2>1. CASE t = u
        <3>1. RemoveExtent(t, e)
            BY <1>5, <2>1
        <3>2. hint'[t] = INVALID_PAGE_ID
            BY <1>0, <3>1 DEF RemoveExtent, ForgetHint
        <3>3. QED
            BY <3>2 DEF HintInTable
    <2>2. CASE t # u
        <3>1. Listed(t)' = Listed(t)
            BY <1>5, <2>2, RemoveEffect
        <3>2. hint'[t] = hint[t]
            BY <1>0, <1>5, <2>2 DEF RemoveExtent, RemoveFails, ForgetHint
        <3>3. QED
            BY <3>1, <3>2, KeptHint
    <2>3. QED
        BY <2>1, <2>2
<1>6. CASE Restart
    BY <1>6 DEF Restart, HintInTable
<1>7. QED
    BY <1>1, <1>2, <1>3, <1>4, <1>5, <1>6 DEF Next

\* A hint leaves its table's extents only when a removal from that table fails
\* half-way.
THEOREM HintsStayInTheirTable == Spec => HintsGoStaleByFailure
<1>1. IamInv /\ [Next]_vars =>
          [\A t \in Table : HintInTable(t)
              => HintInTable(t)' \/ \E e \in Extent : RemoveFails(t, e)]_vars
    <2> SUFFICES ASSUME IamInv, Next, NEW t \in Table, HintInTable(t),
                        ~(\E e \in Extent : RemoveFails(t, e))
                 PROVE  HintInTable(t)'
        OBVIOUS
    <2>1. QED
        BY HintStep
<1>2. QED
    BY <1>1, IamInvariance, PTL DEF Spec, HintsGoStaleByFailure

\* Extents that a step takes without an owner, or that lose theirs and stay
\* marked.
LEMMA LostStep ==
    ASSUME IamInv, Next, NEW e \in Lost', e \notin Lost
    PROVE  \E t \in Table :
              \/ CreateFails(t) \/ LinkFails(t) \/ AllocationFails(t)
              \/ \E f \in Extent : RemoveFails(t, f)
              \/ e \in IamExtents(t) \ IamExtents(t)'
<1> DEFINE Owned == UNION {Listed(t) \cup IamExtents(t) : t \in Table}
<1>1. /\ e \in used' /\ e \notin {0, 1}
      /\ \A t \in Table : e \notin Listed(t)' /\ e \notin IamExtents(t)'
    BY DEF Lost
<1>2. e \in used => \E t \in Table : e \in Listed(t) \/ e \in IamExtents(t)
    BY <1>1 DEF Lost
<1>3. ASSUME NEW t \in Table, CreateIamChain(t) PROVE FALSE
    <2>1. /\ \A u \in Table : Listed(u)' = Listed(u)
          /\ \A u \in Table : IamExtents(u)' = IF u = t THEN IamExtents(t) \cup {NewExtent}
                                               ELSE IamExtents(u)
          /\ used' = used \cup {NewExtent}
        BY <1>3, CreateIamChainEffect DEF CreateIamChain
    <2>2. QED
        BY <1>1, <1>2, <2>1
<1>4. ASSUME NEW t \in Table, RecordExtent(t) PROVE FALSE
    <2>1. /\ \A u \in Table : Listed(u)' = IF u = t THEN Listed(t) \cup {NewExtent}
                                           ELSE Listed(u)
          /\ \A u \in Table : IamExtents(u)' = IamExtents(u)
          /\ used' = used \cup {NewExtent}
        BY <1>4, RecordExtentEffect DEF RecordExtent
    <2>2. QED
        BY <1>1, <1>2, <2>1
<1>5. ASSUME NEW t \in Table, LinkNewIamPage(t) PROVE FALSE
    <2>1. /\ \A u \in Table : Listed(u)' = IF u = t THEN Listed(t) \cup {NewExtent}
                                           ELSE Listed(u)
          /\ \A u \in Table : IamExtents(u)' =
                IF u = t THEN IamExtents(t) \cup {ExtentOf(NewIamPage(t))} ELSE IamExtents(u)
        BY <1>5, LinkNewIamPageEffect
    <2>2. used' \subseteq used \cup {NewExtent, ExtentOf(NewIamPage(t))}
        BY <1>5, NewPageIsFree DEF LinkNewIamPage
    <2>3. QED
        BY <1>1, <1>2, <2>1, <2>2
<1>6. ASSUME NEW t \in Table, NEW p \in PageId, ScanExtentForward(t, p) \/ ScanIamChain(t, p)
      PROVE  FALSE
    <2>1. SameExtents /\ used' = used
        BY <1>6, NothingLinked DEF ScanExtentForward, ScanIamChain
    <2>2. QED
        BY <1>1, <1>2, <2>1 DEF SameExtents
<1>7. ASSUME NEW t \in Table, NEW f \in Extent, RemoveExtent(t, f)
      PROVE  e \in IamExtents(t) \ IamExtents(t)'
    <2>1. /\ \A u \in Table : Listed(u)' = IF u = t THEN Listed(t) \ {f} ELSE Listed(u)
          /\ \A u \in Table : u # t => IamExtents(u)' = IamExtents(u)
        BY <1>7, RemoveEffect
    <2>2. used' = used \ {f}
        BY <1>7 DEF RemoveExtent, Unmarked
    <2>3. QED
        BY <1>1, <1>2, <2>1, <2>2
<1>8. CASE Restart
    <2>1. \A t \in Table : Listed(t)' = Listed(t) /\ IamExtents(t)' = IamExtents(t)
        BY <1>8, NothingLinked DEF SameExtents
    <2>2. used' = used
        BY <1>8 DEF Restart
    <2>3. QED
        BY <1>1, <1>2, <2>1, <2>2
<1>9. QED
    BY <1>3, <1>4, <1>5, <1>6, <1>7, <1>8 DEF Next

\* Only calls that fail, and the unlinking of the last IAM page of an extent,
\* lose an extent.
THEOREM NothingElseIsLost == Spec => LostByFailureOrUnlinking
<1>1. IamInv /\ [Next]_vars =>
          [\A e \in Lost' \ Lost :
              \E t \in Table :
                  \/ CreateFails(t) \/ LinkFails(t) \/ AllocationFails(t)
                  \/ \E f \in Extent : RemoveFails(t, f)
                  \/ e \in IamExtents(t) \ IamExtents(t)']_vars
    BY LostStep
<1>2. QED
    BY <1>1, IamInvariance, PTL DEF Spec, LostByFailureOrUnlinking

-----------------------------------------------------------------------------
(* The refinement *)

\* The tables have no extents yet.
LEMMA RefinesInit == Init => Extents!Init
BY NoChains DEF Extents!Init

\* A table that gets a free extent is a step of TableExtents.
LEMMA GiveStep ==
    ASSUME IamInv, NEW t \in Table, NEW e \in Extent, e \notin used,
           \A u \in Table : Listed(u)' = IF u = t THEN Listed(t) \cup {e} ELSE Listed(u)
    PROVE  Extents!Next
<1> DEFINE own == [u \in Table |-> Listed(u)]
           own2 == [u \in Table |-> Listed(u)']
<1>1. \A u \in Table : e \notin Listed(u)
    BY DEF IamInv, InUseIsMarked
<1>2. own2 = [own EXCEPT ![t] = @ \cup {e}]
    OBVIOUS
<1>3. own2 # own
    BY <1>1
<1>4. e \in Extent \ UNION {own[u] : u \in Table}
    BY <1>1
<1>5. QED
    BY <1>2, <1>3, <1>4 DEF Extents!Next, Extents!Give

\* So is a table that loses one.
LEMMA TakeStep ==
    ASSUME NEW t \in Table, NEW e \in Listed(t),
           \A u \in Table : Listed(u)' = IF u = t THEN Listed(t) \ {e} ELSE Listed(u)
    PROVE  Extents!Next
<1> DEFINE own == [u \in Table |-> Listed(u)]
           own2 == [u \in Table |-> Listed(u)']
<1>1. own2 = [own EXCEPT ![t] = @ \ {e}]
    OBVIOUS
<1>2. own2 # own
    OBVIOUS
<1>3. e \in own[t]
    OBVIOUS
<1>4. QED
    BY <1>1, <1>2, <1>3 DEF Extents!Next, Extents!Take

\* Every step is one of these or changes no table's extents.
LEMMA RefinesStep ==
    IamInv /\ [Next]_vars => [Extents!Next]_([t \in Table |-> Listed(t)])
<1> SUFFICES ASSUME IamInv, [Next]_vars
             PROVE  Extents!Next \/ \A t \in Table : Listed(t)' = Listed(t)
    OBVIOUS
<1>1. ASSUME NEW t \in Table, CreateIamChain(t)
      PROVE  \A u \in Table : Listed(u)' = Listed(u)
    BY <1>1, CreateIamChainEffect
<1>2. ASSUME NEW t \in Table, CreateFails(t) \/ LinkFails(t) \/ AllocationFails(t)
      PROVE  \A u \in Table : Listed(u)' = Listed(u)
    BY <1>2, NothingLinked DEF SameExtents
<1>3. ASSUME NEW t \in Table, RecordExtent(t) \/ LinkNewIamPage(t) PROVE Extents!Next
    <2>1. NewExtent \in Extent /\ NewExtent \notin used
        BY <1>3, NewExtentIsFree DEF RecordExtent, LinkNewIamPage, NeedsIamPage, Free
    <2>2. \A u \in Table : Listed(u)' = IF u = t THEN Listed(t) \cup {NewExtent}
                                        ELSE Listed(u)
        BY <1>3, RecordExtentEffect, LinkNewIamPageEffect
    <2>3. QED
        BY <2>1, <2>2, GiveStep
<1>4. ASSUME NEW t \in Table, NEW p \in PageId, ScanExtentForward(t, p) \/ ScanIamChain(t, p)
      PROVE  \A u \in Table : Listed(u)' = Listed(u)
    BY <1>4, NothingLinked DEF SameExtents
<1>5. ASSUME NEW t \in Table, NEW e \in Extent, RemoveExtent(t, e) \/ RemoveFails(t, e)
      PROVE  Extents!Next
    BY <1>5, RemoveEffect, TakeStep
<1>6. CASE Restart \/ UNCHANGED vars
    BY <1>6 DEF Restart, vars, Listed
<1>7. QED
    BY <1>1, <1>2, <1>3, <1>4, <1>5, <1>6 DEF Next

\* The chains implement the tables' sets of extents.
THEOREM Refinement == Spec => ImplementsExtents
BY IamInvariance, RefinesInit, RefinesStep, PTL DEF Spec, ImplementsExtents, Extents!Spec

-----------------------------------------------------------------------------
(* The statements take the steps of the IAM chains *)

\* Every statement is a step of IamManager, or changes none of its state.
LEMMA StorageStepIsIamStep == [StorageNext]_allVars => [Next]_vars
<1> SUFFICES ASSUME StorageNext \/ UNCHANGED allVars PROVE Next \/ UNCHANGED vars
    OBVIOUS
<1>1. ASSUME NEW t \in Table, CreateTable(t) PROVE Next
    BY <1>1 DEF CreateTable, Next
<1>2. ASSUME NEW t \in Table, CreateTableFails(t) PROVE Next
    BY <1>2 DEF CreateTableFails, Next
<1>3. ASSUME NEW t \in Table, NEW p \in PageId, FindPage(t, p) PROVE Next \/ UNCHANGED vars
    BY <1>3 DEF FindPage, Next, iamVars, vars
<1>4. ASSUME NEW t \in Table, NEW r \in Row, NEW p \in PageId, InsertIntoFound(t, r, p)
      PROVE  Next \/ UNCHANGED vars
    BY <1>3, <1>4 DEF InsertIntoFound
<1>5. ASSUME NEW t \in Table, NEW r \in Row, InsertIntoNewExtent(t, r) PROVE Next
    BY <1>5 DEF InsertIntoNewExtent, Next
<1>6. ASSUME NEW t \in Table, InsertFails(t) PROVE Next
    BY <1>6 DEF InsertFails, Next
<1>7. ASSUME NEW t \in Table, NEW r \in Row, Delete(t, r) PROVE UNCHANGED vars
    BY <1>7 DEF Delete, iamVars, vars
<1>8. ASSUME NEW t \in Table, MigrateRows(t) PROVE UNCHANGED vars
    BY <1>8 DEF MigrateRows, iamVars, vars
<1>9. ASSUME NEW t \in Table, NEW e \in Extent, FreeExtent(t, e) \/ FreeExtentFails(t, e)
      PROVE  Next
    BY <1>9 DEF FreeExtent, FreeExtentFails, Next
<1>10. CASE EndCompaction \/ UNCHANGED allVars
    BY <1>10 DEF EndCompaction, allVars, iamVars, vars
<1>11. CASE Reopen
    BY <1>11 DEF Reopen, Next
<1>12. QED
    BY <1>1, <1>2, <1>4, <1>5, <1>6, <1>7, <1>8, <1>9, <1>10, <1>11 DEF StorageNext

\* The tables' statements implement the specification of the IAM chains.
THEOREM StorageImplementsIam == StorageSpec => Spec
<1>1. StorageInit => Init
    BY DEF StorageInit
<1>2. QED
    BY <1>1, StorageStepIsIamStep, PTL DEF StorageSpec, Spec

\* So that what holds of the chains holds under the statements: their
\* invariant,
LEMMA StorageIamInv == StorageSpec => []IamInv
BY StorageImplementsIam, IamInvariance, PTL

\* one owner for every extent in use,
THEOREM StorageOneOwner == StorageSpec => []OneOwner
BY StorageImplementsIam, ExtentsHaveOneOwner, PTL

\* the place of the tails,
THEOREM StorageTailIsLast == StorageSpec => []TailIsLast
BY StorageImplementsIam, TailsAreLast, PTL

\* hints that stay in their tables until a removal fails,
THEOREM StorageHints == StorageSpec => HintsGoStaleByFailure
BY StorageImplementsIam, HintsStayInTheirTable, PTL

\* extents that are lost by failures and unlinking only,
THEOREM StorageLosses == StorageSpec => LostByFailureOrUnlinking
BY StorageImplementsIam, NothingElseIsLost, PTL

\* and the tables' sets of extents.
THEOREM StorageRefinement == StorageSpec => ImplementsExtents
BY StorageImplementsIam, Refinement, PTL

-----------------------------------------------------------------------------
(* Dirty pages that are handed out *)

\* Whatever leaves pages that nobody uses dirty is a failure or is flushed.
LEMMA RefusedStep ==
    RefusedOnlyAfterFailure /\ [StorageNext]_allVars => RefusedOnlyAfterFailure'
<1> SUFFICES ASSUME RefusedOnlyAfterFailure, StorageNext \/ UNCHANGED allVars,
                    compacting' = NoTable, ~failed'
             PROVE  dirty' = {}
    BY DEF RefusedOnlyAfterFailure
<1>1. ASSUME NEW t \in Table, CreateTable(t) PROVE dirty' = {}
    BY <1>1 DEF CreateTable, RefusedOnlyAfterFailure
<1>2. ASSUME NEW t \in Table, CreateTableFails(t) PROVE dirty' = {}
    BY <1>2 DEF CreateTableFails, PageFails, RefusedOnlyAfterFailure
<1>3. ASSUME NEW t \in Table, NEW r \in Row, NEW p \in PageId, InsertIntoFound(t, r, p)
      PROVE  dirty' = {}
    BY <1>3 DEF InsertIntoFound, RefusedOnlyAfterFailure
<1>4. ASSUME NEW t \in Table, NEW r \in Row, InsertIntoNewExtent(t, r) PROVE dirty' = {}
    BY <1>4 DEF InsertIntoNewExtent, RefusedOnlyAfterFailure
<1>5. ASSUME NEW t \in Table, InsertFails(t) PROVE dirty' = {}
    BY <1>5 DEF InsertFails, PageFails, RefusedOnlyAfterFailure
<1>6. ASSUME NEW t \in Table, NEW r \in Row, Delete(t, r) PROVE dirty' = {}
    BY <1>6 DEF Delete, RefusedOnlyAfterFailure
<1>7. ASSUME NEW t \in Table, MigrateRows(t) PROVE dirty' = {}
    BY <1>7, StorageAssumption DEF MigrateRows
<1>8. ASSUME NEW t \in Table, NEW e \in Extent, FreeExtent(t, e) PROVE dirty' = {}
    BY <1>8, StorageAssumption DEF FreeExtent
<1>9. ASSUME NEW t \in Table, NEW e \in Extent, FreeExtentFails(t, e) PROVE dirty' = {}
    BY <1>9 DEF FreeExtentFails, PageFails
<1>10. CASE EndCompaction
    BY <1>10 DEF EndCompaction, Flushed
<1>11. CASE Reopen
    BY <1>11 DEF Reopen
<1>12. CASE UNCHANGED allVars
    BY <1>12 DEF allVars, RefusedOnlyAfterFailure
<1>13. QED
    BY <1>1, <1>2, <1>3, <1>4, <1>5, <1>6, <1>7, <1>8, <1>9, <1>10, <1>11, <1>12
    DEF StorageNext

\* A page that is handed out is clean, so that an IAM page can be created on
\* it, until a page cannot be read or written.
THEOREM CleanWhenHandedOut == StorageSpec => []RefusedOnlyAfterFailure
<1>1. StorageInit => RefusedOnlyAfterFailure
    BY DEF StorageInit, RefusedOnlyAfterFailure
<1>2. QED
    BY <1>1, RefusedStep, PTL DEF StorageSpec

-----------------------------------------------------------------------------
(* The pages of a table *)

\* The pages of an extent are the pages that lie in it.
LEMMA PagesOfExtent ==
    ASSUME NEW e \in Extent
    PROVE  /\ PagesOf(e) = {p \in PageId : ExtentOf(p) = e}
           /\ FirstPageOf(e) \in PageId /\ ExtentOf(FirstPageOf(e)) = e
<1>1. /\ e \in Nat /\ EXTENT_SIZE \in Nat \ {0} /\ MaxExtent \in Nat
      /\ MaxExtent + 1 \in Nat /\ e + 1 \in Nat /\ e + 1 <= MaxExtent + 1
    BY IamAssumption DEF Extent
<1>2. /\ e * EXTENT_SIZE \in Nat
      /\ (e + 1) * EXTENT_SIZE = e * EXTENT_SIZE + EXTENT_SIZE
      /\ (e + 1) * EXTENT_SIZE <= (MaxExtent + 1) * EXTENT_SIZE
      /\ (MaxExtent + 1) * EXTENT_SIZE \in Nat
    BY <1>1, Products
<1>3. ASSUME NEW p \in PagesOf(e) PROVE p \in PageId /\ ExtentOf(p) = e
    <2>1. p \in Nat /\ e * EXTENT_SIZE <= p /\ p < (e + 1) * EXTENT_SIZE
        BY <1>1, <1>2 DEF PagesOf, FirstPageOf
    <2>2. /\ p - e * EXTENT_SIZE \in 0..(EXTENT_SIZE - 1)
          /\ p = e * EXTENT_SIZE + (p - e * EXTENT_SIZE)
        BY <1>1, <1>2, <2>1
    <2>3. p \div EXTENT_SIZE = e
        BY <1>1, <2>1, <2>2, DivisionUnique
    <2>4. p \in PageId
        BY <1>1, <1>2, <2>1 DEF PageId
    <2>5. QED
        BY <2>3, <2>4 DEF ExtentOf
<1>4. ASSUME NEW p \in PageId, ExtentOf(p) = e PROVE p \in PagesOf(e)
    <2>1. p \in Nat /\ p \div EXTENT_SIZE = e
        BY <1>4 DEF PageId, ExtentOf
    <2>2. /\ p % EXTENT_SIZE \in 0..(EXTENT_SIZE - 1)
          /\ p = e * EXTENT_SIZE + (p % EXTENT_SIZE)
        BY <1>1, <2>1, Division
    <2>3. e * EXTENT_SIZE <= p /\ p <= (e + 1) * EXTENT_SIZE - 1
        BY <1>1, <1>2, <2>1, <2>2
    <2>4. QED
        BY <1>1, <1>2, <2>1, <2>3 DEF PagesOf, FirstPageOf
<1>5. QED
    BY <1>3, <1>4, FirstPage

\* The pages of a set of extents.
LEMMA PagesOfExtents ==
    ASSUME NEW es \in SUBSET Extent
    PROVE  PagesIn(es) = {p \in PageId : ExtentOf(p) \in es}
<1>1. ASSUME NEW p \in PagesIn(es) PROVE p \in PageId /\ ExtentOf(p) \in es
    BY PagesOfExtent DEF PagesIn
<1>2. ASSUME NEW p \in PageId, ExtentOf(p) \in es PROVE p \in PagesIn(es)
    BY <1>2, PagesOfExtent DEF PagesIn
<1>3. QED
    BY <1>1, <1>2

\* No two tables have an extent in common.
LEMMA TablesApart ==
    ASSUME IamInv, NEW t \in Table, NEW u \in Table, t # u
    PROVE  Listed(t) \cap Listed(u) = {}
<1> SUFFICES ASSUME NEW e \in Listed(t), e \in Listed(u) PROVE FALSE
    OBVIOUS
<1>1. PICK p \in IamPages(t) : e \in Entries(p)
    BY DEF Listed, IamPages, Entries
<1>2. PICK q \in IamPages(u) : e \in Entries(q)
    BY DEF Listed, IamPages, Entries
<1>3. p = q
    BY <1>1, <1>2 DEF IamInv, ListsDisjoint
<1>4. ExtentOf(p) \in IamExtents(t) /\ ExtentOf(q) \in IamExtents(u)
    BY DEF IamExtents, IamPages
<1>5. QED
    BY <1>3, <1>4 DEF IamInv, ChainsDisjoint

\* The rows that a set of extents holds.
RowsIn(rs, es) == {r \in Row : \E p \in PageId : ExtentOf(p) \in es /\ r \in rs[p]}

\* The rows of a table are those that its extents hold.
LEMMA RowsOfTable ==
    ASSUME NEW t \in Table, Listed(t) \subseteq Extent, rows \in [PageId -> SUBSET Row]
    PROVE  /\ TablePages(t) = {p \in PageId : ExtentOf(p) \in Listed(t)}
           /\ RowsOf(t) = RowsIn(rows, Listed(t))
<1>1. TablePages(t) = {p \in PageId : ExtentOf(p) \in Listed(t)}
    BY PagesOfExtents DEF TablePages
<1>2. QED
    BY <1>1 DEF RowsOf, RowsIn

\* The same after a step.
LEMMA RowsOfTableNext ==
    ASSUME NEW t \in Table, Listed(t)' \subseteq Extent, rows' \in [PageId -> SUBSET Row]
    PROVE  /\ TablePages(t)' = {p \in PageId : ExtentOf(p) \in Listed(t)'}
           /\ RowsOf(t)' = RowsIn(rows', Listed(t)')
<1>1. TablePages(t)' = {p \in PageId : ExtentOf(p) \in Listed(t)'}
    BY PagesOfExtents DEF TablePages
<1>2. QED
    BY <1>1 DEF RowsOf, RowsIn

-----------------------------------------------------------------------------
(* Types *)

\* The rows of each page are finitely many, and no more than there is room for.
PagesHaveRoom ==
    /\ rows \in [PageId -> SUBSET Row]
    /\ \A p \in PageId : IsFiniteSet(rows[p]) /\ Cardinality(rows[p]) <= RowsPerPage

OtherTypes ==
    /\ dirty \subseteq PageId
    /\ compacting \in Table \cup {NoTable}
    /\ kept \in [Table -> SUBSET Row]
    /\ strayed \in BOOLEAN /\ failed \in BOOLEAN

StorageTypes == PagesHaveRoom /\ OtherTypes

StorageInv == IamInv /\ StorageTypes

\* No page has a row.
LEMMA EmptyPagesHaveRoom ==
    ASSUME rows' = [p \in PageId |-> {}]
    PROVE  PagesHaveRoom'
<1>1. IsFiniteSet({}) /\ Cardinality({}) = 0
    BY FS_EmptySet
<1>2. QED
    BY <1>1, StorageAssumption DEF PagesHaveRoom

\* The pages of a finite database have finitely many rows.
LEMMA FinitelyManyRows ==
    ASSUME PagesHaveRoom, NEW P \in SUBSET PageId
    PROVE  IsFiniteSet(UNION {rows[p] : p \in P})
<1> DEFINE T == {rows[p] : p \in P}
           f == [p \in P |-> rows[p]]
<1>1. IsFiniteSet(PageId)
    <2>1. (MaxExtent + 1) * EXTENT_SIZE - 1 \in Int
        BY IamAssumption
    <2>2. QED
        BY <2>1, FS_Interval DEF PageId
<1>2. IsFiniteSet(P)
    BY <1>1, FS_Subset
<1>3. f \in Surjection(P, T)
    BY DEF Surjection
<1>4. IsFiniteSet(T)
    <2> HIDE DEF f, T
    <2>1. QED
        BY <1>2, <1>3, FS_Surjection
<1>5. \A S \in T : IsFiniteSet(S)
    BY DEF PagesHaveRoom
<1>6. QED
    <2> HIDE DEF T
    <2>1. IsFiniteSet(UNION T)
        BY <1>4, <1>5, FS_UNION
    <2>2. QED
        BY <2>1 DEF T

\* Every statement leaves room on the pages.
LEMMA RoomStep ==
    ASSUME StorageInv, StorageNext
    PROVE  PagesHaveRoom'
<1>0. rows \in [PageId -> SUBSET Row] /\ RowsPerPage \in Nat \ {0}
    BY StorageAssumption DEF StorageInv, StorageTypes, PagesHaveRoom
<1>1. ASSUME rows' = rows PROVE PagesHaveRoom'
    BY <1>1 DEF StorageInv, StorageTypes, PagesHaveRoom
<1>2. ASSUME NEW p \in PageId
      PROVE  /\ IsFiniteSet(rows[p]) /\ Cardinality(rows[p]) \in Nat
             /\ Cardinality(rows[p]) <= RowsPerPage
    BY FS_CardinalityType DEF StorageInv, StorageTypes, PagesHaveRoom
<1>3. ASSUME NEW t \in Table, NEW r \in Row, NEW p \in PageId, InsertIntoFound(t, r, p)
      PROVE  PagesHaveRoom'
    <2>1. CASE rows' = [rows EXCEPT ![p] = @ \cup {r}]
        <3>1. Cardinality(rows[p]) < RowsPerPage
            BY <1>3 DEF InsertIntoFound, HasRoomFor
        <3>2. /\ IsFiniteSet(rows[p] \cup {r})
              /\ Cardinality(rows[p] \cup {r}) = IF r \in rows[p] THEN Cardinality(rows[p])
                                                 ELSE Cardinality(rows[p]) + 1
            BY <1>2, FS_AddElement
        <3>3. Cardinality(rows[p] \cup {r}) <= RowsPerPage
            BY <1>0, <1>2, <3>1, <3>2
        <3>4. QED
            BY <1>0, <1>2, <2>1, <3>2, <3>3 DEF PagesHaveRoom
    <2>2. CASE rows' = [q \in PageId |-> {}]
        BY <2>2, EmptyPagesHaveRoom
    <2>3. QED
        BY <1>3, <2>1, <2>2 DEF InsertIntoFound, Put
<1>4. ASSUME NEW t \in Table, NEW r \in Row, InsertIntoNewExtent(t, r) PROVE PagesHaveRoom'
    <2> DEFINE first == FirstPageOf(NewExtent)
    <2>1. NewExtent \in Extent /\ first \in PageId /\ ExtentOf(first) = NewExtent
        BY <1>4, NewExtentIsFree, FirstPage DEF InsertIntoNewExtent, Free
    <2>2. rows' = [Formatted(NewExtent) EXCEPT ![first] = @ \cup {r}]
        BY <1>4 DEF InsertIntoNewExtent
    <2> HIDE DEF first
    <2>3. \A p \in PageId :
              rows'[p] = IF p = first THEN {r}
                         ELSE IF ExtentOf(p) = NewExtent THEN {} ELSE rows[p]
        BY <2>1, <2>2 DEF Formatted
    <2>4. /\ IsFiniteSet({}) /\ Cardinality({}) = 0
          /\ IsFiniteSet({r}) /\ Cardinality({r}) = 1
        BY FS_EmptySet, FS_Singleton
    <2>5. rows' \in [PageId -> SUBSET Row]
        BY <1>0, <2>2, <2>3 DEF Formatted
    <2>6. ASSUME NEW p \in PageId
          PROVE  IsFiniteSet(rows'[p]) /\ Cardinality(rows'[p]) <= RowsPerPage
        <3>1. CASE rows'[p] = {r}
            BY <1>0, <2>4, <3>1
        <3>2. CASE rows'[p] = {}
            BY <1>0, <2>4, <3>2
        <3>3. CASE rows'[p] = rows[p]
            BY <1>2, <3>3
        <3>4. QED
            BY <2>3, <3>1, <3>2, <3>3
    <2>7. QED
        BY <2>5, <2>6 DEF PagesHaveRoom
<1>5. ASSUME NEW t \in Table, NEW r \in Row, Delete(t, r) PROVE PagesHaveRoom'
    <2>1. rows' = [p \in PageId |-> IF p \in TablePages(t) THEN rows[p] \ {r} ELSE rows[p]]
        BY <1>5 DEF Delete
    <2>2. ASSUME NEW p \in PageId
          PROVE  IsFiniteSet(rows'[p]) /\ Cardinality(rows'[p]) <= RowsPerPage
        <3>1. /\ IsFiniteSet(rows[p] \ {r})
              /\ Cardinality(rows[p] \ {r}) = IF r \in rows[p] THEN Cardinality(rows[p]) - 1
                                              ELSE Cardinality(rows[p])
            BY <1>2, FS_RemoveElement
        <3>2. Cardinality(rows[p] \ {r}) <= RowsPerPage
            BY <1>0, <1>2, <3>1
        <3>3. rows'[p] = rows[p] \ {r} \/ rows'[p] = rows[p]
            BY <2>1
        <3>4. QED
            BY <1>2, <3>1, <3>2, <3>3
    <2>3. QED
        BY <1>0, <2>1, <2>2 DEF PagesHaveRoom
<1>6. ASSUME NEW t \in Table, MigrateRows(t) PROVE PagesHaveRoom'
    <2>1. PICK f \in Placements(t) :
              rows' = [p \in PageId |-> IF p \in TablePages(t) THEN {r \in RowsOf(t) : f[r] = p}
                                        ELSE rows[p]]
        BY <1>6 DEF MigrateRows
    <2>2. /\ Listed(t) \subseteq Extent
          /\ TablePages(t) \subseteq PageId /\ RowsOf(t) \subseteq Row
        <3>1. Listed(t) \subseteq Extent
            BY IamTypes DEF StorageInv, IamInv
        <3>2. QED
            BY <1>0, <3>1, RowsOfTable DEF RowsIn
    <2>3. IsFiniteSet(RowsOf(t))
        BY <2>2, FinitelyManyRows DEF RowsOf, StorageInv, StorageTypes
    <2>4. ASSUME NEW p \in PageId
          PROVE  IsFiniteSet(rows'[p]) /\ Cardinality(rows'[p]) <= RowsPerPage
        <3>1. CASE p \in TablePages(t)
            <4>1. rows'[p] = {r \in RowsOf(t) : f[r] = p}
                BY <2>1, <3>1
            <4>2. Cardinality({r \in RowsOf(t) : f[r] = p}) <= RowsPerPage
                BY <3>1 DEF Placements
            <4>3. IsFiniteSet({r \in RowsOf(t) : f[r] = p})
                BY <2>3, FS_Subset
            <4>4. QED
                BY <4>1, <4>2, <4>3
        <3>2. CASE p \notin TablePages(t)
            <4>1. rows'[p] = rows[p]
                BY <2>1, <3>2
            <4>2. QED
                BY <1>2, <4>1
        <3>3. QED
            BY <3>1, <3>2
    <2>5. rows' \in [PageId -> SUBSET Row]
        BY <1>0, <2>1, <2>2
    <2>6. QED
        BY <2>4, <2>5 DEF PagesHaveRoom
<1>7. QED
    BY <1>1, <1>3, <1>4, <1>5, <1>6
    DEF StorageNext, CreateTable, CreateTableFails, InsertFails, FreeExtent,
        FreeExtentFails, EndCompaction, Reopen, dataVars

\* Every statement keeps the types.
LEMMA StorageTypesStep ==
    ASSUME StorageInv, StorageNext
    PROVE  StorageTypes'
<1>0. /\ OtherTypes
      /\ \A t \in Table : IamPages(t) \subseteq PageId
    BY IamTypes DEF StorageInv, StorageTypes, IamInv
<1>1. ASSUME NEW t \in Table, NEW r \in Row, NEW p \in PageId, InsertIntoFound(t, r, p)
      PROVE  OtherTypes'
    <2>1. UNCHANGED <<dirty, compacting, failed>> /\ Put(t, r, p)
        BY <1>1 DEF InsertIntoFound
    <2>2. strayed' \in BOOLEAN
        BY <1>0, <2>1 DEF OtherTypes, Put
    <2>3. kept \in [Table -> SUBSET Row]
        BY <1>0 DEF OtherTypes
    <2>4. \/ kept' = [kept EXCEPT ![t] = @ \cup {r}]
          \/ kept' = [u \in Table |-> {}]
        BY <2>1 DEF Put
    <2>5. kept' \in [Table -> SUBSET Row]
        BY <2>3, <2>4
    <2>6. dirty' = dirty /\ compacting' = compacting /\ failed' = failed
        BY <2>1
    <2>7. QED
        BY <1>0, <2>2, <2>5, <2>6 DEF OtherTypes
<1>2. ASSUME NEW t \in Table, NEW r \in Row, InsertIntoNewExtent(t, r) \/ Delete(t, r)
      PROVE  OtherTypes'
    BY <1>0, <1>2 DEF OtherTypes, InsertIntoNewExtent, Delete
<1>3. ASSUME NEW t \in Table, NEW e \in Extent, FreeExtent(t, e)
      PROVE  OtherTypes'
    <2>1. PagesOf(e) \subseteq PageId
        BY PagesOfExtent
    <2>2. Unlinked(t) \subseteq PageId
        BY <1>0 DEF Unlinked, IamPages
    <2>3. QED
        BY <1>0, <1>3, <2>1, <2>2 DEF OtherTypes, FreeExtent, dataVars
<1>4. ASSUME NEW t \in Table, NEW e \in Extent, FreeExtentFails(t, e)
      PROVE  OtherTypes'
    BY <1>0, <1>4 DEF OtherTypes, FreeExtentFails, PageFails, dataVars
<1>5. ASSUME NEW t \in Table,
             CreateTable(t) \/ CreateTableFails(t) \/ InsertFails(t) \/ MigrateRows(t)
      PROVE  OtherTypes'
    BY <1>0, <1>5
    DEF OtherTypes, CreateTable, CreateTableFails, InsertFails, MigrateRows, PageFails,
        dataVars
<1>6. ASSUME EndCompaction \/ Reopen
      PROVE  OtherTypes'
    BY <1>0, <1>6 DEF OtherTypes, EndCompaction, Reopen, Flushed, dataVars
<1>7. PagesHaveRoom'
    BY RoomStep
<1>8. QED
    BY <1>1, <1>2, <1>3, <1>4, <1>5, <1>6, <1>7 DEF StorageNext, StorageTypes

\* The chains' invariant and the types.
LEMMA StorageInvariance == StorageSpec => []StorageInv
<1>1. StorageInit => StorageInv
    <2> SUFFICES ASSUME StorageInit PROVE StorageInv
        OBVIOUS
    <2>1. IsFiniteSet({}) /\ Cardinality({}) = 0
        BY FS_EmptySet
    <2>2. PagesHaveRoom
        BY <2>1, StorageAssumption DEF StorageInit, PagesHaveRoom
    <2>3. QED
        BY <2>2, InitIamInv DEF StorageInit, StorageInv, StorageTypes, OtherTypes
<1>2. StorageInv /\ [StorageNext]_allVars => StorageInv'
    <2> SUFFICES ASSUME StorageInv, [StorageNext]_allVars PROVE StorageInv'
        OBVIOUS
    <2>1. IamInv'
        BY StorageStepIsIamStep, NextIamInv DEF StorageInv
    <2>2. CASE StorageNext
        BY <2>1, <2>2, StorageTypesStep DEF StorageInv
    <2>3. CASE UNCHANGED allVars
        BY <2>1, <2>3
        DEF StorageInv, StorageTypes, OtherTypes, PagesHaveRoom, allVars, iamVars, dataVars
    <2>4. QED
        BY <2>2, <2>3
<1>3. QED
    BY <1>1, <1>2, PTL DEF StorageSpec

\* The variables keep their types; in particular no page gets more rows than
\* it has room for.
THEOREM StorageTypeCorrect == StorageSpec => []StorageTypeOK
<1>1. StorageInv => StorageTypeOK
    BY DEF StorageInv, StorageTypes, OtherTypes, PagesHaveRoom, StorageTypeOK, IamInv
<1>2. QED
    BY <1>1, StorageInvariance, PTL

-----------------------------------------------------------------------------
(* The rows of the tables *)

\* A step that moves no extent and changes no page's rows, or only the rows of
\* one table's pages, leaves the other tables' rows alone.
LEMMA OtherRowsStay ==
    ASSUME StorageInv, PagesHaveRoom', NEW t \in Table, NEW u \in Table, u # t,
           Listed(u)' = Listed(u),
           \A p \in PageId : ExtentOf(p) \notin Listed(t) => rows'[p] = rows[p]
    PROVE  RowsOf(u)' = RowsOf(u)
<1>1. Listed(t) \cap Listed(u) = {} /\ Listed(u) \subseteq Extent
    BY TablesApart, IamTypes DEF StorageInv, IamInv
<1>2. RowsOf(u) = RowsIn(rows, Listed(u)) /\ RowsOf(u)' = RowsIn(rows', Listed(u))
    BY <1>1, RowsOfTable, RowsOfTableNext DEF StorageInv, StorageTypes, PagesHaveRoom
<1>3. \A p \in PageId : ExtentOf(p) \in Listed(u) => rows'[p] = rows[p]
    BY <1>1
<1>4. RowsIn(rows', Listed(u)) = RowsIn(rows, Listed(u))
    BY <1>3 DEF RowsIn
<1>5. QED
    BY <1>2, <1>4

\* A row goes to a page of the table.
LEMMA InsertRows ==
    ASSUME StorageInv, PagesHaveRoom', NEW t \in Table, NEW r \in Row, NEW p \in PageId,
           InsertIntoFound(t, r, p), ~strayed', NEW u \in Table
    PROVE  RowsOf(u)' = IF u = t THEN RowsOf(t) \cup {r} ELSE RowsOf(u)
<1>0. rows \in [PageId -> SUBSET Row] /\ rows' \in [PageId -> SUBSET Row]
    BY DEF PagesHaveRoom, StorageInv, StorageTypes
<1>1. \A v \in Table : Listed(v)' = Listed(v) /\ Listed(v) \subseteq Extent
    <2>1. FindPage(t, p)
        BY DEF InsertIntoFound
    <2>2. CASE UNCHANGED iamVars
        BY <2>2, IamTypes DEF iamVars, Listed, StorageInv, IamInv
    <2>3. CASE ScanExtentForward(t, p) \/ ScanIamChain(t, p)
        BY <2>3, NothingLinked, IamTypes DEF SameExtents, StorageInv, IamInv
    <2>4. QED
        BY <2>1, <2>2, <2>3 DEF FindPage
<1>2. p \in TablePages(t)' /\ rows' = [rows EXCEPT ![p] = @ \cup {r}]
    BY DEF InsertIntoFound, Put
<1>3. ExtentOf(p) \in Listed(t)
    BY <1>0, <1>1, <1>2, RowsOfTableNext
<1>4. CASE u # t
    BY <1>0, <1>1, <1>2, <1>3, <1>4, OtherRowsStay
<1>5. CASE u = t
    <2>1. RowsOf(t) = RowsIn(rows, Listed(t)) /\ RowsOf(t)' = RowsIn(rows', Listed(t))
        BY <1>0, <1>1, RowsOfTable, RowsOfTableNext
    <2>2. \A q \in PageId : rows'[q] = IF q = p THEN rows[p] \cup {r} ELSE rows[q]
        BY <1>0, <1>2
    <2>3. RowsIn(rows', Listed(t)) = RowsIn(rows, Listed(t)) \cup {r}
        BY <1>3, <2>2 DEF RowsIn
    <2>4. QED
        BY <1>5, <2>1, <2>3
<1>6. QED
    BY <1>4, <1>5

\* A row goes to the first page of a new extent, which no table had.
LEMMA InsertNewRows ==
    ASSUME StorageInv, PagesHaveRoom', NEW t \in Table, NEW r \in Row,
           InsertIntoNewExtent(t, r), NEW u \in Table
    PROVE  RowsOf(u)' = IF u = t THEN RowsOf(t) \cup {r} ELSE RowsOf(u)
<1> DEFINE first == FirstPageOf(NewExtent)
<1>0. rows \in [PageId -> SUBSET Row] /\ rows' \in [PageId -> SUBSET Row]
    BY DEF PagesHaveRoom, StorageInv, StorageTypes
<1>1. /\ NewExtent \in Extent /\ NewExtent \notin used
      /\ first \in PageId /\ ExtentOf(first) = NewExtent
    BY NewExtentIsFree, FirstPage DEF InsertIntoNewExtent, Free
<1>2. \A v \in Table : /\ Listed(v)' = IF v = t THEN Listed(t) \cup {NewExtent} ELSE Listed(v)
                       /\ Listed(v) \subseteq Extent /\ NewExtent \notin Listed(v)
    <2>1. RecordExtent(t) \/ LinkNewIamPage(t)
        BY DEF InsertIntoNewExtent
    <2>2. \A v \in Table : Listed(v)' = IF v = t THEN Listed(t) \cup {NewExtent} ELSE Listed(v)
        BY <2>1, RecordExtentEffect, LinkNewIamPageEffect DEF StorageInv
    <2>3. \A v \in Table : Listed(v) \subseteq Extent /\ NewExtent \notin Listed(v)
        BY <1>1, IamTypes DEF StorageInv, IamInv, InUseIsMarked
    <2>4. QED
        BY <2>2, <2>3
<1>3. rows' = [Formatted(NewExtent) EXCEPT ![first] = @ \cup {r}]
    BY DEF InsertIntoNewExtent
<1> HIDE DEF first
<1>4. \A p \in PageId :
          rows'[p] = IF p = first THEN {r}
                     ELSE IF ExtentOf(p) = NewExtent THEN {} ELSE rows[p]
    BY <1>1, <1>3 DEF Formatted
<1>5. RowsOf(u) = RowsIn(rows, Listed(u)) /\ RowsOf(u)' = RowsIn(rows', Listed(u)')
    <2>1. Listed(u) \subseteq Extent /\ Listed(u)' \subseteq Extent
        BY <1>1, <1>2
    <2>2. QED
        BY <1>0, <2>1, RowsOfTable, RowsOfTableNext
<1>6. \A p \in PageId : ExtentOf(p) \in Listed(u) => rows'[p] = rows[p]
    BY <1>1, <1>2, <1>4
<1>7. RowsIn(rows', Listed(u)) = RowsIn(rows, Listed(u))
    BY <1>6 DEF RowsIn
<1>8. RowsIn(rows', Listed(t) \cup {NewExtent}) = RowsIn(rows', Listed(t)) \cup {r}
    <2>1. RowsIn(rows', {NewExtent}) = {r}
        BY <1>1, <1>4 DEF RowsIn
    <2>2. RowsIn(rows', Listed(t) \cup {NewExtent}) =
              RowsIn(rows', Listed(t)) \cup RowsIn(rows', {NewExtent})
        BY DEF RowsIn
    <2>3. QED
        BY <2>1, <2>2
<1>9. QED
    BY <1>2, <1>5, <1>7, <1>8

\* DELETE takes the row from the table's pages.
LEMMA DeleteRows ==
    ASSUME StorageInv, PagesHaveRoom', NEW t \in Table, NEW r \in Row, Delete(t, r),
           NEW u \in Table
    PROVE  RowsOf(u)' = IF u = t THEN RowsOf(t) \ {r} ELSE RowsOf(u)
<1>0. rows \in [PageId -> SUBSET Row] /\ rows' \in [PageId -> SUBSET Row]
    BY DEF PagesHaveRoom, StorageInv, StorageTypes
<1>1. \A v \in Table : Listed(v)' = Listed(v) /\ Listed(v) \subseteq Extent
    BY IamTypes DEF Delete, iamVars, Listed, StorageInv, IamInv
<1>2. \A p \in PageId :
          rows'[p] = IF ExtentOf(p) \in Listed(t) THEN rows[p] \ {r} ELSE rows[p]
    <2>1. rows' = [p \in PageId |-> IF p \in TablePages(t) THEN rows[p] \ {r} ELSE rows[p]]
        BY DEF Delete
    <2>2. TablePages(t) = {p \in PageId : ExtentOf(p) \in Listed(t)}
        BY <1>0, <1>1, RowsOfTable
    <2>3. QED
        BY <2>1, <2>2
<1>3. CASE u # t
    BY <1>1, <1>2, <1>3, OtherRowsStay
<1>4. CASE u = t
    <2>1. RowsOf(t) = RowsIn(rows, Listed(t)) /\ RowsOf(t)' = RowsIn(rows', Listed(t))
        BY <1>0, <1>1, RowsOfTable, RowsOfTableNext
    <2>2. RowsIn(rows', Listed(t)) = RowsIn(rows, Listed(t)) \ {r}
        BY <1>2 DEF RowsIn
    <2>3. QED
        BY <1>4, <2>1, <2>2
<1>5. QED
    BY <1>3, <1>4

\* Migration moves rows between the pages of the table and drops none.
LEMMA MigrateKeepsRows ==
    ASSUME StorageInv, PagesHaveRoom', NEW t \in Table, MigrateRows(t), NEW u \in Table
    PROVE  RowsOf(u)' = RowsOf(u)
<1>0. rows \in [PageId -> SUBSET Row] /\ rows' \in [PageId -> SUBSET Row]
    BY DEF PagesHaveRoom, StorageInv, StorageTypes
<1>1. \A v \in Table : Listed(v)' = Listed(v) /\ Listed(v) \subseteq Extent
    BY IamTypes DEF MigrateRows, iamVars, Listed, StorageInv, IamInv
<1>2. TablePages(t) = {p \in PageId : ExtentOf(p) \in Listed(t)}
    BY <1>0, <1>1, RowsOfTable
<1>3. PICK f \in Placements(t) :
          rows' = [p \in PageId |-> IF p \in TablePages(t) THEN {r \in RowsOf(t) : f[r] = p}
                                    ELSE rows[p]]
    BY DEF MigrateRows
<1>4. CASE u # t
    BY <1>1, <1>2, <1>3, <1>4, OtherRowsStay
<1>5. CASE u = t
    <2>1. RowsOf(t) = RowsIn(rows, Listed(t)) /\ RowsOf(t)' = RowsIn(rows', Listed(t))
        BY <1>0, <1>1, RowsOfTable, RowsOfTableNext
    <2>2. RowsOf(t) \subseteq Row /\ \A r \in RowsOf(t) : f[r] \in TablePages(t)
        BY <2>1 DEF RowsIn, Placements
    <2>3. \A p \in PageId : ExtentOf(p) \in Listed(t) =>
              rows'[p] = {r \in RowsOf(t) : f[r] = p}
        BY <1>2, <1>3
    <2>4. RowsIn(rows', Listed(t)) = RowsOf(t)
        BY <1>2, <2>2, <2>3 DEF RowsIn
    <2>5. QED
        BY <1>5, <2>1, <2>4
<1>6. QED
    BY <1>4, <1>5

\* An extent that is freed has no rows.
LEMMA FreeKeepsRows ==
    ASSUME StorageInv, PagesHaveRoom', NEW t \in Table, NEW e \in Extent,
           FreeExtent(t, e) \/ FreeExtentFails(t, e), NEW u \in Table
    PROVE  RowsOf(u)' = RowsOf(u)
<1>0. rows \in [PageId -> SUBSET Row] /\ rows' = rows
    BY DEF PagesHaveRoom, StorageInv, StorageTypes, FreeExtent, FreeExtentFails, dataVars
<1>1. Listed(u)' = (IF u = t THEN Listed(t) \ {e} ELSE Listed(u))
    BY RemoveEffect DEF FreeExtent, FreeExtentFails, StorageInv
<1>2. Listed(u) \subseteq Extent
    BY IamTypes DEF StorageInv, IamInv
<1>3. \A p \in PageId : ExtentOf(p) = e => rows[p] = {}
    BY PagesOfExtent DEF FreeExtent, FreeExtentFails, AllEmpty
<1>4. RowsOf(u) = RowsIn(rows, Listed(u)) /\ RowsOf(u)' = RowsIn(rows, Listed(u)')
    BY <1>0, <1>1, <1>2, RowsOfTable, RowsOfTableNext
<1>5. RowsIn(rows, Listed(u) \ {e}) = RowsIn(rows, Listed(u))
    BY <1>3 DEF RowsIn
<1>6. QED
    BY <1>1, <1>4, <1>5

\* Every statement keeps in each table what was put there.
LEMMA RowsStep ==
    ASSUME StorageInv, PagesHaveRoom', TablesKeepTheirRows, StorageNext
    PROVE  TablesKeepTheirRows'
<1> SUFFICES ASSUME ~strayed', NEW u \in Table PROVE RowsOf(u)' = kept'[u]
    BY DEF TablesKeepTheirRows
<1>0. kept \in [Table -> SUBSET Row] /\ strayed \in BOOLEAN
    BY DEF StorageInv, StorageTypes, OtherTypes
<1>1. ASSUME ~strayed PROVE \A v \in Table : RowsOf(v) = kept[v]
    BY <1>1 DEF TablesKeepTheirRows
<1>2. ASSUME NEW t \in Table, NEW r \in Row, NEW p \in PageId, InsertIntoFound(t, r, p)
      PROVE  RowsOf(u)' = kept'[u]
    <2>1. ~strayed /\ kept' = [kept EXCEPT ![t] = @ \cup {r}]
        BY <1>2 DEF InsertIntoFound, Idle, Put
    <2>2. RowsOf(u)' = IF u = t THEN RowsOf(t) \cup {r} ELSE RowsOf(u)
        BY <1>2, InsertRows
    <2>3. QED
        BY <1>0, <1>1, <2>1, <2>2
<1>3. ASSUME NEW t \in Table, NEW r \in Row, InsertIntoNewExtent(t, r)
      PROVE  RowsOf(u)' = kept'[u]
    <2>1. ~strayed /\ kept' = [kept EXCEPT ![t] = @ \cup {r}]
        BY <1>3 DEF InsertIntoNewExtent, Idle
    <2>2. RowsOf(u)' = IF u = t THEN RowsOf(t) \cup {r} ELSE RowsOf(u)
        BY <1>3, InsertNewRows
    <2>3. QED
        BY <1>0, <1>1, <2>1, <2>2
<1>4. ASSUME NEW t \in Table, NEW r \in Row, Delete(t, r) PROVE RowsOf(u)' = kept'[u]
    <2>1. ~strayed /\ kept' = [kept EXCEPT ![t] = @ \ {r}]
        BY <1>4 DEF Delete, Idle
    <2>2. RowsOf(u)' = IF u = t THEN RowsOf(t) \ {r} ELSE RowsOf(u)
        BY <1>4, DeleteRows
    <2>3. QED
        BY <1>0, <1>1, <2>1, <2>2
<1>5. ASSUME NEW t \in Table, MigrateRows(t) PROVE RowsOf(u)' = kept'[u]
    <2>1. ~strayed /\ kept' = kept
        BY <1>5 DEF MigrateRows, Idle
    <2>2. QED
        BY <1>1, <1>5, <2>1, MigrateKeepsRows
<1>6. ASSUME NEW t \in Table, NEW e \in Extent, FreeExtent(t, e) \/ FreeExtentFails(t, e)
      PROVE  RowsOf(u)' = kept'[u]
    <2>1. ~strayed /\ kept' = kept
        BY <1>6 DEF FreeExtent, FreeExtentFails, dataVars
    <2>2. QED
        BY <1>1, <1>6, <2>1, FreeKeepsRows
<1>7. ASSUME \A v \in Table : Listed(v)' = Listed(v), UNCHANGED dataVars
      PROVE  RowsOf(u)' = kept'[u]
    BY <1>1, <1>7 DEF RowsOf, TablePages, dataVars
<1>8. ASSUME NEW t \in Table, CreateTable(t) PROVE RowsOf(u)' = kept'[u]
    BY <1>7, <1>8, CreateIamChainEffect DEF CreateTable, StorageInv
<1>9. ASSUME NEW t \in Table, CreateTableFails(t) \/ InsertFails(t)
      PROVE  RowsOf(u)' = kept'[u]
    BY <1>7, <1>9, NothingLinked DEF CreateTableFails, InsertFails, SameExtents, StorageInv
<1>10. CASE EndCompaction \/ Reopen
    BY <1>7, <1>10 DEF EndCompaction, Reopen, Restart, iamVars, Listed
<1>11. QED
    BY <1>2, <1>3, <1>4, <1>5, <1>6, <1>8, <1>9, <1>10 DEF StorageNext

\* A table has the rows that were inserted into it and not deleted, whatever
\* the other tables take, free and format, until a row follows a stale hint.
THEOREM RowsAreKept == StorageSpec => []TablesKeepTheirRows
<1>1. StorageInit => TablesKeepTheirRows
    <2> SUFFICES ASSUME StorageInit, NEW t \in Table PROVE RowsOf(t) = {}
        BY DEF StorageInit, TablesKeepTheirRows
    <2>1. Listed(t) = {}
        BY NoChains DEF StorageInit
    <2>2. QED
        BY <2>1 DEF RowsOf, TablePages, PagesIn
<1>2. /\ TablesKeepTheirRows /\ StorageInv /\ StorageInv'
      /\ [StorageNext]_allVars
      => TablesKeepTheirRows'
    <2> SUFFICES ASSUME TablesKeepTheirRows, StorageInv, StorageInv', [StorageNext]_allVars
                 PROVE  TablesKeepTheirRows'
        OBVIOUS
    <2>1. CASE StorageNext
        BY <2>1, RowsStep DEF StorageInv, StorageTypes
    <2>2. CASE UNCHANGED allVars
        <3>1. /\ \A t \in Table : Listed(t)' = Listed(t)
              /\ rows' = rows /\ kept' = kept /\ strayed' = strayed
            BY <2>2 DEF Listed, allVars, iamVars, dataVars
        <3>2. \A t \in Table : RowsOf(t)' = RowsOf(t)
            BY <3>1 DEF RowsOf, TablePages
        <3>3. QED
            BY <3>1, <3>2 DEF TablesKeepTheirRows
    <2>3. QED
        BY <2>1, <2>2
<1>3. QED
    BY <1>1, <1>2, StorageInvariance, PTL DEF StorageSpec
=============================================================================
