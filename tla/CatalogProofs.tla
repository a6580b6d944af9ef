---------------------------- MODULE CatalogProofs ----------------------------
(***************************************************************************)
(* The invariants of the catalog and what a reopened database finds, for   *)
(* every set of names and of columns, every size of pages and extents, and *)
(* as many creations as there are oids.                                    *)
(***************************************************************************)
EXTENDS Catalog, CommonLemmas, FunctionTheorems

-----------------------------------------------------------------------------
(* The order of a scan *)

Place == Nat \X Nat

\* Places are totally ordered.
LEMMA EarlierIsTotal ==
    /\ \A a \in Place : ~Earlier(a, a)
    /\ \A a, b \in Place : a # b => Earlier(a, b) \/ Earlier(b, a)
    /\ \A a, b, c \in Place : Earlier(a, b) /\ Earlier(b, c) => Earlier(a, c)
<1>1. \A a \in Place : a[1] \in Nat /\ a[2] \in Nat /\ a = <<a[1], a[2]>>
    BY DEF Place
<1>2. ASSUME NEW a \in Place, NEW b \in Place, a # b PROVE Earlier(a, b) \/ Earlier(b, a)
    <2>1. a[1] # b[1] \/ a[2] # b[2]
        BY <1>1, <1>2
    <2>2. QED
        BY <1>1, <2>1 DEF Earlier
<1>3. \A a \in Place : ~Earlier(a, a)
    BY <1>1 DEF Earlier
<1>4. \A a, b, c \in Place : Earlier(a, b) /\ Earlier(b, c) => Earlier(a, c)
    BY <1>1 DEF Earlier
<1>5. QED
    BY <1>2, <1>3, <1>4

\* Before has fewer places the earlier the place is.
LEMMA BeforeGrows ==
    ASSUME NEW S \in SUBSET Place, IsFiniteSet(S), NEW a \in S
    PROVE  /\ Cardinality(Before(S, a)) \in 0..(Cardinality(S) - 1)
           /\ \A b \in S : Earlier(a, b) => Cardinality(Before(S, a)) < Cardinality(Before(S, b))
<1>1. \A b \in S : /\ Before(S, b) \in SUBSET S
                   /\ IsFiniteSet(Before(S, b))
                   /\ Cardinality(Before(S, b)) \in Nat
                   /\ Cardinality(Before(S, b)) <= Cardinality(S)
                   /\ Cardinality(S) = Cardinality(Before(S, b)) => S = Before(S, b)
    <2>1. \A b \in S : Before(S, b) \in SUBSET S
        BY DEF Before
    <2>2. QED
        BY <2>1, FS_Subset, FS_CardinalityType
<1>2. Cardinality(S) \in Nat
    BY FS_CardinalityType
<1>3. a \notin Before(S, a)
    BY EarlierIsTotal DEF Before
<1>4. Cardinality(Before(S, a)) # Cardinality(S)
    BY <1>1, <1>3
<1>5. ASSUME NEW b \in S, Earlier(a, b)
      PROVE  Cardinality(Before(S, a)) < Cardinality(Before(S, b))
    <2>1. Before(S, a) \in SUBSET Before(S, b)
        BY <1>5, EarlierIsTotal DEF Before
    <2>2. a \in Before(S, b)
        BY <1>5 DEF Before
    <2>3. /\ Cardinality(Before(S, a)) <= Cardinality(Before(S, b))
          /\ Cardinality(Before(S, b)) = Cardinality(Before(S, a))
                => Before(S, b) = Before(S, a)
        BY <1>1, <2>1, FS_Subset
    <2>4. QED
        BY <1>1, <1>3, <2>2, <2>3
<1>6. QED
    BY <1>1, <1>2, <1>4, <1>5

\* Nth numbers the places of a finite set.
LEMMA NthIsBijection ==
    ASSUME NEW S \in SUBSET Place, IsFiniteSet(S)
    PROVE  /\ Cardinality(S) \in Nat
           /\ [i \in 1..Cardinality(S) |-> Nth(S, i)] \in Bijection(1..Cardinality(S), S)
<1> DEFINE n    == Cardinality(S)
           rank == [a \in S |-> Cardinality(Before(S, a))]
           nth  == [i \in 1..n |-> Nth(S, i)]
<1>1. n \in Nat
    BY FS_CardinalityType
<1>2. rank \in [S -> 0..(n - 1)]
    BY BeforeGrows
<1>3. \A a, b \in S : rank[a] = rank[b] => a = b
    <2>1. \A a, b \in S : a # b => Earlier(a, b) \/ Earlier(b, a)
        BY EarlierIsTotal
    <2>2. \A a, b \in S : Earlier(a, b) => rank[a] < rank[b]
        BY BeforeGrows
    <2>3. \A a \in S : rank[a] \in Nat
        BY <1>1, <1>2
    <2> HIDE DEF rank
    <2>4. QED
        BY <2>1, <2>2, <2>3
<1>4. \A k \in 0..(n - 1) : \E a \in S : rank[a] = k
    <2> HIDE DEF rank, n
    <2>1. rank \in Injection(S, 0..(n - 1))
        BY <1>2, <1>3, Fun_IsInj
    <2>2. IsFiniteSet(0..(n - 1)) /\ Cardinality(0..(n - 1)) = n
        <3>1. /\ 0 \in Int /\ n - 1 \in Int
              /\ (IF 0 > n - 1 THEN 0 ELSE (n - 1) - 0 + 1) = n
            BY <1>1
        <3>2. QED
            BY <3>1, FS_Interval
    <2>3. rank \in Surjection(S, 0..(n - 1))
        BY <2>1, <2>2, FS_Injection DEF n
    <2>4. \A k \in 0..(n - 1) : \E a \in S : rank[a] = k
        <3> DEFINE T == 0..(n - 1)
        <3> HIDE DEF T, nth
        <3>1. rank \in Surjection(S, T)
            BY <2>3 DEF T
        <3>2. \A k \in T : \E a \in S : rank[a] = k
            BY <3>1, Fun_SurjectionProperties
        <3>3. QED
            BY <3>2 DEF T
    <2>5. QED
        BY <2>4
<1>5. \A i \in 1..n : Nth(S, i) \in S /\ rank[Nth(S, i)] = i - 1
    <2>1. \A i \in 1..n : i - 1 \in 0..(n - 1)
        BY <1>1
    <2>2. \A i \in 1..n : \E a \in S : Cardinality(Before(S, a)) = i - 1
        BY <1>4, <2>1
    <2> HIDE DEF n
    <2>3. QED
        BY <2>2 DEF Nth
<1>6. \A a \in S : rank[a] + 1 \in 1..n /\ (rank[a] + 1) - 1 = rank[a]
    <2> HIDE DEF rank, n
    <2>1. QED
        BY <1>1, <1>2
<1>7. \A a \in S : Nth(S, rank[a] + 1) = a
    <2> HIDE DEF rank, n
    <2>1. SUFFICES ASSUME NEW a \in S PROVE Nth(S, rank[a] + 1) = a
        OBVIOUS
    <2>2. Nth(S, rank[a] + 1) \in S /\ rank[Nth(S, rank[a] + 1)] = (rank[a] + 1) - 1
        BY <1>5, <1>6
    <2>3. rank[Nth(S, rank[a] + 1)] = rank[a]
        BY <1>6, <2>2
    <2>4. QED
        BY <1>3, <2>2, <2>3
<1>8. \A i, j \in 1..n : Nth(S, i) = Nth(S, j) => i = j
    <2> HIDE DEF rank, n
    <2>1. \A i, j \in 1..n : Nth(S, i) = Nth(S, j) => i - 1 = j - 1
        BY <1>5
    <2>2. QED
        BY <1>1, <2>1
<1>9. /\ nth \in [1..n -> S]
      /\ \A i, j \in 1..n : nth[i] = nth[j] => i = j
      /\ \A a \in S : \E i \in 1..n : nth[i] = a
    <2> HIDE DEF rank, n
    <2>1. QED
        BY <1>5, <1>6, <1>7, <1>8
<1>10. QED
    <2> HIDE DEF n, nth
    <2>1. nth \in Bijection(1..n, S)
        BY <1>9, Fun_IsBij
    <2>2. QED
        BY <1>1, <2>1 DEF nth, n

\* Numbering the members of a set keeps the size of its subsets.
LEMMA NumberedSubset ==
    ASSUME NEW S, NEW n \in Nat, NEW f \in Bijection(1..n, S), NEW P \in SUBSET S
    PROVE  Cardinality({i \in 1..n : f[i] \in P}) = Cardinality(P)
<1> DEFINE I == {i \in 1..n : f[i] \in P}
           g == [i \in I |-> f[i]]
<1>1. IsFiniteSet(I)
    <2>1. IsFiniteSet(1..n)
        BY FS_Interval
    <2>2. I \in SUBSET (1..n)
        OBVIOUS
    <2> HIDE DEF I
    <2>3. QED
        BY <2>1, <2>2, FS_Subset
<1>2. /\ f \in [1..n -> S]
      /\ \A i, j \in 1..n : f[i] = f[j] => i = j
      /\ \A a \in S : \E i \in 1..n : f[i] = a
    BY Fun_BijectionProperties
<1>3. /\ g \in [I -> P]
      /\ \A i, j \in I : g[i] = g[j] => i = j
      /\ \A a \in P : \E i \in I : g[i] = a
    BY <1>2
<1> HIDE DEF I, g
<1>4. g \in Bijection(I, P)
    BY <1>3, Fun_IsBij
<1>5. ExistsBijection(I, P)
    BY <1>4 DEF ExistsBijection
<1>6. Cardinality(P) = Cardinality(I)
    BY <1>1, <1>5, FS_Bijection
<1>7. QED
    BY <1>6 DEF I

\* The rows of a scan, counted by what they hold, are those of the set.
LEMMA CountInOrder ==
    ASSUME NEW S \in SUBSET Place, IsFiniteSet(S), NEW P \in SUBSET S
    PROVE  Cardinality({i \in 1..Cardinality(S) : Nth(S, i) \in P}) = Cardinality(P)
<1> DEFINE n == Cardinality(S)
           f == [i \in 1..n |-> Nth(S, i)]
<1>1. n \in Nat /\ f \in Bijection(1..n, S)
    BY NthIsBijection
<1>2. {i \in 1..n : f[i] \in P} = {i \in 1..n : Nth(S, i) \in P}
    OBVIOUS
<1> HIDE DEF n, f
<1>3. Cardinality({i \in 1..n : f[i] \in P}) = Cardinality(P)
    BY <1>1, NumberedSubset
<1>4. QED
    BY <1>2, <1>3 DEF n

\* The first place of a set that has one, and the only place of one that has
\* only one.
LEMMA FirstPlace ==
    ASSUME NEW S \in SUBSET Place, IsFiniteSet(S), S # {}
    PROVE  Nth(S, 1) \in S
<1> DEFINE n == Cardinality(S)
           f == [i \in 1..n |-> Nth(S, i)]
<1>1. n \in Nat /\ f \in Bijection(1..n, S) /\ n # 0
    BY NthIsBijection, FS_EmptySet
<1>2. 1 \in 1..n
    <2> HIDE DEF n
    <2>1. QED
        BY <1>1
<1>3. f[1] = Nth(S, 1)
    <2> HIDE DEF n
    <2>1. QED
        BY <1>2
<1>4. QED
    <2> HIDE DEF n, f
    <2>1. f \in [1..n -> S]
        BY <1>1, Fun_BijectionProperties
    <2>2. QED
        BY <1>2, <1>3, <2>1

-----------------------------------------------------------------------------
(* The system tables *)

SysTableRows  == [oid : Nat, name : Name, iam : Nat, width : {1}]
SysColumnRows == [oid : Nat, name : ColumnName, width : 1..PAGE_ROOM]

PageOf(R)  == [rows : Seq(R), room : 0..PAGE_ROOM]
TableOf(R) == {t \in [pages : Seq(PageOf(R)), hint : Nat] :
                  Len(t.pages) % EXTENT_SIZE = 0 /\ t.hint <= Len(t.pages)}

\* What the constants are.
LEMMA Constants ==
    /\ EXTENT_SIZE \in Nat \ {0} /\ PAGE_ROOM \in Nat \ {0} /\ MaxCreations \in Nat
    /\ MAX_COLUMNS \in Nat
    /\ \A c \in Column : c.name \in ColumnName /\ c.width \in 1..PAGE_ROOM
<1>1. /\ {EXTENT_SIZE, PAGE_ROOM} \subseteq Nat \ {0}
      /\ {MAX_COLUMNS, MaxCreations} \subseteq Nat
      /\ Column \subseteq [name : ColumnName, width : 1..PAGE_ROOM]
    BY CatalogAssumption
<1>2. \A c \in Column : c \in [name : ColumnName, width : 1..PAGE_ROOM]
    BY <1>1
<1>3. \A c \in Column : c.name \in ColumnName /\ c.width \in 1..PAGE_ROOM
    BY <1>2
<1>4. QED
    BY <1>1, <1>3

\* The fields of a table and of its pages.
LEMMA TableFacts ==
    ASSUME NEW R, NEW table \in TableOf(R)
    PROVE  /\ table.pages \in Seq(PageOf(R))
           /\ table.pages \in [1..Len(table.pages) -> PageOf(R)]
           /\ Len(table.pages) \in Nat
           /\ DOMAIN table.pages = 1..Len(table.pages)
           /\ table.hint \in 0..Len(table.pages)
           /\ \A p \in 1..Len(table.pages) :
                 /\ table.pages[p] \in PageOf(R)
                 /\ table.pages[p].rows \in Seq(R)
                 /\ Len(table.pages[p].rows) \in Nat
                 /\ DOMAIN table.pages[p].rows = 1..Len(table.pages[p].rows)
                 /\ table.pages[p].room \in 0..PAGE_ROOM
<1>1. table \in [pages : Seq(PageOf(R)), hint : Nat] /\ table.hint <= Len(table.pages)
    BY DEF TableOf
<1>2. table.pages \in Seq(PageOf(R)) /\ table.hint \in Nat
    BY <1>1
<1>3. /\ Len(table.pages) \in Nat /\ DOMAIN table.pages = 1..Len(table.pages)
      /\ table.pages \in [1..Len(table.pages) -> PageOf(R)]
    BY <1>2, LenProperties
<1>4. \A p \in 1..Len(table.pages) : table.pages[p] \in PageOf(R)
    BY <1>3
<1>5. \A p \in 1..Len(table.pages) : /\ table.pages[p].rows \in Seq(R)
                                     /\ table.pages[p].room \in 0..PAGE_ROOM
    BY <1>4 DEF PageOf
<1>6. \A p \in 1..Len(table.pages) :
          /\ Len(table.pages[p].rows) \in Nat
          /\ DOMAIN table.pages[p].rows = 1..Len(table.pages[p].rows)
    BY <1>5, LenProperties
<1>7. table.hint \in 0..Len(table.pages)
    BY <1>1, <1>2, <1>3
<1>8. QED
    BY <1>2, <1>3, <1>4, <1>5, <1>6, <1>7

\* Where the rows of a table are.
LEMMA PlacesFacts ==
    ASSUME NEW R, NEW table \in TableOf(R), NEW lost
    PROVE  /\ Places(table, lost) \subseteq Places(table, {})
           /\ Places(table, lost) \subseteq Place
           /\ \A at \in Places(table, lost) : RowAt(table, at) \in R
           /\ \A p, i : <<p, i>> \in Places(table, lost)
                 <=> /\ p \in 1..Len(table.pages) /\ p \notin lost
                     /\ i \in 1..Len(table.pages[p].rows)
<1> DEFINE Pgs == 1..Len(table.pages)
           Rws(p) == 1..Len(table.pages[p].rows)
<1>1. /\ DOMAIN table.pages = Pgs /\ Len(table.pages) \in Nat
      /\ \A p \in Pgs : /\ DOMAIN table.pages[p].rows = Rws(p)
                        /\ Len(table.pages[p].rows) \in Nat
                        /\ table.pages[p].rows \in Seq(R)
    BY TableFacts
<1>2. Pgs \subseteq Nat /\ \A p \in Pgs : Rws(p) \subseteq Nat
    BY <1>1
<1>3. \A p \in Pgs, i \in Nat : i \in Rws(p) => table.pages[p].rows[i] \in R
    BY <1>1, ElementOfSeq
<1> HIDE DEF Pgs, Rws
<1>4. \A L : Places(table, L) = UNION {{<<p, i>> : i \in Rws(p)} : p \in Pgs \ L}
    BY <1>1 DEF Places
<1>5. \A L, p, i : <<p, i>> \in Places(table, L) <=> p \in Pgs /\ p \notin L /\ i \in Rws(p)
    BY <1>4
<1>6. \A L : \A at \in Places(table, L) :
          \E p \in Pgs \ L : \E i \in Rws(p) : at = <<p, i>>
    BY <1>4
<1>7. ASSUME NEW at \in Places(table, lost)
      PROVE  at \in Places(table, {}) /\ at \in Place /\ RowAt(table, at) \in R
    <2>1. PICK p \in Pgs \ lost : \E i \in Rws(p) : at = <<p, i>>
        BY <1>6
    <2>2. PICK i \in Rws(p) : at = <<p, i>>
        BY <2>1
    <2>3. p \in Nat /\ i \in Nat /\ at[1] = p /\ at[2] = i
        BY <1>2, <2>1, <2>2
    <2>4. QED
        BY <1>3, <1>5, <2>1, <2>2, <2>3 DEF Place, RowAt
<1>8. QED
    BY <1>5, <1>7 DEF Pgs, Rws

\* Only the pages decide where rows are.
LEMMA SamePages ==
    ASSUME NEW old, NEW new, new.pages = old.pages
    PROVE  /\ \A lost : Places(new, lost) = Places(old, lost)
           /\ \A at : RowAt(new, at) = RowAt(old, at)
BY DEF Places, RowAt

\* Two tables with the same places.
LEMMA SamePlaces ==
    ASSUME NEW R, NEW old \in TableOf(R), NEW new \in TableOf(R),
           \A p, i : <<p, i>> \in Places(new, {}) <=> <<p, i>> \in Places(old, {})
    PROVE  Places(new, {}) = Places(old, {})
<1>1. /\ Places(old, {}) \subseteq Place
      /\ Places(new, {}) \subseteq Place
    BY PlacesFacts
<1>2. \A at \in Place : at = <<at[1], at[2]>>
    BY DEF Place
<1>3. \A at \in Place : at \in Places(new, {}) <=> at \in Places(old, {})
    BY <1>2
<1>4. QED
    BY <1>1, <1>3

\* initialize_data_extent, finished or not, makes pages without rows.
LEMMA ExtentFacts ==
    ASSUME NEW R, NEW n \in 0..EXTENT_SIZE
    PROVE  /\ FormattedTo(n) \in Seq(PageOf(R))
           /\ Len(FormattedTo(n)) = EXTENT_SIZE
           /\ \A k \in 1..EXTENT_SIZE : FormattedTo(n)[k].rows = <<>>
           /\ EmptyExtent = FormattedTo(EXTENT_SIZE)
           /\ EmptyExtent[1].room = PAGE_ROOM
<1>1. EXTENT_SIZE \in Nat /\ PAGE_ROOM \in Nat /\ 1 \in 1..EXTENT_SIZE /\ 1 <= EXTENT_SIZE
    BY Constants
<1>2. EmptyPage \in PageOf(R) /\ NotFormatted \in PageOf(R)
    <2>1. <<>> \in Seq(R) /\ PAGE_ROOM \in 0..PAGE_ROOM /\ 0 \in 0..PAGE_ROOM
        BY <1>1, EmptySeq
    <2>2. QED
        BY <2>1 DEF PageOf, EmptyPage, NotFormatted
<1>3. FormattedTo(n) \in [1..EXTENT_SIZE -> PageOf(R)]
    BY <1>2 DEF FormattedTo
<1>4. FormattedTo(n) \in Seq(PageOf(R)) /\ Len(FormattedTo(n)) = EXTENT_SIZE
    BY <1>1, <1>3
<1>5. \A k \in 1..EXTENT_SIZE : FormattedTo(n)[k].rows = <<>>
    BY DEF FormattedTo, EmptyPage, NotFormatted
<1>6. EmptyExtent[1].room = PAGE_ROOM
    BY <1>1 DEF EmptyExtent, FormattedTo, EmptyPage
<1>7. QED
    BY <1>4, <1>5, <1>6 DEF EmptyExtent

\* A table with one more extent, of which n pages are formatted.
Grown(table, n, hint) == [pages |-> table.pages \o FormattedTo(n), hint |-> hint]

\* An extent that is added, formatted or not, adds no rows.
LEMMA GrownTable ==
    ASSUME NEW R, NEW table \in TableOf(R), NEW n \in 0..EXTENT_SIZE,
           NEW hint \in 0..(Len(table.pages) + EXTENT_SIZE)
    PROVE  /\ Grown(table, n, hint) \in TableOf(R)
           /\ Len(Grown(table, n, hint).pages) = Len(table.pages) + EXTENT_SIZE
           /\ \A p \in 1..Len(table.pages) :
                 Grown(table, n, hint).pages[p] = table.pages[p]
           /\ n = EXTENT_SIZE =>
                 Grown(table, n, hint).pages[Len(table.pages) + 1].room = PAGE_ROOM
           /\ Places(Grown(table, n, hint), {}) = Places(table, {})
           /\ \A at \in Places(table, {}) :
                 RowAt(Grown(table, n, hint), at) = RowAt(table, at)
<1> DEFINE grown == [pages |-> table.pages \o FormattedTo(n), hint |-> hint]
           len == Len(table.pages)
<1>1. /\ len \in Nat /\ EXTENT_SIZE \in Nat \ {0} /\ table.pages \in Seq(PageOf(R))
    BY TableFacts, Constants
<1>2. /\ FormattedTo(n) \in Seq(PageOf(R))
      /\ Len(FormattedTo(n)) = EXTENT_SIZE
      /\ \A k \in 1..EXTENT_SIZE : FormattedTo(n)[k].rows = <<>>
      /\ n = EXTENT_SIZE => FormattedTo(n)[1].room = PAGE_ROOM
    BY ExtentFacts
<1>3. /\ grown.pages \in Seq(PageOf(R))
      /\ Len(grown.pages) = len + EXTENT_SIZE
      /\ \A p \in 1..(len + EXTENT_SIZE) :
            grown.pages[p] = IF p <= len THEN table.pages[p] ELSE FormattedTo(n)[p - len]
    <2> DEFINE P == PageOf(R)
               s == table.pages
               e == FormattedTo(n)
    <2> HIDE DEF P, s, e
    <2>1. s \in Seq(P) /\ e \in Seq(P) /\ Len(e) = EXTENT_SIZE /\ Len(s) = len
        BY <1>1, <1>2 DEF P, s, e, len
    <2>2. /\ s \o e \in Seq(P) /\ Len(s \o e) = Len(s) + Len(e)
          /\ \A p \in 1..(Len(s) + Len(e)) :
                (s \o e)[p] = IF p <= Len(s) THEN s[p] ELSE e[p - Len(s)]
        BY <2>1, ConcatProperties
    <2>3. grown.pages = s \o e
        BY DEF s, e
    <2> HIDE DEF grown, len
    <2>4. /\ grown.pages \in Seq(P) /\ Len(grown.pages) = len + EXTENT_SIZE
          /\ \A p \in 1..(len + EXTENT_SIZE) :
                grown.pages[p] = IF p <= len THEN s[p] ELSE e[p - len]
        BY <2>1, <2>2, <2>3
    <2>5. QED
        BY <2>4 DEF P, s, e
<1>4. grown.hint = hint /\ grown = [pages |-> grown.pages, hint |-> hint]
    OBVIOUS
<1>5. (len + EXTENT_SIZE) % EXTENT_SIZE = 0
    <2> HIDE DEF len
    <2> DEFINE q == len \div EXTENT_SIZE
               r == len % EXTENT_SIZE
    <2>1. r = 0
        BY DEF TableOf, len
    <2>2. q \in Nat /\ len = q * EXTENT_SIZE + r
        BY <1>1, Division
    <2> HIDE DEF q, r
    <2>3. len + EXTENT_SIZE = (q + 1) * EXTENT_SIZE + 0
        BY <1>1, <2>1, <2>2, Products
    <2>4. q + 1 \in Nat /\ 0 \in 0..(EXTENT_SIZE - 1) /\ len + EXTENT_SIZE \in Nat
        BY <1>1, <2>2
    <2>5. QED
        BY <1>1, <2>3, <2>4, DivisionUnique
<1> HIDE DEF grown, len
<1>6. grown \in TableOf(R)
    <2>1. hint \in Nat /\ hint <= len + EXTENT_SIZE
        BY <1>1 DEF len
    <2>2. QED
        BY <1>3, <1>4, <1>5, <2>1 DEF TableOf
<1>7. \A p \in 1..len : p \in 1..(len + EXTENT_SIZE) /\ p <= len
    BY <1>1
<1>8. \A p \in 1..len : grown.pages[p] = table.pages[p]
    BY <1>3, <1>7
<1>9. \A p \in 1..(len + EXTENT_SIZE) : p \notin 1..len =>
            grown.pages[p] = FormattedTo(n)[p - len] /\ p - len \in 1..EXTENT_SIZE
    BY <1>1, <1>3
<1>10. \A p \in 1..(len + EXTENT_SIZE) : p \notin 1..len => grown.pages[p].rows = <<>>
    BY <1>2, <1>9
<1>11. n = EXTENT_SIZE => grown.pages[len + 1].room = PAGE_ROOM
    <2>1. len + 1 \in 1..(len + EXTENT_SIZE) /\ len + 1 \notin 1..len /\ (len + 1) - len = 1
        BY <1>1
    <2>2. QED
        BY <1>2, <1>9, <2>1
<1>12. \A p, i : <<p, i>> \in Places(grown, {}) <=> <<p, i>> \in Places(table, {})
    <2>1. \A p, i : <<p, i>> \in Places(grown, {})
                       <=> p \in 1..(len + EXTENT_SIZE) /\ i \in 1..Len(grown.pages[p].rows)
        BY <1>3, <1>6, PlacesFacts
    <2>2. \A p, i : <<p, i>> \in Places(table, {})
                       <=> p \in 1..len /\ i \in 1..Len(table.pages[p].rows)
        BY PlacesFacts DEF len
    <2>3. Len(<<>>) = 0 /\ 1..0 = {}
        OBVIOUS
    <2>4. QED
        BY <1>7, <1>8, <1>10, <2>1, <2>2, <2>3
<1>13. Places(grown, {}) = Places(table, {})
    BY <1>6, <1>12, SamePlaces
<1>14. \A at \in Places(table, {}) : RowAt(grown, at) = RowAt(table, at)
    <2>1. ASSUME NEW at \in Places(table, {}) PROVE RowAt(grown, at) = RowAt(table, at)
        <3>1. at \in Place
            BY PlacesFacts
        <3>2. at = <<at[1], at[2]>>
            BY <3>1 DEF Place
        <3>3. at[1] \in 1..len
            BY <3>2, PlacesFacts DEF len
        <3>4. QED
            BY <1>8, <3>3 DEF RowAt
    <2>2. QED
        BY <2>1
<1>15. Grown(table, n, hint) = grown
    BY DEF grown, Grown
<1>16. QED
    BY <1>3, <1>6, <1>8, <1>11, <1>13, <1>14, <1>15 DEF len

\* A table with one more row, at a place of its own.
OneMore(old, new, row) ==
    \E at \in Place :
        /\ at \notin Places(old, {})
        /\ Places(new, {}) = Places(old, {}) \cup {at}
        /\ RowAt(new, at) = row
        /\ \A b \in Places(old, {}) : RowAt(new, b) = RowAt(old, b)

\* insert_tuple puts the row behind the others of the page.
LEMMA AppendedRow ==
    ASSUME NEW R, NEW table \in TableOf(R), NEW p \in 1..Len(table.pages), NEW row \in R,
           row.width \in Nat, row.width <= table.pages[p].room
    PROVE  LET new == [pages |-> [table.pages EXCEPT ![p].rows = Append(@, row),
                                                     ![p].room = @ - row.width],
                       hint  |-> p]
           IN  new \in TableOf(R) /\ OneMore(table, new, row)
<1> DEFINE pages == [table.pages EXCEPT ![p].rows = Append(@, row),
                                        ![p].room = @ - row.width]
           new  == [pages |-> pages, hint |-> p]
           page == table.pages[p]
           full == [rows |-> Append(page.rows, row), room |-> page.room - row.width]
           len  == Len(table.pages)
           k    == Len(page.rows)
           at   == <<p, k + 1>>
<1>1. /\ table.pages \in Seq(PageOf(R)) /\ table.pages \in [1..len -> PageOf(R)]
      /\ len \in Nat /\ p \in 1..len /\ p \in Nat
      /\ page \in PageOf(R) /\ page.rows \in Seq(R) /\ k \in Nat
      /\ page.room \in 0..PAGE_ROOM
    BY TableFacts
<1>2. pages = [table.pages EXCEPT ![p] = full]
    <2>1. page = [rows |-> page.rows, room |-> page.room]
        BY <1>1 DEF PageOf
    <2> DEFINE more == Append(page.rows, row)
               one  == [page EXCEPT !.rows = more]
    <2>2. one = [rows |-> more, room |-> page.room]
        <3> HIDE DEF page, more
        <3>1. QED
            BY <2>1
    <2>3. [one EXCEPT !.room = one.room - row.width] = full
        <3>1. full = [rows |-> more, room |-> page.room - row.width]
            OBVIOUS
        <3> HIDE DEF page, one, more, full
        <3>2. one.room = page.room
            BY <2>2
        <3> DEFINE rest == page.room - row.width
        <3> HIDE DEF rest
        <3>3. [one EXCEPT !.room = rest] = [rows |-> more, room |-> rest]
            BY <2>2
        <3>4. QED
            BY <3>1, <3>2, <3>3 DEF rest
    <2>4. pages = [table.pages EXCEPT ![p] = [one EXCEPT !.room = one.room - row.width]]
        BY <1>1
    <2>5. QED
        BY <2>3, <2>4
<1>3. /\ Append(page.rows, row) \in Seq(R) /\ Len(Append(page.rows, row)) = k + 1
      /\ \A i \in 1..k : Append(page.rows, row)[i] = page.rows[i]
      /\ Append(page.rows, row)[k + 1] = row
    BY <1>1, AppendProperties
<1>4. full \in PageOf(R) /\ Len(full.rows) = k + 1
    <2>1. page.room - row.width \in 0..PAGE_ROOM
        BY <1>1, Constants
    <2>2. QED
        BY <1>3, <2>1 DEF PageOf
<1>5. /\ pages \in Seq(PageOf(R)) /\ Len(pages) = len
      /\ pages[p] = full
      /\ \A q \in 1..len : q # p => pages[q] = table.pages[q]
    <2> HIDE DEF full, pages
    <2>1. QED
        BY <1>1, <1>2, <1>4, ExceptSeq
<1> HIDE DEF pages, full, page, len, k
<1>6. new \in TableOf(R)
    <2>1. len % EXTENT_SIZE = 0
        BY DEF TableOf, len
    <2>2. p \in Nat /\ p <= len
        BY <1>1
    <2>3. new.pages = pages /\ new.hint = p /\ new = [pages |-> pages, hint |-> p]
        OBVIOUS
    <2> HIDE DEF new
    <2>4. QED
        BY <1>5, <2>1, <2>2, <2>3 DEF TableOf
<1>7. new.pages = pages
    OBVIOUS
<1> HIDE DEF new
<1>8. \A q, i : <<q, i>> \in Places(new, {})
                   <=> <<q, i>> \in Places(table, {}) \/ (q = p /\ i = k + 1)
    <2>1. \A q, i : <<q, i>> \in Places(new, {})
                       <=> q \in 1..len /\ i \in 1..Len(pages[q].rows)
        BY <1>5, <1>6, <1>7, PlacesFacts
    <2>2. \A q, i : <<q, i>> \in Places(table, {})
                       <=> q \in 1..len /\ i \in 1..Len(table.pages[q].rows)
        <3>1. len = Len(table.pages)
            BY DEF len
        <3>2. QED
            BY <3>1, PlacesFacts
    <2>3. Len(pages[p].rows) = k + 1 /\ Len(table.pages[p].rows) = k
        BY <1>4, <1>5 DEF k, page
    <2>4. \A i : i \in 1..(k + 1) <=> i \in 1..k \/ i = k + 1
        BY <1>1
    <2>5. \A q \in 1..len : q # p => Len(pages[q].rows) = Len(table.pages[q].rows)
        BY <1>5
    <2>6. QED
        BY <1>1, <2>1, <2>2, <2>3, <2>4, <2>5
<1>9. /\ Places(table, {}) \subseteq Place /\ Places(new, {}) \subseteq Place
      /\ at \in Place /\ \A b \in Place : b = <<b[1], b[2]>>
      /\ at = <<p, k + 1>>
    <2>1. at \in Place
        BY <1>1 DEF Place
    <2>2. \A b \in Place : b = <<b[1], b[2]>>
        BY DEF Place
    <2>3. QED
        BY <1>6, <2>1, <2>2, PlacesFacts
<1>10. at \notin Places(table, {})
    <2>1. <<p, k + 1>> \in Places(table, {}) => k + 1 \in 1..Len(table.pages[p].rows)
        BY PlacesFacts
    <2>2. QED
        BY <1>1, <2>1 DEF k, page
<1> HIDE DEF at
<1>11. Places(new, {}) = Places(table, {}) \cup {at}
    <2>1. \A b \in Place : b \in Places(new, {}) <=> b \in Places(table, {}) \/ b = at
        BY <1>8, <1>9
    <2>2. QED
        BY <1>9, <2>1
<1>12. RowAt(new, at) = row
    <2>1. at[1] = p /\ at[2] = k + 1
        BY DEF at
    <2>2. full.rows = Append(page.rows, row)
        BY DEF full
    <2>3. QED
        BY <1>3, <1>5, <1>7, <2>1, <2>2 DEF RowAt
<1>13. ASSUME NEW b \in Places(table, {}) PROVE RowAt(new, b) = RowAt(table, b)
    <2>1. b[1] \in 1..len /\ b[2] \in 1..Len(table.pages[b[1]].rows)
        <3>1. <<b[1], b[2]>> \in Places(table, {})
            BY <1>9
        <3>2. QED
            BY <3>1, PlacesFacts DEF len
    <2>2. CASE b[1] = p
        <3>1. b[2] \in 1..k /\ full.rows = Append(page.rows, row)
            BY <2>1, <2>2 DEF k, page, full
        <3>2. pages[b[1]].rows = Append(page.rows, row)
            BY <1>5, <2>2, <3>1
        <3>3. Append(page.rows, row)[b[2]] = page.rows[b[2]]
            BY <1>3, <3>1
        <3>4. QED
            BY <1>7, <2>2, <3>2, <3>3 DEF RowAt, page
    <2>3. CASE b[1] # p
        BY <1>5, <1>7, <2>1, <2>3 DEF RowAt
    <2>4. QED
        BY <2>2, <2>3
<1>14. OneMore(table, new, row)
    BY <1>9, <1>10, <1>11, <1>12, <1>13 DEF OneMore
<1>15. QED
    BY <1>6, <1>14 DEF new, pages

\* insert_into_table, with a new extent or without.
LEMMA InsertedRow ==
    ASSUME NEW R, NEW table \in TableOf(R), NEW row \in R, row.width \in 1..PAGE_ROOM
    PROVE  InsertRow(table, row) \in TableOf(R) /\ OneMore(table, InsertRow(table, row), row)
<1> DEFINE p   == PageFor(table, row)
           len == Len(table.pages)
           fit == WithRoom(table, row)
<1>1. len \in Nat /\ DOMAIN table.pages = 1..len /\ EXTENT_SIZE \in Nat \ {0}
    BY TableFacts, Constants
<1>2. fit \in SUBSET Nat /\ \A q \in fit : q \in 1..len /\ row.width <= table.pages[q].room
    BY <1>1 DEF WithRoom
<1>3. p \in fit \/ p = len + 1
    <2> DEFINE near == fit \cap InHintExtent(table)
    <2>1. near \in SUBSET Nat /\ near \subseteq fit
        BY <1>2
    <2>2. p = (IF table.hint # 0 /\ near # {} THEN Min(near)
               ELSE IF fit # {} THEN Min(fit) ELSE len + 1)
        BY DEF PageFor
    <2> HIDE DEF near, fit, p, len
    <2>3. near # {} => Min(near) \in fit
        BY <2>1, MinIsLeast
    <2>4. fit # {} => Min(fit) \in fit
        BY <1>2, MinIsLeast
    <2>5. QED
        BY <2>2, <2>3, <2>4
<1>4. row.width \in Nat /\ row.width <= PAGE_ROOM
    BY Constants
<1>5. CASE p \in fit
    <2>1. p \in 1..len /\ row.width <= table.pages[p].room
        BY <1>2, <1>5
    <2> DEFINE new == [pages |-> [table.pages EXCEPT ![p].rows = Append(@, row),
                                                     ![p].room = @ - row.width],
                       hint  |-> p]
    <2>2. InsertRow(table, row) = new
        BY <1>1, <2>1 DEF InsertRow
    <2> HIDE DEF p
    <2>3. new \in TableOf(R) /\ OneMore(table, new, row)
        BY <1>4, <2>1, AppendedRow
    <2> HIDE DEF new
    <2>4. QED
        BY <2>2, <2>3
<1>6. CASE p = len + 1
    <2> DEFINE more == [pages |-> table.pages \o FormattedTo(EXTENT_SIZE), hint |-> 0]
               new  == [pages |-> [more.pages EXCEPT ![p].rows = Append(@, row),
                                                     ![p].room = @ - row.width],
                        hint  |-> p]
    <2>1. EXTENT_SIZE \in 0..EXTENT_SIZE /\ 0 \in 0..(len + EXTENT_SIZE)
        BY <1>1
    <2>2. /\ more \in TableOf(R) /\ Len(more.pages) = len + EXTENT_SIZE
          /\ more.pages[p].room = PAGE_ROOM
          /\ Places(more, {}) = Places(table, {})
          /\ \A at \in Places(table, {}) : RowAt(more, at) = RowAt(table, at)
        <3>1. more = Grown(table, EXTENT_SIZE, 0)
            BY DEF Grown
        <3> HIDE DEF more, p
        <3>2. QED
            BY <1>6, <2>1, <3>1, GrownTable
    <2>3. p \notin 1..len
        BY <1>1, <1>6
    <2>4. InsertRow(table, row) = new
        BY <1>1, <2>3 DEF InsertRow, EmptyExtent
    <2>5. p \in 1..Len(more.pages) /\ row.width <= more.pages[p].room
        BY <1>1, <1>4, <1>6, <2>2
    <2> HIDE DEF more, p
    <2>6. new \in TableOf(R) /\ OneMore(more, new, row)
        BY <1>4, <2>2, <2>5, AppendedRow
    <2> HIDE DEF new
    <2>7. OneMore(table, new, row)
        BY <2>2, <2>6 DEF OneMore
    <2>8. QED
        BY <2>4, <2>6, <2>7
<1>7. QED
    BY <1>3, <1>5, <1>6

\* An extent that stays behind has no rows.
LEMMA ExtentStaysFacts ==
    ASSUME NEW R, NEW table \in TableOf(R), NEW row, NEW after, ExtentStays(table, row, after)
    PROVE  /\ after \in TableOf(R)
           /\ Places(after, {}) = Places(table, {})
           /\ \A at \in Places(table, {}) : RowAt(after, at) = RowAt(table, at)
<1>1. PICK n \in 0..EXTENT_SIZE :
              after = [pages |-> table.pages \o FormattedTo(n), hint |-> Len(table.pages) + 1]
    BY DEF ExtentStays
<1>2. Len(table.pages) + 1 \in 0..(Len(table.pages) + EXTENT_SIZE)
    BY TableFacts, Constants
<1> DEFINE next == Len(table.pages) + 1
<1>3. /\ next \in 0..(Len(table.pages) + EXTENT_SIZE)
      /\ after = Grown(table, n, next)
    BY <1>1, <1>2 DEF Grown
<1> HIDE DEF next
<1>4. QED
    BY <1>3, GrownTable

-----------------------------------------------------------------------------
(* The inductive invariant *)

\* The counter of oids, a uint16_t, does not come round.
OidsSuffice == FIRST_OID + MaxCreations < UINT16

StoredColumns == [name : ColumnName, width : 1..PAGE_ROOM]
Schemas       == {s \in Seq(StoredColumns) : Len(s) <= MAX_COLUMNS}
TableMetadata == [oid : Nat, iam : Nat, schema : Schemas]

Steps == {"idle", "chain", "table", "columns"}
Calls == [step : Steps, name : Name \cup {""}, schema : Schemas, oid : Nat, iam : Nat,
          recorded : Nat]

TypeInv ==
    /\ nextOid \in FIRST_OID..(FIRST_OID + MaxCreations)
    /\ iamChains \in Nat
    /\ missed \in BOOLEAN
    /\ sysTables \in TableOf(SysTableRows)
    /\ sysColumns \in TableOf(SysColumnRows)
    /\ cache \in [Name -> TableMetadata]
    /\ created \in [Name -> Seq(TableMetadata)]
    /\ call \in Calls

\* sys_tables has the row of a table.
HasRow(n, oid, iam) ==
    \E a \in Places(sysTables, {}) : /\ RowAt(sysTables, a).name = n
                                     /\ RowAt(sysTables, a).oid = oid
                                     /\ RowAt(sysTables, a).iam = iam

\* What sys_columns holds of an oid are the first k columns of a schema, in
\* whichever order.
OfName(oid, name) == {a \in ColumnsOf(oid, {}) : RowAt(sysColumns, a).name = name}
Holds(oid, schema, k) ==
    /\ Cardinality(ColumnsOf(oid, {})) = k
    /\ \A name \in ColumnName : Cardinality(OfName(oid, name))
                                   = Cardinality({i \in 1..k : schema[i].name = name})

\* The rows of sys_tables.
TablesInv ==
    /\ IsFiniteSet(Places(sysTables, {}))
    /\ \A a \in Places(sysTables, {}) : /\ RowAt(sysTables, a).oid \in FIRST_OID..(nextOid - 1)
                                        /\ RowAt(sysTables, a).iam \in 1..iamChains
    /\ OidsNameOneTable

\* The rows of sys_columns.
ColumnsInv ==
    /\ IsFiniteSet(Places(sysColumns, {}))
    /\ \A a \in Places(sysColumns, {}) : RowAt(sysColumns, a).oid \in FIRST_OID..(nextOid - 1)
    /\ \A oid \in Nat : Cardinality(ColumnsOf(oid, {})) <= MAX_COLUMNS

\* What create_table has done of a table.
CallInv ==
    /\ call.step = "idle" => call = Idle
    /\ call.recorded \in 0..Len(call.schema)
    /\ call.step # "idle" => /\ call.name \in Name
                             /\ call.oid \in FIRST_OID..(nextOid - 1)
                             /\ Holds(call.oid, call.schema, call.recorded)
    /\ call.step \in {"chain", "table"} =>
          \A a \in Places(sysTables, {}) : RowAt(sysTables, a).oid # call.oid
    /\ call.step = "table" =>
          /\ call.iam \in 1..iamChains
          /\ \A a \in Places(sysTables, {}) : RowAt(sysTables, a).iam # call.iam
    /\ call.step = "columns" => HasRow(call.name, call.oid, call.iam)

\* The tables that were created are stored, and a call in progress has another
\* oid.
CreatedInv ==
    \A n \in Name : \A k \in 1..Len(created[n]) :
        LET table == created[n][k]
        IN  /\ HasRow(n, table.oid, table.iam)
            /\ Holds(table.oid, table.schema, Len(table.schema))
            /\ call.step # "idle" => table.oid # call.oid

CacheInv ==
    \A n \in Name : /\ cache[n] # NoTable => Named(n, {}) # {}
                    /\ cache[n].iam <= iamChains

OnceInv ==
    ~missed => /\ \A n \in Name : /\ Len(created[n]) <= 1
                                  /\ created[n] # <<>> => cache[n] # NoTable
               /\ call.step # "idle" => cache[call.name] = NoTable

IInv == TypeInv /\ TablesInv /\ ColumnsInv /\ CallInv /\ CreatedInv /\ CacheInv /\ OnceInv

\* The types of the state.
LEMMA StateFacts ==
    ASSUME IInv
    PROVE  /\ nextOid \in Nat /\ nextOid >= FIRST_OID /\ nextOid <= FIRST_OID + MaxCreations
           /\ FIRST_OID \in Nat \ {0} /\ MaxCreations \in Nat
           /\ iamChains \in Nat
           /\ sysTables \in TableOf(SysTableRows) /\ sysColumns \in TableOf(SysColumnRows)
           /\ cache \in [Name -> TableMetadata] /\ created \in [Name -> Seq(TableMetadata)]
           /\ call \in Calls
<1>1. TypeInv
    BY DEF IInv
<1>2. nextOid \in FIRST_OID..(FIRST_OID + MaxCreations)
    BY <1>1 DEF TypeInv
<1>3. FIRST_OID \in Nat \ {0} /\ MaxCreations \in Nat
    BY Constants DEF FIRST_OID
<1>4. nextOid \in Nat /\ nextOid >= FIRST_OID /\ nextOid <= FIRST_OID + MaxCreations
    BY <1>2, <1>3
<1>5. QED
    BY <1>1, <1>3, <1>4 DEF TypeInv

-----------------------------------------------------------------------------
(* What a change of the system tables changes of the parts of the invariant *)

\* sys_tables keeps its rows where they are.
LEMMA SameTables ==
    ASSUME Places(sysTables', {}) = Places(sysTables, {}),
           \A a \in Places(sysTables, {}) : RowAt(sysTables', a) = RowAt(sysTables, a)
    PROVE  /\ \A n : Named(n, {})' = Named(n, {})
           /\ \A n, oid, iam : HasRow(n, oid, iam)' <=> HasRow(n, oid, iam)
           /\ OidsNameOneTable => OidsNameOneTable'
BY DEF Named, HasRow, OidsNameOneTable

\* sys_tables has one more row, of an oid and a chain of its own.
LEMMA MoreTables ==
    ASSUME NEW row \in SysTableRows, OneMore(sysTables, sysTables', row)
    PROVE  /\ \A n : Named(n, {}) \subseteq Named(n, {})'
           /\ \A n, oid, iam : HasRow(n, oid, iam) => HasRow(n, oid, iam)'
           /\ HasRow(row.name, row.oid, row.iam)'
           /\ /\ OidsNameOneTable
              /\ \A a \in Places(sysTables, {}) : /\ RowAt(sysTables, a).oid # row.oid
                                                  /\ RowAt(sysTables, a).iam # row.iam
              => OidsNameOneTable'
<1>1. PICK at \in Place :
          /\ at \notin Places(sysTables, {})
          /\ Places(sysTables', {}) = Places(sysTables, {}) \cup {at}
          /\ RowAt(sysTables', at) = row
          /\ \A b \in Places(sysTables, {}) : RowAt(sysTables', b) = RowAt(sysTables, b)
    BY DEF OneMore
<1>2. \A n : Named(n, {}) \subseteq Named(n, {})'
    BY <1>1 DEF Named
<1>3. \A n, oid, iam : HasRow(n, oid, iam) => HasRow(n, oid, iam)'
    BY <1>1 DEF HasRow
<1>4. HasRow(row.name, row.oid, row.iam)'
    BY <1>1 DEF HasRow
<1>5. /\ OidsNameOneTable
      /\ \A a \in Places(sysTables, {}) : /\ RowAt(sysTables, a).oid # row.oid
                                          /\ RowAt(sysTables, a).iam # row.iam
      => OidsNameOneTable'
    BY <1>1 DEF OidsNameOneTable
<1>6. QED
    BY <1>2, <1>3, <1>4, <1>5

\* sys_columns keeps its rows where they are.
LEMMA SameColumns ==
    ASSUME Places(sysColumns', {}) = Places(sysColumns, {}),
           \A a \in Places(sysColumns, {}) : RowAt(sysColumns', a) = RowAt(sysColumns, a)
    PROVE  /\ \A oid : ColumnsOf(oid, {})' = ColumnsOf(oid, {})
           /\ \A oid, schema, k : Holds(oid, schema, k)' <=> Holds(oid, schema, k)
<1>1. \A oid : ColumnsOf(oid, {})' = ColumnsOf(oid, {})
    BY DEF ColumnsOf
<1>2. \A oid, name : OfName(oid, name)' = OfName(oid, name)
    BY <1>1 DEF OfName, ColumnsOf
<1>3. QED
    BY <1>1, <1>2 DEF Holds

\* sys_columns has one more row, the next column of a schema.
LEMMA MoreColumns ==
    ASSUME NEW row, OneMore(sysColumns, sysColumns', row),
           IsFiniteSet(Places(sysColumns, {}))
    PROVE  /\ \A oid, schema, k : oid # row.oid =>
                (Holds(oid, schema, k)' <=> Holds(oid, schema, k))
           /\ \A oid : oid # row.oid => ColumnsOf(oid, {})' = ColumnsOf(oid, {})
           /\ \A schema, k : /\ Holds(row.oid, schema, k)
                             /\ k \in Nat
                             /\ schema[k + 1].name = row.name
                             => Holds(row.oid, schema, k + 1)'
<1>1. PICK at \in Place :
          /\ at \notin Places(sysColumns, {})
          /\ Places(sysColumns', {}) = Places(sysColumns, {}) \cup {at}
          /\ RowAt(sysColumns', at) = row
          /\ \A b \in Places(sysColumns, {}) : RowAt(sysColumns', b) = RowAt(sysColumns, b)
    BY DEF OneMore
<1>2. \A oid : oid # row.oid => ColumnsOf(oid, {})' = ColumnsOf(oid, {})
    BY <1>1 DEF ColumnsOf
<1>3. \A oid, name : oid # row.oid => OfName(oid, name)' = OfName(oid, name)
    BY <1>1, <1>2 DEF OfName, ColumnsOf
<1>4. \A oid, schema, k : oid # row.oid => (Holds(oid, schema, k)' <=> Holds(oid, schema, k))
    BY <1>2, <1>3 DEF Holds
<1>5. ASSUME NEW schema, NEW k \in Nat, Holds(row.oid, schema, k),
             schema[k + 1].name = row.name
      PROVE  Holds(row.oid, schema, k + 1)'
    <2> DEFINE oid == row.oid
               Upto(m, name) == {i \in 1..m : schema[i].name = name}
    <2>1. ColumnsOf(oid, {})' = ColumnsOf(oid, {}) \cup {at} /\ at \notin ColumnsOf(oid, {})
        BY <1>1 DEF ColumnsOf
    <2>2. \A name : OfName(oid, name)' = IF name = row.name THEN OfName(oid, name) \cup {at}
                                         ELSE OfName(oid, name)
        BY <1>1, <2>1 DEF OfName, ColumnsOf
    <2>3. \A name : /\ OfName(oid, name) \in SUBSET ColumnsOf(oid, {})
                    /\ at \notin OfName(oid, name)
        BY <2>1 DEF OfName
    <2>4. IsFiniteSet(ColumnsOf(oid, {})) /\ \A name : IsFiniteSet(OfName(oid, name))
        <3>1. ColumnsOf(oid, {}) \in SUBSET Places(sysColumns, {})
            BY DEF ColumnsOf
        <3>2. QED
            BY <2>3, <3>1, FS_Subset
    <2>5. Cardinality(ColumnsOf(oid, {})') = k + 1
        BY <1>5, <2>1, <2>4, FS_AddElement DEF Holds
    <2>6. \A name : Upto(k + 1, name) = IF name = row.name THEN Upto(k, name) \cup {k + 1}
                                        ELSE Upto(k, name)
        BY <1>5
    <2>7. \A name : IsFiniteSet(Upto(k, name)) /\ k + 1 \notin Upto(k, name)
        <3>1. \A name : Upto(k, name) \in SUBSET (1..k)
            OBVIOUS
        <3>2. IsFiniteSet(1..k)
            BY FS_Interval
        <3>3. \A name : k + 1 \notin Upto(k, name)
            OBVIOUS
        <3> HIDE DEF Upto
        <3>4. QED
            BY <3>1, <3>2, <3>3, FS_Subset
    <2>8. \A name \in ColumnName : Cardinality(OfName(oid, name)) = Cardinality(Upto(k, name))
        BY <1>5 DEF Holds
    <2> HIDE DEF Upto, oid
    <2>9. ASSUME NEW name \in ColumnName
          PROVE  Cardinality(OfName(oid, name)') = Cardinality(Upto(k + 1, name))
        <3>1. CASE name = row.name
            <4> DEFINE A == OfName(oid, name)
                       B == Upto(k, name)
            <4>1. OfName(oid, name)' = A \cup {at} /\ Upto(k + 1, name) = B \cup {k + 1}
                BY <2>2, <2>6, <3>1
            <4>2. IsFiniteSet(A) /\ at \notin A /\ IsFiniteSet(B) /\ k + 1 \notin B
                BY <2>3, <2>4, <2>7
            <4>3. Cardinality(A) = Cardinality(B)
                BY <2>8
            <4> HIDE DEF A, B
            <4>4. /\ Cardinality(A \cup {at}) = Cardinality(A) + 1
                  /\ Cardinality(B \cup {k + 1}) = Cardinality(B) + 1
                BY <4>2, FS_AddElement
            <4>5. QED
                BY <4>1, <4>3, <4>4
        <3>2. CASE name # row.name
            BY <2>2, <2>6, <2>8, <3>2
        <3>3. QED
            BY <3>1, <3>2
    <2>10. QED
        BY <2>5, <2>9 DEF Holds, Upto, oid
<1>6. QED
    BY <1>2, <1>4, <1>5

-----------------------------------------------------------------------------
(* The initial states *)

\* The system tables that bootstrap leaves have no rows.
LEMMA NoRows ==
    ASSUME NEW R, NEW table \in {NoExtents} \cup {FirstExtent(n) : n \in 0..EXTENT_SIZE}
    PROVE  table \in TableOf(R) /\ Places(table, {}) = {}
<1>1. NoExtents \in TableOf(R) /\ Len(NoExtents.pages) = 0 /\ NoExtents.pages = <<>>
    <2>1. <<>> \in Seq(PageOf(R)) /\ Len(<<>>) = 0
        BY EmptySeq
    <2>2. 0 % EXTENT_SIZE = 0
        <3>1. EXTENT_SIZE \in Nat \ {0} /\ 0 \in 0..(EXTENT_SIZE - 1) /\ 0 = 0 * EXTENT_SIZE + 0
            BY Constants
        <3>2. QED
            BY <3>1, DivisionUnique
    <2>3. QED
        BY <2>1, <2>2 DEF NoExtents, TableOf
<1>2. Places(NoExtents, {}) = {}
    <2>1. Places(NoExtents, {}) \subseteq Place
        BY <1>1, PlacesFacts
    <2>2. \A p, i : <<p, i>> \notin Places(NoExtents, {})
        <3>1. \A p, i : <<p, i>> \in Places(NoExtents, {}) => p \in 1..Len(NoExtents.pages)
            BY <1>1, PlacesFacts
        <3>2. Len(NoExtents.pages) = 0
            BY <1>1
        <3>3. \A p : p \notin 1..0
            OBVIOUS
        <3>4. QED
            BY <3>1, <3>2, <3>3
    <2>3. \A at \in Place : at = <<at[1], at[2]>>
        BY DEF Place
    <2>4. QED
        BY <2>1, <2>2, <2>3
<1>3. ASSUME NEW n \in 0..EXTENT_SIZE
      PROVE  FirstExtent(n) \in TableOf(R) /\ Places(FirstExtent(n), {}) = {}
    <2> DEFINE new == [pages |-> NoExtents.pages \o FormattedTo(n), hint |-> 0]
    <2>1. 0 \in 0..(Len(NoExtents.pages) + EXTENT_SIZE)
        BY <1>1, Constants
    <2>2. new \in TableOf(R) /\ Places(new, {}) = Places(NoExtents, {})
        <3>1. new = Grown(NoExtents, n, 0)
            BY DEF Grown
        <3> HIDE DEF new
        <3>2. QED
            BY <1>1, <2>1, <3>1, GrownTable
    <2>3. NoExtents.pages \o FormattedTo(n) = FormattedTo(n)
        BY <1>1, ExtentFacts, ConcatEmptySeq
    <2>4. new = FirstExtent(n)
        BY <2>3 DEF FirstExtent
    <2>5. QED
        BY <1>2, <2>2, <2>4
<1>4. QED
    BY <1>1, <1>2, <1>3

\* The invariant holds at first.
LEMMA InitInv == Init => IInv
<1> SUFFICES ASSUME Init PROVE IInv
    OBVIOUS
<1>0. /\ nextOid = FIRST_OID /\ iamChains = 0 /\ call = Idle /\ missed = FALSE
      /\ sysTables \in {NoExtents} \cup {FirstExtent(n) : n \in 0..EXTENT_SIZE}
      /\ sysColumns \in {NoExtents} \cup {FirstExtent(n) : n \in 0..EXTENT_SIZE}
      /\ cache = [n \in Name |-> NoTable] /\ created = [n \in Name |-> <<>>]
    BY DEF Init
<1>1. /\ Places(sysTables, {}) = {} /\ sysTables \in TableOf(SysTableRows)
      /\ Places(sysColumns, {}) = {} /\ sysColumns \in TableOf(SysColumnRows)
    BY <1>0, NoRows
<1>2. <<>> \in Schemas /\ <<>> \in Seq(TableMetadata) /\ Len(<<>>) = 0
    BY Constants, EmptySeq DEF Schemas
<1>3. /\ Idle.step = "idle" /\ Idle.recorded = 0 /\ Idle.schema = <<>>
      /\ Idle \in Calls
    BY <1>2 DEF Idle, Calls, Steps
<1>4. NoTable \in TableMetadata /\ NoTable.iam = 0
    BY <1>2 DEF NoTable, TableMetadata
<1>5. TypeInv
    <2>1. FIRST_OID \in FIRST_OID..(FIRST_OID + MaxCreations)
        BY Constants DEF FIRST_OID
    <2>2. QED
        BY <1>0, <1>1, <1>2, <1>3, <1>4, <2>1 DEF TypeInv
<1>6. TablesInv
    BY <1>1, FS_EmptySet DEF TablesInv, OidsNameOneTable
<1>7. ColumnsInv
    <2>1. \A oid : ColumnsOf(oid, {}) = {}
        BY <1>1 DEF ColumnsOf
    <2>2. QED
        BY <1>1, <2>1, FS_EmptySet, Constants DEF ColumnsInv
<1>8. CallInv
    <2>1. call.step = "idle" /\ call.recorded \in 0..Len(call.schema)
        BY <1>0, <1>2, <1>3
    <2>2. QED
        BY <1>0, <2>1 DEF CallInv
<1>9. CreatedInv
    BY <1>0, <1>2 DEF CreatedInv
<1>10. CacheInv
    BY <1>0, <1>4 DEF CacheInv
<1>11. OnceInv
    <2>1. \A n \in Name : created[n] = <<>> /\ Len(created[n]) <= 1
        BY <1>0, <1>2
    <2>2. call.step = "idle"
        BY <1>0, <1>3
    <2>3. QED
        BY <2>1, <2>2 DEF OnceInv
<1>12. QED
    BY <1>5, <1>6, <1>7, <1>8, <1>9, <1>10, <1>11 DEF IInv

-----------------------------------------------------------------------------
(* The steps of create_table *)

\* The columns that create_table is given can be stored.
LEMMA SchemaTypes == Schema \subseteq Schemas
<1>1. Column \subseteq StoredColumns
    BY CatalogAssumption DEF StoredColumns
<1>2. ASSUME NEW schema \in Schema PROVE schema \in Schemas
    <2>1. PICK n \in 1..MAX_COLUMNS : schema \in [1..n -> Column]
        BY DEF Schema
    <2>2. n \in Nat /\ n <= MAX_COLUMNS
        BY <2>1, Constants
    <2>3. schema \in [1..n -> StoredColumns]
        BY <1>1, <2>1
    <2>4. schema \in Seq(StoredColumns) /\ Len(schema) = n
        BY <2>2, <2>3
    <2>5. QED
        BY <2>2, <2>4 DEF Schemas
<1>3. QED
    BY <1>2

\* Nothing is stored of an oid that was not handed out.
LEMMA NewOid == IInv => \A schema : Holds(nextOid, schema, 0)
<1> SUFFICES ASSUME IInv, NEW schema PROVE Holds(nextOid, schema, 0)
    OBVIOUS
<1>1. nextOid \in Nat /\ \A a \in Places(sysColumns, {}) : RowAt(sysColumns, a).oid # nextOid
    <2>1. /\ nextOid \in Nat /\ FIRST_OID \in Nat
          /\ \A a \in Places(sysColumns, {}) :
                RowAt(sysColumns, a).oid \in FIRST_OID..(nextOid - 1)
        BY StateFacts DEF IInv, ColumnsInv
    <2>2. \A o \in FIRST_OID..(nextOid - 1) : o # nextOid
        BY <2>1
    <2>3. QED
        BY <2>1, <2>2
<1>2. ColumnsOf(nextOid, {}) = {}
    BY <1>1 DEF ColumnsOf
<1>3. \A name : OfName(nextOid, name) = {} /\ {i \in 1..0 : schema[i].name = name} = {}
    BY <1>2 DEF OfName
<1>4. QED
    BY <1>2, <1>3, FS_EmptySet DEF Holds

\* create_table takes an oid that no row has.
LEMMA BeginStep ==
    ASSUME IInv, OidsSuffice, NEW n \in Name, NEW schema \in Schema,
           BeginCreateTable(n, schema)
    PROVE  IInv'
<1>0. /\ call = Idle /\ nextOid < FIRST_OID + MaxCreations /\ cache[n] = NoTable
      /\ nextOid' = (nextOid + 1) % UINT16
      /\ call' = [Idle EXCEPT !.step = "chain", !.name = n, !.schema = schema,
                              !.oid = nextOid]
      /\ UNCHANGED <<iamChains, sysTables, sysColumns, cache, created, missed>>
    BY DEF BeginCreateTable, TableExists, OidAfter
<1>1. /\ nextOid \in Nat /\ nextOid >= FIRST_OID /\ FIRST_OID \in Nat /\ MaxCreations \in Nat
    BY StateFacts
<1>2. nextOid' = nextOid + 1
    <2>1. UINT16 \in Nat \ {0} /\ FIRST_OID + MaxCreations < UINT16
        BY DEF OidsSuffice, UINT16
    <2>2. nextOid + 1 \in 0..(UINT16 - 1) /\ nextOid + 1 \in Nat
        BY <1>0, <1>1, <2>1
    <2>3. nextOid + 1 = 0 * UINT16 + (nextOid + 1)
        BY <1>1, <2>1
    <2>4. (nextOid + 1) % UINT16 = nextOid + 1
        BY <2>1, <2>2, <2>3, DivisionUnique
    <2>5. QED
        BY <1>0, <2>4
<1>3. schema \in Schemas /\ Len(schema) \in Nat
    BY SchemaTypes DEF Schemas
<1>4. /\ call'.step = "chain" /\ call'.name = n /\ call'.schema = schema
      /\ call'.oid = nextOid /\ call'.iam = 0 /\ call'.recorded = 0
      /\ call' = [step |-> "chain", name |-> n, schema |-> schema, oid |-> nextOid,
                  iam |-> 0, recorded |-> 0]
    BY <1>0 DEF Idle
<1>5. TypeInv'
    <2>1. nextOid' \in FIRST_OID..(FIRST_OID + MaxCreations)
        BY <1>0, <1>1, <1>2
    <2>2. call' \in Calls
        <3>1. "chain" \in Steps /\ n \in Name \cup {""} /\ 0 \in Nat
            BY DEF Steps
        <3>2. QED
            BY <1>1, <1>3, <1>4, <3>1 DEF Calls
    <2>3. QED
        BY <1>0, <2>1, <2>2 DEF IInv, TypeInv
<1>6. \A o \in FIRST_OID..(nextOid - 1) : o \in FIRST_OID..(nextOid' - 1)
    BY <1>1, <1>2
<1>7. TablesInv'
    BY <1>0, <1>6 DEF IInv, TablesInv, OidsNameOneTable
<1>8. ColumnsInv'
    BY <1>0, <1>6 DEF IInv, ColumnsInv, ColumnsOf
<1>9. /\ \A a \in Places(sysTables, {}) : RowAt(sysTables, a).oid # nextOid
      /\ \A m, oid, iam : HasRow(m, oid, iam) => oid # nextOid
    <2>1. \A a \in Places(sysTables, {}) : RowAt(sysTables, a).oid # nextOid
        BY <1>1 DEF IInv, TablesInv
    <2>2. QED
        BY <2>1 DEF HasRow
<1>10. /\ \A m, oid, iam : HasRow(m, oid, iam)' <=> HasRow(m, oid, iam)
       /\ \A oid, s, k : Holds(oid, s, k)' <=> Holds(oid, s, k)
    BY <1>0, SameTables, SameColumns
<1>11. CallInv'
    <2>1. nextOid \in FIRST_OID..(nextOid' - 1)
        BY <1>1, <1>2
    <2>2. Holds(call.oid, call.schema, call.recorded)'
        BY <1>4, <1>10, NewOid
    <2>3. 0 \in 0..Len(schema)
        BY <1>3
    <2>4. QED
        BY <1>0, <1>4, <1>9, <2>1, <2>2, <2>3 DEF CallInv
<1>12. CreatedInv'
    BY <1>0, <1>4, <1>9, <1>10 DEF IInv, CreatedInv
<1>13. CacheInv'
    BY <1>0 DEF IInv, CacheInv, Named
<1>14. OnceInv'
    BY <1>0, <1>4 DEF IInv, OnceInv
<1>15. QED
    BY <1>5, <1>7, <1>8, <1>11, <1>12, <1>13, <1>14 DEF IInv

\* The chain belongs to no other table.
LEMMA ChainStep ==
    ASSUME IInv, CreateIamChain
    PROVE  IInv'
<1>0. /\ call.step = "chain" /\ iamChains' = iamChains + 1
      /\ call' = [call EXCEPT !.step = "table", !.iam = iamChains + 1]
      /\ UNCHANGED <<nextOid, sysTables, sysColumns, cache, created, missed>>
    BY DEF CreateIamChain
<1>1. iamChains \in Nat /\ call \in Calls
    BY StateFacts
<1>2. /\ call'.step = "table" /\ call'.iam = iamChains + 1 /\ call'.name = call.name
      /\ call'.schema = call.schema /\ call'.oid = call.oid /\ call'.recorded = call.recorded
      /\ call' \in Calls
    <2>1. "table" \in Steps /\ iamChains + 1 \in Nat
        BY <1>1 DEF Steps
    <2>2. QED
        BY <1>0, <1>1, <2>1 DEF Calls
<1>3. /\ \A m, oid, iam : HasRow(m, oid, iam)' <=> HasRow(m, oid, iam)
      /\ \A oid, s, k : Holds(oid, s, k)' <=> Holds(oid, s, k)
    BY <1>0, SameTables, SameColumns
<1>4. TypeInv'
    BY <1>0, <1>1, <1>2 DEF IInv, TypeInv
<1>5. \A i \in 1..iamChains : i \in 1..iamChains' /\ i # iamChains'
    BY <1>0, <1>1
<1>6. TablesInv'
    BY <1>0, <1>5 DEF IInv, TablesInv, OidsNameOneTable
<1>7. ColumnsInv'
    BY <1>0 DEF IInv, ColumnsInv, ColumnsOf
<1>8. CallInv'
    <2>1. iamChains + 1 \in 1..iamChains'
        BY <1>0, <1>1
    <2>2. \A a \in Places(sysTables, {}) : RowAt(sysTables, a).iam # iamChains'
        BY <1>5 DEF IInv, TablesInv
    <2>3. Holds(call.oid, call.schema, call.recorded)'
        BY <1>0, <1>2, <1>3 DEF IInv, CallInv
    <2>4. /\ call.name \in Name /\ call.oid \in FIRST_OID..(nextOid - 1)
          /\ call.recorded \in 0..Len(call.schema)
          /\ \A a \in Places(sysTables, {}) : RowAt(sysTables, a).oid # call.oid
        BY <1>0 DEF IInv, CallInv
    <2>5. QED
        BY <1>0, <1>2, <2>1, <2>2, <2>3, <2>4 DEF CallInv
<1>9. CreatedInv'
    BY <1>0, <1>2, <1>3 DEF IInv, CreatedInv
<1>10. CacheInv'
    <2>1. \A n \in Name : cache[n].iam \in Nat
        BY StateFacts DEF TableMetadata
    <2>2. \A n \in Name : cache[n].iam <= iamChains => cache[n].iam <= iamChains'
        BY <1>0, <1>1, <2>1
    <2>3. QED
        BY <1>0, <2>2 DEF IInv, CacheInv, Named
<1>11. OnceInv'
    BY <1>0, <1>2 DEF IInv, OnceInv
<1>12. QED
    BY <1>4, <1>6, <1>7, <1>8, <1>9, <1>10, <1>11 DEF IInv

\* The row of the table is the only one with its oid and its chain.
LEMMA TableRowStep ==
    ASSUME IInv, InsertSysTableRecord
    PROVE  IInv'
<1>row. PICK row : row = TableRow
    OBVIOUS
<1>0. /\ call.step = "table" /\ sysTables' = InsertRow(sysTables, row)
      /\ call' = [call EXCEPT !.step = "columns"]
      /\ UNCHANGED <<nextOid, iamChains, sysColumns, cache, created, missed>>
    BY <1>row DEF InsertSysTableRecord
<1>1. call \in Calls /\ sysTables \in TableOf(SysTableRows)
    BY StateFacts
<1>2. /\ call'.step = "columns" /\ call'.iam = call.iam /\ call'.name = call.name
      /\ call'.schema = call.schema /\ call'.oid = call.oid /\ call'.recorded = call.recorded
      /\ call' \in Calls
    BY <1>0, <1>1 DEF Calls, Steps
<1>3. /\ call.name \in Name /\ call.oid \in FIRST_OID..(nextOid - 1)
      /\ call.iam \in 1..iamChains /\ call.recorded \in 0..Len(call.schema)
      /\ \A a \in Places(sysTables, {}) : /\ RowAt(sysTables, a).oid # call.oid
                                          /\ RowAt(sysTables, a).iam # call.iam
    BY <1>0 DEF IInv, CallInv
<1>4. /\ row.oid = call.oid /\ row.name = call.name /\ row.iam = call.iam /\ row.width = 1
      /\ row = [oid |-> call.oid, name |-> call.name, iam |-> call.iam, width |-> 1]
    BY <1>row DEF TableRow
<1>5. row \in SysTableRows
    BY <1>1, <1>3, <1>4 DEF SysTableRows, Calls
<1>6. row.width \in 1..PAGE_ROOM
    BY <1>4, Constants
<1>7. sysTables' \in TableOf(SysTableRows) /\ OneMore(sysTables, sysTables', row)
    BY <1>0, <1>1, <1>5, <1>6, InsertedRow
<1>8. /\ \A n : Named(n, {}) \subseteq Named(n, {})'
      /\ \A n, oid, iam : HasRow(n, oid, iam) => HasRow(n, oid, iam)'
      /\ HasRow(row.name, row.oid, row.iam)'
      /\ OidsNameOneTable'
    BY <1>3, <1>4, <1>5, <1>7, MoreTables DEF IInv, TablesInv
<1>9. \A oid, s, k : Holds(oid, s, k)' <=> Holds(oid, s, k)
    BY <1>0, SameColumns
<1>10. TypeInv'
    BY <1>0, <1>2, <1>7 DEF IInv, TypeInv
<1>11. TablesInv'
    <2>1. PICK at : /\ Places(sysTables', {}) = Places(sysTables, {}) \cup {at}
                    /\ RowAt(sysTables', at) = row
                    /\ \A b \in Places(sysTables, {}) :
                          RowAt(sysTables', b) = RowAt(sysTables, b)
        BY <1>7 DEF OneMore
    <2>2. IsFiniteSet(Places(sysTables', {}))
        BY <2>1, FS_AddElement DEF IInv, TablesInv
    <2>3. \A a \in Places(sysTables', {}) :
              /\ RowAt(sysTables', a).oid \in FIRST_OID..(nextOid - 1)
              /\ RowAt(sysTables', a).iam \in 1..iamChains
        BY <1>3, <1>4, <2>1 DEF IInv, TablesInv
    <2>4. QED
        BY <1>0, <1>8, <2>2, <2>3 DEF TablesInv
<1>12. ColumnsInv'
    BY <1>0 DEF IInv, ColumnsInv, ColumnsOf
<1>13. CallInv'
    <2>1. Holds(call.oid, call.schema, call.recorded)'
        BY <1>0, <1>2, <1>9 DEF IInv, CallInv
    <2>2. HasRow(call.name, call.oid, call.iam)'
        BY <1>2, <1>4, <1>8
    <2>3. QED
        BY <1>0, <1>2, <1>3, <2>1, <2>2 DEF CallInv
<1>14. CreatedInv'
    BY <1>0, <1>2, <1>8, <1>9 DEF IInv, CreatedInv
<1>15. CacheInv'
    BY <1>0, <1>8 DEF IInv, CacheInv
<1>16. OnceInv'
    BY <1>0, <1>2 DEF IInv, OnceInv
<1>17. QED
    BY <1>10, <1>11, <1>12, <1>13, <1>14, <1>15, <1>16 DEF IInv

\* The next column of the table is stored.
LEMMA ColumnRowStep ==
    ASSUME IInv, InsertSysColumnRecord
    PROVE  IInv'
<1>k. PICK k : k = call.recorded
    OBVIOUS
<1>row. PICK row : row = ColumnRow(call.schema[k + 1])
    OBVIOUS
<1>0. /\ call.step = "columns" /\ k < Len(call.schema)
      /\ sysColumns' = InsertRow(sysColumns, row)
      /\ call' = [call EXCEPT !.recorded = k + 1]
      /\ UNCHANGED <<nextOid, iamChains, sysTables, cache, created, missed>>
    BY <1>k, <1>row DEF InsertSysColumnRecord
<1>1. /\ call \in Calls /\ sysColumns \in TableOf(SysColumnRows)
      /\ k \in Nat /\ call.schema \in Schemas
      /\ call.schema \in Seq(StoredColumns) /\ Len(call.schema) \in Nat
      /\ Len(call.schema) <= MAX_COLUMNS /\ MAX_COLUMNS \in Nat
    <2>1. call \in Calls /\ sysColumns \in TableOf(SysColumnRows)
        BY StateFacts
    <2>2. k \in Nat /\ call.schema \in Schemas
        BY <1>k, <2>1 DEF Calls
    <2>3. call.schema \in Seq(StoredColumns) /\ Len(call.schema) <= MAX_COLUMNS
        BY <2>2 DEF Schemas
    <2>4. QED
        BY <2>1, <2>2, <2>3, LenProperties, Constants
<1>2. /\ call'.step = "columns" /\ call'.iam = call.iam /\ call'.name = call.name
      /\ call'.schema = call.schema /\ call'.oid = call.oid /\ call'.recorded = k + 1
      /\ call' \in Calls
    <2>1. k + 1 \in Nat
        BY <1>1
    <2>2. QED
        BY <1>0, <1>1, <2>1 DEF Calls
<1>3. /\ call.name \in Name /\ call.oid \in FIRST_OID..(nextOid - 1)
      /\ HasRow(call.name, call.oid, call.iam)
      /\ Holds(call.oid, call.schema, k)
    BY <1>0, <1>k DEF IInv, CallInv
<1>4. /\ call.schema[k + 1] \in StoredColumns
      /\ k + 1 \in 0..Len(call.schema) /\ k + 1 <= MAX_COLUMNS /\ k + 1 \in Nat
    <2>1. k + 1 \in 1..Len(call.schema)
        BY <1>0, <1>1
    <2>2. QED
        BY <1>1, <2>1, ElementOfSeq
<1>5. /\ row.oid = call.oid /\ row.name = call.schema[k + 1].name
      /\ row \in SysColumnRows /\ row.width \in 1..PAGE_ROOM
    <2>1. row = [oid |-> call.oid, name |-> call.schema[k + 1].name,
                 width |-> call.schema[k + 1].width]
        BY <1>row DEF ColumnRow
    <2>2. call.oid \in Nat
        BY <1>1 DEF Calls
    <2>3. /\ call.schema[k + 1].name \in ColumnName
          /\ call.schema[k + 1].width \in 1..PAGE_ROOM
        BY <1>4 DEF StoredColumns
    <2>4. QED
        BY <2>1, <2>2, <2>3 DEF SysColumnRows
<1>6. sysColumns' \in TableOf(SysColumnRows) /\ OneMore(sysColumns, sysColumns', row)
    BY <1>0, <1>1, <1>5, InsertedRow
<1>7. /\ \A oid, schema, n : oid # row.oid =>
            (Holds(oid, schema, n)' <=> Holds(oid, schema, n))
      /\ \A oid : oid # row.oid => ColumnsOf(oid, {})' = ColumnsOf(oid, {})
      /\ \A schema, n : /\ Holds(row.oid, schema, n) /\ n \in Nat
                        /\ schema[n + 1].name = row.name
                        => Holds(row.oid, schema, n + 1)'
    BY <1>6, MoreColumns DEF IInv, ColumnsInv
<1>8. Holds(row.oid, call.schema, k + 1)'
    <2>1. PICK schema : schema = call.schema
        OBVIOUS
    <2>2. Holds(row.oid, schema, k) /\ schema[k + 1].name = row.name
        BY <1>3, <1>5, <2>1
    <2>3. Holds(row.oid, schema, k + 1)'
        BY <1>1, <1>7, <2>2
    <2>4. QED
        BY <1>2, <2>1, <2>3
<1>9. \A m, oid, iam : HasRow(m, oid, iam)' <=> HasRow(m, oid, iam)
    BY <1>0, SameTables
<1>10. TypeInv'
    BY <1>0, <1>2, <1>6 DEF IInv, TypeInv
<1>11. TablesInv'
    BY <1>0 DEF IInv, TablesInv, OidsNameOneTable
<1>12. ColumnsInv'
    <2>1. PICK at : /\ Places(sysColumns', {}) = Places(sysColumns, {}) \cup {at}
                    /\ RowAt(sysColumns', at) = row
                    /\ \A b \in Places(sysColumns, {}) :
                          RowAt(sysColumns', b) = RowAt(sysColumns, b)
        BY <1>6 DEF OneMore
    <2>2. IsFiniteSet(Places(sysColumns', {}))
        BY <2>1, FS_AddElement DEF IInv, ColumnsInv
    <2>3. \A a \in Places(sysColumns', {}) :
              RowAt(sysColumns', a).oid \in FIRST_OID..(nextOid - 1)
        BY <1>3, <1>5, <2>1 DEF IInv, ColumnsInv
    <2>4. Cardinality(ColumnsOf(row.oid, {})') <= MAX_COLUMNS
        BY <1>4, <1>8 DEF Holds
    <2>5. \A oid \in Nat : Cardinality(ColumnsOf(oid, {})') <= MAX_COLUMNS
        BY <1>7, <2>4 DEF IInv, ColumnsInv
    <2>6. QED
        BY <1>0, <2>2, <2>3, <2>5 DEF ColumnsInv
<1>13. CallInv'
    <2>1. Holds(call.oid, call.schema, call.recorded)'
        BY <1>2, <1>5, <1>8
    <2>2. HasRow(call.name, call.oid, call.iam)'
        BY <1>2, <1>3, <1>9
    <2>3. QED
        BY <1>0, <1>2, <1>3, <1>4, <2>1, <2>2 DEF CallInv
<1>14. CreatedInv'
    BY <1>0, <1>2, <1>5, <1>7, <1>9 DEF IInv, CreatedInv
<1>15. CacheInv'
    BY <1>0 DEF IInv, CacheInv, Named
<1>16. OnceInv'
    BY <1>0, <1>2 DEF IInv, OnceInv
<1>17. QED
    BY <1>10, <1>11, <1>12, <1>13, <1>14, <1>15, <1>16 DEF IInv

\* What is cached is stored, and the name was not in the cache before.
LEMMA CacheStep ==
    ASSUME IInv, CacheTable
    PROVE  IInv'
<1>new. PICK new : new = NewTable
    OBVIOUS
<1>n. PICK name : name = call.name
    OBVIOUS
<1>0. /\ call.step = "columns" /\ call.recorded = Len(call.schema)
      /\ cache' = [cache EXCEPT ![name] = new]
      /\ created' = [created EXCEPT ![name] = Append(@, new)]
      /\ call' = Idle
      /\ UNCHANGED <<nextOid, iamChains, sysTables, sysColumns, missed>>
    BY <1>new, <1>n DEF CacheTable
<1>1. /\ call \in Calls /\ cache \in [Name -> TableMetadata]
      /\ created \in [Name -> Seq(TableMetadata)]
      /\ nextOid \in Nat /\ FIRST_OID \in Nat \ {0} /\ iamChains \in Nat
    BY StateFacts
<1>2. new = [oid |-> call.oid, iam |-> call.iam, schema |-> call.schema]
    BY <1>new DEF NewTable
<1>3. /\ name \in Name /\ call.oid \in FIRST_OID..(nextOid - 1)
      /\ HasRow(name, new.oid, new.iam)
      /\ Holds(new.oid, new.schema, Len(new.schema))
    BY <1>0, <1>2, <1>n DEF IInv, CallInv
<1>4. new \in TableMetadata /\ new # NoTable
    <2>1. new \in TableMetadata
        BY <1>1, <1>2 DEF Calls, TableMetadata
    <2>2. new.oid # 0 /\ NoTable.oid = 0
        BY <1>1, <1>2, <1>3 DEF NoTable
    <2>3. QED
        BY <2>1, <2>2
<1>5. /\ Append(created[name], new) \in Seq(TableMetadata)
      /\ Len(created[name]) \in Nat
      /\ Len(Append(created[name], new)) = Len(created[name]) + 1
      /\ \A k \in 1..Len(created[name]) : Append(created[name], new)[k] = created[name][k]
      /\ Append(created[name], new)[Len(created[name]) + 1] = new
    BY <1>1, <1>3, <1>4, AppendProperties, LenProperties
<1>6. /\ created' \in [Name -> Seq(TableMetadata)] /\ cache' \in [Name -> TableMetadata]
      /\ created'[name] = Append(created[name], new) /\ cache'[name] = new
      /\ \A n \in Name : n # name => created'[n] = created[n] /\ cache'[n] = cache[n]
    BY <1>0, <1>1, <1>3, <1>4, <1>5
<1>7. Idle \in Calls /\ Idle.step = "idle" /\ Idle.recorded \in 0..Len(Idle.schema)
    <2>1. <<>> \in Schemas /\ Len(<<>>) = 0 /\ "idle" \in Steps
        BY Constants, EmptySeq DEF Schemas, Steps
    <2>2. QED
        BY <2>1 DEF Idle, Calls
<1>8. /\ \A m, oid, iam : HasRow(m, oid, iam)' <=> HasRow(m, oid, iam)
      /\ \A oid, s, k : Holds(oid, s, k)' <=> Holds(oid, s, k)
      /\ \A n : Named(n, {})' = Named(n, {})
    BY <1>0, SameTables, SameColumns
<1>9. TypeInv'
    BY <1>0, <1>6, <1>7 DEF IInv, TypeInv
<1>10. TablesInv'
    BY <1>0 DEF IInv, TablesInv, OidsNameOneTable
<1>11. ColumnsInv'
    BY <1>0 DEF IInv, ColumnsInv, ColumnsOf
<1>12. CallInv'
    BY <1>0, <1>7 DEF CallInv
<1>13. CreatedInv'
    <2> SUFFICES ASSUME NEW n \in Name, NEW k \in 1..Len(created'[n]),
                        NEW table, table = created'[n][k]
                 PROVE  /\ HasRow(n, table.oid, table.iam)'
                        /\ Holds(table.oid, table.schema, Len(table.schema))'
        BY <1>0, <1>7 DEF CreatedInv
    <2>1. HasRow(n, table.oid, table.iam) /\ Holds(table.oid, table.schema, Len(table.schema))
        <3>1. CASE n = name /\ k = Len(created[name]) + 1
            BY <1>3, <1>5, <1>6, <3>1
        <3>2. CASE ~(n = name /\ k = Len(created[name]) + 1)
            <4>1. k \in 1..Len(created[n]) /\ created'[n][k] = created[n][k]
                BY <1>5, <1>6, <3>2
            <4>2. QED
                BY <4>1 DEF IInv, CreatedInv
        <3>3. QED
            BY <3>1, <3>2
    <2>2. QED
        BY <1>8, <2>1
<1>14. CacheInv'
    <2>1. PICK a \in Places(sysTables, {}) : /\ RowAt(sysTables, a).name = name
                                             /\ RowAt(sysTables, a).iam = new.iam
        BY <1>3 DEF HasRow
    <2>2. Named(name, {}) # {}
        BY <2>1 DEF Named
    <2>3. new.iam \in 1..iamChains
        BY <2>1 DEF IInv, TablesInv
    <2>4. new.iam <= iamChains
        BY <1>1, <2>3
    <2>5. QED
        BY <1>0, <1>6, <1>8, <2>2, <2>4 DEF IInv, CacheInv
<1>15. OnceInv'
    <2> SUFFICES ASSUME ~missed
                 PROVE  \A n \in Name : /\ Len(created'[n]) <= 1
                                        /\ created'[n] # <<>> => cache'[n] # NoTable
        BY <1>0, <1>7 DEF OnceInv
    <2>1. created[name] = <<>>
        BY <1>0, <1>3, <1>n DEF IInv, OnceInv
    <2>2. Len(created'[name]) <= 1 /\ cache'[name] # NoTable
        BY <1>4, <1>5, <1>6, <2>1
    <2>3. \A n \in Name : n # name => /\ Len(created'[n]) <= 1
                                      /\ created'[n] # <<>> => cache'[n] # NoTable
        BY <1>6 DEF IInv, OnceInv
    <2>4. QED
        BY <2>2, <2>3
<1>16. QED
    BY <1>9, <1>10, <1>11, <1>12, <1>13, <1>14, <1>15 DEF IInv

\* What a call that fails leaves behind adds no rows, and a chain that nobody
\* else gets.
LEMMA FailStep ==
    ASSUME IInv, CreateTableFails
    PROVE  IInv'
<1>0. /\ call' = Idle
      /\ UNCHANGED <<nextOid, cache, created, missed>>
    BY DEF CreateTableFails
<1>1. /\ iamChains \in Nat
      /\ sysTables \in TableOf(SysTableRows) /\ sysColumns \in TableOf(SysColumnRows)
    BY StateFacts
<1>2. iamChains' \in Nat /\ iamChains <= iamChains'
    BY <1>1 DEF CreateTableFails
<1>3. /\ sysTables' \in TableOf(SysTableRows)
      /\ Places(sysTables', {}) = Places(sysTables, {})
      /\ \A a \in Places(sysTables, {}) : RowAt(sysTables', a) = RowAt(sysTables, a)
    <2>1. sysTables' = sysTables \/ ExtentStays(sysTables, TableRow, sysTables')
        BY DEF CreateTableFails
    <2>2. ASSUME ExtentStays(sysTables, TableRow, sysTables')
          PROVE  /\ sysTables' \in TableOf(SysTableRows)
                 /\ Places(sysTables', {}) = Places(sysTables, {})
                 /\ \A a \in Places(sysTables, {}) : RowAt(sysTables', a) = RowAt(sysTables, a)
        BY <1>1, <2>2, ExtentStaysFacts
    <2>3. QED
        BY <1>1, <2>1, <2>2
<1>4. /\ sysColumns' \in TableOf(SysColumnRows)
      /\ Places(sysColumns', {}) = Places(sysColumns, {})
      /\ \A a \in Places(sysColumns, {}) : RowAt(sysColumns', a) = RowAt(sysColumns, a)
    <2>1. PICK row : sysColumns' = sysColumns \/ ExtentStays(sysColumns, row, sysColumns')
        BY DEF CreateTableFails
    <2>2. ASSUME ExtentStays(sysColumns, row, sysColumns')
          PROVE  /\ sysColumns' \in TableOf(SysColumnRows)
                 /\ Places(sysColumns', {}) = Places(sysColumns, {})
                 /\ \A a \in Places(sysColumns, {}) :
                       RowAt(sysColumns', a) = RowAt(sysColumns, a)
        BY <1>1, <2>2, ExtentStaysFacts
    <2>3. QED
        BY <1>1, <2>1, <2>2
<1>5. /\ \A m, oid, iam : HasRow(m, oid, iam)' <=> HasRow(m, oid, iam)
      /\ \A oid, s, k : Holds(oid, s, k)' <=> Holds(oid, s, k)
      /\ \A n : Named(n, {})' = Named(n, {})
      /\ \A oid : ColumnsOf(oid, {})' = ColumnsOf(oid, {})
      /\ OidsNameOneTable'
    BY <1>3, <1>4, SameTables, SameColumns DEF IInv, TablesInv
<1>6. Idle \in Calls /\ Idle.step = "idle" /\ Idle.recorded \in 0..Len(Idle.schema)
    <2>1. <<>> \in Schemas /\ Len(<<>>) = 0 /\ "idle" \in Steps
        BY Constants, EmptySeq DEF Schemas, Steps
    <2>2. QED
        BY <2>1 DEF Idle, Calls
<1>7. TypeInv'
    BY <1>0, <1>2, <1>3, <1>4, <1>6 DEF IInv, TypeInv
<1>8. TablesInv'
    <2>1. \A i \in 1..iamChains : i \in 1..iamChains'
        BY <1>1, <1>2
    <2>2. QED
        BY <1>0, <1>3, <1>5, <2>1 DEF IInv, TablesInv
<1>9. ColumnsInv'
    BY <1>0, <1>4, <1>5 DEF IInv, ColumnsInv
<1>10. CallInv'
    BY <1>0, <1>6 DEF CallInv
<1>11. CreatedInv'
    BY <1>0, <1>5, <1>6 DEF IInv, CreatedInv
<1>12. CacheInv'
    <2>1. \A n \in Name : cache[n].iam \in Nat
        BY StateFacts DEF TableMetadata
    <2>2. \A n \in Name : cache[n].iam <= iamChains => cache[n].iam <= iamChains'
        BY <1>1, <1>2, <2>1
    <2>3. QED
        BY <1>0, <1>5, <2>2 DEF IInv, CacheInv
<1>13. OnceInv'
    BY <1>0, <1>6 DEF IInv, OnceInv
<1>14. QED
    BY <1>7, <1>8, <1>9, <1>10, <1>11, <1>12, <1>13 DEF IInv

-----------------------------------------------------------------------------
(* Opening the database *)

\* The columns of an oid that a load finds, and the numbers it gives them.
LEMMA FoundColumns ==
    ASSUME IInv, NEW oid \in Nat, NEW lost
    PROVE  /\ ColumnsOf(oid, lost) \in SUBSET Place
           /\ IsFiniteSet(ColumnsOf(oid, lost))
           /\ Cardinality(ColumnsOf(oid, lost)) \in Nat
           /\ Cardinality(ColumnsOf(oid, lost)) <= MAX_COLUMNS
           /\ \A i \in 1..Cardinality(ColumnsOf(oid, lost)) :
                 /\ Nth(ColumnsOf(oid, lost), i) \in ColumnsOf(oid, lost)
                 /\ RowAt(sysColumns, Nth(ColumnsOf(oid, lost), i)) \in SysColumnRows
<1> DEFINE S == ColumnsOf(oid, lost)
<1>1. sysColumns \in TableOf(SysColumnRows)
    BY StateFacts
<1>2. /\ Places(sysColumns, lost) \subseteq Places(sysColumns, {})
      /\ Places(sysColumns, lost) \subseteq Place
      /\ \A a \in Places(sysColumns, lost) : RowAt(sysColumns, a) \in SysColumnRows
    BY <1>1, PlacesFacts
<1>3. S \in SUBSET Place /\ S \in SUBSET ColumnsOf(oid, {})
    BY <1>2 DEF ColumnsOf
<1>4. \A a \in S : RowAt(sysColumns, a) \in SysColumnRows
    BY <1>2 DEF ColumnsOf
<1>5. /\ IsFiniteSet(ColumnsOf(oid, {}))
      /\ Cardinality(ColumnsOf(oid, {})) \in Nat
      /\ Cardinality(ColumnsOf(oid, {})) <= MAX_COLUMNS
    <2>1. ColumnsOf(oid, {}) \in SUBSET Places(sysColumns, {})
        BY DEF ColumnsOf
    <2>2. IsFiniteSet(ColumnsOf(oid, {}))
        BY <2>1, FS_Subset DEF IInv, ColumnsInv
    <2>3. QED
        BY <2>2, FS_CardinalityType DEF IInv, ColumnsInv
<1> HIDE DEF S
<1>6. IsFiniteSet(S) /\ Cardinality(S) \in Nat /\ Cardinality(S) <= MAX_COLUMNS
    <2>1. IsFiniteSet(S) /\ Cardinality(S) <= Cardinality(ColumnsOf(oid, {}))
        BY <1>3, <1>5, FS_Subset
    <2>2. Cardinality(S) \in Nat /\ MAX_COLUMNS \in Nat
        BY <2>1, FS_CardinalityType, Constants
    <2>3. QED
        BY <1>5, <2>1, <2>2
<1>7. \A i \in 1..Cardinality(S) : Nth(S, i) \in S
    <2> DEFINE n == Cardinality(S)
               f == [i \in 1..n |-> Nth(S, i)]
    <2>1. f \in Bijection(1..n, S)
        BY <1>3, <1>6, NthIsBijection
    <2>2. \A i \in 1..n : f[i] = Nth(S, i)
        OBVIOUS
    <2> HIDE DEF n, f
    <2>3. f \in [1..n -> S]
        BY <2>1, Fun_BijectionProperties
    <2>4. QED
        BY <2>2, <2>3 DEF n
<1>8. QED
    BY <1>3, <1>4, <1>6, <1>7 DEF S

\* A schema that is loaded is one that the catalog can hold.
LEMMA LoadedSchemaTypes ==
    ASSUME IInv, NEW oid \in Nat, NEW lost
    PROVE  LoadedSchema(oid, lost) \in Schemas
<1> DEFINE S == ColumnsOf(oid, lost)
           n == Cardinality(S)
           column(i) == [name  |-> RowAt(sysColumns, Nth(S, i)).name,
                         width |-> RowAt(sysColumns, Nth(S, i)).width]
<1>1. n \in Nat /\ n <= MAX_COLUMNS
    BY FoundColumns
<1>2. \A i \in 1..n : column(i) \in StoredColumns
    <2>1. \A i \in 1..n : RowAt(sysColumns, Nth(S, i)) \in SysColumnRows
        BY FoundColumns
    <2> HIDE DEF n, S
    <2>2. QED
        BY <2>1 DEF SysColumnRows, StoredColumns
<1>3. LoadedSchema(oid, lost) = [i \in 1..n |-> column(i)]
    BY DEF LoadedSchema
<1> HIDE DEF n, column
<1>4. LoadedSchema(oid, lost) \in [1..n -> StoredColumns]
    BY <1>2, <1>3
<1>5. LoadedSchema(oid, lost) \in Seq(StoredColumns) /\ Len(LoadedSchema(oid, lost)) = n
    BY <1>1, <1>4
<1>6. QED
    BY <1>1, <1>5 DEF Schemas

\* A name that a load finds gets one of the rows with the name.
LEMMA LoadedTableFacts ==
    ASSUME IInv, NEW n \in Name, NEW lostTables, NEW lostColumns
    PROVE  LET table == LoadedTable(n, lostTables, lostColumns)
           IN  /\ table \in TableMetadata
               /\ table.iam <= iamChains
               /\ table # NoTable <=> Named(n, lostTables) # {}
               /\ Named(n, lostTables) # {} =>
                     \E a \in Named(n, lostTables) :
                        table = [oid    |-> RowAt(sysTables, a).oid,
                                 iam    |-> RowAt(sysTables, a).iam,
                                 schema |-> LoadedSchema(RowAt(sysTables, a).oid, lostColumns)]
<1> DEFINE table == LoadedTable(n, lostTables, lostColumns)
           S     == Named(n, lostTables)
           a     == Nth(S, 1)
           row   == RowAt(sysTables, a)
<1>1. /\ sysTables \in TableOf(SysTableRows) /\ iamChains \in Nat
      /\ nextOid \in Nat /\ FIRST_OID \in Nat \ {0}
    BY StateFacts
<1>2. CASE S = {}
    <2>1. table = NoTable
        BY <1>2 DEF LoadedTable
    <2>2. NoTable \in TableMetadata /\ NoTable.iam = 0
        BY Constants, EmptySeq DEF NoTable, TableMetadata, Schemas
    <2> HIDE DEF table
    <2>3. table.iam <= iamChains
        BY <1>1, <2>1, <2>2
    <2>4. QED
        BY <1>2, <2>1, <2>2, <2>3 DEF table
<1>3. CASE S # {}
    <2>1. /\ Places(sysTables, lostTables) \subseteq Places(sysTables, {})
          /\ Places(sysTables, lostTables) \subseteq Place
          /\ \A b \in Places(sysTables, lostTables) : RowAt(sysTables, b) \in SysTableRows
        BY <1>1, PlacesFacts
    <2>2. S \in SUBSET Place /\ S \in SUBSET Places(sysTables, {})
        BY <2>1 DEF Named
    <2>3. IsFiniteSet(S)
        BY <2>2, FS_Subset DEF IInv, TablesInv
    <2>4. a \in S
        <3> HIDE DEF S
        <3>1. QED
            BY <1>3, <2>2, <2>3, FirstPlace
    <2>5. table = [oid |-> row.oid, iam |-> row.iam,
                   schema |-> LoadedSchema(row.oid, lostColumns)]
        BY <1>3 DEF LoadedTable
    <2>6. row.oid \in FIRST_OID..(nextOid - 1) /\ row.iam \in 1..iamChains
        BY <2>2, <2>4 DEF IInv, TablesInv
    <2> HIDE DEF row, a, S
    <2>7. row.oid \in Nat /\ row.oid # 0 /\ row.iam \in Nat /\ row.iam <= iamChains
        BY <1>1, <2>6
    <2>8. LoadedSchema(row.oid, lostColumns) \in Schemas
        BY <2>7, LoadedSchemaTypes
    <2> HIDE DEF table
    <2>9. table \in TableMetadata /\ table.iam <= iamChains
        BY <2>5, <2>7, <2>8 DEF TableMetadata
    <2>10. table # NoTable
        BY <2>5, <2>7 DEF NoTable
    <2>11. QED
        BY <1>3, <2>4, <2>5, <2>9, <2>10 DEF table, row, S
<1>4. QED
    BY <1>2, <1>3

\* The cache is what the system tables hold; a load that passes over a page is
\* remembered.
LEMMA ReopenStep ==
    ASSUME IInv, NEW lostTables, NEW lostColumns, Reopen(lostTables, lostColumns)
    PROVE  IInv'
<1>0. /\ call = Idle
      /\ cache' = [n \in Name |-> LoadedTable(n, lostTables, lostColumns)]
      /\ sysTables' = [sysTables EXCEPT !.hint = 0]
      /\ sysColumns' = [sysColumns EXCEPT !.hint = 0]
      /\ missed' = (missed \/ lostTables \cup lostColumns # {})
      /\ UNCHANGED <<nextOid, iamChains, call, created>>
    BY DEF Reopen
<1>1. /\ sysTables \in TableOf(SysTableRows) /\ sysColumns \in TableOf(SysColumnRows)
      /\ iamChains \in Nat
    BY StateFacts
<1>2. ASSUME NEW R, NEW old \in TableOf(R), NEW new, new = [old EXCEPT !.hint = 0]
      PROVE  /\ new \in TableOf(R) /\ Places(new, {}) = Places(old, {})
             /\ \A a \in Places(old, {}) : RowAt(new, a) = RowAt(old, a)
    <2>1. old \in [pages : Seq(PageOf(R)), hint : Nat] /\ Len(old.pages) % EXTENT_SIZE = 0
        BY <1>2 DEF TableOf
    <2>2. new = [pages |-> old.pages, hint |-> 0] /\ new.pages = old.pages /\ new.hint = 0
        BY <1>2, <2>1
    <2>3. Len(old.pages) \in Nat /\ old.pages \in Seq(PageOf(R))
        BY <1>2, TableFacts
    <2>4. new \in TableOf(R)
        BY <2>1, <2>2, <2>3 DEF TableOf
    <2>5. QED
        BY <2>2, <2>4, SamePages
<1>3. /\ sysTables' \in TableOf(SysTableRows)
      /\ Places(sysTables', {}) = Places(sysTables, {})
      /\ \A a \in Places(sysTables, {}) : RowAt(sysTables', a) = RowAt(sysTables, a)
    BY <1>0, <1>1, <1>2
<1>4. /\ sysColumns' \in TableOf(SysColumnRows)
      /\ Places(sysColumns', {}) = Places(sysColumns, {})
      /\ \A a \in Places(sysColumns, {}) : RowAt(sysColumns', a) = RowAt(sysColumns, a)
    BY <1>0, <1>1, <1>2
<1>5. /\ \A m, oid, iam : HasRow(m, oid, iam)' <=> HasRow(m, oid, iam)
      /\ \A oid, s, k : Holds(oid, s, k)' <=> Holds(oid, s, k)
      /\ \A n : Named(n, {})' = Named(n, {})
      /\ \A oid : ColumnsOf(oid, {})' = ColumnsOf(oid, {})
      /\ OidsNameOneTable'
    BY <1>3, <1>4, SameTables, SameColumns DEF IInv, TablesInv
<1>6. \A n \in Name : /\ cache'[n] \in TableMetadata
                      /\ cache'[n].iam <= iamChains
                      /\ cache'[n] # NoTable <=> Named(n, lostTables) # {}
    <2>1. \A n \in Name : cache'[n] = LoadedTable(n, lostTables, lostColumns)
        BY <1>0
    <2>2. QED
        BY <2>1, LoadedTableFacts
<1>7. \A n \in Name : Named(n, lostTables) \subseteq Named(n, {})
    BY <1>1, PlacesFacts DEF Named
<1>8. TypeInv'
    <2>1. cache' \in [Name -> TableMetadata]
        BY <1>0, <1>6
    <2>2. missed' \in BOOLEAN
        BY <1>0
    <2>3. QED
        BY <1>0, <1>3, <1>4, <2>1, <2>2 DEF IInv, TypeInv
<1>9. TablesInv'
    BY <1>0, <1>3, <1>5 DEF IInv, TablesInv
<1>10. ColumnsInv'
    BY <1>0, <1>4, <1>5 DEF IInv, ColumnsInv
<1>11. CallInv'
    <2>1. call.step = "idle"
        BY <1>0 DEF Idle
    <2>2. QED
        BY <1>0, <2>1 DEF IInv, CallInv
<1>12. CreatedInv'
    BY <1>0, <1>5 DEF IInv, CreatedInv
<1>13. CacheInv'
    BY <1>0, <1>5, <1>6, <1>7 DEF CacheInv
<1>14. OnceInv'
    <2> SUFFICES ASSUME ~missed'
                 PROVE  \A n \in Name : /\ Len(created[n]) <= 1
                                        /\ created[n] # <<>> => cache'[n] # NoTable
        <3>1. call'.step = "idle"
            BY <1>0 DEF Idle
        <3>2. QED
            BY <1>0, <3>1 DEF OnceInv
    <2>1. ~missed /\ lostTables = {}
        BY <1>0
    <2>2. \A n \in Name : Len(created[n]) <= 1 /\ (created[n] # <<>> => cache[n] # NoTable)
        BY <2>1 DEF IInv, OnceInv
    <2>3. \A n \in Name : cache[n] # NoTable => Named(n, {}) # {}
        BY DEF IInv, CacheInv
    <2>4. QED
        BY <1>6, <2>1, <2>2, <2>3
<1>15. QED
    BY <1>8, <1>9, <1>10, <1>11, <1>12, <1>13, <1>14 DEF IInv

\* Every step keeps the invariant.
LEMMA CatalogStep == OidsSuffice /\ IInv /\ [Next]_vars => IInv'
<1> SUFFICES ASSUME OidsSuffice, IInv, [Next]_vars PROVE IInv'
    OBVIOUS
<1>1. CASE \E n \in Name, schema \in Schema : BeginCreateTable(n, schema)
    BY <1>1, BeginStep
<1>2. CASE CreateIamChain
    BY <1>2, ChainStep
<1>3. CASE InsertSysTableRecord
    BY <1>3, TableRowStep
<1>4. CASE InsertSysColumnRecord
    BY <1>4, ColumnRowStep
<1>5. CASE CacheTable
    BY <1>5, CacheStep
<1>6. CASE CreateTableFails
    BY <1>6, FailStep
<1>7. CASE ReopenWhole
    BY <1>7, ReopenStep DEF ReopenWhole
<1>8. CASE ReopenPartly
    BY <1>8, ReopenStep DEF ReopenPartly
<1>9. CASE UNCHANGED vars
    <2>1. UNCHANGED <<nextOid, iamChains, sysTables, sysColumns, cache, call, created, missed>>
        BY <1>9 DEF vars
    <2>2. /\ \A m, oid, iam : HasRow(m, oid, iam)' <=> HasRow(m, oid, iam)
          /\ \A oid, s, k : Holds(oid, s, k)' <=> Holds(oid, s, k)
        BY <2>1, SameTables, SameColumns
    <2>3. TypeInv' /\ TablesInv' /\ ColumnsInv'
        BY <2>1 DEF IInv, TypeInv, TablesInv, OidsNameOneTable, ColumnsInv, ColumnsOf
    <2>4. CallInv' /\ CreatedInv'
        <3>1. Holds(call.oid, call.schema, call.recorded)'
                 <=> Holds(call.oid, call.schema, call.recorded)
            BY <2>1, <2>2
        <3>2. HasRow(call.name, call.oid, call.iam)' <=> HasRow(call.name, call.oid, call.iam)
            BY <2>1, <2>2
        <3>3. CallInv'
            BY <2>1, <3>1, <3>2 DEF IInv, CallInv
        <3>4. CreatedInv'
            BY <2>1, <2>2 DEF IInv, CreatedInv
        <3>5. QED
            BY <3>3, <3>4
    <2>5. CacheInv' /\ OnceInv'
        BY <2>1 DEF IInv, CacheInv, Named, OnceInv
    <2>6. QED
        BY <2>3, <2>4, <2>5 DEF IInv
<1>10. QED
    BY <1>1, <1>2, <1>3, <1>4, <1>5, <1>6, <1>7, <1>8, <1>9 DEF Next

-----------------------------------------------------------------------------
(* Theorems *)

\* The invariant holds as long as there are oids.
THEOREM Invariance == ASSUME OidsSuffice PROVE Spec => []IInv
<1>1. IInv /\ [Next]_vars => IInv'
    BY OidsSuffice, CatalogStep
<1>2. QED
    BY <1>1, InitInv, PTL DEF Spec

\* The header's counters, the pages of the system tables, the cache and the
\* arguments of create_table keep their types: no page gets more rows than it
\* has room for, and no schema more columns than MAX_COLUMNS.
THEOREM TypeCorrect == ASSUME OidsSuffice PROVE Spec => []TypeOK
<1>1. IInv => TypeOK
    <2> SUFFICES ASSUME IInv PROVE TypeOK
        OBVIOUS
    <2>1. nextOid \in 0..(UINT16 - 1) /\ iamChains \in Nat
        <3>1. UINT16 \in Nat /\ FIRST_OID + MaxCreations < UINT16
            BY OidsSuffice DEF OidsSuffice, UINT16
        <3>2. QED
            BY <3>1, StateFacts
    <2>2. ASSUME NEW R, NEW table \in TableOf(R)
          PROVE  /\ Len(table.pages) % EXTENT_SIZE = 0
                 /\ table.hint \in 0..Len(table.pages)
                 /\ \A p \in DOMAIN table.pages : table.pages[p].room \in 0..PAGE_ROOM
        <3>1. Len(table.pages) % EXTENT_SIZE = 0
            BY DEF TableOf
        <3>2. QED
            BY <3>1, TableFacts
    <2>3. \A table \in {sysTables, sysColumns} :
             /\ Len(table.pages) % EXTENT_SIZE = 0
             /\ table.hint \in 0..Len(table.pages)
             /\ \A p \in DOMAIN table.pages : table.pages[p].room \in 0..PAGE_ROOM
        BY <2>2, StateFacts
    <2>4. \A n \in Name : /\ cache[n].oid \in Nat
                          /\ cache[n].iam \in 0..iamChains
                          /\ Len(cache[n].schema) <= MAX_COLUMNS
        <3>1. \A n \in Name : /\ cache[n].oid \in Nat /\ cache[n].iam \in Nat
                              /\ Len(cache[n].schema) <= MAX_COLUMNS
            BY StateFacts DEF TableMetadata, Schemas
        <3>2. \A n \in Name : cache[n].iam <= iamChains
            BY DEF IInv, CacheInv
        <3>3. QED
            BY <2>1, <3>1, <3>2
    <2>5. call.step \in Steps /\ call.recorded \in 0..Len(call.schema)
        BY StateFacts DEF IInv, CallInv, Calls
    <2>6. QED
        BY <2>1, <2>3, <2>4, <2>5 DEF TypeOK, Steps
<1>2. QED
    BY <1>1, Invariance, PTL

\* No two rows of sys_tables share an oid or an IAM chain (get_next_table_id,
\* create_iam_chain), whatever creations fail half-way.
THEOREM OidsAreUnique == ASSUME OidsSuffice PROVE Spec => []OidsNameOneTable
<1>1. IInv => OidsNameOneTable
    BY DEF IInv, TablesInv
<1>2. QED
    BY <1>1, Invariance, PTL

\* create_table gives a name to one table, over any number of failures and of
\* loads that miss no page.
THEOREM NamesAreUnique == ASSUME OidsSuffice PROVE Spec => []CreatedOnce
<1>1. IInv => CreatedOnce
    BY DEF IInv, OnceInv, CreatedOnce
<1>2. QED
    BY <1>1, Invariance, PTL

\* A schema that is loaded whole has the columns that were stored, each as
\* often.
LEMMA LoadedColumns ==
    ASSUME IInv, NEW oid \in Nat, NEW schema \in Schemas, Holds(oid, schema, Len(schema)),
           NEW name \in ColumnName
    PROVE  LET loaded == LoadedSchema(oid, {})
           IN  Cardinality({i \in DOMAIN loaded : loaded[i].name = name})
                  = Cardinality({i \in DOMAIN schema : schema[i].name = name})
<1> DEFINE S == ColumnsOf(oid, {})
           n == Cardinality(S)
           loaded == LoadedSchema(oid, {})
<1>1. OfName(oid, name) \in SUBSET S
    BY DEF OfName
<1>2. S \in SUBSET Place /\ IsFiniteSet(S) /\ \A i \in 1..n : Nth(S, i) \in S
    BY FoundColumns
<1>3. DOMAIN loaded = 1..n
    BY DEF LoadedSchema
<1>4. \A i \in 1..n : loaded[i].name = RowAt(sysColumns, Nth(S, i)).name
    BY DEF LoadedSchema
<1>5. \A i \in 1..n : loaded[i].name = name <=> Nth(S, i) \in OfName(oid, name)
    BY <1>2, <1>4 DEF OfName
<1> HIDE DEF loaded, n
<1>6. {i \in DOMAIN loaded : loaded[i].name = name}
         = {i \in 1..n : Nth(S, i) \in OfName(oid, name)}
    BY <1>3, <1>5
<1> HIDE DEF S
<1>7. Cardinality({i \in 1..n : Nth(S, i) \in OfName(oid, name)})
         = Cardinality(OfName(oid, name))
    BY <1>1, <1>2, CountInOrder DEF n
<1>8. DOMAIN schema = 1..Len(schema)
    BY LenProperties DEF Schemas
<1>9. Cardinality(OfName(oid, name)) = Cardinality({i \in 1..Len(schema) : schema[i].name = name})
    BY DEF Holds
<1>10. QED
    BY <1>6, <1>7, <1>8, <1>9 DEF loaded

\* Opening the database with every page finds every table that was created or
\* could be used, and a table whose name was used once gets its own chain and
\* its own columns (load_all_tables).
THEOREM TablesAreReopened == ASSUME OidsSuffice PROVE Spec => ReopenKeepsTables
<1> DEFINE Kept == ReopenWhole => \A n \in Name :
                     /\ cache[n] # NoTable \/ created[n] # <<>> => cache'[n] # NoTable
                     /\ Len(created[n]) = 1 /\ Cardinality(Named(n, {})) = 1 =>
                           /\ cache'[n].iam = created[n][1].iam
                           /\ ColumnNames(cache'[n]) = ColumnNames(created[n][1])
<1>1. IInv /\ [Next]_vars => [Kept]_vars
    <2> SUFFICES ASSUME IInv, ReopenWhole, NEW n \in Name
                 PROVE  /\ cache[n] # NoTable \/ created[n] # <<>> => cache'[n] # NoTable
                        /\ Len(created[n]) = 1 /\ Cardinality(Named(n, {})) = 1 =>
                              /\ cache'[n].iam = created[n][1].iam
                              /\ ColumnNames(cache'[n]) = ColumnNames(created[n][1])
        OBVIOUS
    <2> DEFINE new == LoadedTable(n, {}, {})
    <2>1. cache'[n] = new
        BY DEF ReopenWhole, Reopen
    <2>2. /\ new # NoTable <=> Named(n, {}) # {}
          /\ Named(n, {}) # {} =>
                \E a \in Named(n, {}) :
                   new = [oid    |-> RowAt(sysTables, a).oid,
                          iam    |-> RowAt(sysTables, a).iam,
                          schema |-> LoadedSchema(RowAt(sysTables, a).oid, {})]
        BY LoadedTableFacts
    <2> HIDE DEF new
    <2>3. created[n] \in Seq(TableMetadata) /\ Len(created[n]) \in Nat
        BY StateFacts, LenProperties
    <2>4. \A k \in 1..Len(created[n]) :
              /\ HasRow(n, created[n][k].oid, created[n][k].iam)
              /\ Holds(created[n][k].oid, created[n][k].schema, Len(created[n][k].schema))
              /\ created[n][k] \in TableMetadata
        BY <2>3, ElementOfSeq DEF IInv, CreatedInv
    <2>5. created[n] # <<>> => Named(n, {}) # {}
        <3>1. created[n] # <<>> => 1 \in 1..Len(created[n])
            BY <2>3, EmptySeq
        <3>2. \A oid, iam : HasRow(n, oid, iam) => Named(n, {}) # {}
            BY DEF HasRow, Named
        <3>3. QED
            BY <2>4, <3>1, <3>2
    <2>6. cache[n] # NoTable => Named(n, {}) # {}
        BY DEF IInv, CacheInv
    <2>7. ASSUME Len(created[n]) = 1, Cardinality(Named(n, {})) = 1
          PROVE  /\ new.iam = created[n][1].iam
                 /\ ColumnNames(new) = ColumnNames(created[n][1])
        <3> DEFINE table == created[n][1]
        <3>1. /\ HasRow(n, table.oid, table.iam)
              /\ Holds(table.oid, table.schema, Len(table.schema))
              /\ table \in TableMetadata
            BY <2>4, <2>7
        <3> HIDE DEF table
        <3>2. PICK a \in Named(n, {}) : /\ RowAt(sysTables, a).oid = table.oid
                                        /\ RowAt(sysTables, a).iam = table.iam
            BY <3>1 DEF HasRow, Named
        <3>3. \A b \in Named(n, {}) : b = a
            <4>1. Named(n, {}) \in SUBSET Places(sysTables, {})
                BY DEF Named
            <4>2. IsFiniteSet(Named(n, {}))
                BY <4>1, FS_Subset DEF IInv, TablesInv
            <4>3. \E x : Named(n, {}) = {x}
                BY <2>7, <4>2, FS_Singleton
            <4>4. QED
                BY <4>3
        <3>4. new = [oid |-> table.oid, iam |-> table.iam,
                     schema |-> LoadedSchema(table.oid, {})]
            BY <2>2, <3>2, <3>3
        <3>5. table.oid \in Nat /\ table.schema \in Schemas
            BY <3>1 DEF TableMetadata
        <3>6. \A name \in ColumnName :
                 Cardinality({i \in DOMAIN new.schema : new.schema[i].name = name})
                    = Cardinality({i \in DOMAIN table.schema : table.schema[i].name = name})
            BY <3>1, <3>4, <3>5, LoadedColumns
        <3>7. ColumnNames(new) = ColumnNames(table)
            BY <3>6 DEF ColumnNames
        <3>8. QED
            BY <3>4, <3>7 DEF table
    <2>8. QED
        BY <2>1, <2>2, <2>5, <2>6, <2>7
<1>2. QED
    BY <1>1, Invariance, PTL DEF Spec, ReopenKeepsTables
=============================================================================
