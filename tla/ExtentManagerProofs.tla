------------------------- MODULE ExtentManagerProofs -------------------------
(***************************************************************************)
(* The invariants of extent allocation and its refinement of ExtentSpace,  *)
(* for every extent size, every number of bits per GAM page, every last    *)
(* extent and every set of pages the users of extents write.               *)
(***************************************************************************)
EXTENDS ExtentManager, CommonLemmas

-----------------------------------------------------------------------------
(* The inductive invariant *)

LastGamPage == chain[Len(chain)]

\* A page past the end of the file can only be in the chain, or about to be
\* linked, while it is still dirty: create_and_link_new_gam takes the page at
\* the end of the file, and that must not be one it has taken before.
UnwrittenAreDirty(last) ==
    \A p \in PageId : fileSize <= p /\ p <= last => p \in dirty

\* The cursor is at the last GAM page of the chain.
CursorAtEnd == cursorIdx + 1 = Len(chain)

\* Each GAM page links to the next and the last one to none.
LinksFollowChain ==
    /\ \A i \in 1..Len(chain) : i < Len(chain) => next[chain[i]] = chain[i + 1]
    /\ next[LastGamPage] = INVALID_PAGE_ID

\* The links a deallocation has followed lead along the chain.
WalkInChain ==
    step = "find" =>
        /\ gamIdx < Len(chain)
        /\ gam = chain[gamIdx + 1]
        /\ gamIdx <= target \div GAM_MAX_BITS

\* A deallocation is called by a user of the extent, who keeps it meanwhile.
FreesUsed == step = "find" => users[target] > 0

\* What holds even when links have been overwritten.
BaseInv == TypeOK /\ FreesUsed

\* What holds as long as no link has been overwritten.
GamChain ==
    /\ CursorInChain
    /\ chain[1] = FIRST_GAM_PAGE_ID
    /\ 2 * EXTENT_SIZE <= fileSize
    /\ LinksFollowChain
    /\ WalkInChain
    /\ UnwrittenAreDirty(LastGamPage)
    /\ step = "link" => CursorAtEnd /\ cursor < newGam /\ UnwrittenAreDirty(newGam)

ChainInv == BaseInv /\ ~overwritten /\ GamChain

ChainOrOverwritten == BaseInv /\ (~overwritten => ChainInv)

\* The GAM pages all lie in extent 1, which nobody is given.
ChainInGamExtent == \A i \in 1..Len(chain) : chain[i] < 2 * EXTENT_SIZE

\* The GAM pages are the first pages of extent 1, in order.
ChainIsGamExtent == \A i \in 1..Len(chain) : chain[i] = EXTENT_SIZE + i - 1

\* The page that is about to be linked is the next one and stands for extents
\* that are all free, and nothing is free in the page it is linked to.
NewGamIsEmpty ==
    step = "link" =>
        /\ FreeBits(cursor) = {}
        /\ newGam < 2 * EXTENT_SIZE =>
              /\ newGam = cursor + 1
              /\ bits[newGam] = {}
              /\ hint[newGam] = 0
              /\ next[newGam] = INVALID_PAGE_ID

\* Every bit that is set stands for extent 0 or 1 or for an extent with one
\* user, and every extent with a user has a bit.
BitsMatchUsers ==
    /\ users[0] = 0 /\ users[1] = 0
    /\ \A i \in 1..Len(chain) : \A b \in Bit :
          b \in bits[chain[i]] <=>
              /\ ExtentAt(i - 1, b) \in Extent
              /\ ExtentAt(i - 1, b) \in {0, 1} \/ users[ExtentAt(i - 1, b)] = 1
    /\ \A e \in Extent : users[e] \in {0, 1}
    /\ \A e \in Extent : users[e] = 1 => e \div GAM_MAX_BITS < Len(chain)

SpaceInv ==
    /\ ChainIsGamExtent
    /\ NewGamIsEmpty
    /\ NothingFreeIsSkipped
    /\ BitsMatchUsers

IInv ==
    /\ ChainOrOverwritten
    /\ ChainInGamExtent => ~overwritten /\ SpaceInv

\* A database whose extents the pages of the GAM extent have bits for, and one
\* bit to spare.
SmallDatabase == MaxExtent + 1 < EXTENT_SIZE * GAM_MAX_BITS

StaysInGamExtent ==
    /\ ChainInGamExtent
    /\ step = "link" => newGam < 2 * EXTENT_SIZE

-----------------------------------------------------------------------------
(* Extents, pages and bits *)

\* Two bits of the chain never stand for the same extent.
LEMMA ExtentAtUnique ==
    ASSUME NEW i \in Nat, NEW j \in Nat, NEW b \in Bit, NEW c \in Bit,
           ExtentAt(i, b) = ExtentAt(j, c)
    PROVE  i = j /\ b = c
<1> USE ExtentAssumption
<1> DEFINE G == GAM_MAX_BITS
<1>1. G \in Nat /\ b \in 0..(G - 1) /\ c \in 0..(G - 1)
    BY DEF Bit
<1>2. i * G + b = j * G + c
    BY DEF ExtentAt
<1>3. i * G \in Nat /\ j * G \in Nat
    BY <1>1, Products
<1>4. ~(i + 1 <= j)
    <2>1. i + 1 <= j => i * G + G <= j * G
        BY <1>1, Products
    <2>2. QED
        BY <1>1, <1>2, <1>3, <2>1
<1>5. ~(j + 1 <= i)
    <2>1. j + 1 <= i => j * G + G <= i * G
        BY <1>1, Products
    <2>2. QED
        BY <1>1, <1>2, <1>3, <2>1
<1>6. i = j
    BY <1>4, <1>5
<1>7. QED
    BY <1>1, <1>2, <1>3, <1>6

\* deallocate_extent finds the bit by division.
LEMMA ExtentDivision ==
    ASSUME NEW e \in Nat
    PROVE  /\ e \div GAM_MAX_BITS \in Nat
           /\ e % GAM_MAX_BITS \in Bit
           /\ ExtentAt(e \div GAM_MAX_BITS, e % GAM_MAX_BITS) = e
<1> USE ExtentAssumption
<1>1. GAM_MAX_BITS \in Nat \ {0}
    OBVIOUS
<1>2. QED
    BY <1>1, Division DEF Bit, ExtentAt

\* The extents of bits are ordered like their GAM pages and then the bits.
LEMMA ExtentAtOrder ==
    ASSUME NEW i \in Nat, NEW j \in Nat, NEW b \in Bit, NEW c \in Bit
    PROVE  /\ ExtentAt(i, b) \in Nat
           /\ ExtentAt(i, b) \div GAM_MAX_BITS = i
           /\ i < j => ExtentAt(i, b) < ExtentAt(j, c)
           /\ i = j /\ b <= c => ExtentAt(i, b) <= ExtentAt(j, c)
<1> USE ExtentAssumption
<1>1. /\ i * GAM_MAX_BITS \in Nat /\ j * GAM_MAX_BITS \in Nat
      /\ i < j => i * GAM_MAX_BITS + GAM_MAX_BITS <= j * GAM_MAX_BITS
    <2>1. i + 1 <= j => (i + 1) * GAM_MAX_BITS <= j * GAM_MAX_BITS
        BY Products
    <2>2. QED
        BY <2>1, Products
<1>2. ExtentAt(i, b) \in Nat
    BY <1>1 DEF ExtentAt, Bit
<1>3. ExtentAt(i, b) \div GAM_MAX_BITS = i
    <2> DEFINE e == ExtentAt(i, b)
    <2>1. /\ e \div GAM_MAX_BITS \in Nat
          /\ e % GAM_MAX_BITS \in Bit
          /\ ExtentAt(e \div GAM_MAX_BITS, e % GAM_MAX_BITS) = e
        BY <1>2, ExtentDivision
    <2>2. QED
        BY <2>1, ExtentAtUnique
<1>4. i < j => ExtentAt(i, b) < ExtentAt(j, c)
    BY <1>1 DEF ExtentAt, Bit
<1>5. i = j /\ b <= c => ExtentAt(i, b) <= ExtentAt(j, c)
    BY <1>1 DEF ExtentAt, Bit
<1>6. QED
    BY <1>2, <1>3, <1>4, <1>5

\* A page of extent 1 is in no other extent.
LEMMA PagesOfExtentOne ==
    ASSUME NEW e \in Extent, NEW p \in PagesOf(e),
           EXTENT_SIZE <= p, p < 2 * EXTENT_SIZE
    PROVE  e = 1
<1> USE ExtentAssumption
<1>1. e \in Nat /\ p \in Int /\ e * EXTENT_SIZE <= p /\ p < e * EXTENT_SIZE + EXTENT_SIZE
    BY Products DEF PagesOf, Extent
<1>2. e # 0
    BY <1>1
<1>3. ~(2 <= e)
    <2>1. 2 <= e => 2 * EXTENT_SIZE <= e * EXTENT_SIZE
        BY <1>1, Products
    <2>2. QED
        BY <1>1, <2>1
<1>4. QED
    BY <1>1, <1>2, <1>3

\* The pages of extent 1 and the page after them.
LEMMA ExtentOfPage ==
    ASSUME NEW p \in Nat, EXTENT_SIZE <= p, p <= 2 * EXTENT_SIZE
    PROVE  ExtentOf(p) = IF p < 2 * EXTENT_SIZE THEN 1 ELSE 2
<1> USE ExtentAssumption
<1> DEFINE d == p \div EXTENT_SIZE
           r == p % EXTENT_SIZE
<1>1. d \in Nat /\ r \in 0..(EXTENT_SIZE - 1) /\ p = d * EXTENT_SIZE + r
    BY Division
<1>2. d # 0
    BY <1>1
<1>3. 2 <= d => 2 * EXTENT_SIZE <= d * EXTENT_SIZE
    BY <1>1, Products
<1>4. 3 <= d => 3 * EXTENT_SIZE <= d * EXTENT_SIZE
    BY <1>1, Products
<1>5. CASE p < 2 * EXTENT_SIZE
    <2>1. ~(2 <= d)
        BY <1>1, <1>3, <1>5
    <2>2. QED
        BY <1>1, <1>2, <1>5, <2>1 DEF ExtentOf
<1>6. CASE p = 2 * EXTENT_SIZE
    <2>1. d # 1 /\ ~(3 <= d)
        BY <1>1, <1>4, <1>6
    <2>2. QED
        BY <1>1, <1>2, <1>6, <2>1 DEF ExtentOf
<1>7. QED
    BY <1>5, <1>6

\* The first GAM page is a page of the database.
LEMMA PageIds ==
    /\ EXTENT_SIZE \in PageId /\ 0 \in PageId
    /\ PageId \subseteq Nat
    /\ \A p \in PageId : \A q \in Nat : q <= p => q \in PageId
<1> USE ExtentAssumption
<1>1. (MaxExtent + 1) * EXTENT_SIZE \in Nat /\ 2 * EXTENT_SIZE <= (MaxExtent + 1) * EXTENT_SIZE
    BY Products
<1>2. QED
    BY <1>1 DEF PageId

-----------------------------------------------------------------------------
(* The chain and the cursor *)

\* The last page of the chain is the highest, and the cursor is in the chain.
LEMMA ChainFacts ==
    ASSUME ChainInv
    PROVE  /\ Len(chain) \in Nat \ {0}
           /\ \A i \in 1..Len(chain) : chain[i] \in PageId /\ chain[i] <= LastGamPage
           /\ LastGamPage \in PageId
           /\ cursorIdx \in Nat /\ cursorIdx + 1 \in 1..Len(chain)
           /\ cursor = chain[cursorIdx + 1]
           /\ CursorAtEnd => cursor = LastGamPage
<1>1. /\ chain \in Seq(PageId) /\ chain # <<>> /\ cursorIdx \in Nat
      /\ cursorIdx < Len(chain) /\ cursor = chain[cursorIdx + 1]
      /\ \A j, k \in 1..Len(chain) : j < k => chain[j] < chain[k]
    BY DEF ChainInv, BaseInv, GamChain, TypeOK, CursorInChain
<1>2. Len(chain) \in Nat \ {0}
    BY <1>1, LenProperties, EmptySeq
<1>3. \A i \in 1..Len(chain) : chain[i] \in PageId /\ chain[i] \in Nat
    BY <1>1, ElementOfSeq, PageIds
<1>4. LastGamPage \in PageId /\ LastGamPage \in Nat
    BY <1>2, <1>3 DEF LastGamPage
<1>5. ASSUME NEW i \in 1..Len(chain) PROVE chain[i] <= LastGamPage
    <2>1. CASE i = Len(chain)
        BY <1>2, <1>3, <1>4, <2>1 DEF LastGamPage
    <2>2. CASE i < Len(chain)
        BY <1>1, <1>2, <1>3, <2>2 DEF LastGamPage
    <2>3. QED
        BY <1>2, <2>1, <2>2
<1>6. cursorIdx + 1 \in 1..Len(chain) /\ (CursorAtEnd => cursor = LastGamPage)
    BY <1>1, <1>2 DEF CursorAtEnd, LastGamPage
<1>7. QED
    BY <1>1, <1>2, <1>3, <1>4, <1>5, <1>6

\* Only the last page of the chain has no link.
LEMMA LinkFacts ==
    ASSUME ChainInv, NEW i \in 1..Len(chain)
    PROVE  /\ next[chain[i]] = INVALID_PAGE_ID <=> i = Len(chain)
           /\ i # Len(chain) => i + 1 \in 1..Len(chain) /\ next[chain[i]] = chain[i + 1]
<1>1. Len(chain) \in Nat /\ \A j \in 1..Len(chain) : chain[j] \in Nat
    BY ChainFacts, PageIds
<1>2. /\ i < Len(chain) => next[chain[i]] = chain[i + 1]
      /\ i = Len(chain) => next[chain[i]] = INVALID_PAGE_ID
    BY DEF ChainInv, GamChain, LinksFollowChain, LastGamPage
<1>3. i # Len(chain) => i < Len(chain) /\ i + 1 \in 1..Len(chain)
    BY <1>1
<1>4. QED
    BY <1>1, <1>2, <1>3 DEF INVALID_PAGE_ID

\* The cursor's page is the last one iff it has no link, and its link is the
\* next page of the chain.
LEMMA CursorLink ==
    ASSUME ChainInv
    PROVE  /\ LastGam <=> CursorAtEnd
           /\ ~LastGam => /\ cursorIdx + 1 \in 0..(Len(chain) - 1)
                          /\ next[cursor] = chain[(cursorIdx + 1) + 1]
<1>1. /\ Len(chain) \in Nat /\ cursorIdx \in Nat /\ cursorIdx + 1 \in 1..Len(chain)
      /\ cursor = chain[cursorIdx + 1]
    BY ChainFacts
<1>2. LastGam <=> CursorAtEnd
    BY <1>1, LinkFacts DEF LastGam, CursorAtEnd
<1>3. ~CursorAtEnd => /\ (cursorIdx + 1) + 1 \in 1..Len(chain)
                      /\ next[cursor] = chain[(cursorIdx + 1) + 1]
    BY <1>1, LinkFacts DEF CursorAtEnd
<1>4. QED
    BY <1>1, <1>2, <1>3

\* The page a new GAM gets is past the whole chain.
LEMMA NewGamIsPastChain ==
    ASSUME ChainInv, FreeBits(cursor) = {}, LastGam, NewGamPage \in PageId \ dirty
    PROVE  /\ LastGamPage < NewGamPage
           /\ ~FitsInCurrentExtent => LastGamPage < fileSize
<1>1. cursor = LastGamPage /\ LastGamPage \in Nat /\ LastGamPage \in PageId
    BY ChainFacts, CursorLink, PageIds
<1>2. CASE FitsInCurrentExtent
    BY <1>1, <1>2 DEF NewGamPage
<1>3. CASE ~FitsInCurrentExtent
    <2>1. NewGamPage = fileSize /\ fileSize \in Nat
        BY <1>3 DEF NewGamPage, ChainInv, BaseInv, TypeOK
    <2>2. ~(fileSize <= LastGamPage)
        BY <1>1, <2>1 DEF ChainInv, GamChain, UnwrittenAreDirty
    <2>3. QED
        BY <1>1, <2>1, <2>2
<1>4. QED
    BY <1>2, <1>3

\* A new database has one GAM page, and it is written up to its end.
LEMMA ChainInit == Init => ChainInv
<1> USE ExtentAssumption
<1> SUFFICES ASSUME Init PROVE ChainInv
    OBVIOUS
<1>1. /\ FIRST_GAM_PAGE_ID \in PageId /\ 0 \in PageId /\ 0 \in Extent
      /\ {0, 1} \subseteq Bit
      /\ EXTENT_SIZE < 2 * EXTENT_SIZE
    BY PageIds DEF FIRST_GAM_PAGE_ID, Bit, Extent
<1>2. /\ chain \in Seq(PageId) /\ chain # <<>>
      /\ Len(chain) = 1 /\ chain[1] = FIRST_GAM_PAGE_ID /\ LastGamPage = FIRST_GAM_PAGE_ID
    BY <1>1 DEF Init, LastGamPage
<1>3. CursorInChain
    BY <1>2 DEF Init, CursorInChain
<1>4. BaseInv
    <2>1. /\ bits \in [PageId -> SUBSET Bit] /\ hint \in [PageId -> 0..GAM_MAX_BITS]
          /\ next \in [PageId -> Link]
        BY <1>1 DEF Init, Link
    <2>2. users \in [Extent -> Nat] /\ fileSize \in Nat /\ dirty \subseteq PageId
        BY <1>1 DEF Init, FIRST_GAM_PAGE_ID
    <2>3. TypeOK
        BY <1>1, <1>2, <1>3, <2>1, <2>2 DEF Init, TypeOK
    <2>4. QED
        BY <2>3 DEF Init, BaseInv, FreesUsed
<1>5. UnwrittenAreDirty(LastGamPage)
    BY <1>1, <1>2, PageIds DEF Init, UnwrittenAreDirty, FIRST_GAM_PAGE_ID
<1>6. LinksFollowChain
    <2>1. next[FIRST_GAM_PAGE_ID] = INVALID_PAGE_ID
        BY <1>1 DEF Init
    <2>2. QED
        BY <1>2, <2>1 DEF LinksFollowChain
<1>7. QED
    BY <1>2, <1>3, <1>4, <1>5, <1>6 DEF Init, ChainInv, GamChain, WalkInChain

\* A step that cleans no page past the end of the file.
NoneLost ==
    /\ fileSize' \in Nat /\ fileSize <= fileSize'
    /\ \A p \in PageId : fileSize' <= p /\ p \in dirty => p \in dirty'

\* Pages past the end of the file stay dirty.
LEMMA UnwrittenKept ==
    ASSUME BaseInv, NoneLost, NEW last \in PageId, UnwrittenAreDirty(last)
    PROVE  UnwrittenAreDirty(last)'
<1>1. fileSize \in Nat
    BY DEF BaseInv, TypeOK
<1>2. QED
    BY <1>1, PageIds DEF NoneLost, UnwrittenAreDirty

\* A step that leaves the chain, its links, the cursor and the call in
\* progress alone.
LEMMA ChainKept ==
    ASSUME ChainInv, UNCHANGED <<chain, next, cursor, cursorIdx, newGam>>,
           step' = step \/ step' \in {"idle", "search"},
           UNCHANGED walkVars \/ step' # "find",
           NoneLost
    PROVE  GamChain'
<1>1. CursorInChain' /\ chain'[1] = FIRST_GAM_PAGE_ID /\ LinksFollowChain'
    BY DEF ChainInv, GamChain, CursorInChain, LinksFollowChain, LastGamPage
<1>2. WalkInChain'
    BY DEF ChainInv, GamChain, WalkInChain, walkVars
<1>3. 2 * EXTENT_SIZE <= fileSize'
    BY ExtentAssumption DEF ChainInv, BaseInv, GamChain, TypeOK, NoneLost
<1>4. LastGamPage' = LastGamPage /\ LastGamPage \in PageId /\ newGam \in PageId /\ BaseInv
    BY ChainFacts DEF ChainInv, BaseInv, TypeOK, LastGamPage
<1>5. UnwrittenAreDirty(LastGamPage)'
    BY <1>4, UnwrittenKept DEF ChainInv, GamChain, UnwrittenAreDirty
<1>6. step' = "link" => CursorAtEnd' /\ cursor' < newGam' /\ UnwrittenAreDirty(newGam)'
    BY <1>4, UnwrittenKept DEF ChainInv, GamChain, CursorAtEnd, UnwrittenAreDirty
<1>7. QED
    BY <1>1, <1>2, <1>3, <1>5, <1>6 DEF GamChain

\* create_and_link_new_gam formats a page past the chain.
LEMMA CreateKeepsChain ==
    ASSUME ChainInv, CreateNewGam
    PROVE  GamChain'
<1> DEFINE g == NewGamPage
<1>1. /\ FreeBits(cursor) = {} /\ LastGam /\ g \in PageId \ dirty
      /\ next' = [next EXCEPT ![g] = INVALID_PAGE_ID]
      /\ newGam' = g /\ dirty' = dirty \cup {g} /\ step' = "link"
      /\ UNCHANGED <<chain, cursor, cursorIdx, users, fileSize>>
    BY DEF CreateNewGam, linked
<1>2. /\ cursor = LastGamPage /\ LastGamPage \in PageId /\ LastGamPage < g
      /\ ~FitsInCurrentExtent => LastGamPage < fileSize
      /\ CursorAtEnd
    BY <1>1, NewGamIsPastChain, ChainFacts, CursorLink
<1>3. g = cursor + 1 \/ (g = fileSize /\ LastGamPage < fileSize)
    BY <1>2 DEF NewGamPage
<1> HIDE DEF g
<1>4. UnwrittenAreDirty(newGam)'
    <2> SUFFICES ASSUME NEW p \in PageId, fileSize <= p, p <= g
                 PROVE  p \in dirty \cup {g}
        BY <1>1 DEF UnwrittenAreDirty
    <2>1. fileSize \in Nat /\ g \in Nat /\ p \in Nat /\ cursor \in Nat
        BY <1>1, PageIds DEF ChainInv, BaseInv, TypeOK
    <2>2. CASE p = g
        BY <2>2
    <2>3. CASE p <= LastGamPage
        BY <2>3 DEF ChainInv, GamChain, UnwrittenAreDirty
    <2>4. p = g \/ p <= LastGamPage
        BY <1>2, <1>3, <2>1
    <2>5. QED
        BY <2>2, <2>3, <2>4
<1>5. UnwrittenAreDirty(LastGamPage)'
    BY <1>1 DEF ChainInv, GamChain, UnwrittenAreDirty, LastGamPage
<1>6. LinksFollowChain'
    <2>1. \A i \in 1..Len(chain) : chain[i] \in PageId /\ chain[i] # g
        BY <1>1, <1>2, ChainFacts, PageIds
    <2>2. next \in [PageId -> Link]
        BY DEF ChainInv, BaseInv, TypeOK
    <2>3. \A i \in 1..Len(chain) : next'[chain[i]] = next[chain[i]]
        BY <1>1, <2>1, <2>2
    <2>4. Len(chain) \in 1..Len(chain)
        BY ChainFacts
    <2>5. QED
        BY <1>1, <2>3, <2>4 DEF ChainInv, GamChain, LinksFollowChain, LastGamPage
<1>7. CursorInChain' /\ chain'[1] = FIRST_GAM_PAGE_ID /\ CursorAtEnd'
    BY <1>1, <1>2 DEF ChainInv, GamChain, CursorInChain, CursorAtEnd
<1>8. QED
    BY <1>1, <1>2, <1>4, <1>5, <1>6, <1>7 DEF ChainInv, GamChain, WalkInChain, UnwrittenAreDirty

\* Linking it keeps the chain in the order of the pages.
LEMMA LinkKeepsChain ==
    ASSUME ChainInv, LinkNewGam, ~overwritten'
    PROVE  GamChain'
<1>1. /\ chain' = Append(chain, newGam) /\ dirty' = dirty \cup {cursor}
      /\ next' = [next EXCEPT ![cursor] = newGam] /\ next[newGam] = INVALID_PAGE_ID
      /\ cursor' = newGam /\ cursorIdx' = cursorIdx + 1 /\ step' = "created"
      /\ UNCHANGED <<newGam, fileSize>>
      /\ newGam \in PageId /\ CursorAtEnd /\ cursor < newGam /\ UnwrittenAreDirty(newGam)
    BY DEF LinkNewGam, ChainInv, GamChain, BaseInv, TypeOK
<1>2. /\ Len(chain) \in Nat \ {0}
      /\ \A i \in 1..Len(chain) : chain[i] \in PageId /\ chain[i] <= LastGamPage
      /\ cursor = LastGamPage /\ cursor \in PageId
      /\ cursorIdx + 1 = Len(chain) /\ cursorIdx \in Nat
    BY <1>1, ChainFacts DEF CursorAtEnd
<1>3. /\ Len(chain') = Len(chain) + 1
      /\ \A i \in 1..Len(chain) : chain'[i] = chain[i]
      /\ chain'[Len(chain) + 1] = newGam
    BY <1>1, AppendProperties DEF ChainInv, BaseInv, TypeOK
<1>4. cursorIdx' < Len(chain') /\ cursor' = chain'[cursorIdx' + 1]
    BY <1>1, <1>2, <1>3
<1>5. ASSUME NEW i \in 1..Len(chain'), NEW j \in 1..Len(chain'), i < j
      PROVE  chain'[i] < chain'[j]
    <2>1. CASE j = Len(chain) + 1
        <3>1. i \in 1..Len(chain) /\ chain'[i] = chain[i] /\ chain'[j] = newGam
            BY <1>2, <1>3, <1>5, <2>1
        <3>2. chain[i] <= cursor /\ chain[i] \in Nat /\ cursor \in Nat /\ newGam \in Nat
            BY <1>1, <1>2, <3>1, PageIds
        <3>3. QED
            BY <1>1, <3>1, <3>2
    <2>2. CASE j # Len(chain) + 1
        <3>1. i \in 1..Len(chain) /\ j \in 1..Len(chain)
            BY <1>2, <1>3, <1>5, <2>2
        <3>2. chain[i] < chain[j]
            BY <1>5, <3>1 DEF ChainInv, GamChain, CursorInChain
        <3>3. QED
            BY <1>3, <3>1, <3>2
    <2>3. QED
        BY <2>1, <2>2
<1>6. CursorInChain'
    BY <1>4, <1>5 DEF CursorInChain
<1>7. LastGamPage' = newGam
    BY <1>3 DEF LastGamPage
<1>8. LinksFollowChain'
    <2>1. next \in [PageId -> Link] /\ newGam # cursor
        BY <1>1, <1>2, PageIds DEF ChainInv, BaseInv, TypeOK
    <2>2. next'[newGam] = INVALID_PAGE_ID /\ next'[cursor] = newGam
        BY <1>1, <1>2, <2>1
    <2>3. ASSUME NEW i \in 1..Len(chain'), i < Len(chain')
          PROVE  next'[chain'[i]] = chain'[i + 1]
        <3>1. i \in 1..Len(chain) /\ chain'[i] = chain[i]
            BY <1>2, <1>3, <2>3
        <3>2. CASE i = Len(chain)
            BY <1>2, <1>3, <2>2, <3>1, <3>2 DEF LastGamPage
        <3>3. CASE i # Len(chain)
            <4>1. i < Len(chain) /\ i + 1 \in 1..Len(chain) /\ Len(chain) \in 1..Len(chain)
                BY <1>2, <3>1, <3>3
            <4>2. chain[i] < chain[Len(chain)] /\ chain[i] \in Nat /\ chain[Len(chain)] \in Nat
                <5>1. chain[i] < chain[Len(chain)]
                    BY <3>1, <4>1 DEF ChainInv, GamChain, CursorInChain
                <5>2. QED
                    BY <1>2, <3>1, <4>1, <5>1, PageIds
            <4>3. chain[i] # cursor
                BY <1>2, <4>2 DEF LastGamPage
            <4>4. next'[chain[i]] = next[chain[i]]
                BY <1>1, <1>2, <2>1, <3>1, <4>3
            <4>5. next[chain[i]] = chain[i + 1]
                BY <3>1, <4>1, LinkFacts
            <4>6. QED
                BY <1>3, <3>1, <4>1, <4>4, <4>5
        <3>4. QED
            BY <3>2, <3>3
    <2>4. QED
        BY <1>7, <2>2, <2>3 DEF LinksFollowChain
<1>9. UnwrittenAreDirty(LastGamPage)'
    BY <1>1, <1>7 DEF UnwrittenAreDirty
<1>10. chain'[1] = FIRST_GAM_PAGE_ID
    BY <1>2, <1>3 DEF ChainInv, GamChain
<1>11. QED
    BY <1>1, <1>6, <1>8, <1>9, <1>10 DEF ChainInv, GamChain, WalkInChain

\* Advancing to the next GAM page, rewinding to an earlier one and starting
\* over at the first all leave the cursor in the chain.
LEMMA CursorMoves ==
    ASSUME ChainInv, UNCHANGED <<chain, next>>,
           NEW k \in 0..(Len(chain) - 1),
           cursorIdx' = k,
           cursor' = chain[k + 1],
           step' \in {"idle", "search"},
           NoneLost
    PROVE  GamChain'
<1>1. Len(chain) \in Nat
    BY ChainFacts
<1>2. CursorInChain' /\ chain'[1] = FIRST_GAM_PAGE_ID /\ LinksFollowChain'
    BY <1>1 DEF ChainInv, GamChain, CursorInChain, LinksFollowChain, LastGamPage
<1>3. 2 * EXTENT_SIZE <= fileSize'
    BY ExtentAssumption DEF ChainInv, BaseInv, GamChain, TypeOK, NoneLost
<1>4. LastGamPage' = LastGamPage /\ LastGamPage \in PageId /\ BaseInv
    BY ChainFacts DEF ChainInv, LastGamPage
<1>5. UnwrittenAreDirty(LastGamPage)'
    BY <1>4, UnwrittenKept DEF ChainInv, GamChain, UnwrittenAreDirty
<1>6. QED
    BY <1>2, <1>3, <1>5 DEF GamChain, WalkInChain

\* deallocate_extent starts at the first GAM page and follows the chain.
LEMMA WalkMoves ==
    ASSUME ChainInv, (\E e \in Extent : StartDeallocation(e)) \/ FollowGamLink
    PROVE  GamChain'
<1>1. /\ UNCHANGED <<chain, next, cursor, cursorIdx, newGam, dirty, fileSize>>
      /\ step' = "find"
    BY DEF StartDeallocation, FollowGamLink, gamVars, poolVars, linked
<1>2. Len(chain) \in Nat \ {0}
    BY ChainFacts
<1>3. WalkInChain'
    <2>1. ASSUME NEW e \in Extent, StartDeallocation(e) PROVE WalkInChain'
        <3>1. target' = e /\ gam' = chain[1] /\ gamIdx' = 0 /\ chain' = chain
            BY <2>1 DEF StartDeallocation, linked, ChainInv, GamChain
        <3>2. e \div GAM_MAX_BITS \in Nat
            BY ExtentDivision DEF Extent
        <3>3. QED
            BY <1>2, <3>1, <3>2 DEF WalkInChain
    <2>2. ASSUME FollowGamLink PROVE WalkInChain'
        <3>1. /\ step = "find" /\ gamIdx < target \div GAM_MAX_BITS
              /\ next[gam] # INVALID_PAGE_ID
              /\ gam' = next[gam] /\ gamIdx' = gamIdx + 1 /\ target' = target
            BY <2>2 DEF FollowGamLink
        <3>2. /\ gamIdx < Len(chain) /\ gam = chain[gamIdx + 1]
              /\ gamIdx \in Nat /\ target \div GAM_MAX_BITS \in Nat
            BY <3>1, ExtentDivision DEF ChainInv, BaseInv, GamChain, WalkInChain, TypeOK, Extent
        <3>3. gamIdx + 1 \in 1..Len(chain)
            BY <1>2, <3>2
        <3>4. gamIdx + 1 # Len(chain) /\ next[gam] = chain[(gamIdx + 1) + 1]
            BY <3>1, <3>2, <3>3, LinkFacts
        <3>5. QED
            BY <1>1, <1>2, <3>1, <3>2, <3>3, <3>4 DEF WalkInChain
    <2>3. QED
        BY <2>1, <2>2
<1>4. CursorInChain' /\ LinksFollowChain' /\ UnwrittenAreDirty(LastGamPage)'
    BY <1>1 DEF ChainInv, GamChain, CursorInChain, LinksFollowChain, LastGamPage, UnwrittenAreDirty
<1>5. QED
    BY <1>1, <1>3, <1>4 DEF ChainInv, GamChain

\* Until a user's write changes the link of a GAM page, every step keeps the
\* cursor in the chain and the chain in order.
LEMMA ChainStep ==
    ASSUME ChainInv, [Next]_vars, ~overwritten'
    PROVE  GamChain'
<1>0. /\ next \in [PageId -> Link]
      /\ dirty \subseteq PageId
      /\ fileSize \in Nat /\ fileSize <= fileSize
      /\ gam \in PageId /\ gamIdx \in Nat
    BY DEF ChainInv, BaseInv, TypeOK
<1>1. ASSUME UNCHANGED vars PROVE GamChain'
    BY <1>0, <1>1, ChainKept DEF vars, gamVars, walkVars, poolVars, linked, NoneLost
<1>2. ASSUME StartAllocation \/ NewGamRefused \/ CallFails PROVE GamChain'
    BY <1>2, ChainKept, <1>0 DEF StartAllocation, NewGamRefused, CallFails, EndCall,
                                 gamVars, walkVars, poolVars, linked, NoneLost
<1>3. ASSUME NEW b \in Bit, PageIdOverflow(b) PROVE GamChain'
    BY <1>0, <1>3, ChainKept DEF PageIdOverflow, gamVars, walkVars, poolVars, linked, NoneLost
<1>4. ASSUME NEW b \in Bit, ClaimExtent(b) PROVE GamChain'
    BY <1>0, <1>4, ChainKept DEF ClaimExtent, walkVars, linked, NoneLost
<1>5. ASSUME AdvanceGamCursor PROVE GamChain'
    <2>1. /\ ~LastGam /\ cursor' = next[cursor] /\ cursorIdx' = cursorIdx + 1
          /\ UNCHANGED <<chain, next, step, dirty, fileSize>>
          /\ step = "search"
        BY <1>5 DEF AdvanceGamCursor, gamVars, poolVars, linked
    <2>2. /\ cursorIdx + 1 \in 0..(Len(chain) - 1)
          /\ cursor' = chain[(cursorIdx + 1) + 1]
        BY <2>1, CursorLink
    <2>3. NoneLost
        BY <1>0, <2>1 DEF NoneLost
    <2>4. QED
        BY <2>1, <2>2, <2>3, CursorMoves
<1>6. ASSUME CreateNewGam PROVE GamChain'
    BY <1>6, CreateKeepsChain
<1>7. ASSUME LinkNewGam PROVE GamChain'
    BY <1>7, LinkKeepsChain
<1>8. ASSUME (\E e \in Extent : StartDeallocation(e)) \/ FollowGamLink PROVE GamChain'
    BY <1>8, WalkMoves
<1>9. ASSUME ClearExtentBit PROVE GamChain'
    <2>1. /\ step = "find" /\ step' = "idle" /\ dirty' = dirty \cup {gam}
          /\ RewindCursor(gamIdx, gam)
          /\ UNCHANGED <<chain, next, newGam, fileSize>>
        BY <1>9 DEF ClearExtentBit, EndCall, linked
    <2>2. NoneLost
        BY <1>0, <2>1 DEF NoneLost
    <2>3. CASE gamIdx < cursorIdx
        <3>1. cursorIdx' = gamIdx /\ cursor' = chain[gamIdx + 1]
            BY <2>1, <2>3 DEF RewindCursor, ChainInv, GamChain, WalkInChain
        <3>2. gamIdx \in 0..(Len(chain) - 1)
            BY <1>0, <2>1, ChainFacts DEF ChainInv, GamChain, WalkInChain
        <3>3. QED
            BY <2>1, <2>2, <3>1, <3>2, CursorMoves
    <2>4. CASE ~(gamIdx < cursorIdx)
        BY <2>1, <2>2, <2>4, ChainKept DEF RewindCursor
    <2>5. QED
        BY <2>3, <2>4
<1>10. ASSUME NEW p \in PageId, TouchPage(p) PROVE GamChain'
    <2>1. PICK n \in WrittenLinks :
              /\ next' = [next EXCEPT ![p] = n]
              /\ n = next[p] \/ ~\E i \in 1..Len(chain) : chain[i] = p
        BY <1>10 DEF TouchPage
    <2>2. /\ dirty' = dirty \cup {p}
          /\ UNCHANGED <<chain, cursor, cursorIdx, step, newGam, walkVars, fileSize>>
        BY <1>10 DEF TouchPage
    <2>3. \A i \in 1..Len(chain) : next'[chain[i]] = next[chain[i]]
        BY <1>0, <2>1, ChainFacts
    <2>4. LinksFollowChain'
        <3>1. Len(chain) \in 1..Len(chain)
            BY ChainFacts
        <3>2. QED
            BY <2>2, <2>3, <3>1 DEF ChainInv, GamChain, LinksFollowChain, LastGamPage
    <2>5. /\ CursorInChain' /\ WalkInChain' /\ UnwrittenAreDirty(LastGamPage)'
          /\ CursorAtEnd' = CursorAtEnd
          /\ UnwrittenAreDirty(newGam) => UnwrittenAreDirty(newGam)'
        BY <2>2 DEF ChainInv, GamChain, CursorInChain, WalkInChain, walkVars, LastGamPage,
                    UnwrittenAreDirty, CursorAtEnd
    <2>6. QED
        BY <2>2, <2>4, <2>5 DEF ChainInv, GamChain
<1>11. ASSUME NEW p \in PageId, WriteBackPage(p) PROVE GamChain'
    <2>1. /\ dirty' = dirty \ {p}
          /\ fileSize' = IF fileSize <= p THEN p + 1 ELSE fileSize
          /\ UNCHANGED <<chain, next, cursor, cursorIdx, step, newGam, walkVars>>
        BY <1>11 DEF WriteBackPage, gamVars, linked
    <2>2. fileSize \in Nat /\ p \in Nat
        BY <1>0, PageIds
    <2>3. fileSize' \in Nat /\ fileSize <= fileSize' /\ ~(fileSize' <= p)
        BY <2>1, <2>2
    <2>4. NoneLost
        BY <2>1, <2>3 DEF NoneLost
    <2>5. QED
        BY <2>1, <2>4, ChainKept
<1>12. ASSUME Restart PROVE GamChain'
    <2>1. /\ step = "idle" /\ dirty' = {} /\ step' = "idle"
          /\ cursor' = FIRST_GAM_PAGE_ID /\ cursorIdx' = 0
          /\ fileSize' \in {fileSize} \cup {p + 1 : p \in dirty}
          /\ \A n \in {fileSize} \cup {p + 1 : p \in dirty} : n <= fileSize'
          /\ UNCHANGED <<chain, next>>
        BY <1>12 DEF Restart, gamVars, linked
    <2>2. \A p \in dirty : p \in Nat
        BY <1>0, PageIds
    <2>3. fileSize' \in Nat /\ fileSize <= fileSize'
        BY <1>0, <2>1, <2>2
    <2>4. \A p \in PageId : ~(fileSize' <= p /\ p \in dirty)
        BY <2>1, <2>2, <2>3
    <2>5. NoneLost
        BY <2>3, <2>4 DEF NoneLost
    <2>6. cursor' = chain[0 + 1] /\ 0 \in 0..(Len(chain) - 1)
        BY <2>1, ChainFacts DEF ChainInv, GamChain
    <2>7. QED
        BY <2>1, <2>5, <2>6, CursorMoves
<1>13. QED
    BY <1>1, <1>2, <1>3, <1>4, <1>5, <1>6, <1>7, <1>8, <1>9, <1>10, <1>11, <1>12 DEF Next

-----------------------------------------------------------------------------
(* The types *)

\* A step that writes no user's count and starts no deallocation.
LEMMA BaseKept ==
    ASSUME BaseInv, ~overwritten' => CursorInChain',
           UNCHANGED users,
           bits' \in [PageId -> SUBSET Bit],
           hint' \in [PageId -> 0..GAM_MAX_BITS],
           next' \in [PageId -> Link],
           cursor' \in PageId, cursorIdx' \in Nat, newGam' \in PageId,
           gam' \in PageId, gamIdx' \in Nat,
           step' \in {"idle", "search", "link", "created", "find"},
           target' \in Extent,
           step' = "find" => users[target'] > 0,
           dirty' \subseteq PageId, fileSize' \in Nat,
           chain' \in Seq(PageId) /\ chain' # <<>>,
           overwritten' \in BOOLEAN
    PROVE  BaseInv'
<1>1. TypeOK'
    BY DEF BaseInv, TypeOK
<1>2. QED
    BY <1>1 DEF BaseInv, FreesUsed

\* Every variable keeps its type, wherever an overwritten link leads.
LEMMA BaseStep ==
    ASSUME BaseInv, [Next]_vars, ~overwritten' => CursorInChain'
    PROVE  BaseInv'
<1>0. /\ bits \in [PageId -> SUBSET Bit] /\ hint \in [PageId -> 0..GAM_MAX_BITS]
      /\ next \in [PageId -> Link]
      /\ cursor \in PageId /\ cursorIdx \in Nat /\ newGam \in PageId
      /\ step \in {"idle", "search", "link", "created", "find"}
      /\ target \in Extent /\ gam \in PageId /\ gamIdx \in Nat
      /\ users \in [Extent -> Nat] /\ dirty \subseteq PageId /\ fileSize \in Nat
      /\ chain \in Seq(PageId) /\ chain # <<>> /\ overwritten \in BOOLEAN
      /\ step = "find" => users[target] > 0
      /\ FIRST_GAM_PAGE_ID \in PageId /\ 0 \in Extent
    <2>1. FIRST_GAM_PAGE_ID \in PageId /\ 0 \in Extent
        BY PageIds, ExtentAssumption DEF FIRST_GAM_PAGE_ID, Extent
    <2>2. TypeOK
        BY DEF BaseInv
    <2>3. step = "find" => users[target] > 0
        BY DEF BaseInv, FreesUsed
    <2>4. QED
        BY <2>1, <2>2, <2>3 DEF TypeOK
<1>1. ASSUME UNCHANGED vars PROVE BaseInv'
    BY <1>0, <1>1, BaseKept DEF vars, gamVars, walkVars, poolVars, linked
<1>2. ASSUME StartAllocation \/ NewGamRefused \/ CallFails PROVE BaseInv'
    BY <1>0, <1>2, BaseKept
       DEF StartAllocation, NewGamRefused, CallFails, EndCall, gamVars, walkVars, poolVars, linked
<1>3. ASSUME NEW b \in Bit, PageIdOverflow(b) PROVE BaseInv'
    BY <1>0, <1>3, BaseKept DEF PageIdOverflow, gamVars, walkVars, poolVars, linked
<1>4. ASSUME NEW b \in Bit, ClaimExtent(b) PROVE BaseInv'
    <2>1. b + 1 \in 0..GAM_MAX_BITS
        BY ExtentAssumption DEF Bit
    <2>2. /\ bits' \in [PageId -> SUBSET Bit]
          /\ hint' \in [PageId -> 0..GAM_MAX_BITS]
          /\ users' \in [Extent -> Nat]
          /\ dirty' \subseteq PageId
        BY <1>0, <1>4, <2>1 DEF ClaimExtent
    <2>3. /\ step' = "idle"
          /\ UNCHANGED <<next, cursor, cursorIdx, newGam, target, gam, gamIdx, fileSize,
                         chain, overwritten>>
        BY <1>4 DEF ClaimExtent, walkVars, linked
    <2>4. TypeOK'
        BY <1>0, <2>2, <2>3 DEF TypeOK
    <2>5. QED
        BY <2>3, <2>4 DEF BaseInv, FreesUsed
<1>5. ASSUME AdvanceGamCursor PROVE BaseInv'
    <2>1. next[cursor] \in PageId
        BY <1>0, <1>5 DEF AdvanceGamCursor, LastGam, Link
    <2>2. QED
        BY <1>0, <1>5, <2>1, BaseKept DEF AdvanceGamCursor, gamVars, walkVars, poolVars, linked
<1>6. ASSUME CreateNewGam PROVE BaseInv'
    <2>1. {} \in SUBSET Bit /\ {0} \in SUBSET Bit /\ NewGamPage \in PageId
        BY <1>6, ExtentAssumption DEF Bit, CreateNewGam
    <2>2. bits' \in [PageId -> SUBSET Bit]
        BY <1>0, <1>6, <2>1 DEF CreateNewGam
    <2>3. hint' \in [PageId -> 0..GAM_MAX_BITS] /\ next' \in [PageId -> Link]
        BY <1>0, <1>6, ExtentAssumption DEF CreateNewGam, Link
    <2>4. /\ newGam' \in PageId /\ dirty' \subseteq PageId /\ step' = "link"
          /\ UNCHANGED <<cursor, cursorIdx, target, gam, gamIdx,
                         users, fileSize, chain, overwritten>>
        BY <1>0, <1>6, <2>1 DEF CreateNewGam, walkVars, linked
    <2>5. QED
        BY <1>0, <2>2, <2>3, <2>4, BaseKept
<1>7. ASSUME LinkNewGam PROVE BaseInv'
    <2>1. chain' \in Seq(PageId) /\ chain' # <<>>
        <3> DEFINE longer == Append(chain, newGam)
        <3>1. longer \in Seq(PageId) /\ longer # <<>>
            BY <1>0, AppendProperties
        <3> HIDE DEF longer
        <3>2. chain' = longer
            BY <1>7 DEF LinkNewGam, longer
        <3>3. QED
            BY <3>1, <3>2
    <2>2. /\ next' \in [PageId -> Link] /\ dirty' \subseteq PageId /\ overwritten' \in BOOLEAN
          /\ cursor' = newGam /\ cursorIdx' = cursorIdx + 1 /\ step' = "created"
          /\ UNCHANGED <<bits, hint, newGam, target, gam, gamIdx, users, fileSize>>
        BY <1>0, <1>7 DEF LinkNewGam, Link, walkVars
    <2>3. QED
        BY <1>0, <2>1, <2>2, BaseKept
<1>8. ASSUME NEW e \in Extent, StartDeallocation(e) PROVE BaseInv'
    BY <1>0, <1>8, BaseKept DEF StartDeallocation, gamVars, poolVars, linked
<1>9. ASSUME FollowGamLink PROVE BaseInv'
    <2>1. next[gam] \in PageId
        BY <1>0, <1>9 DEF FollowGamLink, Link
    <2>2. QED
        BY <1>0, <1>9, <2>1, BaseKept DEF FollowGamLink, gamVars, poolVars, linked
<1>10. ASSUME ClearExtentBit PROVE BaseInv'
    <2> DEFINE bit == target % GAM_MAX_BITS
    <2>1. /\ step = "find" /\ step' = "idle"
          /\ users' = [users EXCEPT ![target] = @ - 1]
          /\ bits' = [bits EXCEPT ![gam] = @ \ {bit}]
          /\ hint' = [hint EXCEPT ![gam] = RewoundHint(@, bit)]
          /\ dirty' = dirty \cup {gam}
          /\ RewindCursor(gamIdx, gam)
          /\ target' = 0 /\ gam' = FIRST_GAM_PAGE_ID /\ gamIdx' = 0
          /\ UNCHANGED <<next, newGam, fileSize, chain, overwritten>>
        BY <1>10 DEF ClearExtentBit, EndCall, linked
    <2>2. bit \in Bit
        BY <1>0, ExtentDivision DEF Extent
    <2> HIDE DEF bit
    <2>3. users[target] > 0 /\ users[target] \in Nat
        BY <1>0, <2>1
    <2>4. users' \in [Extent -> Nat]
        BY <1>0, <2>1, <2>3
    <2>5. hint' \in [PageId -> 0..GAM_MAX_BITS]
        <3>1. hint[gam] \in 0..GAM_MAX_BITS
            BY <1>0
        <3>2. RewoundHint(hint[gam], bit) \in 0..GAM_MAX_BITS
            BY <2>2, <3>1, ExtentAssumption DEF RewoundHint, Bit
        <3>3. QED
            BY <1>0, <2>1, <3>2
    <2>6. bits' \in [PageId -> SUBSET Bit] /\ dirty' \subseteq PageId
        BY <1>0, <2>1
    <2>7. cursor' \in PageId /\ cursorIdx' \in Nat
        BY <1>0, <2>1 DEF RewindCursor
    <2>8. TypeOK'
        BY <1>0, <2>1, <2>4, <2>5, <2>6, <2>7 DEF TypeOK
    <2>9. QED
        BY <2>1, <2>8 DEF BaseInv, FreesUsed
<1>11. ASSUME NEW p \in PageId, TouchPage(p) PROVE BaseInv'
    <2>1. PICK b \in WrittenBits, h \in WrittenHints, n \in WrittenLinks :
              /\ bits' = [bits EXCEPT ![p] = b]
              /\ hint' = [hint EXCEPT ![p] = h]
              /\ next' = [next EXCEPT ![p] = n]
        BY <1>11 DEF TouchPage
    <2>2. b \in SUBSET Bit /\ h \in 0..GAM_MAX_BITS /\ n \in Link
        BY ExtentAssumption DEF Bit, Link, PageId, INVALID_PAGE_ID
    <2>3. bits' \in [PageId -> SUBSET Bit] /\ hint' \in [PageId -> 0..GAM_MAX_BITS]
        BY <1>0, <2>1, <2>2
    <2>4. next' \in [PageId -> Link] /\ overwritten' \in BOOLEAN
        <3>1. next' \in [PageId -> Link]
            BY <1>0, <2>1, <2>2
        <3>2. overwritten' \in BOOLEAN
            BY <1>11 DEF TouchPage
        <3>3. QED
            BY <3>1, <3>2
    <2>5. /\ dirty' \subseteq PageId
          /\ UNCHANGED <<cursor, cursorIdx, step, newGam, target, gam,
                         gamIdx, users, fileSize, chain>>
        BY <1>0, <1>11 DEF TouchPage, walkVars
    <2>6. QED
        BY <1>0, <2>3, <2>4, <2>5, BaseKept
<1>12. ASSUME NEW p \in PageId, WriteBackPage(p) PROVE BaseInv'
    <2>1. dirty' \subseteq PageId /\ fileSize' \in Nat
        BY <1>0, <1>12, PageIds DEF WriteBackPage
    <2>2. QED
        BY <1>0, <1>12, <2>1, BaseKept DEF WriteBackPage, gamVars, walkVars, linked
<1>13. ASSUME Restart PROVE BaseInv'
    <2>1. \A p \in dirty : p \in Nat
        BY <1>0, PageIds
    <2>2. dirty' \subseteq PageId /\ fileSize' \in Nat
        BY <1>0, <1>13, <2>1 DEF Restart
    <2>3. QED
        BY <1>0, <1>13, <2>2, BaseKept DEF Restart, gamVars, walkVars, linked
<1>14. QED
    BY <1>1, <1>2, <1>3, <1>4, <1>5, <1>6, <1>7, <1>8, <1>9, <1>10, <1>11, <1>12, <1>13 DEF Next

\* A link that was overwritten stays so.
LEMMA OverwrittenStays ==
    ASSUME [Next]_vars, ~overwritten'
    PROVE  ~overwritten
BY DEF Next, vars, linked, StartAllocation, ClaimExtent, PageIdOverflow, AdvanceGamCursor,
       NewGamRefused, CreateNewGam, LinkNewGam, StartDeallocation, FollowGamLink,
       ClearExtentBit, CallFails, TouchPage, WriteBackPage, Restart

\* Every step keeps what the chain promises until a link is overwritten.
LEMMA ChainInvStep ==
    ASSUME ChainOrOverwritten, [Next]_vars
    PROVE  ChainOrOverwritten'
<1>1. ASSUME ~overwritten' PROVE ChainInv /\ GamChain'
    BY <1>1, OverwrittenStays, ChainStep DEF ChainOrOverwritten
<1>2. BaseInv'
    <2>1. ~overwritten' => CursorInChain'
        BY <1>1 DEF GamChain
    <2>2. QED
        BY <2>1, BaseStep DEF ChainOrOverwritten
<1>3. QED
    BY <1>1, <1>2 DEF ChainOrOverwritten, ChainInv

\* Every variable has its type wherever a user's write makes the links lead,
\* and until a user's write changes the link of a GAM page, the cursor is the
\* pair the page-id formula needs and no page is made a GAM page twice, inside
\* the GAM extent and beyond it.
THEOREM TypeCorrect == Spec => []TypeOK
<1>1. Init => ChainOrOverwritten
    BY ChainInit DEF ChainOrOverwritten, ChainInv
<1>2. ChainOrOverwritten => TypeOK
    BY DEF ChainOrOverwritten, BaseInv
<1>3. ChainOrOverwritten /\ [Next]_vars => ChainOrOverwritten'
    BY ChainInvStep
<1>4. QED
    BY <1>1, <1>2, <1>3, PTL DEF Spec

-----------------------------------------------------------------------------
(* The bits, the hints and the users *)

\* The pages of the chain in the GAM extent.
LEMMA GamExtentFacts ==
    ASSUME ChainInv, ChainInGamExtent, ChainIsGamExtent
    PROVE  /\ \A i, j \in 1..Len(chain) : chain[i] = chain[j] => i = j
           /\ \A i \in 1..Len(chain) :
                 chain[i] \in PageId /\ EXTENT_SIZE <= chain[i] /\ chain[i] < 2 * EXTENT_SIZE
           /\ LastGamPage = EXTENT_SIZE + Len(chain) - 1
<1> USE ExtentAssumption
<1>1. Len(chain) \in Nat \ {0}
    BY ChainFacts
<1>2. \A i \in 1..Len(chain) : chain[i] = EXTENT_SIZE + i - 1
    BY DEF ChainIsGamExtent
<1>3. LastGamPage = EXTENT_SIZE + Len(chain) - 1
    BY <1>1, <1>2 DEF LastGamPage
<1>4. \A i, j \in 1..Len(chain) : chain[i] = chain[j] => i = j
    BY <1>1, <1>2
<1>5. ASSUME NEW i \in 1..Len(chain)
      PROVE  chain[i] \in PageId /\ EXTENT_SIZE <= chain[i] /\ chain[i] < 2 * EXTENT_SIZE
    BY <1>1, <1>2, ChainFacts, ExtentAssumption DEF ChainInGamExtent
<1>6. QED
    BY <1>3, <1>4, <1>5

\* The chain only grows: at its end, by one page.
LEMMA ChainGrows ==
    ASSUME chain \in Seq(PageId), chain # <<>>, newGam \in PageId, [Next]_vars
    PROVE  /\ ChainInGamExtent' => ChainInGamExtent
           /\ LinkNewGam => /\ LastGamPage' = newGam
                            /\ ChainInGamExtent' <=> ChainInGamExtent /\ newGam < 2 * EXTENT_SIZE
           /\ ~LinkNewGam => chain' = chain
<1>1. ASSUME LinkNewGam
      PROVE  /\ LastGamPage' = newGam
             /\ ChainInGamExtent' <=> ChainInGamExtent /\ newGam < 2 * EXTENT_SIZE
    <2>1. chain' = Append(chain, newGam)
        BY <1>1 DEF LinkNewGam
    <2>2. /\ Len(chain) \in Nat
          /\ Len(chain') = Len(chain) + 1
          /\ \A i \in 1..Len(chain) : chain'[i] = chain[i]
          /\ chain'[Len(chain) + 1] = newGam
        BY <2>1, AppendProperties, LenProperties
    <2>3. \A i \in 1..Len(chain') : i \in 1..Len(chain) \/ i = Len(chain) + 1
        BY <2>2
    <2>4. 1..Len(chain) \subseteq 1..Len(chain') /\ Len(chain) + 1 \in 1..Len(chain')
        BY <2>2
    <2>5. QED
        BY <2>2, <2>3, <2>4 DEF LastGamPage, ChainInGamExtent
<1>2. ASSUME ~LinkNewGam PROVE chain' = chain
    BY <1>2 DEF Next, vars, linked, StartAllocation, ClaimExtent, PageIdOverflow,
                AdvanceGamCursor, NewGamRefused, CreateNewGam, StartDeallocation,
                FollowGamLink, ClearExtentBit, CallFails, TouchPage, WriteBackPage, Restart
<1>3. ChainInGamExtent' => ChainInGamExtent
    BY <1>1, <1>2 DEF ChainInGamExtent
<1>4. QED
    BY <1>1, <1>2, <1>3

\* In a new database only the bits of extents 0 and 1 are set.
LEMMA SpaceInit == Init => SpaceInv
<1> USE ExtentAssumption
<1> SUFFICES ASSUME Init PROVE SpaceInv
    OBVIOUS
<1>1. /\ FIRST_GAM_PAGE_ID \in PageId /\ FIRST_GAM_PAGE_ID = EXTENT_SIZE
      /\ 0 \in Bit /\ 1 \in Bit /\ 0 \in Extent /\ 1 \in Extent
    BY PageIds DEF FIRST_GAM_PAGE_ID, Bit, Extent
<1>2. /\ Len(chain) = 1 /\ chain[1] = FIRST_GAM_PAGE_ID
      /\ bits[chain[1]] = {0, 1} /\ hint[chain[1]] = 0
      /\ \A e \in Extent : users[e] = 0
    BY <1>1 DEF Init
<1>3. \A b \in Bit : ExtentAt(0, b) = b
    BY DEF ExtentAt, Bit
<1>4. NothingFreeIsSkipped
    BY <1>2 DEF NothingFreeIsSkipped, Init, Bit
<1>5. BitsMatchUsers
    <2>1. \A e \in Extent : users[e] = 0 /\ users[e] \in {0, 1} /\ users[e] # 1
        BY <1>2
    <2>2. ASSUME NEW i \in 1..Len(chain), NEW b \in Bit
          PROVE  b \in bits[chain[i]] <=>
                     /\ ExtentAt(i - 1, b) \in Extent
                     /\ ExtentAt(i - 1, b) \in {0, 1} \/ users[ExtentAt(i - 1, b)] = 1
        <3>1. i = 1 /\ i - 1 = 0
            BY <1>2
        <3>2. QED
            BY <1>1, <1>2, <1>3, <2>1, <3>1
    <2>3. QED
        BY <1>1, <2>1, <2>2 DEF BitsMatchUsers
<1>6. QED
    BY <1>1, <1>2, <1>4, <1>5 DEF SpaceInv, ChainIsGamExtent, NewGamIsEmpty, Init

\* A step that changes neither the GAM pages nor their users, nor moves the
\* cursor past a page that has a free bit.
LEMMA SpaceKept ==
    ASSUME ChainInv, SpaceInv, UNCHANGED <<bits, hint, next, chain, users>>,
           \/ UNCHANGED <<cursor, cursorIdx, step, newGam>>
           \/ UNCHANGED cursorIdx /\ step' # "link"
           \/ cursorIdx' = cursorIdx + 1 /\ FreeBits(cursor) = {} /\ step' # "link"
           \/ cursorIdx' = 0 /\ step' # "link"
    PROVE  SpaceInv'
<1>1. /\ cursorIdx \in Nat /\ cursor = chain[cursorIdx + 1]
      /\ \A i \in 1..cursorIdx : FreeBits(chain[i]) = {}
    BY ChainFacts DEF SpaceInv, NothingFreeIsSkipped
<1>2. \A g : FreeBits(g)' = Bit \ bits'[g]
    BY DEF FreeBits
<1>3. \A i \in 1..cursorIdx' : FreeBits(chain[i]) = {}
    BY <1>1
<1>4. NothingFreeIsSkipped'
    BY <1>3 DEF SpaceInv, NothingFreeIsSkipped, FreeBits
<1>5. NewGamIsEmpty'
    BY DEF SpaceInv, NewGamIsEmpty, FreeBits
<1>6. QED
    BY <1>4, <1>5 DEF SpaceInv, ChainIsGamExtent, BitsMatchUsers

\* No user of an extent can write a page of the GAM extent.
LEMMA TouchMissesChain ==
    ASSUME ChainInv, ChainInGamExtent, SpaceInv, NEW p \in PageId, TouchPage(p)
    PROVE  /\ \A q \in PageId : EXTENT_SIZE <= q /\ q < 2 * EXTENT_SIZE =>
                 bits'[q] = bits[q] /\ hint'[q] = hint[q] /\ next'[q] = next[q]
           /\ \A i \in 1..Len(chain) :
                 bits'[chain[i]] = bits[chain[i]] /\ hint'[chain[i]] = hint[chain[i]]
           /\ ~overwritten'
<1>1. PICK e \in Extent : users[e] > 0 /\ p \in PagesOf(e)
    BY DEF TouchPage
<1>2. ~(EXTENT_SIZE <= p /\ p < 2 * EXTENT_SIZE)
    <2>1. users[1] = 0
        BY DEF SpaceInv, BitsMatchUsers
    <2>2. QED
        BY <1>1, <2>1, PagesOfExtentOne
<1>3. \A i \in 1..Len(chain) :
          chain[i] \in PageId /\ EXTENT_SIZE <= chain[i] /\ chain[i] < 2 * EXTENT_SIZE
    BY GamExtentFacts DEF SpaceInv
<1>4. PICK b \in WrittenBits, h \in WrittenHints, n \in WrittenLinks :
          /\ bits' = [bits EXCEPT ![p] = b]
          /\ hint' = [hint EXCEPT ![p] = h]
          /\ next' = [next EXCEPT ![p] = n]
    BY DEF TouchPage
<1>5. ~overwritten'
    BY <1>2, <1>3 DEF TouchPage, ChainInv
<1>6. ASSUME NEW q \in PageId, EXTENT_SIZE <= q, q < 2 * EXTENT_SIZE
      PROVE  bits'[q] = bits[q] /\ hint'[q] = hint[q] /\ next'[q] = next[q]
    <2>1. q # p
        BY <1>2, <1>6
    <2>2. /\ bits \in [PageId -> SUBSET Bit] /\ hint \in [PageId -> 0..GAM_MAX_BITS]
          /\ next \in [PageId -> Link]
        BY DEF ChainInv, BaseInv, TypeOK
    <2>3. QED
        BY <1>4, <2>1, <2>2
<1>7. QED
    BY <1>3, <1>5, <1>6

\* What it writes elsewhere changes nothing the GAM pages stand for.
LEMMA TouchKeepsSpace ==
    ASSUME ChainInv, ChainInGamExtent, SpaceInv, NEW p \in PageId, TouchPage(p)
    PROVE  SpaceInv'
<1>1. UNCHANGED <<cursor, cursorIdx, step, newGam, users, chain>>
    BY DEF TouchPage
<1>2. \A i \in 1..Len(chain) :
          bits'[chain[i]] = bits[chain[i]] /\ hint'[chain[i]] = hint[chain[i]]
    BY TouchMissesChain
<1>3. /\ Len(chain) \in Nat /\ cursorIdx \in Nat /\ cursorIdx + 1 \in 1..Len(chain)
      /\ cursor = chain[cursorIdx + 1]
    BY ChainFacts
<1>4. \A g : FreeBits(g)' = Bit \ bits'[g]
    BY DEF FreeBits
<1>5. NothingFreeIsSkipped'
    <2>1. \A i \in 1..cursorIdx : i \in 1..Len(chain)
        BY <1>3
    <2>2. \A i \in 1..cursorIdx : Bit \ bits'[chain[i]] = {}
        BY <1>2, <2>1 DEF SpaceInv, NothingFreeIsSkipped, FreeBits
    <2>3. QED
        BY <1>1, <1>2, <2>2 DEF SpaceInv, NothingFreeIsSkipped, FreeBits
<1>6. NewGamIsEmpty'
    <2> SUFFICES ASSUME step = "link"
                 PROVE  /\ FreeBits(cursor)' = {}
                        /\ newGam < 2 * EXTENT_SIZE =>
                              /\ newGam = cursor + 1
                              /\ bits'[newGam] = {}
                              /\ hint'[newGam] = 0
                              /\ next'[newGam] = INVALID_PAGE_ID
        BY <1>1 DEF NewGamIsEmpty
    <2>1. FreeBits(cursor)' = {}
        BY <1>1, <1>2, <1>3 DEF SpaceInv, NewGamIsEmpty, FreeBits
    <2>2. ASSUME newGam < 2 * EXTENT_SIZE PROVE EXTENT_SIZE <= newGam /\ newGam \in PageId
        <3>1. newGam = cursor + 1 /\ newGam \in PageId
            BY <2>2 DEF SpaceInv, NewGamIsEmpty, ChainInv, BaseInv, TypeOK
        <3>2. EXTENT_SIZE <= cursor /\ cursor \in Nat
            BY <1>3, GamExtentFacts, PageIds DEF SpaceInv
        <3>3. QED
            BY <3>1, <3>2, ExtentAssumption
    <2>3. QED
        BY <2>1, <2>2, TouchMissesChain DEF SpaceInv, NewGamIsEmpty
<1>7. QED
    BY <1>1, <1>2, <1>5, <1>6 DEF SpaceInv, ChainIsGamExtent, BitsMatchUsers

\* The bit that is claimed is the lowest free one, because nothing is free
\* below the hint.
LEMMA ChosenIsLowest ==
    ASSUME ChainInv, SpaceInv, NEW b \in Bit, ChosenBit(cursor, b)
    PROVE  /\ b \notin bits[cursor]
           /\ \A c \in Bit : c < b => c \in bits[cursor]
<1>1. hint[cursor] \in 0..GAM_MAX_BITS /\ \A c \in Bit : c < hint[cursor] => c \in bits[cursor]
    <2>1. cursorIdx + 1 \in 1..Len(chain) /\ cursor = chain[cursorIdx + 1]
        BY ChainFacts
    <2>2. cursor \in PageId /\ hint \in [PageId -> 0..GAM_MAX_BITS]
        BY DEF ChainInv, BaseInv, TypeOK
    <2>3. QED
        BY <2>1, <2>2 DEF SpaceInv, NothingFreeIsSkipped
<1>2. /\ b \in Bit \ bits[cursor]
      /\ \A a \in Bit \ bits[cursor] : (a >= Hint(cursor)) = (b >= Hint(cursor)) => b <= a
    BY DEF ChosenBit, FreeBits
<1>3. Hint(cursor) = hint[cursor] /\ b >= Hint(cursor)
    <2>1. ~(b < hint[cursor])
        BY <1>1, <1>2
    <2>2. hint[cursor] <= b /\ b < GAM_MAX_BITS
        BY <1>1, <2>1, ExtentAssumption DEF Bit
    <2>3. ~(hint[cursor] >= GAM_MAX_BITS)
        BY <1>1, <2>2, ExtentAssumption DEF Bit
    <2>4. QED
        BY <1>1, <2>2, <2>3 DEF Hint
<1>4. ASSUME NEW c \in Bit, c < b, c \notin bits[cursor] PROVE FALSE
    <2>1. c >= Hint(cursor)
        BY <1>1, <1>3, <1>4 DEF Bit
    <2>2. b <= c
        BY <1>2, <1>3, <1>4, <2>1
    <2>3. QED
        BY <1>4, <2>2 DEF Bit
<1>5. QED
    BY <1>2, <1>4

\* claim_extent_at_bit gives the one extent its bit stands for to one user,
\* and moves the hint just past it.
LEMMA ClaimKeepsSpace ==
    ASSUME ChainInv, ChainInGamExtent, SpaceInv, NEW b \in Bit, ClaimExtent(b)
    PROVE  SpaceInv'
<1> DEFINE x == ExtentAt(cursorIdx, b)
<1>1. /\ ChosenBit(cursor, b) /\ x \in Extent
      /\ bits' = [bits EXCEPT ![cursor] = @ \cup {b}]
      /\ hint' = [hint EXCEPT ![cursor] = b + 1]
      /\ users' = [users EXCEPT ![x] = @ + 1]
      /\ step' = "idle"
      /\ UNCHANGED <<chain, cursor, cursorIdx, newGam>>
    BY DEF ClaimExtent, linked
<1>2. /\ bits \in [PageId -> SUBSET Bit] /\ hint \in [PageId -> 0..GAM_MAX_BITS]
      /\ users \in [Extent -> Nat] /\ cursor \in PageId
    BY DEF ChainInv, BaseInv, TypeOK
<1>3. /\ cursorIdx \in Nat /\ cursorIdx + 1 \in 1..Len(chain)
      /\ cursor = chain[cursorIdx + 1] /\ Len(chain) \in Nat
    BY ChainFacts DEF ChainInv, BaseInv, TypeOK
<1>4. \A i \in 1..Len(chain) : chain[i] \in PageId /\ (chain[i] = cursor <=> i = cursorIdx + 1)
    BY <1>3, GamExtentFacts DEF SpaceInv
<1>5. b \notin bits[cursor] /\ \A c \in Bit : c < b => c \in bits[cursor]
    BY <1>1, ChosenIsLowest
<1>6. x \notin {0, 1} /\ users[x] = 0
    <2>1. (cursorIdx + 1) - 1 = cursorIdx
        BY <1>3
    <2>2. x \notin {0, 1} /\ users[x] # 1
        BY <1>1, <1>3, <1>5, <2>1 DEF SpaceInv, BitsMatchUsers
    <2>3. QED
        BY <1>1, <2>2 DEF SpaceInv, BitsMatchUsers
<1> HIDE DEF x
<1>7. users'[x] = 1 /\ \A e \in Extent : e # x => users'[e] = users[e]
    BY <1>1, <1>2, <1>6
<1>8. NothingFreeIsSkipped'
    <2>1. ASSUME NEW i \in 1..Len(chain), NEW c \in Bit, c < hint'[chain[i]]
          PROVE  c \in bits'[chain[i]]
        <3>1. CASE i = cursorIdx + 1
            <4>1. c < b + 1 /\ c \in Int /\ b \in Int
                BY <1>1, <1>2, <1>3, <2>1, <3>1 DEF Bit
            <4>2. c = b \/ c < b
                BY <4>1
            <4>3. QED
                BY <1>1, <1>2, <1>3, <1>5, <3>1, <4>2
        <3>2. CASE i # cursorIdx + 1
            BY <1>1, <1>2, <1>4, <2>1, <3>2 DEF SpaceInv, NothingFreeIsSkipped
        <3>3. QED
            BY <3>1, <3>2
    <2>2. ASSUME NEW i \in 1..cursorIdx PROVE FreeBits(chain[i])' = {}
        <3>1. i \in 1..Len(chain) /\ i # cursorIdx + 1
            BY <1>3
        <3>2. bits'[chain[i]] = bits[chain[i]]
            BY <1>1, <1>2, <1>4, <3>1
        <3>3. QED
            BY <1>1, <3>2 DEF SpaceInv, NothingFreeIsSkipped, FreeBits
    <2>3. QED
        BY <1>1, <2>1, <2>2 DEF NothingFreeIsSkipped
<1>9. BitsMatchUsers'
    <2>1. users'[0] = 0 /\ users'[1] = 0
        BY <1>6, <1>7, ExtentAssumption DEF SpaceInv, BitsMatchUsers, Extent
    <2>2. ASSUME NEW i \in 1..Len(chain), NEW c \in Bit
          PROVE  c \in bits'[chain[i]] <=>
                     /\ ExtentAt(i - 1, c) \in Extent
                     /\ ExtentAt(i - 1, c) \in {0, 1} \/ users'[ExtentAt(i - 1, c)] = 1
        <3>1. c \in bits[chain[i]] <=>
                     /\ ExtentAt(i - 1, c) \in Extent
                     /\ ExtentAt(i - 1, c) \in {0, 1} \/ users[ExtentAt(i - 1, c)] = 1
            BY DEF SpaceInv, BitsMatchUsers
        <3>2. i - 1 \in Nat
            BY <1>3
        <3>3. CASE i = cursorIdx + 1 /\ c = b
            <4>1. ExtentAt(i - 1, c) = x
                BY <1>3, <3>3 DEF x
            <4>2. QED
                BY <1>1, <1>2, <1>3, <1>7, <3>3, <4>1
        <3>4. CASE ~(i = cursorIdx + 1 /\ c = b)
            <4>1. ExtentAt(i - 1, c) # x
                BY <1>3, <3>2, <3>4, ExtentAtUnique DEF x
            <4>2. c \in bits'[chain[i]] <=> c \in bits[chain[i]]
                BY <1>1, <1>2, <1>4, <3>4
            <4>3. QED
                BY <1>7, <3>1, <4>1, <4>2
        <3>5. QED
            BY <3>3, <3>4
    <2>3. x \div GAM_MAX_BITS < Len(chain)
        BY <1>3, ExtentAtOrder DEF x
    <2>4. \A e \in Extent : users'[e] \in {0, 1}
        BY <1>7 DEF SpaceInv, BitsMatchUsers
    <2>5. \A e \in Extent : users'[e] = 1 => e \div GAM_MAX_BITS < Len(chain)
        BY <1>7, <2>3 DEF SpaceInv, BitsMatchUsers
    <2>6. QED
        BY <1>1, <2>1, <2>2, <2>4, <2>5 DEF BitsMatchUsers
<1>10. QED
    BY <1>1, <1>8, <1>9 DEF SpaceInv, ChainIsGamExtent, NewGamIsEmpty

\* Formatting the next GAM page touches no page that is in the chain.
LEMMA CreateKeepsSpace ==
    ASSUME ChainInv, ChainInGamExtent, SpaceInv, CreateNewGam
    PROVE  SpaceInv'
<1> DEFINE g == NewGamPage
<1>1. /\ FreeBits(cursor) = {} /\ LastGam /\ g \in PageId \ dirty
      /\ bits' = [bits EXCEPT ![g] = IF FitsInCurrentExtent THEN {} ELSE {0}]
      /\ hint' = [hint EXCEPT ![g] = 0]
      /\ next' = [next EXCEPT ![g] = INVALID_PAGE_ID]
      /\ newGam' = g
      /\ UNCHANGED <<chain, cursor, cursorIdx, users>>
    BY DEF CreateNewGam, linked
<1>2. /\ bits \in [PageId -> SUBSET Bit] /\ hint \in [PageId -> 0..GAM_MAX_BITS]
      /\ next \in [PageId -> Link]
      /\ fileSize \in Nat /\ 2 * EXTENT_SIZE <= fileSize
    BY DEF ChainInv, BaseInv, GamChain, TypeOK
<1>3. /\ cursor = LastGamPage /\ LastGamPage < g /\ cursor \in Nat /\ cursor \in PageId
      /\ Len(chain) \in Nat /\ cursorIdx \in 0..(Len(chain) - 1)
    <2>1. /\ Len(chain) \in Nat /\ cursorIdx \in Nat /\ cursorIdx + 1 \in 1..Len(chain)
          /\ cursor = LastGamPage /\ LastGamPage \in PageId
        BY <1>1, ChainFacts, CursorLink
    <2>2. LastGamPage < g
        BY <1>1, NewGamIsPastChain
    <2>3. QED
        BY <2>1, <2>2, PageIds
<1>4. g < 2 * EXTENT_SIZE => FitsInCurrentExtent /\ g = cursor + 1
    BY <1>2, ExtentAssumption DEF NewGamPage
<1> HIDE DEF g
<1>5. \A i \in 1..Len(chain) : chain[i] \in PageId /\ chain[i] # g
    BY <1>1, <1>3, ChainFacts, PageIds
<1>6. \A i \in 1..Len(chain) : bits'[chain[i]] = bits[chain[i]] /\ hint'[chain[i]] = hint[chain[i]]
    BY <1>1, <1>2, <1>5
<1>7. NothingFreeIsSkipped'
    <2>1. \A i \in 1..cursorIdx : i \in 1..Len(chain)
        BY <1>3
    <2>2. QED
        BY <1>1, <1>6, <2>1 DEF SpaceInv, NothingFreeIsSkipped, FreeBits
<1>8. BitsMatchUsers'
    BY <1>1, <1>6 DEF SpaceInv, BitsMatchUsers
<1>9. NewGamIsEmpty'
    <2>1. cursor # g
        BY <1>1, <1>3, PageIds
    <2>2. FreeBits(cursor)' = {}
        BY <1>1, <1>2, <1>3, <2>1 DEF FreeBits
    <2>3. g < 2 * EXTENT_SIZE => bits'[g] = {} /\ hint'[g] = 0 /\ next'[g] = INVALID_PAGE_ID
        BY <1>1, <1>2, <1>4
    <2>4. QED
        BY <1>1, <1>4, <2>2, <2>3 DEF NewGamIsEmpty
<1>10. QED
    BY <1>1, <1>7, <1>8, <1>9 DEF SpaceInv, ChainIsGamExtent

\* The new GAM page stands for extents that nobody uses, and the cursor leaves
\* only full pages behind.
LEMMA LinkKeepsSpace ==
    ASSUME ChainInv, ChainInGamExtent, SpaceInv, LinkNewGam, ChainInGamExtent'
    PROVE  SpaceInv'
<1> DEFINE n == Len(chain)
<1>1. /\ chain' = Append(chain, newGam) /\ newGam \in PageId
      /\ cursorIdx' = cursorIdx + 1 /\ step = "link" /\ step' # "link"
      /\ UNCHANGED <<bits, hint, users>>
      /\ CursorAtEnd
    BY DEF LinkNewGam, ChainInv, GamChain, BaseInv, TypeOK
<1>2. /\ n \in Nat \ {0} /\ cursorIdx + 1 = n
      /\ cursor = LastGamPage /\ cursor = chain[n] /\ cursorIdx \in Nat
    BY <1>1, ChainFacts DEF CursorAtEnd, LastGamPage
<1>3. /\ Len(chain') = n + 1
      /\ \A i \in 1..n : chain'[i] = chain[i]
      /\ chain'[n + 1] = newGam
    BY <1>1, AppendProperties DEF ChainInv, BaseInv, TypeOK
<1>4. newGam < 2 * EXTENT_SIZE
    <2>1. n + 1 \in 1..Len(chain')
        BY <1>2, <1>3
    <2>2. QED
        BY <1>3, <2>1 DEF ChainInGamExtent
<1>5. newGam = cursor + 1 /\ bits[newGam] = {} /\ hint[newGam] = 0 /\ FreeBits(cursor) = {}
    BY <1>1, <1>4 DEF SpaceInv, NewGamIsEmpty
<1>6. cursor = EXTENT_SIZE + n - 1
    BY <1>2, GamExtentFacts DEF SpaceInv
<1> HIDE DEF n
<1>7. ASSUME NEW i \in 1..(n + 1) PROVE i \in 1..n \/ i = n + 1
    BY <1>2
<1>8. ChainIsGamExtent'
    <2>1. ASSUME NEW i \in 1..(n + 1) PROVE chain'[i] = EXTENT_SIZE + i - 1
        <3>1. CASE i \in 1..n
            BY <1>3, <3>1 DEF SpaceInv, ChainIsGamExtent, n
        <3>2. CASE i = n + 1
            BY <1>2, <1>3, <1>5, <1>6, <3>2, ExtentAssumption
        <3>3. QED
            BY <1>7, <3>1, <3>2
    <2>2. QED
        BY <1>3, <2>1 DEF ChainIsGamExtent
<1>9. NothingFreeIsSkipped'
    <2>1. ASSUME NEW i \in 1..(n + 1), NEW b \in Bit, b < hint[chain'[i]]
          PROVE  b \in bits[chain'[i]]
        <3>1. CASE i \in 1..n
            BY <1>3, <2>1, <3>1 DEF SpaceInv, NothingFreeIsSkipped, n
        <3>2. CASE i = n + 1
            BY <1>3, <1>5, <2>1, <3>2 DEF Bit
        <3>3. QED
            BY <1>7, <3>1, <3>2
    <2>2. ASSUME NEW i \in 1..cursorIdx' PROVE FreeBits(chain'[i]) = {}
        <3>1. i \in 1..n /\ (i \in 1..cursorIdx \/ i = n)
            BY <1>1, <1>2
        <3>2. QED
            BY <1>2, <1>3, <1>5, <3>1 DEF SpaceInv, NothingFreeIsSkipped
    <2>3. QED
        BY <1>1, <1>3, <2>1, <2>2 DEF NothingFreeIsSkipped, FreeBits
<1>10. ASSUME NEW b \in Bit
       PROVE  /\ ExtentAt(n, b) \notin {0, 1}
              /\ ExtentAt(n, b) \in Extent => users[ExtentAt(n, b)] # 1
    <2>1. ExtentAt(n, b) \in Nat /\ ExtentAt(n, b) \div GAM_MAX_BITS = n
        BY <1>2, ExtentAtOrder
    <2>2. ExtentAt(0, 1) < ExtentAt(n, b) /\ ExtentAt(0, 1) = 1
        <3>1. 1 \in Bit /\ 0 < n
            BY <1>2, ExtentAssumption DEF Bit
        <3>2. ExtentAt(0, 1) < ExtentAt(n, b)
            BY <1>2, <3>1, ExtentAtOrder
        <3>3. ExtentAt(0, 1) = 1
            BY ExtentAssumption DEF ExtentAt
        <3>4. QED
            BY <3>2, <3>3
    <2>3. ASSUME ExtentAt(n, b) \in Extent, users[ExtentAt(n, b)] = 1 PROVE FALSE
        <3>1. n < n
            BY <2>1, <2>3 DEF SpaceInv, BitsMatchUsers, n
        <3>2. QED
            BY <1>2, <3>1
    <2>4. QED
        BY <2>1, <2>2, <2>3
<1>11. BitsMatchUsers'
    <2>1. ASSUME NEW i \in 1..(n + 1), NEW b \in Bit
          PROVE  b \in bits[chain'[i]] <=>
                     /\ ExtentAt(i - 1, b) \in Extent
                     /\ ExtentAt(i - 1, b) \in {0, 1} \/ users[ExtentAt(i - 1, b)] = 1
        <3>1. CASE i \in 1..n
            BY <1>3, <3>1 DEF SpaceInv, BitsMatchUsers, n
        <3>2. CASE i = n + 1
            <4>1. i - 1 = n
                BY <1>2, <3>2
            <4>2. QED
                BY <1>3, <1>5, <1>10, <3>2, <4>1
        <3>3. QED
            BY <1>7, <3>1, <3>2
    <2>2. \A e \in Extent : users[e] = 1 => e \div GAM_MAX_BITS < n + 1
        <3> SUFFICES ASSUME NEW e \in Extent, users[e] = 1
                     PROVE  e \div GAM_MAX_BITS < n + 1
            OBVIOUS
        <3>1. e \div GAM_MAX_BITS < n
            BY DEF SpaceInv, BitsMatchUsers, n
        <3>2. e \div GAM_MAX_BITS \in Nat
            BY ExtentDivision DEF Extent
        <3>3. QED
            BY <1>2, <3>1, <3>2
    <2>3. QED
        BY <1>1, <1>3, <2>1, <2>2 DEF SpaceInv, BitsMatchUsers
<1>12. QED
    BY <1>1, <1>8, <1>9, <1>11 DEF SpaceInv, NewGamIsEmpty

\* clear_extent_bit clears the one bit that stands for the extent, and rewinds
\* the hint and the cursor far enough.
LEMMA ClearKeepsSpace ==
    ASSUME ChainInv, ChainInGamExtent, SpaceInv, ClearExtentBit
    PROVE  SpaceInv'
<1> DEFINE e == target
           idx == gamIdx
           bit == e % GAM_MAX_BITS
<1>1. /\ idx = e \div GAM_MAX_BITS
      /\ users' = [users EXCEPT ![e] = @ - 1]
      /\ bits' = [bits EXCEPT ![gam] = @ \ {bit}]
      /\ hint' = [hint EXCEPT ![gam] = RewoundHint(@, bit)]
      /\ RewindCursor(idx, gam)
      /\ step' = "idle"
      /\ UNCHANGED <<chain, newGam>>
    BY DEF ClearExtentBit, EndCall, linked
<1>2. /\ e \in Extent /\ idx \in Nat /\ bit \in Bit /\ ExtentAt(idx, bit) = e
    BY <1>1, ExtentDivision DEF ChainInv, BaseInv, TypeOK, Extent
<1>3. /\ Len(chain) \in Nat /\ idx + 1 \in 1..Len(chain) /\ gam = chain[idx + 1]
      /\ cursorIdx \in Nat /\ cursorIdx + 1 \in 1..Len(chain)
      /\ users[e] > 0
    BY <1>2, ChainFacts
       DEF ClearExtentBit, ChainInv, BaseInv, FreesUsed, GamChain, WalkInChain
<1> HIDE DEF bit, e, idx
<1>4. /\ gam \in PageId
      /\ \A i \in 1..Len(chain) : chain[i] \in PageId /\ (chain[i] = gam <=> i = idx + 1)
    BY <1>3, GamExtentFacts DEF SpaceInv
<1>5. /\ bits \in [PageId -> SUBSET Bit] /\ hint \in [PageId -> 0..GAM_MAX_BITS]
      /\ users \in [Extent -> Nat]
    BY DEF ChainInv, BaseInv, TypeOK
<1>6. users[e] = 1 /\ e \notin {0, 1}
    BY <1>2, <1>3 DEF SpaceInv, BitsMatchUsers
<1>7. users'[e] = 0 /\ \A f \in Extent : f # e => users'[f] = users[f]
    BY <1>1, <1>2, <1>5, <1>6
<1>8. /\ \A i \in 1..Len(chain) : i # idx + 1 =>
            bits'[chain[i]] = bits[chain[i]] /\ hint'[chain[i]] = hint[chain[i]]
      /\ chain[idx + 1] = gam
      /\ bits'[gam] = bits[gam] \ {bit}
      /\ hint'[gam] = RewoundHint(hint[gam], bit)
    BY <1>1, <1>3, <1>4, <1>5
<1>9. /\ cursorIdx' \in Nat /\ cursorIdx' <= cursorIdx /\ cursorIdx' <= idx
    BY <1>1, <1>2, <1>3 DEF RewindCursor
<1>10. NothingFreeIsSkipped'
    <2>1. ASSUME NEW i \in 1..Len(chain), NEW c \in Bit, c < hint'[chain[i]]
          PROVE  c \in bits'[chain[i]]
        <3>1. CASE i = idx + 1
            <4>1. hint[gam] \in 0..GAM_MAX_BITS /\ c < RewoundHint(hint[gam], bit)
                BY <1>4, <1>5, <1>8, <2>1, <3>1
            <4>2. c < hint[gam] /\ c # bit
                BY <1>2, <4>1 DEF RewoundHint, Bit
            <4>3. c \in bits[gam]
                BY <1>3, <1>8, <4>2 DEF SpaceInv, NothingFreeIsSkipped
            <4>4. QED
                BY <1>8, <3>1, <4>2, <4>3
        <3>2. CASE i # idx + 1
            BY <1>8, <2>1, <3>2 DEF SpaceInv, NothingFreeIsSkipped
        <3>3. QED
            BY <3>1, <3>2
    <2>2. ASSUME NEW i \in 1..cursorIdx' PROVE FreeBits(chain[i])' = {}
        <3>1. i \in 1..Len(chain) /\ i # idx + 1 /\ i \in 1..cursorIdx
            BY <1>2, <1>3, <1>9
        <3>2. bits'[chain[i]] = bits[chain[i]]
            BY <1>8, <3>1
        <3>3. QED
            BY <1>1, <3>1, <3>2 DEF SpaceInv, NothingFreeIsSkipped, FreeBits
    <2>3. QED
        BY <1>1, <2>1, <2>2 DEF NothingFreeIsSkipped
<1>11. BitsMatchUsers'
    <2>1. users'[0] = 0 /\ users'[1] = 0
        BY <1>6, <1>7, ExtentAssumption DEF SpaceInv, BitsMatchUsers, Extent
    <2>2. ASSUME NEW i \in 1..Len(chain), NEW c \in Bit
          PROVE  c \in bits'[chain[i]] <=>
                     /\ ExtentAt(i - 1, c) \in Extent
                     /\ ExtentAt(i - 1, c) \in {0, 1} \/ users'[ExtentAt(i - 1, c)] = 1
        <3>1. c \in bits[chain[i]] <=>
                     /\ ExtentAt(i - 1, c) \in Extent
                     /\ ExtentAt(i - 1, c) \in {0, 1} \/ users[ExtentAt(i - 1, c)] = 1
            BY DEF SpaceInv, BitsMatchUsers
        <3>2. i - 1 \in Nat
            BY <1>3
        <3>3. CASE i = idx + 1 /\ c = bit
            <4>1. ExtentAt(i - 1, c) = e
                BY <1>2, <3>3
            <4>2. QED
                BY <1>6, <1>7, <1>8, <3>3, <4>1
        <3>4. CASE ~(i = idx + 1 /\ c = bit)
            <4>1. ExtentAt(i - 1, c) # e
                BY <1>2, <3>2, <3>4, ExtentAtUnique
            <4>2. c \in bits'[chain[i]] <=> c \in bits[chain[i]]
                BY <1>8, <3>4
            <4>3. QED
                BY <1>7, <3>1, <4>1, <4>2
        <3>5. QED
            BY <3>3, <3>4
    <2>3. /\ \A f \in Extent : users'[f] \in {0, 1}
          /\ \A f \in Extent : users'[f] = 1 => f \div GAM_MAX_BITS < Len(chain)
        BY <1>7 DEF SpaceInv, BitsMatchUsers
    <2>4. QED
        BY <1>1, <2>1, <2>2, <2>3 DEF BitsMatchUsers
<1>12. QED
    BY <1>1, <1>10, <1>11 DEF SpaceInv, ChainIsGamExtent, NewGamIsEmpty

\* The invariant of a chain that is still in the GAM extent after a step.
LEMMA InGamExtent ==
    ASSUME IInv, [Next]_vars, ChainInGamExtent'
    PROVE  ChainInv /\ ChainInGamExtent /\ SpaceInv
<1>1. chain \in Seq(PageId) /\ chain # <<>> /\ newGam \in PageId
    BY DEF IInv, ChainOrOverwritten, BaseInv, TypeOK
<1>2. QED
    BY <1>1, ChainGrows DEF IInv, ChainOrOverwritten

\* Every step keeps the invariant.
LEMMA SpaceStep ==
    ASSUME IInv, [Next]_vars
    PROVE  IInv'
<1>1. ChainOrOverwritten'
    BY ChainInvStep DEF IInv
<1> SUFFICES ASSUME ChainInGamExtent' PROVE ~overwritten' /\ SpaceInv'
    BY <1>1 DEF IInv
<1>2. ChainInv /\ ChainInGamExtent /\ SpaceInv
    BY InGamExtent
<1>3. ASSUME UNCHANGED vars PROVE ~overwritten' /\ SpaceInv'
    BY <1>2, <1>3, SpaceKept DEF vars, gamVars, linked, ChainInv
<1>4. ASSUME StartAllocation \/ NewGamRefused \/ CallFails PROVE ~overwritten' /\ SpaceInv'
    BY <1>2, <1>4, SpaceKept
       DEF StartAllocation, NewGamRefused, CallFails, EndCall, gamVars, linked, ChainInv
<1>5. ASSUME NEW b \in Bit, PageIdOverflow(b) PROVE ~overwritten' /\ SpaceInv'
    BY <1>2, <1>5, SpaceKept DEF PageIdOverflow, gamVars, linked, ChainInv
<1>6. ASSUME NEW b \in Bit, ClaimExtent(b) PROVE ~overwritten' /\ SpaceInv'
    <2>1. ~overwritten'
        BY <1>2, <1>6 DEF ClaimExtent, linked, ChainInv
    <2>2. QED
        BY <1>2, <1>6, <2>1, ClaimKeepsSpace
<1>7. ASSUME AdvanceGamCursor PROVE ~overwritten' /\ SpaceInv'
    BY <1>2, <1>7, SpaceKept DEF AdvanceGamCursor, gamVars, linked, ChainInv
<1>8. ASSUME CreateNewGam PROVE ~overwritten' /\ SpaceInv'
    <2>1. ~overwritten'
        BY <1>2, <1>8 DEF CreateNewGam, linked, ChainInv
    <2>2. QED
        BY <1>2, <1>8, <2>1, CreateKeepsSpace
<1>9. ASSUME LinkNewGam PROVE ~overwritten' /\ SpaceInv'
    <2>1. newGam < 2 * EXTENT_SIZE /\ step = "link"
        BY <1>2, <1>9, ChainGrows DEF LinkNewGam, ChainInv, BaseInv, TypeOK
    <2>2. ~overwritten'
        BY <1>2, <1>9, <2>1 DEF LinkNewGam, SpaceInv, NewGamIsEmpty, ChainInv
    <2>3. QED
        BY <1>2, <1>9, <2>2, LinkKeepsSpace
<1>10. ASSUME (\E e \in Extent : StartDeallocation(e)) \/ FollowGamLink
       PROVE  ~overwritten' /\ SpaceInv'
    BY <1>2, <1>10, SpaceKept DEF StartDeallocation, FollowGamLink, gamVars, linked, ChainInv
<1>11. ASSUME ClearExtentBit PROVE ~overwritten' /\ SpaceInv'
    <2>1. ~overwritten'
        BY <1>2, <1>11 DEF ClearExtentBit, linked, ChainInv
    <2>2. QED
        BY <1>2, <1>11, <2>1, ClearKeepsSpace
<1>12. ASSUME NEW p \in PageId, TouchPage(p) PROVE ~overwritten' /\ SpaceInv'
    BY <1>2, <1>12, TouchMissesChain, TouchKeepsSpace
<1>13. ASSUME NEW p \in PageId, WriteBackPage(p) PROVE ~overwritten' /\ SpaceInv'
    BY <1>2, <1>13, SpaceKept DEF WriteBackPage, gamVars, linked, ChainInv
<1>14. ASSUME Restart PROVE ~overwritten' /\ SpaceInv'
    BY <1>2, <1>14, SpaceKept DEF Restart, gamVars, linked, ChainInv
<1>15. QED
    BY <1>3, <1>4, <1>5, <1>6, <1>7, <1>8, <1>9, <1>10, <1>11, <1>12, <1>13, <1>14 DEF Next

\* The invariant holds throughout.
LEMMA Invariance == Spec => []IInv
<1>1. Init => IInv
    BY ChainInit, SpaceInit DEF IInv, ChainInv, ChainOrOverwritten
<1>2. IInv /\ [Next]_vars => IInv'
    BY SpaceStep
<1>3. QED
    BY <1>1, <1>2, PTL DEF Spec

\* While the GAM extent holds the whole chain, nothing free is skipped by the
\* hints or the cursor, whatever allocation failed and whatever was freed, and
\* across restarts.
THEOREM NothingIsSkipped == Spec => [](ChainInGamExtent => NothingFreeIsSkipped)
<1>1. IInv => (ChainInGamExtent => NothingFreeIsSkipped)
    BY DEF IInv, SpaceInv
<1>2. QED
    BY <1>1, Invariance, PTL

\* The bits of the chain are the extents that have a user, and 0 and 1.
LEMMA MarkedAreUsed ==
    ASSUME ChainInv, ChainInGamExtent, SpaceInv
    PROVE  OneUserPerExtent
<1>1. Len(chain) \in Nat \ {0}
    BY ChainFacts
<1>2. SelfProtected = {}
    <2> SUFFICES ASSUME NEW i \in 2..Len(chain)
                 PROVE  ExtentOf(chain[i]) = ExtentOf(chain[i - 1])
        BY DEF SelfProtected
    <2>1. i \in 1..Len(chain) /\ i - 1 \in 1..Len(chain)
        BY <1>1
    <2>2. ASSUME NEW j \in 1..Len(chain) PROVE ExtentOf(chain[j]) = 1
        <3>1. chain[j] \in Nat /\ EXTENT_SIZE <= chain[j] /\ chain[j] < 2 * EXTENT_SIZE
            BY GamExtentFacts, PageIds DEF SpaceInv
        <3>2. QED
            BY <3>1, ExtentOfPage, ExtentAssumption
    <2>3. QED
        BY <2>1, <2>2
<1>3. ASSUME NEW e \in Marked PROVE e \in {0, 1} \/ users[e] = 1
    <2>1. PICK i \in 1..Len(chain) : \E b \in bits[chain[i]] : e = ExtentAt(i - 1, b)
        BY DEF Marked
    <2>2. PICK b \in bits[chain[i]] : e = ExtentAt(i - 1, b)
        BY <2>1
    <2>3. b \in Bit
        BY <2>2, ChainFacts DEF ChainInv, BaseInv, TypeOK
    <2>4. QED
        BY <2>2, <2>3 DEF SpaceInv, BitsMatchUsers
<1>4. ASSUME NEW e \in Extent, e \in {0, 1} \/ users[e] = 1 PROVE e \in Marked
    <2> DEFINE idx == e \div GAM_MAX_BITS
               bit == e % GAM_MAX_BITS
    <2>1. idx \in Nat /\ bit \in Bit /\ ExtentAt(idx, bit) = e
        BY ExtentDivision DEF Extent
    <2>2. idx < Len(chain)
        <3>1. CASE users[e] = 1
            BY <3>1 DEF SpaceInv, BitsMatchUsers
        <3>2. CASE e \in {0, 1}
            <4>1. e \in Bit /\ ExtentAt(0, e) = e
                BY <3>2, ExtentAssumption DEF Bit, ExtentAt
            <4>2. idx = 0
                BY <2>1, <4>1, ExtentAtUnique
            <4>3. QED
                BY <1>1, <4>2
        <3>3. QED
            BY <1>4, <3>1, <3>2
    <2> HIDE DEF idx, bit
    <2>3. idx + 1 \in 1..Len(chain) /\ (idx + 1) - 1 = idx
        BY <1>1, <2>1, <2>2
    <2>4. bit \in bits[chain[idx + 1]]
        BY <1>4, <2>1, <2>3 DEF SpaceInv, BitsMatchUsers
    <2>5. QED
        BY <2>1, <2>3, <2>4 DEF Marked
<1>5. Marked = {0, 1} \cup {e \in Extent : users[e] = 1}
    <2>1. 0 \in Extent /\ 1 \in Extent /\ Marked \subseteq Extent
        BY ExtentAssumption DEF Extent, Marked
    <2>2. QED
        BY <1>3, <1>4, <2>1
<1>6. \A e \in Extent : users[e] <= 1
    BY DEF SpaceInv, BitsMatchUsers
<1>7. QED
    BY <1>2, <1>5, <1>6 DEF OneUserPerExtent

\* While the GAM extent holds the whole chain, no extent has two users and the
\* marked extents are those that have one, and 0 and 1.
THEOREM ExtentsHaveOneUser == Spec => [](ChainInGamExtent => OneUserPerExtent)
<1>1. IInv => (ChainInGamExtent => OneUserPerExtent)
    BY MarkedAreUsed DEF IInv, ChainOrOverwritten
<1>2. QED
    BY <1>1, Invariance, PTL

\* While the GAM extent holds the whole chain, no GAM page is in an extent
\* that somebody was given; extent_manager.cpp:162 promises it for every chain.
THEOREM GamPagesAreKept == Spec => [](ChainInGamExtent => GamPagesAreNotHandedOut)
<1>1. ASSUME IInv, ChainInGamExtent, NEW i \in 1..Len(chain)
      PROVE  users[ExtentOf(chain[i])] = 0
    <2>1. chain[i] \in Nat /\ EXTENT_SIZE <= chain[i] /\ chain[i] < 2 * EXTENT_SIZE
        BY <1>1, GamExtentFacts, PageIds DEF IInv, ChainOrOverwritten, SpaceInv
    <2>2. ExtentOf(chain[i]) = 1
        BY <2>1, ExtentOfPage, ExtentAssumption
    <2>3. QED
        BY <1>1, <2>2 DEF IInv, SpaceInv, BitsMatchUsers
<1>2. IInv => (ChainInGamExtent => GamPagesAreNotHandedOut)
    BY <1>1 DEF GamPagesAreNotHandedOut
<1>3. QED
    BY <1>2, Invariance, PTL

-----------------------------------------------------------------------------
(* The refinement of ExtentSpace *)

UsedExtents == {e \in Extent : users[e] > 0}

\* claim_extent_at_bit hands out the lowest extent nobody uses.
LEMMA ClaimAllocates ==
    ASSUME ChainInv, ChainInGamExtent, SpaceInv, NEW b \in Bit, ClaimExtent(b)
    PROVE  Space!Allocate
<1> DEFINE x == ExtentAt(cursorIdx, b)
           Free == 0..MaxExtent \ ({0, 1} \cup UsedExtents)
<1>1. x \in Extent /\ users' = [users EXCEPT ![x] = @ + 1] /\ ChosenBit(cursor, b)
    BY DEF ClaimExtent
<1>2. /\ users \in [Extent -> Nat]
      /\ cursorIdx \in Nat /\ cursorIdx + 1 \in 1..Len(chain) /\ Len(chain) \in Nat
      /\ cursor = chain[cursorIdx + 1]
    BY ChainFacts DEF ChainInv, BaseInv, TypeOK
<1>3. b \notin bits[cursor] /\ \A c \in Bit : c < b => c \in bits[cursor]
    BY <1>1, ChosenIsLowest
<1>4. x \notin {0, 1} /\ users[x] = 0
    <2>1. (cursorIdx + 1) - 1 = cursorIdx
        BY <1>2
    <2>2. x \notin {0, 1} /\ users[x] # 1
        BY <1>1, <1>2, <1>3, <2>1 DEF SpaceInv, BitsMatchUsers
    <2>3. QED
        BY <1>1, <2>2 DEF SpaceInv, BitsMatchUsers
<1>5. x \in Free
    BY <1>1, <1>4 DEF UsedExtents, Extent
<1>6. UsedExtents' = UsedExtents \cup {x}
    <2> HIDE DEF x
    <2>1. users'[x] = users[x] + 1 /\ \A e \in Extent : e # x => users'[e] = users[e]
        BY <1>1, <1>2
    <2>2. QED
        BY <1>1, <1>2, <1>4, <2>1 DEF UsedExtents
<1>7. ASSUME NEW f \in Free PROVE x <= f
    <2> DEFINE idx == f \div GAM_MAX_BITS
               bit == f % GAM_MAX_BITS
    <2>1. f \in Extent /\ f \notin {0, 1} /\ users[f] = 0
        BY <1>2 DEF UsedExtents, Extent
    <2>2. idx \in Nat /\ bit \in Bit /\ ExtentAt(idx, bit) = f
        BY <2>1, ExtentDivision DEF Extent
    <2> HIDE DEF idx, bit, x
    <2>3. CASE Len(chain) <= idx
        <3>1. cursorIdx < idx
            BY <1>2, <2>2, <2>3
        <3>2. ExtentAt(cursorIdx, b) < ExtentAt(idx, bit)
            BY <1>2, <2>2, <3>1, ExtentAtOrder
        <3>3. QED
            BY <1>1, <2>1, <2>2, <3>2 DEF x, Extent
    <2>4. CASE idx < Len(chain)
        <3>1. idx + 1 \in 1..Len(chain) /\ (idx + 1) - 1 = idx
            BY <1>2, <2>2, <2>4
        <3>2. bit \notin bits[chain[idx + 1]]
            BY <2>1, <2>2, <3>1 DEF SpaceInv, BitsMatchUsers
        <3>3. ~(idx + 1 <= cursorIdx)
            <4>1. idx + 1 \in 1..cursorIdx => FreeBits(chain[idx + 1]) = {}
                BY DEF SpaceInv, NothingFreeIsSkipped
            <4>2. QED
                BY <1>2, <2>2, <3>2, <4>1 DEF FreeBits
        <3>4. idx = cursorIdx => b <= bit
            BY <1>2, <1>3, <2>2, <3>2 DEF Bit
        <3>5. ExtentAt(cursorIdx, b) <= ExtentAt(idx, bit)
            <4>1. cursorIdx < idx \/ (cursorIdx = idx /\ b <= bit)
                BY <1>2, <2>2, <3>3, <3>4
            <4>2. /\ ExtentAt(cursorIdx, b) \in Nat /\ ExtentAt(idx, bit) \in Nat
                  /\ cursorIdx < idx => ExtentAt(cursorIdx, b) < ExtentAt(idx, bit)
                  /\ cursorIdx = idx /\ b <= bit => ExtentAt(cursorIdx, b) <= ExtentAt(idx, bit)
                BY <1>2, <2>2, ExtentAtOrder
            <4>3. QED
                BY <4>1, <4>2
        <3>6. QED
            BY <2>2, <3>5 DEF x
    <2>5. QED
        BY <1>2, <2>2, <2>3, <2>4
<1>8. QED
    BY <1>5, <1>6, <1>7 DEF Space!Allocate, Space!Free, UsedExtents

\* clear_extent_bit frees one extent.
LEMMA ClearFrees ==
    ASSUME ChainInv, ChainInGamExtent, SpaceInv, ClearExtentBit
    PROVE  Space!Deallocate
<1> DEFINE e == target
<1>1. e \in Extent /\ users[e] > 0 /\ users' = [users EXCEPT ![e] = @ - 1]
    BY DEF ClearExtentBit, ChainInv, BaseInv, FreesUsed, TypeOK
<1>2. users \in [Extent -> Nat] /\ users[e] = 1
    BY <1>1 DEF ChainInv, BaseInv, TypeOK, SpaceInv, BitsMatchUsers
<1>3. users'[e] = 0 /\ \A f \in Extent : f # e => users'[f] = users[f]
    BY <1>1, <1>2
<1>4. e \in UsedExtents /\ UsedExtents' = UsedExtents \ {e}
    BY <1>1, <1>2, <1>3 DEF UsedExtents
<1>5. QED
    BY <1>4 DEF Space!Deallocate, UsedExtents

\* Every step is a step of the extent space or changes no user.
LEMMA SpaceRefined ==
    ASSUME IInv, ChainInGamExtent, [Next]_vars
    PROVE  [Space!Next]_UsedExtents
<1>1. ChainInv /\ SpaceInv
    BY DEF IInv, ChainOrOverwritten
<1>2. CASE \E b \in Bit : ClaimExtent(b)
    BY <1>1, <1>2, ClaimAllocates DEF Space!Next
<1>3. CASE ClearExtentBit
    BY <1>1, <1>3, ClearFrees DEF Space!Next
<1>4. CASE ~(\E b \in Bit : ClaimExtent(b)) /\ ~ClearExtentBit
    <2>1. users' = users
        BY <1>4 DEF Next, vars, StartAllocation, PageIdOverflow, AdvanceGamCursor,
                    NewGamRefused, CreateNewGam, LinkNewGam, StartDeallocation, FollowGamLink,
                    CallFails, TouchPage, WriteBackPage, Restart
    <2>2. QED
        BY <2>1 DEF UsedExtents
<1>5. QED
    BY <1>2, <1>3, <1>4

\* While the GAM extent holds the whole chain, extent allocation implements
\* the extent space: every claim_extent_at_bit hands out the lowest extent
\* nobody uses, every clear_extent_bit frees one, and nothing else that
\* happens to the GAM pages, the cursor or the pool can be seen.
THEOREM Refinement == Spec /\ []ChainInGamExtent => ImplementsSpace
<1>1. Init => Space!Init
    <2> SUFFICES ASSUME Init PROVE {e \in Extent : users[e] > 0} = {}
        BY DEF Space!Init
    <2>1. \A e \in Extent : users[e] = 0
        BY DEF Init
    <2>2. QED
        BY <2>1
<1>2. IInv /\ ChainInGamExtent /\ [Next]_vars => [Space!Next]_UsedExtents
    BY SpaceRefined
<1>3. QED
    BY <1>1, <1>2, Invariance, PTL DEF Spec, ImplementsSpace, Space!Spec, UsedExtents

-----------------------------------------------------------------------------
(* The last try of an allocation *)

\* extent_manager.cpp:114 says of the last try of an allocation: "Try one last
\* time from the newly created GAM page (guaranteed to have space)".  Without
\* space allocate_extent would return INVALID_PAGE_ID instead of throwing.
NewGamHasSpace == step = "created" => FreeBits(cursor) # {}

\* The page that was linked is empty, and nobody else writes it before the last
\* try.
LEMMA NewGamStep ==
    ASSUME IInv, ChainInGamExtent => NewGamHasSpace, [Next]_vars
    PROVE  ChainInGamExtent' => NewGamHasSpace'
<1> SUFFICES ASSUME ChainInGamExtent' PROVE NewGamHasSpace'
    OBVIOUS
<1>1. ChainInv /\ ChainInGamExtent /\ SpaceInv /\ NewGamHasSpace
    BY InGamExtent
<1>2. CASE LinkNewGam
    <2>1. step = "link" /\ cursor' = newGam /\ bits' = bits
        BY <1>2 DEF LinkNewGam
    <2>2. newGam < 2 * EXTENT_SIZE
        BY <1>1, <1>2, ChainGrows DEF ChainInv, BaseInv, TypeOK
    <2>3. bits[newGam] = {}
        BY <1>1, <2>1, <2>2 DEF SpaceInv, NewGamIsEmpty
    <2>4. 0 \in Bit
        BY ExtentAssumption DEF Bit
    <2>5. QED
        BY <2>1, <2>3, <2>4 DEF NewGamHasSpace, FreeBits
<1>3. ASSUME NEW p \in PageId, TouchPage(p) PROVE NewGamHasSpace'
    <2>1. UNCHANGED <<cursor, step>> /\ bits'[cursor] = bits[cursor]
        BY <1>1, <1>3, TouchMissesChain, ChainFacts DEF TouchPage
    <2>2. QED
        BY <1>1, <2>1 DEF NewGamHasSpace, FreeBits
<1>4. CASE ~LinkNewGam /\ ~\E p \in PageId : TouchPage(p)
    <2>1. step' # "created" \/ UNCHANGED <<bits, cursor, step>>
        BY <1>4 DEF Next, vars, gamVars, StartAllocation, ClaimExtent, PageIdOverflow,
                    AdvanceGamCursor, NewGamRefused, CreateNewGam, StartDeallocation,
                    FollowGamLink, ClearExtentBit, CallFails, EndCall, WriteBackPage, Restart
    <2>2. QED
        BY <1>1, <2>1 DEF NewGamHasSpace, FreeBits
<1>5. QED
    BY <1>2, <1>3, <1>4

\* While the GAM extent holds the whole chain, the last try of an allocation,
\* from the GAM page it has just created, finds space, as the comment in
\* allocate_extent promises, whatever happens between the two.
THEOREM LastTryFindsSpace == Spec => [](ChainInGamExtent => NewGamHasSpace)
<1>1. Init => (ChainInGamExtent => NewGamHasSpace)
    BY DEF Init, NewGamHasSpace
<1>2. IInv /\ (ChainInGamExtent => NewGamHasSpace) /\ [Next]_vars
        => (ChainInGamExtent => NewGamHasSpace)'
    BY NewGamStep
<1>3. QED
    BY <1>1, <1>2, Invariance, PTL DEF Spec

-----------------------------------------------------------------------------
(* A database the GAM extent has bits for *)

\* A GAM page outside the GAM extent is only needed when every extent the GAM
\* extent has bits for is marked.
LEMMA NewGamFits ==
    ASSUME SmallDatabase, ChainInv, ChainInGamExtent, SpaceInv, CreateNewGam
    PROVE  NewGamPage < 2 * EXTENT_SIZE
<1> USE ExtentAssumption
<1> DEFINE n == Len(chain)
           last == GAM_MAX_BITS - 1
<1>1. FreeBits(cursor) = {} /\ LastGam /\ bits \in [PageId -> SUBSET Bit] /\ fileSize \in Nat
    BY DEF CreateNewGam, ChainInv, BaseInv, TypeOK
<1>2. /\ n \in Nat \ {0} /\ cursor = LastGamPage /\ cursor = chain[n] /\ cursor \in Nat
      /\ cursor = EXTENT_SIZE + n - 1 /\ cursor < 2 * EXTENT_SIZE
    BY <1>1, ChainFacts, CursorLink, GamExtentFacts, PageIds DEF LastGamPage, SpaceInv
<1> HIDE DEF n
<1>3. n # EXTENT_SIZE
    <2> SUFFICES ASSUME n = EXTENT_SIZE PROVE FALSE
        OBVIOUS
    <2>1. last \in Bit /\ last \in bits[cursor]
        BY <1>1 DEF Bit, FreeBits
    <2>2. n \in 1..Len(chain)
        BY <1>2 DEF n
    <2>3. ExtentAt(n - 1, last) \in Extent
        BY <1>2, <2>1, <2>2 DEF SpaceInv, BitsMatchUsers
    <2>4. n - 1 \in Nat /\ n = (n - 1) + 1
        BY <1>2
    <2>5. ((n - 1) + 1) * GAM_MAX_BITS = (n - 1) * GAM_MAX_BITS + GAM_MAX_BITS
        BY <2>4, Products
    <2>6. (n - 1) * GAM_MAX_BITS \in Nat
        BY <2>4, Products
    <2>7. ExtentAt(n - 1, last) + 1 = EXTENT_SIZE * GAM_MAX_BITS
        BY <2>4, <2>5, <2>6 DEF ExtentAt
    <2>8. QED
        BY <2>3, <2>7 DEF SmallDatabase, Extent
<1>4. cursor + 1 < 2 * EXTENT_SIZE
    BY <1>2, <1>3
<1>5. ExtentOf(cursor) = 1 /\ ExtentOf(cursor + 1) = 1
    <2>1. EXTENT_SIZE <= cursor
        BY <1>2
    <2>2. QED
        BY <1>2, <1>4, <2>1, ExtentOfPage
<1>6. QED
    BY <1>4, <1>5 DEF NewGamPage, FitsInCurrentExtent

\* Every step of a small database stays in the GAM extent.
LEMMA StaysStep ==
    ASSUME SmallDatabase, IInv, StaysInGamExtent, [Next]_vars
    PROVE  StaysInGamExtent'
<1>1. ChainInv /\ ChainInGamExtent /\ SpaceInv
    BY DEF IInv, ChainOrOverwritten, StaysInGamExtent
<1>2. CASE CreateNewGam
    <2>1. newGam' < 2 * EXTENT_SIZE /\ chain' = chain
        BY <1>1, <1>2, NewGamFits DEF CreateNewGam, linked
    <2>2. QED
        BY <1>1, <2>1 DEF StaysInGamExtent, ChainInGamExtent
<1>3. CASE LinkNewGam
    <2>1. newGam < 2 * EXTENT_SIZE /\ step' # "link"
        BY <1>3 DEF LinkNewGam, StaysInGamExtent
    <2>2. ChainInGamExtent'
        BY <1>1, <1>3, <2>1, ChainGrows DEF ChainInv, BaseInv, TypeOK
    <2>3. QED
        BY <2>1, <2>2 DEF StaysInGamExtent
<1>4. CASE ~CreateNewGam /\ ~LinkNewGam
    <2>1. chain' = chain
        BY <1>1, <1>4, ChainGrows DEF ChainInv, BaseInv, TypeOK
    <2>2. step' # "link" \/ UNCHANGED <<step, newGam>>
        BY <1>4 DEF Next, vars, StartAllocation, ClaimExtent, PageIdOverflow,
                    AdvanceGamCursor, NewGamRefused, StartDeallocation, FollowGamLink,
                    ClearExtentBit, CallFails, EndCall, TouchPage, WriteBackPage, Restart
    <2>3. QED
        BY <1>1, <2>1, <2>2 DEF StaysInGamExtent, ChainInGamExtent
<1>5. QED
    BY <1>2, <1>3, <1>4

\* A small database stays in the GAM extent.
LEMMA StaysInvariance ==
    ASSUME SmallDatabase
    PROVE  Spec => []StaysInGamExtent
<1>1. Init => StaysInGamExtent
    BY ExtentAssumption
       DEF Init, StaysInGamExtent, ChainInGamExtent, FIRST_GAM_PAGE_ID
<1>2. IInv /\ StaysInGamExtent /\ [Next]_vars => StaysInGamExtent'
    BY StaysStep
<1>3. QED
    BY <1>1, <1>2, Invariance, PTL DEF Spec

\* In a database that the GAM extent has bits for, the chain never leaves the
\* GAM extent, and the extents have one user, nothing free is skipped, the last
\* try of an allocation finds space and allocation implements the extent space
\* without further condition.
THEOREM SmallDatabaseIsSafe ==
    ASSUME SmallDatabase
    PROVE  /\ Spec => []ChainInGamExtent
           /\ Spec => []NothingFreeIsSkipped
           /\ Spec => []OneUserPerExtent
           /\ Spec => []NewGamHasSpace
           /\ Spec => ImplementsSpace
<1>1. StaysInGamExtent => ChainInGamExtent
    BY DEF StaysInGamExtent
<1>2. Spec => []ChainInGamExtent
    BY <1>1, StaysInvariance, PTL
<1>3. QED
    BY <1>2, NothingIsSkipped, ExtentsHaveOneUser, LastTryFindsSpace, Refinement, PTL
=============================================================================
