--------------------------- MODULE BufferPoolProofs --------------------------
(***************************************************************************)
(* The invariants of the buffer pool, for every number of frames, pages    *)
(* and pins and every set of contents.                                     *)
(***************************************************************************)
EXTENDS BufferPool, CommonLemmas

-----------------------------------------------------------------------------
(* The two lists *)

\* A list of frames without duplicates that holds exactly the frames in F.
Lists(s, F) ==
    /\ s \in Seq(Frame)
    /\ IsInjective(s)
    /\ \A f \in Frame : Contains(s, f) <=> f \in F

\* Appending a frame that is not on the list adds it.
LEMMA AppendLists ==
    ASSUME NEW s, NEW F \in SUBSET Frame, Lists(s, F), NEW f \in Frame \ F
    PROVE  Lists(Append(s, f), F \cup {f})
<1>1. /\ Append(s, f) \in Seq(Frame)
      /\ Len(Append(s, f)) = Len(s) + 1
      /\ \A i \in 1..Len(s) : Append(s, f)[i] = s[i]
      /\ Append(s, f)[Len(s) + 1] = f
    BY AppendProperties DEF Lists
<1>2. Len(s) \in Nat /\ DOMAIN s = 1..Len(s)
    BY LenProperties DEF Lists
<1>3. DOMAIN Append(s, f) = 1..(Len(s) + 1)
    BY <1>1, LenProperties
<1>4. \A i \in 1..Len(s) : s[i] # f
    BY DEF Lists, Contains
<1>5. IsInjective(Append(s, f))
    BY <1>1, <1>2, <1>3, <1>4 DEF Lists, IsInjective
<1>6. ASSUME NEW g \in Frame
      PROVE  Contains(Append(s, f), g) <=> g \in F \cup {f}
    <2>1. Contains(Append(s, f), g) <=> Contains(s, g) \/ g = f
        BY <1>1, <1>2 DEF Contains
    <2>2. QED
        BY <2>1 DEF Lists
<1>7. QED
    BY <1>1, <1>5, <1>6 DEF Lists

\* Taking the head of a list removes the head and nothing else.
LEMMA TailLists ==
    ASSUME NEW s, NEW F \in SUBSET Frame, Lists(s, F), s # <<>>
    PROVE  /\ Head(s) \in F
           /\ Lists(Tail(s), F \ {Head(s)})
<1>1. /\ Head(s) \in Frame
      /\ Tail(s) \in Seq(Frame)
      /\ Len(Tail(s)) = Len(s) - 1
      /\ \A i \in 1..Len(Tail(s)) : Tail(s)[i] = s[i + 1]
      /\ Head(s) = s[1]
    BY HeadTailProperties DEF Lists
<1>2. Len(s) \in Nat \ {0} /\ DOMAIN s = 1..Len(s)
    BY LenProperties, EmptySeq DEF Lists
<1>3. DOMAIN Tail(s) = 1..(Len(s) - 1)
    BY <1>1, LenProperties
<1>4. \A i, j \in 1..Len(s) : s[i] = s[j] => i = j
    BY <1>2 DEF Lists, IsInjective
<1>5. IsInjective(Tail(s))
    BY <1>1, <1>2, <1>3, <1>4 DEF IsInjective
<1>6. Contains(s, Head(s))
    BY <1>1, <1>2 DEF Contains
<1>7. ASSUME NEW g \in Frame
      PROVE  Contains(Tail(s), g) <=> g \in F \ {Head(s)}
    <2>1. ASSUME Contains(Tail(s), g) PROVE Contains(s, g) /\ g # Head(s)
        <3>1. PICK i \in 1..Len(Tail(s)) : Tail(s)[i] = g
            BY <2>1 DEF Contains
        <3>2. i + 1 \in 1..Len(s) /\ s[i + 1] = g /\ i + 1 # 1
            BY <3>1, <1>1, <1>2
        <3>3. QED
            BY <3>2, <1>1, <1>2, <1>4 DEF Contains
    <2>2. ASSUME Contains(s, g), g # Head(s) PROVE Contains(Tail(s), g)
        <3>1. PICK i \in 1..Len(s) : s[i] = g
            BY <2>2 DEF Contains
        <3>2. i - 1 \in 1..Len(Tail(s)) /\ Tail(s)[i - 1] = g
            BY <3>1, <2>2, <1>1, <1>2
        <3>3. QED
            BY <3>2 DEF Contains
    <2>3. QED
        BY <2>1, <2>2 DEF Lists
<1>8. QED
    BY <1>1, <1>5, <1>6, <1>7 DEF Lists

\* erase removes the frame it is given and nothing else.
LEMMA RemoveFirstLists ==
    ASSUME NEW s, NEW F \in SUBSET Frame, Lists(s, F), NEW f \in Frame
    PROVE  Lists(RemoveFirst(s, f), F \ {f})
<1>1. CASE ~Contains(s, f)
    <2>1. RemoveFirst(s, f) = s
        BY <1>1 DEF RemoveFirst, Contains
    <2>2. QED
        BY <1>1, <2>1 DEF Lists
<1>2. CASE Contains(s, f)
    <2>1. s \in Seq(Frame) /\ IsInjective(s) /\ \A g : Contains(s, g) <=> g \in ToSet(s)
        BY ToSetFacts DEF Lists, Contains
    <2> DEFINE r == RemoveFirst(s, f)
    <2>2. r \in Seq(Frame) /\ IsInjective(r) /\ ToSet(r) = ToSet(s) \ {f}
        BY <1>2, <2>1, RemoveFirstFacts
    <2> HIDE DEF r
    <2>3. \A g : Contains(r, g) <=> g \in ToSet(r)
        BY <2>2, ToSetFacts DEF Contains
    <2>4. Lists(r, F \ {f})
        BY <2>1, <2>2, <2>3 DEF Lists
    <2>5. QED
        BY <2>4 DEF r
<1>3. QED
    BY <1>1, <1>2

-----------------------------------------------------------------------------
(* The inductive invariant *)

HoldersIn(held, f) == {c \in Client : held[c] = f}
Holders(f) == HoldersIn(heldFrame, f)

FreeFrames      == {f \in Frame : pageId[f] = INVALID_PAGE_ID}
EvictableFrames == {f \in Frame : pageId[f] # INVALID_PAGE_ID /\ pinCount[f] = 0}

\* A client has a Page* and a right to write exactly while it holds a pin.
HandlesConsistent ==
    \A c \in Client :
        /\ heldPage[c] = INVALID_PAGE_ID <=> heldFrame[c] = INVALID_FRAME_ID
        /\ wrote[c] => heldPage[c] # INVALID_PAGE_ID

IInv ==
    /\ TypeOK
    /\ Lists(freeList, FreeFrames)
    /\ Lists(lruList, EvictableFrames)
    /\ PageTableConsistent
    /\ PinsMatchHolders
    /\ HandlesConsistent
    /\ CleanMatchesDisk

\* The invariant implies the accounting of frames as the model states it.
LEMMA IInvAccounts == IInv => FrameAccounting
    BY DEF IInv, FrameAccounting, Lists, FreeFrames, EvictableFrames

\* A frame has a pin iff somebody holds it, and only cached pages are held.
LEMMA PinFacts ==
    ASSUME IInv, NEW f \in Frame
    PROVE  /\ IsFiniteSet(Holders(f))
           /\ pinCount[f] = Cardinality(Holders(f))
           /\ pinCount[f] = 0 <=> Holders(f) = {}
           /\ pageId[f] = INVALID_PAGE_ID => Holders(f) = {}
<1>1. IsFiniteSet(Holders(f))
    BY PoolAssumption, FS_Subset DEF Holders, HoldersIn
<1>2. pinCount[f] = Cardinality(Holders(f))
    BY DEF IInv, PinsMatchHolders, Holders, HoldersIn
<1>3. pinCount[f] = 0 <=> Holders(f) = {}
    BY <1>1, <1>2, FS_EmptySet
<1>4. ASSUME NEW c \in Holders(f), pageId[f] = INVALID_PAGE_ID PROVE FALSE
    BY <1>4 DEF Holders, HoldersIn, IInv, HandlesConsistent, PinsMatchHolders, Idle, Frame,
                INVALID_FRAME_ID
<1>5. QED
    BY <1>1, <1>2, <1>3, <1>4

\* What acquire_frame may take: a frame nobody has pinned, off its list.
LEMMA AcquireFacts ==
    ASSUME IInv, SomeFrame
    PROVE  /\ NextFrame \in Frame
           /\ Holders(NextFrame) = {}
           /\ Lists(FreeLeft, FreeFrames \ {NextFrame})
           /\ Lists(LruLeft, EvictableFrames \ {NextFrame})
           /\ freeList # <<>> => NextFrame \in FreeFrames
           /\ freeList = <<>> => NextFrame \in EvictableFrames
<1>1. CASE freeList # <<>>
    <2>1. NextFrame \in FreeFrames /\ Lists(FreeLeft, FreeFrames \ {NextFrame})
        BY <1>1, TailLists DEF IInv, NextFrame, FreeLeft, FreeFrames
    <2>2. EvictableFrames \ {NextFrame} = EvictableFrames
        BY <2>1 DEF EvictableFrames, FreeFrames
    <2>3. QED
        BY <1>1, <2>1, <2>2, PinFacts DEF IInv, LruLeft, FreeFrames
<1>2. CASE freeList = <<>>
    <2>1. NextFrame \in EvictableFrames /\ Lists(LruLeft, EvictableFrames \ {NextFrame})
        BY <1>2, TailLists DEF IInv, NextFrame, LruLeft, EvictableFrames, SomeFrame
    <2>2. FreeFrames \ {NextFrame} = FreeFrames
        BY <2>1 DEF EvictableFrames, FreeFrames
    <2>3. QED
        BY <1>2, <2>1, <2>2, PinFacts DEF IInv, FreeLeft, EvictableFrames
<1>3. QED
    BY <1>1, <1>2

\* What writing pages does to the file.
LEMMA WriteFacts ==
    ASSUME IInv, NEW written \in SUBSET DirtyPages, NEW torn \in SUBSET DirtyPages,
           WritePages(written, torn)
    PROVE  /\ disk' \in [PageId -> Bytes]
           /\ fileSize' \in 0..(MaxPage + 1)
           /\ fileSize <= fileSize'
           /\ \A p \in written : disk'[p] = data[pageTable[p]] /\ Readable(p, fileSize')
           /\ \A p \in PageId \ (written \cup torn) : disk'[p] = disk[p]
<1>1. written \subseteq PageId /\ torn \subseteq PageId
    BY DEF DirtyPages
<1>2. \A p \in written : pageTable[p] \in Frame
    BY DEF DirtyPages, Cached, IInv, TypeOK
<1>3. disk' \in [PageId -> Bytes]
    BY <1>1, <1>2 DEF WritePages, IInv, TypeOK, Bytes
<1>4. fileSize' \in {fileSize} \cup {p + 1 : p \in written} \cup torn
    BY DEF WritePages, GrowFile
<1>5. \A n \in {fileSize} \cup {p + 1 : p \in written} \cup torn : n <= fileSize'
    BY DEF WritePages, GrowFile
<1>6. {p + 1 : p \in written} \cup torn \subseteq 0..(MaxPage + 1)
    <2>1. ASSUME NEW n \in {p + 1 : p \in written} PROVE n \in 0..(MaxPage + 1)
        <3>1. PICK p \in written : n = p + 1
            OBVIOUS
        <3>2. QED
            BY <3>1, <1>1, PoolAssumption DEF PageId
    <2>2. \A p \in PageId : p \in 0..(MaxPage + 1)
        BY PoolAssumption DEF PageId
    <2>3. QED
        BY <2>1, <2>2, <1>1
<1>7. fileSize' \in 0..(MaxPage + 1) /\ fileSize <= fileSize'
    BY <1>4, <1>5, <1>6 DEF IInv, TypeOK
<1>8. ASSUME NEW p \in written PROVE Readable(p, fileSize')
    <2>1. p + 1 <= fileSize'
        BY <1>5
    <2>2. QED
        BY <2>1, <1>1, <1>7, PoolAssumption DEF Readable, PageId
<1>9. QED
    BY <1>1, <1>3, <1>7, <1>8 DEF WritePages

\* Writing a victim back touches no other page.
LEMMA EvictFacts ==
    ASSUME IInv, SomeFrame, EvictVictim(NextFrame)
    PROVE  /\ disk' \in [PageId -> Bytes]
           /\ fileSize' \in 0..(MaxPage + 1)
           /\ fileSize <= fileSize'
           /\ unsynced' \subseteq PageId
           /\ \A p \in PageId : p # pageId[NextFrame] => disk'[p] = disk[p]
<1>1. CASE NeedsWriteBack(NextFrame)
    <2>1. NextFrame \in EvictableFrames /\ dirty[NextFrame]
        BY <1>1, AcquireFacts DEF NeedsWriteBack
    <2>2. pageId[NextFrame] \in PageId /\ pageTable[pageId[NextFrame]] = NextFrame
        BY <2>1 DEF EvictableFrames, IInv, TypeOK, PageTableConsistent
    <2>3. pageId[NextFrame] \in DirtyPages
        BY <2>1, <2>2 DEF DirtyPages, Cached, EvictableFrames, Frame, INVALID_FRAME_ID
    <2>4. WritePages({pageId[NextFrame]}, {}) /\ unsynced' = unsynced \cup {pageId[NextFrame]}
        BY <1>1 DEF EvictVictim, WriteUnsynced
    <2>5. {pageId[NextFrame]} \in SUBSET DirtyPages /\ {} \in SUBSET DirtyPages
        BY <2>3
    <2>6. /\ disk' \in [PageId -> Bytes]
          /\ fileSize' \in 0..(MaxPage + 1)
          /\ fileSize <= fileSize'
          /\ \A p \in PageId \ ({pageId[NextFrame]} \cup {}) : disk'[p] = disk[p]
        BY <2>4, <2>5, WriteFacts
    <2>7. unsynced' \subseteq PageId
        BY <2>2, <2>4 DEF IInv, TypeOK
    <2>8. QED
        BY <2>6, <2>7
<1>2. CASE ~NeedsWriteBack(NextFrame)
    <2>1. UNCHANGED <<disk, fileSize, unsynced>>
        BY <1>2 DEF EvictVictim, diskVars
    <2>2. fileSize <= fileSize'
        BY <2>1, PoolAssumption DEF IInv, TypeOK
    <2>3. QED
        BY <2>1, <2>2 DEF IInv, TypeOK
<1>3. QED
    BY <1>1, <1>2

-----------------------------------------------------------------------------
(* Pins *)

\* A client that takes a pin adds one to its frame and none to the others.
LEMMA TakePin ==
    ASSUME NEW held, NEW c \in Client, NEW f \in Frame,
           held \in [Client -> Frame \cup {INVALID_FRAME_ID}],
           held[c] = INVALID_FRAME_ID
    PROVE  \A g \in Frame :
             Cardinality(HoldersIn([held EXCEPT ![c] = f], g)) =
                IF g = f THEN Cardinality(HoldersIn(held, f)) + 1
                ELSE Cardinality(HoldersIn(held, g))
<1>1. c \notin HoldersIn(held, f)
    BY DEF HoldersIn, Frame, INVALID_FRAME_ID
<1>2. HoldersIn([held EXCEPT ![c] = f], f) = HoldersIn(held, f) \cup {c}
    BY DEF HoldersIn
<1>3. IsFiniteSet(HoldersIn(held, f))
    BY PoolAssumption, FS_Subset DEF HoldersIn
<1>4. \A g \in Frame : g # f => HoldersIn([held EXCEPT ![c] = f], g) = HoldersIn(held, g)
    BY DEF HoldersIn, Frame, INVALID_FRAME_ID
<1>5. Cardinality(HoldersIn([held EXCEPT ![c] = f], f)) =
        Cardinality(HoldersIn(held, f)) + 1
    BY <1>1, <1>2, <1>3, FS_AddElement
<1>6. QED
    BY <1>4, <1>5

\* A client that gives up its pin takes one from its frame only.
LEMMA DropPin ==
    ASSUME NEW held, NEW c \in Client, NEW f \in Frame,
           held \in [Client -> Frame \cup {INVALID_FRAME_ID}], held[c] = f
    PROVE  \A g \in Frame :
             Cardinality(HoldersIn([held EXCEPT ![c] = INVALID_FRAME_ID], g)) =
                IF g = f THEN Cardinality(HoldersIn(held, f)) - 1
                ELSE Cardinality(HoldersIn(held, g))
<1>1. c \in HoldersIn(held, f)
    BY DEF HoldersIn
<1>2. HoldersIn([held EXCEPT ![c] = INVALID_FRAME_ID], f) = HoldersIn(held, f) \ {c}
    BY DEF HoldersIn, Frame, INVALID_FRAME_ID
<1>3. IsFiniteSet(HoldersIn(held, f))
    BY PoolAssumption, FS_Subset DEF HoldersIn
<1>4. \A g \in Frame : g # f =>
        HoldersIn([held EXCEPT ![c] = INVALID_FRAME_ID], g) = HoldersIn(held, g)
    BY DEF HoldersIn, Frame, INVALID_FRAME_ID
<1>5. Cardinality(HoldersIn([held EXCEPT ![c] = INVALID_FRAME_ID], f)) =
        Cardinality(HoldersIn(held, f)) - 1
    BY <1>1, <1>2, <1>3, FS_RemoveElement
<1>6. QED
    BY <1>4, <1>5

\* The part of the invariant about pins, from the counts.
LEMMA PinsFromCounts ==
    ASSUME TypeOK',
           HandlesConsistent',
           \A c \in Client : heldPage'[c] # INVALID_PAGE_ID
                => heldFrame'[c] \in Frame /\ pageId'[heldFrame'[c]] = heldPage'[c],
           \A g \in Frame : pinCount'[g] = Cardinality(HoldersIn(heldFrame', g))
    PROVE  PinsMatchHolders'
BY DEF PinsMatchHolders, HoldersIn, Idle

\* A second pin on a cached page.
LEMMA PinCachedStep ==
    ASSUME IInv, NEW c \in Client, NEW p \in PageId, PinCached(c, p)
    PROVE  IInv'
<1> DEFINE f == pageTable[p]
<1>1. f \in Frame /\ pageId[f] = p /\ heldFrame[c] = INVALID_FRAME_ID
    BY DEF PinCached, Cached, Idle, IInv, TypeOK, PageTableConsistent, HandlesConsistent
<1>2. /\ pinCount' = [pinCount EXCEPT ![f] = @ + 1]
      /\ lruList' = RemoveFirst(lruList, f)
      /\ heldPage' = [heldPage EXCEPT ![c] = p]
      /\ heldFrame' = [heldFrame EXCEPT ![c] = f]
      /\ UNCHANGED <<wrote, pageId, dirty, data, pageTable, freeList, disk,
                     fileSize, unsynced>>
    BY DEF PinCached, Handle, MarkNotEvictable, diskVars
<1>3. p # INVALID_PAGE_ID
    BY DEF PageId, INVALID_PAGE_ID
<1> HIDE DEF f
<1>4. Lists(lruList', EvictableFrames \ {f})
    BY <1>1, <1>2, RemoveFirstLists DEF IInv, EvictableFrames
<1>5. EvictableFrames' = EvictableFrames \ {f}
    BY <1>1, <1>2 DEF EvictableFrames, IInv, TypeOK
<1>6. TypeOK'
    BY <1>1, <1>2, <1>4 DEF IInv, TypeOK, Lists
<1>7. HandlesConsistent'
    BY <1>1, <1>2, <1>3 DEF IInv, HandlesConsistent, TypeOK, Frame, INVALID_FRAME_ID
<1>8. \A g \in Frame : pinCount'[g] = Cardinality(HoldersIn(heldFrame', g))
    <2>1. \A g \in Frame : pinCount[g] = Cardinality(HoldersIn(heldFrame, g))
        BY DEF IInv, PinsMatchHolders, HoldersIn
    <2>2. heldFrame \in [Client -> Frame \cup {INVALID_FRAME_ID}]
        BY DEF IInv, TypeOK
    <2>3. \A g \in Frame : Cardinality(HoldersIn(heldFrame', g)) =
                IF g = f THEN Cardinality(HoldersIn(heldFrame, f)) + 1
                ELSE Cardinality(HoldersIn(heldFrame, g))
        BY <1>1, <1>2, <2>2, TakePin
    <2>4. \A g \in Frame : pinCount'[g] = IF g = f THEN pinCount[f] + 1 ELSE pinCount[g]
        BY <1>1, <1>2 DEF IInv, TypeOK
    <2>5. QED
        BY <1>1, <2>1, <2>3, <2>4
<1>9. \A d \in Client : heldPage'[d] # INVALID_PAGE_ID
        => heldFrame'[d] \in Frame /\ pageId'[heldFrame'[d]] = heldPage'[d]
    BY <1>1, <1>2 DEF IInv, TypeOK, PinsMatchHolders, Idle
<1>10. PinsMatchHolders'
    BY <1>6, <1>7, <1>8, <1>9, PinsFromCounts
<1>11. \A q \in PageId : BeingWritten(q)' = BeingWritten(q)
    <2>1. ~wrote[c]
        BY DEF PinCached, Idle, IInv, HandlesConsistent
    <2>2. QED
        BY <2>1, <1>2 DEF BeingWritten, IInv, TypeOK
<1>12. CleanMatchesDisk'
    BY <1>2, <1>11 DEF CleanMatchesDisk, Readable, IInv, TypeOK
<1>13. QED
    BY <1>2, <1>4, <1>5, <1>6, <1>7, <1>10, <1>12
       DEF IInv, FreeFrames, PageTableConsistent

\* The counts after a client has taken a pin, whatever was there before.
LEMMA CountsAfterTake ==
    ASSUME IInv, NEW c \in Client, Idle(c), NEW f \in Frame,
           heldFrame' = [heldFrame EXCEPT ![c] = f],
           pinCount' \in [Frame -> Nat],
           pinCount'[f] = Cardinality(Holders(f)) + 1,
           \A g \in Frame : g # f => pinCount'[g] = pinCount[g]
    PROVE  \A g \in Frame : pinCount'[g] = Cardinality(HoldersIn(heldFrame', g))
<1>1. \A g \in Frame : pinCount[g] = Cardinality(HoldersIn(heldFrame, g))
    BY DEF IInv, PinsMatchHolders, HoldersIn
<1>2. heldFrame \in [Client -> Frame \cup {INVALID_FRAME_ID}]
    BY DEF IInv, TypeOK
<1>3. heldFrame[c] = INVALID_FRAME_ID
    BY DEF Idle, IInv, HandlesConsistent
<1>4. \A g \in Frame : Cardinality(HoldersIn(heldFrame', g)) =
            IF g = f THEN Cardinality(HoldersIn(heldFrame, f)) + 1
            ELSE Cardinality(HoldersIn(heldFrame, g))
    BY <1>2, <1>3, TakePin
<1>5. QED
    BY <1>1, <1>4 DEF Holders

\* A page moves into a frame that acquire_frame has taken: dirty, or with the
\* bytes the file has for it.
LEMMA InstallStep ==
    ASSUME IInv, SomeFrame, NEW c \in Client, Idle(c), NEW p \in PageId, ~Cached(p),
           EvictVictim(NextFrame), NEW isDirty \in BOOLEAN, NEW bytes,
           Install(c, p, NextFrame, bytes, isDirty), bytes \in Bytes,
           ~isDirty => bytes = disk'[p] /\ Readable(p, fileSize')
    PROVE  IInv'
<1> DEFINE f == NextFrame
<1>1. /\ f \in Frame
      /\ Holders(f) = {}
      /\ Lists(FreeLeft, FreeFrames \ {f})
      /\ Lists(LruLeft, EvictableFrames \ {f})
    BY AcquireFacts
<1>2. /\ disk' \in [PageId -> Bytes]
      /\ fileSize' \in 0..(MaxPage + 1)
      /\ fileSize <= fileSize'
      /\ unsynced' \subseteq PageId
      /\ \A q \in PageId : q # pageId[f] => disk'[q] = disk[q]
    BY EvictFacts
<1> HIDE DEF f
<1>3. /\ pageId' = [pageId EXCEPT ![f] = p]
      /\ pinCount' = [pinCount EXCEPT ![f] = 1]
      /\ dirty' = [dirty EXCEPT ![f] = isDirty]
      /\ data' = [data EXCEPT ![f] = bytes]
      /\ pageTable' = [Unmapped(f) EXCEPT ![p] = f]
      /\ freeList' = FreeLeft
      /\ lruList' = LruLeft
      /\ heldPage' = [heldPage EXCEPT ![c] = p]
      /\ heldFrame' = [heldFrame EXCEPT ![c] = f]
      /\ wrote' = wrote
    BY DEF Install, Handle, f
<1>4. p # INVALID_PAGE_ID /\ f # INVALID_FRAME_ID /\ heldPage[c] = INVALID_PAGE_ID
    BY <1>1 DEF PageId, INVALID_PAGE_ID, Frame, INVALID_FRAME_ID, Idle
<1>5. pageTable' = [q \in PageId |-> IF q = p THEN f
                                     ELSE IF pageTable[q] = f THEN INVALID_FRAME_ID
                                     ELSE pageTable[q]]
    BY <1>3 DEF Unmapped
<1>6. TypeOK'
    BY <1>1, <1>2, <1>3, <1>5 DEF IInv, TypeOK, Lists
<1>7. FreeFrames' = FreeFrames \ {f}
    BY <1>1, <1>3, <1>4 DEF FreeFrames, IInv, TypeOK
<1>8. EvictableFrames' = EvictableFrames \ {f}
    BY <1>1, <1>3, <1>4 DEF EvictableFrames, IInv, TypeOK
<1>9. \A g \in Frame : pageId[g] # p
    BY <1>4 DEF Cached, IInv, PageTableConsistent, Frame, INVALID_FRAME_ID
<1>10. PageTableConsistent'
    <2>1. ASSUME NEW q \in PageId, NEW g \in Frame
          PROVE  pageTable'[q] = g <=> pageId'[g] = q
        <3>1. pageTable[q] = g <=> pageId[g] = q
            BY DEF IInv, PageTableConsistent
        <3>2. g # INVALID_FRAME_ID
            BY DEF Frame, INVALID_FRAME_ID
        <3>3. pageId'[g] = IF g = f THEN p ELSE pageId[g]
            BY <1>1, <1>3 DEF IInv, TypeOK
        <3>4. QED
            BY <3>1, <3>2, <3>3, <1>5, <1>9
    <2>2. QED
        BY <2>1 DEF PageTableConsistent
<1>11. HandlesConsistent'
    BY <1>1, <1>3, <1>4 DEF IInv, HandlesConsistent, TypeOK
<1>12. \A g \in Frame : pinCount'[g] = Cardinality(HoldersIn(heldFrame', g))
    <2>1. pinCount'[f] = Cardinality(Holders(f)) + 1
        BY <1>1, <1>3, FS_EmptySet DEF IInv, TypeOK
    <2>2. \A g \in Frame : g # f => pinCount'[g] = pinCount[g]
        BY <1>3 DEF IInv, TypeOK
    <2>3. pinCount' \in [Frame -> Nat]
        BY <1>6 DEF TypeOK
    <2>4. QED
        BY <1>1, <1>3, <2>1, <2>2, <2>3, CountsAfterTake
<1>13. \A d \in Client : heldPage'[d] # INVALID_PAGE_ID
        => heldFrame'[d] \in Frame /\ pageId'[heldFrame'[d]] = heldPage'[d]
    <2>1. \A d \in Client : d # c => heldFrame[d] # f
        BY <1>1 DEF Holders, HoldersIn
    <2>2. QED
        BY <1>1, <1>3, <2>1 DEF IInv, TypeOK, PinsMatchHolders, Idle
<1>14. PinsMatchHolders'
    BY <1>6, <1>11, <1>12, <1>13, PinsFromCounts
<1>15. CleanMatchesDisk'
    <2> SUFFICES ASSUME NEW g \in Frame, pageId'[g] # INVALID_PAGE_ID, ~dirty'[g],
                        ~BeingWritten(pageId[g])'
                 PROVE  data'[g] = disk'[pageId'[g]] /\ Readable(pageId'[g], fileSize')
        BY DEF CleanMatchesDisk
    <2>1. CASE g = f
        BY <2>1, <1>1, <1>3 DEF IInv, TypeOK
    <2>2. CASE g # f
        <3>1. pageId'[g] = pageId[g] /\ data'[g] = data[g] /\ dirty'[g] = dirty[g]
            BY <2>2, <1>3 DEF IInv, TypeOK
        <3>2. pageId[g] \in PageId /\ pageId[g] # pageId[f]
            BY <3>1, <2>2, <1>1 DEF IInv, TypeOK, PageTableConsistent
        <3>3. ~BeingWritten(pageId[g])
            BY <1>3, <1>4, <1>9, <3>1 DEF BeingWritten, IInv, TypeOK
        <3>4. data[g] = disk[pageId[g]] /\ Readable(pageId[g], fileSize)
            BY <3>1, <3>3 DEF IInv, CleanMatchesDisk
        <3>5. Readable(pageId[g], fileSize')
            BY <1>2, <3>2, <3>4, PoolAssumption DEF Readable, PageId, IInv, TypeOK
        <3>6. QED
            BY <1>2, <3>1, <3>2, <3>4, <3>5
    <2>3. QED
        BY <2>1, <2>2
<1>16. QED
    BY <1>1, <1>3, <1>6, <1>7, <1>8, <1>10, <1>11, <1>14, <1>15 DEF IInv

\* fetch_page on a miss.
LEMMA FetchMissStep ==
    ASSUME IInv, NEW c \in Client, NEW p \in PageId, FetchMiss(c, p)
    PROVE  IInv'
<1>1. /\ Idle(c) /\ ~Cached(p) /\ SomeFrame
      /\ EvictVictim(NextFrame)
      /\ Readable(p, fileSize')
      /\ Install(c, p, NextFrame, disk'[p], FALSE)
    BY DEF FetchMiss
<1>2. disk'[p] \in Bytes
    BY <1>1, EvictFacts
<1>3. QED
    BY <1>1, <1>2, InstallStep

\* new_page, and new_or_fetch_page on a miss.
LEMMA NewPageStep ==
    ASSUME IInv, NEW c \in Client, NEW p \in PageId, NewPage(c, p)
    PROVE  IInv'
<1>1. /\ Idle(c) /\ ~Cached(p) /\ SomeFrame
      /\ EvictVictim(NextFrame)
      /\ Install(c, p, NextFrame, Zero, TRUE)
    BY DEF NewPage
<1>2. Zero \in Bytes
    BY DEF Bytes
<1>3. QED
    BY <1>1, <1>2, InstallStep

\* A frame that nobody holds is emptied and put on the free list: what
\* delete_page and a failed read share.
LEMMA FreeFrameStep ==
    ASSUME IInv, NEW f \in Frame, Holders(f) = {}, ResetFrame(f),
           pageTable' = Unmapped(f),
           Lists(freeList', FreeFrames \cup {f}),
           Lists(lruList', EvictableFrames \ {f}),
           UNCHANGED clientVars,
           disk' \in [PageId -> Bytes], fileSize' \in 0..(MaxPage + 1),
           fileSize <= fileSize', unsynced' \subseteq PageId,
           \A q \in PageId : q # pageId[f] => disk'[q] = disk[q]
    PROVE  IInv'
<1>1. /\ pageId' = [pageId EXCEPT ![f] = INVALID_PAGE_ID]
      /\ pinCount' = [pinCount EXCEPT ![f] = 0]
      /\ dirty' = [dirty EXCEPT ![f] = FALSE]
      /\ data' = [data EXCEPT ![f] = Zero]
      /\ heldPage' = heldPage /\ heldFrame' = heldFrame /\ wrote' = wrote
    BY DEF ResetFrame, clientVars
<1>2. f # INVALID_FRAME_ID
    BY DEF Frame, INVALID_FRAME_ID
<1>3. TypeOK'
    BY <1>1 DEF IInv, TypeOK, Lists, Unmapped, Bytes
<1>4. FreeFrames' = FreeFrames \cup {f}
    BY <1>1 DEF FreeFrames, IInv, TypeOK
<1>5. EvictableFrames' = EvictableFrames \ {f}
    BY <1>1 DEF EvictableFrames, IInv, TypeOK
<1>6. PageTableConsistent'
    <2>1. ASSUME NEW q \in PageId, NEW g \in Frame
          PROVE  pageTable'[q] = g <=> pageId'[g] = q
        <3>1. pageTable[q] = g <=> pageId[g] = q
            BY DEF IInv, PageTableConsistent
        <3>2. g # INVALID_FRAME_ID /\ q # INVALID_PAGE_ID
            BY DEF Frame, INVALID_FRAME_ID, PageId, INVALID_PAGE_ID
        <3>3. pageId'[g] = IF g = f THEN INVALID_PAGE_ID ELSE pageId[g]
            BY <1>1 DEF IInv, TypeOK
        <3>4. QED
            BY <3>1, <3>2, <3>3 DEF Unmapped
    <2>2. QED
        BY <2>1 DEF PageTableConsistent
<1>7. HandlesConsistent'
    BY <1>1 DEF IInv, HandlesConsistent
<1>8. \A g \in Frame : pinCount'[g] = Cardinality(HoldersIn(heldFrame', g))
    BY <1>1, FS_EmptySet DEF IInv, TypeOK, PinsMatchHolders, Holders, HoldersIn
<1>9. \A d \in Client : heldPage'[d] # INVALID_PAGE_ID
        => heldFrame'[d] \in Frame /\ pageId'[heldFrame'[d]] = heldPage'[d]
    <2>1. \A d \in Client : heldFrame[d] # f
        BY DEF Holders, HoldersIn
    <2>2. QED
        BY <1>1, <2>1 DEF IInv, TypeOK, PinsMatchHolders, Idle
<1>10. PinsMatchHolders'
    BY <1>3, <1>7, <1>8, <1>9, PinsFromCounts
<1>11. CleanMatchesDisk'
    <2> SUFFICES ASSUME NEW g \in Frame, pageId'[g] # INVALID_PAGE_ID, ~dirty'[g],
                        ~BeingWritten(pageId[g])'
                 PROVE  data'[g] = disk'[pageId'[g]] /\ Readable(pageId'[g], fileSize')
        BY DEF CleanMatchesDisk
    <2>1. g # f
        BY <1>1 DEF IInv, TypeOK
    <2>2. pageId'[g] = pageId[g] /\ data'[g] = data[g] /\ dirty'[g] = dirty[g]
        BY <2>1, <1>1 DEF IInv, TypeOK
    <2>3. pageId[g] \in PageId /\ pageId[g] # pageId[f]
        BY <2>1, <2>2 DEF IInv, TypeOK, PageTableConsistent
    <2>4. ~BeingWritten(pageId[g])
        BY <1>1, <2>2 DEF BeingWritten
    <2>5. data[g] = disk[pageId[g]] /\ Readable(pageId[g], fileSize)
        BY <2>2, <2>4 DEF IInv, CleanMatchesDisk
    <2>6. Readable(pageId[g], fileSize')
        BY <2>3, <2>5, PoolAssumption DEF Readable, PageId, IInv, TypeOK
    <2>7. QED
        BY <2>2, <2>3, <2>5, <2>6
<1>12. QED
    BY <1>3, <1>4, <1>5, <1>6, <1>7, <1>10, <1>11 DEF IInv

\* fetch_page when the read fails.
LEMMA ReadFailsStep ==
    ASSUME IInv, NEW p \in PageId, ReadFails(p)
    PROVE  IInv'
<1>1. /\ SomeFrame
      /\ EvictVictim(NextFrame)
      /\ ResetFrame(NextFrame)
      /\ pageTable' = Unmapped(NextFrame)
      /\ freeList' = Append(FreeLeft, NextFrame)
      /\ lruList' = LruLeft
      /\ UNCHANGED clientVars
    BY DEF ReadFails
<1>2. /\ NextFrame \in Frame
      /\ Holders(NextFrame) = {}
      /\ Lists(FreeLeft, FreeFrames \ {NextFrame})
      /\ Lists(LruLeft, EvictableFrames \ {NextFrame})
    BY <1>1, AcquireFacts
<1>3. Lists(Append(FreeLeft, NextFrame), (FreeFrames \ {NextFrame}) \cup {NextFrame})
    BY <1>2, AppendLists DEF FreeFrames
<1>4. (FreeFrames \ {NextFrame}) \cup {NextFrame} = FreeFrames \cup {NextFrame}
    OBVIOUS
<1>5. /\ disk' \in [PageId -> Bytes]
      /\ fileSize' \in 0..(MaxPage + 1)
      /\ fileSize <= fileSize'
      /\ unsynced' \subseteq PageId
      /\ \A q \in PageId : q # pageId[NextFrame] => disk'[q] = disk[q]
    BY <1>1, EvictFacts
<1>6. QED
    BY <1>1, <1>2, <1>3, <1>4, <1>5, FreeFrameStep

\* delete_page on a cached page that nobody has pinned.
LEMMA DeletePageStep ==
    ASSUME IInv, NEW p \in PageId, DeletePage(p)
    PROVE  IInv'
<1> DEFINE f == pageTable[p]
<1>1. f \in Frame /\ pageId[f] = p /\ p # INVALID_PAGE_ID /\ f # INVALID_FRAME_ID
    <2>1. f \in Frame /\ f # INVALID_FRAME_ID
        BY DEF DeletePage, Cached, IInv, TypeOK
    <2>2. QED
        BY <2>1 DEF IInv, PageTableConsistent, PageId, INVALID_PAGE_ID
<1>2. /\ pinCount[f] <= 0
      /\ ResetFrame(f)
      /\ lruList' = RemoveFirst(lruList, f)
      /\ freeList' = Append(freeList, f)
      /\ pageTable' = [pageTable EXCEPT ![p] = INVALID_FRAME_ID]
      /\ UNCHANGED clientVars
      /\ UNCHANGED <<disk, fileSize, unsynced>>
    BY DEF DeletePage, MarkNotEvictable, diskVars
<1> HIDE DEF f
<1>3. Holders(f) = {}
    BY <1>1, <1>2, PinFacts DEF IInv, TypeOK
<1>4. pageTable' = Unmapped(f)
    <2>1. \A q \in PageId : pageTable[q] = f <=> q = p
        BY <1>1 DEF IInv, PageTableConsistent
    <2>2. pageTable \in [PageId -> Frame \cup {INVALID_FRAME_ID}]
        BY DEF IInv, TypeOK
    <2>3. QED
        BY <1>2, <2>1, <2>2 DEF Unmapped
<1>5. Lists(lruList', EvictableFrames \ {f})
    BY <1>1, <1>2, RemoveFirstLists DEF IInv, EvictableFrames
<1>6. Lists(freeList', FreeFrames \cup {f})
    BY <1>1, <1>2, AppendLists DEF IInv, FreeFrames
<1>7. fileSize <= fileSize'
    BY <1>2, PoolAssumption DEF IInv, TypeOK
<1>8. QED
    BY <1>1, <1>2, <1>3, <1>4, <1>5, <1>6, <1>7, FreeFrameStep DEF IInv, TypeOK

\* Pages are written to the file and marked clean, or are torn and stay dirty:
\* what a flush, a checkpoint and a failed eviction share.
LEMMA WriteStep ==
    ASSUME IInv, NEW written \in SUBSET DirtyPages,
           NEW torn \in SUBSET (DirtyPages \ written),
           WritePages(written, torn), CleanAfter(written),
           unsynced' \subseteq PageId, Lists(lruList', EvictableFrames),
           UNCHANGED <<pageId, pinCount, data, pageTable, freeList, clientVars>>
    PROVE  IInv'
<1>1. /\ disk' \in [PageId -> Bytes]
      /\ fileSize' \in 0..(MaxPage + 1)
      /\ fileSize <= fileSize'
      /\ \A p \in written : disk'[p] = data[pageTable[p]] /\ Readable(p, fileSize')
      /\ \A p \in PageId \ (written \cup torn) : disk'[p] = disk[p]
    <2>1. torn \in SUBSET DirtyPages
        OBVIOUS
    <2>2. QED
        BY <2>1, WriteFacts
<1>2. /\ pageId' = pageId /\ pinCount' = pinCount /\ data' = data
      /\ pageTable' = pageTable /\ freeList' = freeList
      /\ heldPage' = heldPage /\ heldFrame' = heldFrame /\ wrote' = wrote
    BY DEF clientVars
<1>3. dirty' = [f \in Frame |-> dirty[f] /\ pageId[f] \notin written]
    BY DEF CleanAfter
<1>4. TypeOK'
    BY <1>1, <1>2, <1>3 DEF IInv, TypeOK, Lists
<1>5. FreeFrames' = FreeFrames /\ EvictableFrames' = EvictableFrames
    BY <1>2 DEF FreeFrames, EvictableFrames
<1>6. PageTableConsistent' /\ PinsMatchHolders' /\ HandlesConsistent'
    BY <1>2 DEF IInv, PageTableConsistent, PinsMatchHolders, HandlesConsistent, Idle
<1>7. CleanMatchesDisk'
    <2> SUFFICES ASSUME NEW f \in Frame, pageId[f] # INVALID_PAGE_ID, ~dirty'[f],
                        ~BeingWritten(pageId[f])
                 PROVE  data[f] = disk'[pageId[f]] /\ Readable(pageId[f], fileSize')
        BY <1>2 DEF CleanMatchesDisk, BeingWritten
    <2>1. pageId[f] \in PageId /\ pageTable[pageId[f]] = f
        BY DEF IInv, TypeOK, PageTableConsistent
    <2>2. CASE pageId[f] \in written
        BY <1>1, <2>1, <2>2
    <2>3. CASE pageId[f] \notin written
        <3>1. ~dirty[f]
            BY <1>3, <2>3
        <3>2. pageId[f] \notin torn
            BY <2>1, <3>1 DEF DirtyPages
        <3>3. data[f] = disk[pageId[f]] /\ Readable(pageId[f], fileSize)
            BY <3>1 DEF IInv, CleanMatchesDisk
        <3>4. Readable(pageId[f], fileSize')
            BY <1>1, <2>1, <3>3, PoolAssumption DEF Readable, PageId, IInv, TypeOK
        <3>5. QED
            BY <1>1, <2>1, <2>3, <3>2, <3>3, <3>4
    <2>4. QED
        BY <2>2, <2>3
<1>8. QED
    BY <1>2, <1>4, <1>5, <1>6, <1>7 DEF IInv

\* acquire_frame fails to write its victim back.
LEMMA EvictionFailsStep ==
    ASSUME IInv, NEW p \in PageId, EvictionFails(p)
    PROVE  IInv'
<1> DEFINE f == NextFrame
<1>1. SomeFrame /\ freeList = <<>> /\ dirty[f]
    BY DEF EvictionFails, NeedsWriteBack
<1>2. f \in EvictableFrames /\ Lists(LruLeft, EvictableFrames \ {f})
    BY <1>1, AcquireFacts
<1> HIDE DEF f
<1>3. pageId[f] \in DirtyPages
    BY <1>1, <1>2 DEF EvictableFrames, IInv, TypeOK, PageTableConsistent, DirtyPages,
                      Cached, Frame, INVALID_FRAME_ID
<1>4. PICK torn \in SUBSET {pageId[f]} : WriteUnsynced({}, torn)
    BY DEF EvictionFails, f
<1>5. WritePages({}, torn) /\ unsynced' = unsynced \cup {} \cup torn
    BY <1>4 DEF WriteUnsynced
<1>6. unsynced' \subseteq PageId
    BY <1>3, <1>5 DEF IInv, TypeOK, DirtyPages
<1>7. lruList' = Append(LruLeft, f)
    BY <1>2 DEF EvictionFails, MarkEvictable, f, Lists, EvictableFrames
<1>8. Lists(lruList', EvictableFrames)
    <2>1. Lists(Append(LruLeft, f), (EvictableFrames \ {f}) \cup {f})
        BY <1>2, AppendLists DEF EvictableFrames
    <2>2. (EvictableFrames \ {f}) \cup {f} = EvictableFrames
        BY <1>2
    <2>3. QED
        BY <1>7, <2>1, <2>2
<1>9. UNCHANGED <<pageId, pinCount, data, pageTable, freeList, clientVars>>
    BY DEF EvictionFails, frameVars
<1>10. CleanAfter({})
    BY DEF EvictionFails, frameVars, CleanAfter, IInv, TypeOK
<1>11. {} \in SUBSET DirtyPages /\ torn \in SUBSET (DirtyPages \ {})
    BY <1>3
<1>12. QED
    BY <1>5, <1>6, <1>8, <1>9, <1>10, <1>11, WriteStep

\* flush_page and force_flush.
LEMMA FlushStep ==
    ASSUME IInv, NEW pages \in SUBSET DirtyPages, Flush(pages)
    PROVE  IInv'
<1>1. PICK written \in SUBSET pages : \E t \in SUBSET (pages \ written) :
         WriteUnsynced(written, t) /\ CleanAfter(written)
    BY DEF Flush
<1>2. PICK torn \in SUBSET (pages \ written) :
         WriteUnsynced(written, torn) /\ CleanAfter(written)
    BY <1>1
<1>3. WritePages(written, torn) /\ unsynced' = unsynced \cup written \cup torn
    BY <1>2 DEF WriteUnsynced
<1>4. unsynced' \subseteq PageId
    BY <1>3 DEF IInv, TypeOK, DirtyPages
<1>5. UNCHANGED <<pageId, pinCount, data, pageTable, freeList, clientVars>>
    BY DEF Flush
<1>6. Lists(lruList', EvictableFrames)
    BY DEF Flush, IInv
<1>7. written \in SUBSET DirtyPages /\ torn \in SUBSET (DirtyPages \ written)
    OBVIOUS
<1>8. QED
    BY <1>2, <1>3, <1>4, <1>5, <1>6, <1>7, WriteStep

\* checkpoint: the same, then fsync.
LEMMA CheckpointStep ==
    ASSUME IInv, NEW written, NEW torn, NEW synced \in BOOLEAN,
           Checkpoint(written, torn, synced)
    PROVE  IInv'
<1>1. /\ written \subseteq DirtyPages
      /\ torn \subseteq DirtyPages \ written
      /\ WritePages(written, torn)
      /\ unsynced' = IF synced THEN {} ELSE unsynced \cup written \cup torn
    BY DEF Checkpoint, FlushAndSync
<1>2. unsynced' \subseteq PageId
    BY <1>1 DEF IInv, TypeOK, DirtyPages
<1>3. UNCHANGED <<pageId, pinCount, data, pageTable, freeList, clientVars>>
    BY DEF Checkpoint
<1>4. Lists(lruList', EvictableFrames) /\ CleanAfter(written)
    BY DEF Checkpoint, IInv
<1>5. QED
    BY <1>1, <1>2, <1>3, <1>4, WriteStep

\* A caller changes the bytes of the page it has pinned.
LEMMA WriteBytesStep ==
    ASSUME IInv, NEW c \in Client, NEW v \in Content, WriteBytes(c, v)
    PROVE  IInv'
<1> DEFINE f == heldFrame[c]
<1>1. /\ heldPage[c] \in PageId /\ heldPage[c] # INVALID_PAGE_ID
      /\ f \in Frame /\ pageId[f] = heldPage[c]
    BY DEF WriteBytes, Idle, IInv, TypeOK, PinsMatchHolders
<1>2. /\ data' = [data EXCEPT ![f] = v]
      /\ wrote' = [wrote EXCEPT ![c] = TRUE]
      /\ UNCHANGED <<pageId, pinCount, dirty, pageTable, freeList, lruList, disk,
                     fileSize, unsynced, heldPage, heldFrame>>
    BY DEF WriteBytes, diskVars
<1> HIDE DEF f
<1>3. TypeOK'
    BY <1>1, <1>2 DEF IInv, TypeOK, Bytes
<1>4. FreeFrames' = FreeFrames /\ EvictableFrames' = EvictableFrames
    BY <1>2 DEF FreeFrames, EvictableFrames
<1>5. PageTableConsistent' /\ PinsMatchHolders'
    BY <1>2 DEF IInv, PageTableConsistent, PinsMatchHolders, Idle
<1>6. HandlesConsistent'
    BY <1>1, <1>2 DEF IInv, TypeOK, HandlesConsistent
<1>7. CleanMatchesDisk'
    <2> SUFFICES ASSUME NEW g \in Frame, pageId[g] # INVALID_PAGE_ID, ~dirty[g],
                        ~BeingWritten(pageId[g])'
                 PROVE  data'[g] = disk[pageId[g]] /\ Readable(pageId[g], fileSize)
        BY <1>2 DEF CleanMatchesDisk
    <2>1. BeingWritten(heldPage[c])'
        BY <1>2 DEF BeingWritten, IInv, TypeOK
    <2>2. g # f
        BY <1>1, <1>2, <2>1 DEF BeingWritten
    <2>3. ~BeingWritten(pageId[g])
        BY <1>2 DEF BeingWritten, IInv, TypeOK
    <2>4. QED
        BY <1>2, <2>2, <2>3 DEF IInv, CleanMatchesDisk, TypeOK
<1>8. QED
    BY <1>2, <1>3, <1>4, <1>5, <1>6, <1>7 DEF IInv

\* unpin_page: the frame found under the caller's page id is the caller's own,
\* so no other caller loses its pin.
LEMMA UnpinPageStep ==
    ASSUME IInv, NEW c \in Client, NEW isDirty \in BOOLEAN, UnpinPage(c, isDirty)
    PROVE  IInv'
<1> DEFINE f == pageTable[heldPage[c]]
<1>1. /\ heldPage[c] \in PageId /\ heldPage[c] # INVALID_PAGE_ID
      /\ f \in Frame /\ f # INVALID_FRAME_ID
      /\ f = heldFrame[c] /\ pageId[f] = heldPage[c]
    <2>1. /\ heldPage[c] \in PageId /\ heldPage[c] # INVALID_PAGE_ID
          /\ heldFrame[c] \in Frame /\ pageId[heldFrame[c]] = heldPage[c]
        BY DEF UnpinPage, Idle, IInv, TypeOK, PinsMatchHolders
    <2>2. f = heldFrame[c]
        BY <2>1 DEF IInv, PageTableConsistent
    <2>3. QED
        BY <2>1, <2>2 DEF Frame, INVALID_FRAME_ID
<1>2. pinCount[f] \in Nat /\ pinCount[f] # 0
    BY <1>1, PinFacts DEF IInv, TypeOK, Holders, HoldersIn
<1>3. /\ dirty' = [dirty EXCEPT ![f] = @ \/ isDirty]
      /\ pinCount' = [pinCount EXCEPT ![f] = @ - 1]
      /\ lruList' = IF pinCount[f] = 1 THEN MarkEvictable(lruList, f) ELSE lruList
    BY <1>1, <1>2 DEF UnpinPage
<1>4. /\ wrote[c] => isDirty
      /\ heldPage' = [heldPage EXCEPT ![c] = INVALID_PAGE_ID]
      /\ heldFrame' = [heldFrame EXCEPT ![c] = INVALID_FRAME_ID]
      /\ wrote' = [wrote EXCEPT ![c] = FALSE]
      /\ UNCHANGED <<pageId, data, pageTable, freeList, disk, fileSize, unsynced>>
    BY DEF UnpinPage, Release, diskVars
<1> HIDE DEF f
<1>5. f \notin EvictableFrames
    BY <1>2 DEF EvictableFrames
<1>6. Lists(lruList', EvictableFrames')
    <2>1. CASE pinCount[f] = 1
        <3>1. lruList' = Append(lruList, f)
            BY <1>1, <1>3, <1>5, <2>1 DEF MarkEvictable, IInv, Lists
        <3>2. EvictableFrames' = EvictableFrames \cup {f}
            BY <1>1, <1>3, <1>4, <2>1 DEF EvictableFrames, IInv, TypeOK
        <3>3. EvictableFrames \in SUBSET Frame /\ f \in Frame \ EvictableFrames
            BY <1>1, <1>5 DEF EvictableFrames
        <3>4. QED
            BY <3>1, <3>2, <3>3, AppendLists DEF IInv
    <2>2. CASE pinCount[f] # 1
        <3>1. EvictableFrames' = EvictableFrames
            BY <1>1, <1>2, <1>3, <1>4, <2>2 DEF EvictableFrames, IInv, TypeOK
        <3>2. QED
            BY <1>3, <2>2, <3>1 DEF IInv
    <2>3. QED
        BY <2>1, <2>2
<1>7. TypeOK'
    <2>1. pinCount' \in [Frame -> Nat]
        BY <1>1, <1>2, <1>3 DEF IInv, TypeOK
    <2>2. dirty' \in [Frame -> BOOLEAN]
        BY <1>3 DEF IInv, TypeOK
    <2>3. QED
        BY <1>4, <1>6, <2>1, <2>2 DEF IInv, TypeOK, Lists
<1>8. FreeFrames' = FreeFrames /\ PageTableConsistent'
    BY <1>4 DEF FreeFrames, IInv, PageTableConsistent
<1>9. HandlesConsistent'
    BY <1>4 DEF IInv, HandlesConsistent, TypeOK
<1>10. \A g \in Frame : pinCount'[g] = Cardinality(HoldersIn(heldFrame', g))
    <2>1. \A g \in Frame : pinCount[g] = Cardinality(HoldersIn(heldFrame, g))
        BY DEF IInv, PinsMatchHolders, HoldersIn
    <2>2. heldFrame \in [Client -> Frame \cup {INVALID_FRAME_ID}]
        BY DEF IInv, TypeOK
    <2>3. \A g \in Frame : Cardinality(HoldersIn(heldFrame', g)) =
                IF g = f THEN Cardinality(HoldersIn(heldFrame, f)) - 1
                ELSE Cardinality(HoldersIn(heldFrame, g))
        <3> DEFINE fewer == [heldFrame EXCEPT ![c] = INVALID_FRAME_ID]
        <3>1. \A g \in Frame : Cardinality(HoldersIn(fewer, g)) =
                  IF g = f THEN Cardinality(HoldersIn(heldFrame, f)) - 1
                  ELSE Cardinality(HoldersIn(heldFrame, g))
            <4>1. f \in Frame /\ heldFrame[c] = f
                BY <1>1
            <4>2. QED
                BY <2>2, <4>1, DropPin
        <3>2. heldFrame' = fewer
            BY <1>4
        <3> HIDE DEF fewer
        <3>3. QED
            BY <3>1, <3>2
    <2>4. \A g \in Frame : pinCount'[g] = IF g = f THEN pinCount[f] - 1 ELSE pinCount[g]
        BY <1>1, <1>3 DEF IInv, TypeOK
    <2>5. pinCount'[f] = Cardinality(HoldersIn(heldFrame', f))
        BY <1>1, <2>1, <2>3, <2>4
    <2>6. \A g \in Frame : g # f => pinCount'[g] = Cardinality(HoldersIn(heldFrame', g))
        BY <2>1, <2>3, <2>4
    <2>7. QED
        BY <2>5, <2>6
<1>11. \A d \in Client : heldPage'[d] # INVALID_PAGE_ID
        => heldFrame'[d] \in Frame /\ pageId'[heldFrame'[d]] = heldPage'[d]
    BY <1>4 DEF IInv, TypeOK, PinsMatchHolders, Idle
<1>12. PinsMatchHolders'
    BY <1>7, <1>9, <1>10, <1>11, PinsFromCounts
<1>13. CleanMatchesDisk'
    <2> SUFFICES ASSUME NEW g \in Frame, pageId[g] # INVALID_PAGE_ID, ~dirty'[g],
                        ~BeingWritten(pageId[g])'
                 PROVE  data[g] = disk[pageId[g]] /\ Readable(pageId[g], fileSize)
        BY <1>4 DEF CleanMatchesDisk
    <2>1. ~dirty[g] /\ (g = f => ~isDirty)
        BY <1>3 DEF IInv, TypeOK
    <2>2. g # f => pageId[g] # heldPage[c]
        BY <1>1 DEF IInv, PageTableConsistent
    <2>3. heldPage[c] = pageId[g] => ~wrote[c]
        BY <1>4, <2>1, <2>2
    <2>4. \A d \in Client : d # c => heldPage'[d] = heldPage[d] /\ wrote'[d] = wrote[d]
        BY <1>4 DEF IInv, TypeOK
    <2>5. ~BeingWritten(pageId[g])
        BY <1>4, <2>3, <2>4 DEF BeingWritten
    <2>6. QED
        BY <2>1, <2>5 DEF IInv, CleanMatchesDisk
<1>14. QED
    BY <1>4, <1>6, <1>7, <1>8, <1>9, <1>12, <1>13 DEF IInv

-----------------------------------------------------------------------------
(* A new pool *)

\* The constructor puts every frame on the free list, once.
LEMMA FreshLists ==
    /\ Lists([i \in 1..PoolSize |-> i - 1], Frame)
    /\ Lists(<<>>, {})
<1> DEFINE s == [i \in 1..PoolSize |-> i - 1]
<1>1. \A i \in 1..PoolSize : i - 1 \in Frame
    BY PoolAssumption DEF Frame
<1>2. s \in Seq(Frame)
    BY <1>1, PoolAssumption, IsASeq
<1>3. IsInjective(s)
    BY PoolAssumption DEF IsInjective
<1>4. Len(s) = PoolSize
    BY PoolAssumption
<1> HIDE DEF s
<1>5. ASSUME NEW f \in Frame PROVE Contains(s, f)
    <2>1. f + 1 \in 1..PoolSize /\ s[f + 1] = f
        BY PoolAssumption DEF Frame, s
    <2>2. QED
        BY <1>4, <2>1 DEF Contains
<1>6. Lists(s, Frame)
    BY <1>2, <1>3, <1>5 DEF Lists
<1>7. Lists(<<>>, {})
    <2>1. <<>> \in Seq(Frame) /\ Len(<<>>) = 0 /\ DOMAIN <<>> = {}
        BY EmptySeq
    <2>2. QED
        BY <2>1 DEF Lists, IsInjective, Contains
<1>8. QED
    BY <1>6, <1>7 DEF s

\* Whatever the file holds, the pool starts in good order on it.
LEMMA ForgetStep ==
    ASSUME TypeOK, ForgetMemory, disk' \in [PageId -> Bytes],
           fileSize' \in 0..(MaxPage + 1), unsynced' \subseteq PageId
    PROVE  IInv'
<1>1. TypeOK'
    BY FreshLists DEF ForgetMemory, TypeOK, Bytes, Lists
<1>2. FreeFrames' = Frame /\ EvictableFrames' = {}
    BY DEF FreeFrames, EvictableFrames, ForgetMemory
<1>3. Lists(freeList', Frame) /\ Lists(lruList', {})
    BY FreshLists DEF ForgetMemory
<1>4. PageTableConsistent'
    BY DEF PageTableConsistent, ForgetMemory, PageId, Frame, INVALID_PAGE_ID,
           INVALID_FRAME_ID
<1>5. HandlesConsistent'
    BY DEF HandlesConsistent, ForgetMemory
<1>6. \A g \in Frame : pinCount'[g] = Cardinality(HoldersIn(heldFrame', g))
    <2>1. \A g \in Frame : HoldersIn(heldFrame', g) = {}
        BY DEF HoldersIn, ForgetMemory, Frame, INVALID_FRAME_ID
    <2>2. QED
        BY <2>1, FS_EmptySet DEF ForgetMemory
<1>7. PinsMatchHolders'
    BY <1>1, <1>5, <1>6, PinsFromCounts DEF ForgetMemory
<1>8. CleanMatchesDisk'
    BY DEF CleanMatchesDisk, ForgetMemory
<1>9. QED
    BY <1>1, <1>2, <1>3, <1>4, <1>5, <1>7, <1>8 DEF IInv

\* The destructor checkpoints and the database is opened again.
LEMMA ShutdownStep ==
    ASSUME IInv, NEW written, NEW torn, NEW synced \in BOOLEAN,
           Shutdown(written, torn, synced)
    PROVE  IInv'
<1>1. /\ written \in SUBSET DirtyPages /\ torn \in SUBSET DirtyPages
      /\ WritePages(written, torn)
      /\ unsynced' = IF synced THEN {} ELSE unsynced \cup written \cup torn
      /\ ForgetMemory
    BY DEF Shutdown, FlushAndSync
<1>2. disk' \in [PageId -> Bytes] /\ fileSize' \in 0..(MaxPage + 1)
    BY <1>1, WriteFacts
<1>3. unsynced' \subseteq PageId
    BY <1>1 DEF IInv, TypeOK, DirtyPages
<1>4. QED
    BY <1>1, <1>2, <1>3, ForgetStep DEF IInv

\* The process dies, with or without the machine.
LEMMA CrashStep ==
    ASSUME IInv, NEW lost, Crash(lost)
    PROVE  IInv'
<1>1. /\ disk' \in [PageId -> Bytes] /\ fileSize' \in 0..(MaxPage + 1)
      /\ unsynced' \subseteq PageId /\ ForgetMemory
    BY DEF Crash, IInv, TypeOK, Bytes
<1>2. QED
    BY <1>1, ForgetStep DEF IInv

\* The initial state: a new pool over an empty file.
LEMMA InitIInv == Init => IInv
<1> SUFFICES ASSUME Init PROVE IInv
    OBVIOUS
<1>1. TypeOK
    BY FreshLists, PoolAssumption DEF Init, TypeOK, Bytes, Lists
<1>2. FreeFrames = Frame /\ EvictableFrames = {}
    BY DEF FreeFrames, EvictableFrames, Init
<1>3. Lists(freeList, Frame) /\ Lists(lruList, {})
    BY FreshLists DEF Init
<1>4. PageTableConsistent
    BY DEF PageTableConsistent, Init, PageId, Frame, INVALID_PAGE_ID, INVALID_FRAME_ID
<1>5. HandlesConsistent
    BY DEF HandlesConsistent, Init
<1>6. PinsMatchHolders
    <2>1. \A g \in Frame : {c \in Client : heldFrame[c] = g} = {}
        BY DEF Init, Frame, INVALID_FRAME_ID
    <2>2. QED
        BY <2>1, FS_EmptySet DEF Init, PinsMatchHolders, Idle
<1>7. CleanMatchesDisk
    BY DEF CleanMatchesDisk, Init
<1>8. QED
    BY <1>1, <1>2, <1>3, <1>4, <1>5, <1>6, <1>7 DEF IInv

\* Nothing in the invariant depends on a step that changes nothing.
LEMMA StutterStep == ASSUME IInv, UNCHANGED vars PROVE IInv'
BY DEF vars, frameVars, diskVars, clientVars, IInv, TypeOK, Lists, FreeFrames,
       EvictableFrames, PageTableConsistent, PinsMatchHolders, Idle,
       HandlesConsistent, CleanMatchesDisk, BeingWritten

\* Every step of the pool, its callers and its disk keeps the invariant.
LEMMA NextIInv == IInv /\ [Next]_vars => IInv'
<1> SUFFICES ASSUME IInv, [Next]_vars PROVE IInv'
    OBVIOUS
<1>1. ASSUME NEW c \in Client, NEW p \in PageId, FetchPage(c, p) PROVE IInv'
    BY <1>1, PinCachedStep, FetchMissStep DEF FetchPage
<1>2. ASSUME NEW c \in Client, NEW p \in PageId, NewPage(c, p) PROVE IInv'
    BY <1>2, NewPageStep
<1>3. ASSUME NEW c \in Client, NEW p \in PageId, NewOrFetchPage(c, p) PROVE IInv'
    BY <1>3, PinCachedStep, NewPageStep DEF NewOrFetchPage
<1>4. ASSUME NEW p \in PageId, ReadFails(p) PROVE IInv'
    BY <1>4, ReadFailsStep
<1>5. ASSUME NEW p \in PageId, EvictionFails(p) PROVE IInv'
    BY <1>5, EvictionFailsStep
<1>6. ASSUME NEW c \in Client, NEW v \in Content, WriteBytes(c, v) PROVE IInv'
    BY <1>6, WriteBytesStep
<1>7. ASSUME NEW c \in Client, NEW isDirty \in BOOLEAN, UnpinPage(c, isDirty)
      PROVE  IInv'
    BY <1>7, UnpinPageStep
<1>8. ASSUME NEW p \in PageId, FlushPage(p) PROVE IInv'
    <2>1. {p} \in SUBSET DirtyPages /\ Flush({p})
        BY <1>8 DEF FlushPage
    <2>2. QED
        BY <2>1, FlushStep
<1>9. CASE FlushAllPages
    BY <1>9, FlushStep DEF FlushAllPages
<1>10. ASSUME NEW written \in SUBSET DirtyPages, NEW torn \in SUBSET DirtyPages,
              NEW synced \in BOOLEAN, Checkpoint(written, torn, synced)
       PROVE  IInv'
    BY <1>10, CheckpointStep
<1>11. ASSUME NEW p \in PageId, DeletePage(p) PROVE IInv'
    BY <1>11, DeletePageStep
<1>12. ASSUME NEW written \in SUBSET DirtyPages, NEW torn \in SUBSET DirtyPages,
              NEW synced \in BOOLEAN, Shutdown(written, torn, synced)
       PROVE  IInv'
    BY <1>12, ShutdownStep
<1>13. ASSUME NEW lost \in SUBSET unsynced, Crash(lost) PROVE IInv'
    BY <1>13, CrashStep
<1>14. CASE UNCHANGED vars
    BY <1>14, StutterStep
<1>15. QED
    BY <1>1, <1>2, <1>3, <1>4, <1>5, <1>6, <1>7, <1>8, <1>9, <1>10, <1>11, <1>12,
       <1>13, <1>14 DEF Next

-----------------------------------------------------------------------------
(* The theorems *)

\* The invariant holds in every reachable state.
THEOREM Invariance == Spec => []IInv
BY InitIInv, NextIInv, PTL DEF Spec

\* Every variable of the pool, the file and the callers has its type.
THEOREM TypeCorrect == Spec => []TypeOK
<1>1. IInv => TypeOK
    BY DEF IInv
<1>2. QED
    BY <1>1, Invariance, PTL

\* No frame is lost or in two places, however many evictions, deletions and
\* failed reads there are.
THEOREM FramesAccounted == Spec => []FrameAccounting
BY IInvAccounts, Invariance, PTL

\* No page is cached twice and none is lost from the page table.
THEOREM PagesMapped == Spec => []PageTableConsistent
<1>1. IInv => PageTableConsistent
    BY DEF IInv
<1>2. QED
    BY <1>1, Invariance, PTL

\* A Page* stays valid until its own unpin: no frame is reused under a pin.
THEOREM PinsProtect == Spec => []PinsMatchHolders
<1>1. IInv => PinsMatchHolders
    BY DEF IInv
<1>2. QED
    BY <1>1, Invariance, PTL

\* Dropping a clean page that nobody is writing loses nothing.
THEOREM CleanIsStored == Spec => []CleanMatchesDisk
<1>1. IInv => CleanMatchesDisk
    BY DEF IInv
<1>2. QED
    BY <1>1, Invariance, PTL

\* Where a page is after every dirty page was written and the file synced.
LEMMA SyncedFacts ==
    ASSUME IInv, FlushAndSync(DirtyPages, {}, TRUE),
           NEW p \in PageId, ~BeingWritten(p)
    PROVE  /\ disk'[p] = CurrentContent(p)
           /\ p \notin unsynced'
           /\ Cached(p) => Readable(p, fileSize')
<1>1. WritePages(DirtyPages, {}) /\ unsynced' = {}
    BY DEF FlushAndSync
<1>2. DirtyPages \in SUBSET DirtyPages /\ {} \in SUBSET DirtyPages
    OBVIOUS
<1>3. /\ fileSize' \in 0..(MaxPage + 1)
      /\ fileSize <= fileSize'
      /\ \A q \in DirtyPages : disk'[q] = data[pageTable[q]] /\ Readable(q, fileSize')
      /\ \A q \in PageId \ (DirtyPages \cup {}) : disk'[q] = disk[q]
    BY <1>1, <1>2, WriteFacts
<1>4. CASE ~Cached(p)
    BY <1>1, <1>3, <1>4 DEF CurrentContent, DirtyPages
<1>5. CASE p \in DirtyPages
    BY <1>1, <1>3, <1>5 DEF CurrentContent, DirtyPages
<1>6. CASE Cached(p) /\ p \notin DirtyPages
    <2>1. /\ pageTable[p] \in Frame /\ pageId[pageTable[p]] = p
          /\ p # INVALID_PAGE_ID /\ ~dirty[pageTable[p]]
        <3>1. pageTable[p] \in Frame /\ ~dirty[pageTable[p]]
            BY <1>6 DEF Cached, DirtyPages, IInv, TypeOK
        <3>2. QED
            BY <3>1 DEF IInv, PageTableConsistent, PageId, INVALID_PAGE_ID
    <2>2. data[pageTable[p]] = disk[p] /\ Readable(p, fileSize)
        BY <2>1 DEF IInv, CleanMatchesDisk
    <2>3. Readable(p, fileSize')
        BY <1>3, <2>2, PoolAssumption DEF Readable, PageId, IInv, TypeOK
    <2>4. QED
        BY <1>1, <1>3, <1>6, <2>2, <2>3 DEF CurrentContent
<1>7. QED
    BY <1>4, <1>5, <1>6

\* When checkpoint reports success, or the destructor meets no error, all that
\* callers have announced is on the storage device.
THEOREM CheckpointDurable == Spec => CheckpointIsDurable
<1> DEFINE Durable ==
        Checkpoint(DirtyPages, {}, TRUE) \/ Shutdown(DirtyPages, {}, TRUE)
        => \A p \in PageId : ~BeingWritten(p) =>
              /\ disk'[p] = CurrentContent(p)
              /\ p \notin unsynced'
              /\ Cached(p) => Readable(p, fileSize')
<1>1. IInv /\ [Next]_vars => [Durable]_vars
    BY SyncedFacts DEF Checkpoint, Shutdown
<1>2. QED
    BY <1>1, Invariance, PTL DEF CheckpointIsDurable, Spec

-----------------------------------------------------------------------------
(* The refinement of the page store *)

\* The contents are pages' contents.
LEMMA ContentTypes ==
    ASSUME IInv
    PROVE  /\ disk \in [PageId -> Bytes]
           /\ \A p \in PageId : CurrentContent(p) \in Bytes
<1>1. \A p \in PageId : Cached(p) => pageTable[p] \in Frame
    BY DEF IInv, TypeOK, Cached
<1>2. QED
    BY <1>1 DEF CurrentContent, IInv, TypeOK

\* A page is open only if its frame is pinned.
LEMMA OpenIsPinned ==
    ASSUME IInv, NEW c \in Client, NEW p \in PageId, heldPage[c] = p
    PROVE  /\ Cached(p) /\ heldFrame[c] = pageTable[p] /\ c \in Holders(pageTable[p])
           /\ ~(pinCount[pageTable[p]] <= 0)
<1>1. ~Idle(c)
    BY DEF Idle, PageId, INVALID_PAGE_ID
<1>2. heldFrame[c] \in Frame /\ pageId[heldFrame[c]] = p
    BY <1>1 DEF IInv, PinsMatchHolders
<1>3. pageTable[p] = heldFrame[c]
    BY <1>2 DEF IInv, PageTableConsistent
<1>4. Cached(p) /\ c \in Holders(pageTable[p])
    BY <1>2, <1>3 DEF Cached, Frame, INVALID_FRAME_ID, Holders, HoldersIn
<1>5. pinCount[pageTable[p]] # 0 /\ pinCount[pageTable[p]] \in Nat
    BY <1>2, <1>3, <1>4, PinFacts DEF IInv, TypeOK
<1>6. QED
    BY <1>3, <1>4, <1>5

\* Eviction writes the victim's content to the disk, unless it is there
\* already, and changes no other page on the disk.
LEMMA EvictContent ==
    ASSUME IInv, SomeFrame, EvictVictim(NextFrame), NEW p \in PageId
    PROVE  disk'[p] = IF pageTable[p] = NextFrame THEN CurrentContent(p) ELSE disk[p]
<1> DEFINE f == NextFrame
<1>0. f \in Frame /\ Holders(f) = {} /\ (freeList # <<>> => f \in FreeFrames)
    BY AcquireFacts
<1>1. pageTable[p] = f <=> pageId[f] = p
    BY <1>0 DEF IInv, PageTableConsistent
<1>2. CASE pageTable[p] # f
    BY <1>1, <1>2, EvictFacts
<1>3. CASE pageTable[p] = f
    <2>1. freeList = <<>> /\ Cached(p) /\ CurrentContent(p) = data[f]
        BY <1>0, <1>1, <1>3
        DEF FreeFrames, PageId, Frame, INVALID_PAGE_ID, INVALID_FRAME_ID, Cached,
            CurrentContent
    <2>2. CASE dirty[f]
        <3>1. WritePages({p}, {})
            BY <1>1, <1>3, <2>1, <2>2 DEF EvictVictim, NeedsWriteBack, WriteUnsynced
        <3>2. QED
            BY <1>3, <2>1, <3>1 DEF WritePages
    <2>3. CASE ~dirty[f]
        <3>1. ~BeingWritten(p)
            BY <1>0, <1>3, OpenIsPinned DEF BeingWritten
        <3>2. data[f] = disk[p]
            BY <1>0, <1>1, <1>3, <2>3, <3>1
            DEF IInv, CleanMatchesDisk, PageId, INVALID_PAGE_ID
        <3>3. disk' = disk
            BY <2>3 DEF EvictVictim, NeedsWriteBack, diskVars
        <3>4. QED
            BY <1>3, <2>1, <3>2, <3>3
    <2>4. QED
        BY <2>2, <2>3
<1>4. QED
    BY <1>2, <1>3

\* WriteBack of the page store.
LEMMA WriteBackStep ==
    ASSUME disk' \in [PageId -> Bytes],
           \A p \in PageId : disk'[p] \in {disk[p], CurrentContent(p), Torn}
    PROVE  Store!WriteBack
BY DEF Store!WriteBack, Bytes

\* fetch_page and new_page on a miss: the victim's content stays, on the disk.
LEMMA InstallContent ==
    ASSUME IInv, NEW c \in Client, NEW p \in PageId, NEW bytes, NEW isDirty \in BOOLEAN,
           ~Cached(p), SomeFrame, EvictVictim(NextFrame),
           Install(c, p, NextFrame, bytes, isDirty)
    PROVE  /\ heldPage' = [heldPage EXCEPT ![c] = p]
           /\ \A q \in PageId : CurrentContent(q)' = IF q = p THEN bytes ELSE CurrentContent(q)
           /\ Store!WriteBack
<1> DEFINE f == NextFrame
<1>0. f \in Frame /\ pageTable[p] = INVALID_FRAME_ID /\ INVALID_FRAME_ID \notin Frame
    BY AcquireFacts DEF Cached, Frame, INVALID_FRAME_ID
<1>1. /\ data \in [Frame -> Bytes] /\ pageTable \in [PageId -> Frame \cup {INVALID_FRAME_ID}]
    BY DEF IInv, TypeOK
<1>2. /\ data' = [data EXCEPT ![f] = bytes]
      /\ pageTable' = [Unmapped(f) EXCEPT ![p] = f]
      /\ heldPage' = [heldPage EXCEPT ![c] = p]
    BY DEF Install, Handle
<1>3. \A q \in PageId : pageTable'[q] = IF q = p THEN f
                                        ELSE IF pageTable[q] = f THEN INVALID_FRAME_ID
                                        ELSE pageTable[q]
    BY <1>2 DEF Unmapped
<1>4. \A q \in PageId : disk'[q] = IF pageTable[q] = f THEN CurrentContent(q) ELSE disk[q]
    BY EvictContent
<1> HIDE DEF f
<1>5. ASSUME NEW q \in PageId
      PROVE  CurrentContent(q)' = IF q = p THEN bytes ELSE CurrentContent(q)
    <2>1. CASE q = p
        BY <1>0, <1>1, <1>2, <1>3, <2>1 DEF CurrentContent, Cached
    <2>2. CASE q # p /\ pageTable[q] = f
        BY <1>0, <1>3, <1>4, <2>2 DEF CurrentContent, Cached
    <2>3. CASE q # p /\ pageTable[q] # f
        <3>1. pageTable'[q] = pageTable[q] /\ disk'[q] = disk[q]
            BY <1>3, <1>4, <2>3
        <3>2. pageTable[q] \in Frame => data'[pageTable[q]] = data[pageTable[q]]
            BY <1>1, <1>2, <2>3
        <3>3. QED
            BY <1>1, <2>3, <3>1, <3>2 DEF CurrentContent, Cached
    <2>4. QED
        BY <2>1, <2>2, <2>3
<1>6. Store!WriteBack
    <2>1. disk' \in [PageId -> Bytes]
        BY EvictFacts
    <2>2. QED
        BY <1>4, <2>1, WriteBackStep
<1>7. QED
    BY <1>2, <1>5, <1>6

\* fetch_page and new_or_fetch_page open the page.
LEMMA PinCachedRefines ==
    ASSUME IInv, NEW c \in Client, NEW p \in PageId, PinCached(c, p)
    PROVE  Store!Open(c, p)
<1>1. /\ heldPage' = [heldPage EXCEPT ![c] = p]
      /\ heldPage[c] = INVALID_PAGE_ID
      /\ disk' = disk /\ data' = data /\ pageTable' = pageTable
    BY DEF PinCached, Handle, Idle, diskVars
<1>2. \A q \in PageId : CurrentContent(q)' = CurrentContent(q)
    BY <1>1 DEF CurrentContent, Cached
<1>3. Store!WriteBack
    BY <1>1, ContentTypes, WriteBackStep
<1>4. QED
    BY <1>1, <1>2, <1>3 DEF Store!Open

\* A fetch that reads the page hands out what the page has to hold; the victim's
\* latest content goes from its frame to the disk.
LEMMA FetchMissRefines ==
    ASSUME IInv, NEW c \in Client, NEW p \in PageId, FetchMiss(c, p)
    PROVE  Store!Open(c, p)
<1>1. /\ Idle(c) /\ ~Cached(p) /\ SomeFrame /\ EvictVictim(NextFrame)
      /\ Install(c, p, NextFrame, disk'[p], FALSE)
    BY DEF FetchMiss
<1>2. CurrentContent(p) = disk'[p]
    <2>1. pageTable[p] # NextFrame
        BY <1>1, AcquireFacts DEF Cached, Frame, INVALID_FRAME_ID
    <2>2. QED
        BY <1>1, <2>1, EvictContent DEF CurrentContent
<1>3. /\ heldPage' = [heldPage EXCEPT ![c] = p]
      /\ \A q \in PageId : CurrentContent(q)' = CurrentContent(q)
      /\ Store!WriteBack
    BY <1>1, <1>2, InstallContent
<1>4. QED
    BY <1>1, <1>3 DEF Store!Open, Idle

\* new_page and new_or_fetch_page format a page that is not cached.
LEMMA NewPageRefines ==
    ASSUME IInv, NEW c \in Client, NEW p \in PageId, NewPage(c, p)
    PROVE  Store!Format(c, p)
<1>1. /\ Idle(c) /\ ~Cached(p) /\ SomeFrame /\ EvictVictim(NextFrame)
      /\ Install(c, p, NextFrame, Zero, TRUE)
    BY DEF NewPage
<1>2. Store!NotOpen(p)
    BY <1>1, OpenIsPinned DEF Store!NotOpen
<1>3. /\ heldPage' = [heldPage EXCEPT ![c] = p]
      /\ \A q \in PageId : CurrentContent(q)' = IF q = p THEN Zero ELSE CurrentContent(q)
      /\ Store!WriteBack
    BY <1>1, InstallContent
<1>4. QED
    BY <1>1, <1>2, <1>3 DEF Store!Format, Idle

\* acquire_frame has written the victim back, and the read fails.
LEMMA ReadFailsRefines ==
    ASSUME IInv, NEW p \in PageId, ReadFails(p)
    PROVE  Store!Flush
<1> DEFINE f == NextFrame
<1>0. f \in Frame /\ INVALID_FRAME_ID \notin Frame
    BY AcquireFacts DEF ReadFails, Frame, INVALID_FRAME_ID
<1>1. /\ data \in [Frame -> Bytes] /\ pageTable \in [PageId -> Frame \cup {INVALID_FRAME_ID}]
    BY DEF IInv, TypeOK
<1>2. /\ data' = [data EXCEPT ![f] = Zero]
      /\ pageTable' = Unmapped(f)
      /\ heldPage' = heldPage
      /\ SomeFrame /\ EvictVictim(f)
    BY DEF ReadFails, ResetFrame, clientVars
<1>3. \A q \in PageId : disk'[q] = IF pageTable[q] = f THEN CurrentContent(q) ELSE disk[q]
    BY <1>2, EvictContent
<1>4. disk' \in [PageId -> Bytes]
    BY <1>2, EvictFacts
<1> HIDE DEF f
<1>5. ASSUME NEW q \in PageId
      PROVE  CurrentContent(q)' = CurrentContent(q)
    <2>1. CASE pageTable[q] = f
        BY <1>0, <1>2, <1>3, <2>1 DEF CurrentContent, Cached, Unmapped
    <2>2. CASE pageTable[q] # f
        <3>1. pageTable'[q] = pageTable[q] /\ disk'[q] = disk[q]
            BY <1>2, <1>3, <2>2 DEF Unmapped
        <3>2. pageTable[q] \in Frame => data'[pageTable[q]] = data[pageTable[q]]
            BY <1>1, <1>2, <2>2
        <3>3. QED
            BY <1>1, <3>1, <3>2 DEF CurrentContent, Cached
    <2>3. QED
        BY <2>1, <2>2
<1>6. Store!WriteBack
    BY <1>3, <1>4, WriteBackStep
<1>7. QED
    BY <1>2, <1>5, <1>6 DEF Store!Flush

\* What is written is the current content of cached pages.
LEMMA WritesRefine ==
    ASSUME IInv, NEW written \in SUBSET DirtyPages, NEW torn \in SUBSET DirtyPages,
           WritePages(written, torn)
    PROVE  /\ Store!WriteBack
           /\ data' = data /\ pageTable' = pageTable
              => \A q \in PageId : CurrentContent(q)' = CurrentContent(q)
<1>1. disk' \in [PageId -> Bytes]
    BY WriteFacts
<1>2. ASSUME NEW q \in PageId
      PROVE  disk'[q] \in {disk[q], CurrentContent(q), Torn}
    <2>1. disk'[q] = IF q \in written THEN data[pageTable[q]]
                     ELSE IF q \in torn THEN Torn ELSE disk[q]
        BY DEF WritePages
    <2>2. q \in written => CurrentContent(q) = data[pageTable[q]]
        BY DEF DirtyPages, CurrentContent
    <2>3. QED
        BY <2>1, <2>2
<1>3. ASSUME NEW q \in PageId, ~Cached(q)
      PROVE  disk'[q] = disk[q]
    BY <1>3 DEF WritePages, DirtyPages
<1>4. Store!WriteBack
    BY <1>1, <1>2, WriteBackStep
<1>5. QED
    BY <1>3, <1>4 DEF CurrentContent, Cached

\* A fetch whose eviction fails half-way has at most torn a page.
LEMMA EvictionFailsRefines ==
    ASSUME IInv, NEW p \in PageId, EvictionFails(p)
    PROVE  Store!Flush
<1> DEFINE f == NextFrame
<1>1. /\ SomeFrame /\ NeedsWriteBack(f)
      /\ data' = data /\ pageTable' = pageTable /\ heldPage' = heldPage
    BY DEF EvictionFails, frameVars, clientVars
<1>2. PICK torn \in SUBSET {pageId[f]} : WritePages({}, torn)
    BY DEF EvictionFails, WriteUnsynced
<1>3. pageId[f] \in DirtyPages
    BY <1>1, AcquireFacts
    DEF NeedsWriteBack, EvictableFrames, IInv, TypeOK, PageTableConsistent, DirtyPages,
        Cached, Frame, INVALID_FRAME_ID
<1>4. /\ Store!WriteBack
      /\ \A q \in PageId : CurrentContent(q)' = CurrentContent(q)
    BY <1>1, <1>2, <1>3, WritesRefine
<1>5. QED
    BY <1>1, <1>4 DEF Store!Flush

\* flush_page and flush_all_pages store pages; what the frames hold stays.
LEMMA FlushRefines ==
    ASSUME IInv, NEW pages \in SUBSET DirtyPages, Flush(pages)
    PROVE  Store!Flush
<1>1. data' = data /\ pageTable' = pageTable /\ heldPage' = heldPage
    BY DEF Flush, clientVars
<1>2. PICK written \in SUBSET pages : \E t \in SUBSET (pages \ written) :
                                          WritePages(written, t)
    BY DEF Flush, WriteUnsynced
<1>3. PICK torn \in SUBSET (pages \ written) : WritePages(written, torn)
    BY <1>2
<1>4. /\ Store!WriteBack
      /\ \A q \in PageId : CurrentContent(q)' = CurrentContent(q)
    BY <1>1, <1>3, WritesRefine
<1>5. QED
    BY <1>1, <1>4 DEF Store!Flush

\* So does a checkpoint, whichever of its writes fail.
LEMMA CheckpointRefines ==
    ASSUME IInv, NEW written, NEW torn, NEW synced \in BOOLEAN,
           Checkpoint(written, torn, synced)
    PROVE  Store!Flush
<1>1. data' = data /\ pageTable' = pageTable /\ heldPage' = heldPage
    BY DEF Checkpoint, clientVars
<1>2. /\ written \subseteq DirtyPages /\ torn \subseteq DirtyPages
      /\ WritePages(written, torn)
    BY DEF Checkpoint, FlushAndSync
<1>3. /\ Store!WriteBack
      /\ \A q \in PageId : CurrentContent(q)' = CurrentContent(q)
    BY <1>1, <1>2, WritesRefine
<1>4. QED
    BY <1>1, <1>3 DEF Store!Flush

\* The caller that has a page pinned writes the frame that holds that page.
LEMMA WriteBytesRefines ==
    ASSUME IInv, NEW c \in Client, NEW v \in Content, WriteBytes(c, v)
    PROVE  Store!Write(c, v)
<1> DEFINE f == heldFrame[c]
           p == heldPage[c]
<1>1. /\ p # INVALID_PAGE_ID
      /\ data' = [data EXCEPT ![f] = v]
      /\ pageTable' = pageTable /\ disk' = disk /\ heldPage' = heldPage
    BY DEF WriteBytes, Idle, diskVars
<1>2. p \in PageId
    BY <1>1 DEF IInv, TypeOK
<1>3. Cached(p) /\ f = pageTable[p]
    BY <1>2, OpenIsPinned
<1>4. /\ data \in [Frame -> Bytes] /\ pageTable \in [PageId -> Frame \cup {INVALID_FRAME_ID}]
    BY DEF IInv, TypeOK
<1>5. \A q \in PageId : pageTable[q] = f => q = p
    BY <1>2, <1>3, <1>4 DEF IInv, PageTableConsistent, Cached
<1>6. ASSUME NEW q \in PageId
      PROVE  CurrentContent(q)' = IF q = p THEN v ELSE CurrentContent(q)
    BY <1>1, <1>3, <1>4, <1>5 DEF CurrentContent, Cached
<1>7. QED
    BY <1>1, <1>2, <1>6 DEF Store!Write

\* unpin_page closes the page and changes no content.
LEMMA UnpinPageRefines ==
    ASSUME IInv, NEW c \in Client, NEW isDirty \in BOOLEAN, UnpinPage(c, isDirty)
    PROVE  Store!Close(c)
<1>1. /\ heldPage[c] # INVALID_PAGE_ID
      /\ heldPage' = [heldPage EXCEPT ![c] = INVALID_PAGE_ID]
      /\ data' = data /\ pageTable' = pageTable /\ disk' = disk
    BY DEF UnpinPage, Release, Idle, diskVars
<1>2. \A q \in PageId : CurrentContent(q)' = CurrentContent(q)
    BY <1>1 DEF CurrentContent, Cached
<1>3. QED
    BY <1>1, <1>2 DEF Store!Close

\* delete_page falls back to what the file has.
LEMMA DeletePageRefines ==
    ASSUME IInv, NEW p \in PageId, DeletePage(p)
    PROVE  Store!Delete(p)
<1> DEFINE f == pageTable[p]
<1>1. /\ Cached(p) /\ pinCount[f] <= 0
      /\ data' = [data EXCEPT ![f] = Zero]
      /\ pageTable' = [pageTable EXCEPT ![p] = INVALID_FRAME_ID]
      /\ disk' = disk /\ heldPage' = heldPage
    BY DEF DeletePage, ResetFrame, diskVars, clientVars
<1>2. /\ data \in [Frame -> Bytes] /\ pageTable \in [PageId -> Frame \cup {INVALID_FRAME_ID}]
    BY DEF IInv, TypeOK
<1>3. f \in Frame
    BY <1>1, <1>2 DEF Cached
<1>4. Store!NotOpen(p)
    BY <1>1, OpenIsPinned DEF Store!NotOpen
<1>5. \A q \in PageId : pageTable[q] = f => q = p
    BY <1>3 DEF IInv, PageTableConsistent
<1>6. ASSUME NEW q \in PageId
      PROVE  CurrentContent(q)' = IF q = p THEN disk[p] ELSE CurrentContent(q)
    BY <1>1, <1>2, <1>3, <1>5 DEF CurrentContent, Cached
<1>7. QED
    BY <1>1, <1>4, <1>6 DEF Store!Delete

\* Nothing is cached in a process that has just started.
LEMMA ForgottenContent ==
    ASSUME ForgetMemory
    PROVE  /\ heldPage' = [c \in Client |-> INVALID_PAGE_ID]
           /\ \A q \in PageId : CurrentContent(q)' = disk'[q]
BY DEF ForgetMemory, CurrentContent, Cached

\* The destructor writes the dirty pages and forgets the frames.
LEMMA ShutdownRefines ==
    ASSUME IInv, NEW written, NEW torn, NEW synced \in BOOLEAN,
           Shutdown(written, torn, synced)
    PROVE  Store!Restart
<1>1. /\ written \subseteq DirtyPages /\ torn \subseteq DirtyPages
      /\ WritePages(written, torn) /\ ForgetMemory
    BY DEF Shutdown, FlushAndSync
<1>2. Store!WriteBack
    BY <1>1, WritesRefine
<1>3. disk' \in [PageId -> Bytes]
    BY <1>1, WriteFacts
<1>4. QED
    BY <1>1, <1>2, <1>3, ForgottenContent DEF Store!Restart

\* A crash forgets the frames and may tear what was not synced.
LEMMA CrashRefines ==
    ASSUME IInv, NEW lost, Crash(lost)
    PROVE  Store!Restart
<1>1. /\ disk' = [p \in PageId |-> IF p \in lost THEN Torn ELSE disk[p]]
      /\ ForgetMemory
    BY DEF Crash
<1>2. disk' \in [PageId -> Bytes]
    BY <1>1 DEF IInv, TypeOK, Bytes
<1>3. Store!WriteBack
    BY <1>1, <1>2, WriteBackStep
<1>4. QED
    BY <1>1, <1>2, <1>3, ForgottenContent DEF Store!Restart

\* The pool starts with no page in memory and no page in use.
LEMMA StoreInit == Init => Store!Init
BY DEF Init, Store!Init, CurrentContent, Cached

\* Every operation of the pool is an operation of the page store, or none.
LEMMA StoreStep ==
    ASSUME IInv, [Next]_vars
    PROVE  [Store!Next]_(Store!vars)
<1>1. ASSUME NEW c \in Client, NEW p \in PageId, FetchPage(c, p) PROVE Store!Next
    BY <1>1, PinCachedRefines, FetchMissRefines DEF FetchPage, Store!Next
<1>2. ASSUME NEW c \in Client, NEW p \in PageId, NewPage(c, p) PROVE Store!Next
    BY <1>2, NewPageRefines DEF Store!Next
<1>3. ASSUME NEW c \in Client, NEW p \in PageId, NewOrFetchPage(c, p) PROVE Store!Next
    BY <1>3, PinCachedRefines, NewPageRefines DEF NewOrFetchPage, Store!Next
<1>4. ASSUME NEW p \in PageId, ReadFails(p) PROVE Store!Next
    BY <1>4, ReadFailsRefines DEF Store!Next
<1>5. ASSUME NEW p \in PageId, EvictionFails(p) PROVE Store!Next
    BY <1>5, EvictionFailsRefines DEF Store!Next
<1>6. ASSUME NEW c \in Client, NEW v \in Content, WriteBytes(c, v) PROVE Store!Next
    BY <1>6, WriteBytesRefines DEF Store!Next
<1>7. ASSUME NEW c \in Client, NEW isDirty \in BOOLEAN, UnpinPage(c, isDirty) PROVE Store!Next
    BY <1>7, UnpinPageRefines DEF Store!Next
<1>8. ASSUME NEW p \in PageId, FlushPage(p) PROVE Store!Next
    BY <1>8, FlushRefines DEF FlushPage, Store!Next
<1>9. ASSUME FlushAllPages PROVE Store!Next
    BY <1>9, FlushRefines DEF FlushAllPages, Store!Next
<1>10. ASSUME NEW written, NEW torn, NEW synced \in BOOLEAN,
              Checkpoint(written, torn, synced)
       PROVE  Store!Next
    BY <1>10, CheckpointRefines DEF Store!Next
<1>11. ASSUME NEW p \in PageId, DeletePage(p) PROVE Store!Next
    BY <1>11, DeletePageRefines DEF Store!Next
<1>12. ASSUME NEW written, NEW torn, NEW synced \in BOOLEAN,
              Shutdown(written, torn, synced)
       PROVE  Store!Next
    BY <1>12, ShutdownRefines DEF Store!Next
<1>13. ASSUME NEW lost, Crash(lost) PROVE Store!Next
    BY <1>13, CrashRefines DEF Store!Next
<1>14. ASSUME UNCHANGED vars PROVE UNCHANGED Store!vars
    BY <1>14 DEF vars, frameVars, diskVars, clientVars, Store!vars, CurrentContent, Cached
<1>15. QED
    BY <1>1, <1>2, <1>3, <1>4, <1>5, <1>6, <1>7, <1>8, <1>9, <1>10, <1>11, <1>12,
       <1>13, <1>14
    DEF Next

\* The pool implements the page store: evictions, write-backs, failing reads
\* and writes never change what a caller sees in a page.
THEOREM Refinement == Spec => ImplementsStore
BY Invariance, StoreInit, StoreStep, PTL DEF Spec, ImplementsStore, Store!Spec

-----------------------------------------------------------------------------
(* The order of the replacer's list *)

\* Two frames keep their order from one list to the next, a newcomer is behind.
Ordered(before, after, f, g) ==
    /\ f # g
    /\ Contains(before, f) /\ Contains(after, f) /\ Contains(after, g)
    /\ Contains(before, g) => Before(before, f, g)
    => Before(after, f, g)

\* mark_evictable puts a frame behind all others.
LEMMA MarkEvictableOrder ==
    ASSUME NEW s \in Seq(Frame), NEW x \in Frame, NEW f, NEW g
    PROVE  Ordered(s, MarkEvictable(s, x), f, g)
<1>1. CASE Contains(s, x)
    BY <1>1 DEF Ordered, MarkEvictable
<1>2. CASE ~Contains(s, x)
    <2>1. /\ MarkEvictable(s, x) = Append(s, x)
          /\ Len(s) \in Nat
          /\ Len(Append(s, x)) = Len(s) + 1
          /\ \A i \in 1..Len(s) : Append(s, x)[i] = s[i]
          /\ Append(s, x)[Len(s) + 1] = x
        BY <1>2, AppendFacts, LenProperties DEF MarkEvictable
    <2> SUFFICES ASSUME f # g, Contains(s, f), Contains(Append(s, x), g),
                        Contains(s, g) => Before(s, f, g)
                 PROVE  Before(Append(s, x), f, g)
        BY <2>1 DEF Ordered
    <2>2. CASE Contains(s, g)
        <3>1. PICK i, j \in 1..Len(s) : i < j /\ s[i] = f /\ s[j] = g
            BY <2>2 DEF Before
        <3>2. QED
            BY <2>1, <3>1 DEF Before
    <2>3. CASE ~Contains(s, g)
        <3>1. PICK i \in 1..Len(s) : s[i] = f
            BY DEF Contains
        <3>2. PICK j \in 1..(Len(s) + 1) : Append(s, x)[j] = g
            BY <2>1 DEF Contains
        <3>3. j = Len(s) + 1
            BY <2>1, <2>3, <3>2 DEF Contains
        <3>4. QED
            BY <2>1, <3>1, <3>2, <3>3 DEF Before
    <2>4. QED
        BY <2>2, <2>3
<1>3. QED
    BY <1>1, <1>2

\* Dropping one place of a list without duplicates reorders nothing.
LEMMA RemoveAtOrder ==
    ASSUME NEW s \in Seq(Frame), IsInjective(s), NEW k \in 1..Len(s), NEW r,
           Len(r) = Len(s) - 1,
           \A i \in 1..(Len(s) - 1) : r[i] = IF i < k THEN s[i] ELSE s[i + 1],
           NEW f, NEW g
    PROVE  Ordered(s, r, f, g)
<1>1. Len(s) \in Nat /\ \A i, j \in 1..Len(s) : s[i] = s[j] => i = j
    BY ToSetFacts
<1> SUFFICES ASSUME f # g, Contains(r, f), Contains(r, g),
                    Contains(s, g) => Before(s, f, g)
             PROVE  Before(r, f, g)
    BY DEF Ordered
<1>2. PICK i \in 1..(Len(s) - 1) : r[i] = f
    BY DEF Contains
<1>3. PICK j \in 1..(Len(s) - 1) : r[j] = g
    BY DEF Contains
<1> DEFINE place(n) == IF n < k THEN n ELSE n + 1
<1>4. \A n \in 1..(Len(s) - 1) : place(n) \in 1..Len(s) /\ r[n] = s[place(n)]
    BY <1>1
<1>5. PICK m, n \in 1..Len(s) : m < n /\ s[m] = f /\ s[n] = g
    <2>1. Contains(s, g)
        BY <1>3, <1>4 DEF Contains
    <2>2. QED
        BY <2>1 DEF Before
<1>6. m = place(i) /\ n = place(j)
    BY <1>1, <1>2, <1>3, <1>4, <1>5
<1>7. i < j
    BY <1>1, <1>5, <1>6
<1>8. QED
    BY <1>1, <1>2, <1>3, <1>7 DEF Before

\* pop_front keeps the order of the other frames.
LEMMA TailOrder ==
    ASSUME NEW s \in Seq(Frame), IsInjective(s), s # <<>>, NEW f, NEW g
    PROVE  Ordered(s, Tail(s), f, g)
<1>1. /\ Len(s) \in Nat \ {0}
      /\ Len(Tail(s)) = Len(s) - 1
      /\ \A i \in 1..Len(Tail(s)) : Tail(s)[i] = s[i + 1]
    BY HeadTailProperties, LenProperties, EmptySeq
<1>2. \A i \in 1..(Len(s) - 1) : Tail(s)[i] = IF i < 1 THEN s[i] ELSE s[i + 1]
    BY <1>1
<1>3. Len(Tail(s)) = Len(s) - 1 /\ 1 \in 1..Len(s)
    BY <1>1
<1>4. QED
    BY <1>2, <1>3, RemoveAtOrder

\* mark_not_evictable takes one frame out.
LEMMA MarkNotEvictableOrder ==
    ASSUME NEW s \in Seq(Frame), IsInjective(s), NEW x, NEW f, NEW g
    PROVE  Ordered(s, MarkNotEvictable(s, x), f, g)
<1>1. CASE Contains(s, x)
    <2>1. x \in ToSet(s)
        BY <1>1, ToSetFacts DEF Contains
    <2>2. PICK k \in 1..Len(s) : MarkNotEvictable(s, x) = RemoveAt(s, k)
        BY <2>1, RemoveFirstFacts DEF MarkNotEvictable
    <2>3. QED
        BY <2>2, RemoveAtFacts, RemoveAtOrder
<1>2. CASE ~Contains(s, x)
    <2>1. MarkNotEvictable(s, x) = s
        BY <1>2 DEF MarkNotEvictable, RemoveFirst, Contains
    <2>2. QED
        BY <2>1 DEF Ordered
<1>3. QED
    BY <1>1, <1>2

\* A victim that could not be written back is the only frame that moves.
LEMMA EvictionFailsOrder ==
    ASSUME IInv, NEW p \in PageId, EvictionFails(p), NEW f \in Frame, NEW g \in Frame,
           f # NextFrame
    PROVE  Ordered(lruList, lruList', f, g)
<1> DEFINE s == lruList
           x == NextFrame
           t == Tail(s)
<1>1. /\ s # <<>> /\ x = Head(s) /\ lruList' = MarkEvictable(t, x)
    BY DEF EvictionFails, NeedsWriteBack, SomeFrame, NextFrame, LruLeft
<1>2. s \in Seq(Frame) /\ IsInjective(s) /\ x \in Frame
    BY AcquireFacts DEF EvictionFails, IInv, Lists
<1>3. /\ t \in Seq(Frame) /\ Len(t) = Len(s) - 1 /\ Len(s) \in Nat
      /\ s[1] = x /\ \A i \in 1..Len(t) : t[i] = s[i + 1]
    BY <1>1, <1>2, HeadTailProperties, LenProperties
<1>4. Ordered(s, t, f, g)
    BY <1>1, <1>2, TailOrder
<1>5. Ordered(t, MarkEvictable(t, x), f, g)
    BY <1>2, <1>3, MarkEvictableOrder
<1>6. \A i, j \in 1..Len(s) : s[i] = s[j] => i = j
    BY <1>2, ToSetFacts
<1> HIDE DEF s, t, x
<1> SUFFICES ASSUME f # g, Contains(s, f), Contains(lruList', f), Contains(lruList', g),
                    Contains(s, g) => Before(s, f, g)
             PROVE  Before(lruList', f, g)
    BY DEF Ordered, s
<1>7. Contains(t, f)
    <2>1. PICK i \in 1..Len(s) : s[i] = f
        BY DEF Contains
    <2>2. i # 1
        BY <1>3, <2>1 DEF x
    <2>3. i - 1 \in 1..Len(t) /\ t[i - 1] = f
        BY <1>3, <2>1, <2>2
    <2>4. QED
        BY <2>3 DEF Contains
<1>8. Contains(t, g) => Before(t, f, g)
    <2>1. ASSUME Contains(t, g) PROVE Contains(s, g)
        <3>1. PICK i \in 1..Len(t) : t[i] = g
            BY <2>1 DEF Contains
        <3>2. i + 1 \in 1..Len(s) /\ s[i + 1] = g
            BY <1>3, <3>1
        <3>3. QED
            BY <3>2 DEF Contains
    <2>2. QED
        BY <1>4, <1>7, <2>1 DEF Ordered
<1>9. QED
    BY <1>1, <1>5, <1>7, <1>8 DEF Ordered

\* No step moves one frame before another that was unpinned earlier, except the
\* eviction that fails and unpins its victim again.
LEMMA LruStep ==
    ASSUME IInv, [Next]_vars, NEW f \in Frame, NEW g \in Frame,
           ~(f = NextFrame /\ \E p \in PageId : EvictionFails(p))
    PROVE  Ordered(lruList, lruList', f, g)
<1> DEFINE Kept == Ordered(lruList, lruList', f, g)
<1>1. /\ lruList \in Seq(Frame) /\ IsInjective(lruList)
      /\ pageTable \in [PageId -> Frame \cup {INVALID_FRAME_ID}]
      /\ heldPage \in [Client -> PageId \cup {INVALID_PAGE_ID}]
    BY DEF IInv, TypeOK, Lists
<1>2. ASSUME lruList' = lruList PROVE Kept
    BY <1>2 DEF Ordered
<1>3. ASSUME SomeFrame, lruList' = LruLeft PROVE Kept
    BY <1>1, <1>2, <1>3, TailOrder DEF LruLeft, SomeFrame
<1>4. ASSUME lruList' = <<>> PROVE Kept
    <2>1. Len(<<>>) = 0 /\ 1..0 = {}
        OBVIOUS
    <2>2. ~Contains(<<>>, f)
        BY <2>1 DEF Contains
    <2>3. QED
        BY <1>4, <2>2 DEF Ordered
<1>5. ASSUME NEW c \in Client, NEW p \in PageId, PinCached(c, p) PROVE Kept
    BY <1>1, <1>5, MarkNotEvictableOrder DEF PinCached
<1>6. ASSUME NEW c \in Client, NEW p \in PageId, FetchMiss(c, p) \/ NewPage(c, p)
      PROVE  Kept
    BY <1>3, <1>6 DEF FetchMiss, NewPage, Install
<1>7. ASSUME NEW p \in PageId, ReadFails(p) PROVE Kept
    BY <1>3, <1>7 DEF ReadFails
<1>8. ASSUME NEW p \in PageId, EvictionFails(p) PROVE Kept
    BY <1>8, EvictionFailsOrder
<1>9. ASSUME NEW c \in Client, NEW v \in Content, WriteBytes(c, v) PROVE Kept
    BY <1>2, <1>9 DEF WriteBytes
<1>10. ASSUME NEW c \in Client, NEW isDirty \in BOOLEAN, UnpinPage(c, isDirty) PROVE Kept
    <2> DEFINE h == pageTable[heldPage[c]]
    <2>1. heldPage[c] \in PageId
        BY <1>1, <1>10 DEF UnpinPage, Idle
    <2>2. h \in Frame \cup {INVALID_FRAME_ID}
        BY <1>1, <2>1
    <2>3. CASE h = INVALID_FRAME_ID \/ pinCount[h] <= 0
        BY <1>2, <1>10, <2>3 DEF UnpinPage
    <2>4. CASE ~(h = INVALID_FRAME_ID \/ pinCount[h] <= 0)
        <3>1. lruList' = IF pinCount[h] = 1 THEN MarkEvictable(lruList, h) ELSE lruList
            BY <1>10, <2>4 DEF UnpinPage
        <3>2. QED
            BY <1>1, <1>2, <2>2, <2>4, <3>1, MarkEvictableOrder
    <2>5. QED
        BY <2>3, <2>4
<1>11. ASSUME NEW pages, Flush(pages) PROVE Kept
    BY <1>2, <1>11 DEF Flush
<1>12. ASSUME NEW written, NEW torn, NEW synced \in BOOLEAN,
              Checkpoint(written, torn, synced) \/ Shutdown(written, torn, synced)
       PROVE  Kept
    BY <1>2, <1>4, <1>12 DEF Checkpoint, Shutdown, ForgetMemory
<1>13. ASSUME NEW p \in PageId, DeletePage(p) PROVE Kept
    BY <1>1, <1>13, MarkNotEvictableOrder DEF DeletePage
<1>14. ASSUME NEW lost, Crash(lost) PROVE Kept
    BY <1>4, <1>14 DEF Crash, ForgetMemory
<1>15. ASSUME UNCHANGED vars PROVE Kept
    BY <1>2, <1>15 DEF vars
<1> HIDE DEF Kept
<1>16. Kept
    BY <1>5, <1>6, <1>7, <1>8, <1>9, <1>10, <1>11, <1>12, <1>13, <1>14, <1>15
    DEF Next, FetchPage, NewOrFetchPage, FlushPage, FlushAllPages
<1>17. QED
    BY <1>16 DEF Kept

\* The replacer's order: a frame released earlier is dropped earlier, whatever
\* is pinned, released, read, flushed or deleted in between.
THEOREM LruOrderKept == Spec => LruKeepsOrder
<1> DEFINE Kept == \A f, g \in Frame :
          /\ f # g
          /\ Contains(lruList, f) /\ Contains(lruList', f) /\ Contains(lruList', g)
          /\ Contains(lruList, g) => Before(lruList, f, g)
          => \/ Before(lruList', f, g)
             \/ f = NextFrame /\ \E p \in PageId : EvictionFails(p)
<1>1. IInv /\ [Next]_vars => Kept
    BY LruStep DEF Ordered
<1>2. QED
    BY <1>1, Invariance, PTL DEF Spec, LruKeepsOrder
=============================================================================
