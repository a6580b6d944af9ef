------------------------------ MODULE BufferPool -----------------------------
(***************************************************************************)
(* The buffer pool (buffer/buffer_pool_manager.cpp), its LRU replacer      *)
(* (buffer/lru_replacer.cpp) and the page file below it                    *)
(* (storage/disk_manager.cpp).                                             *)
(*                                                                         *)
(* Every public method runs under latch_ and is one action.  What happens  *)
(* outside the latch is the interleaving: a caller that holds a pin writes *)
(* the bytes of its frame whenever it likes, and only its unpin_page call  *)
(* tells the pool that it did.  A Client stands for one such pin: a thread *)
(* that holds three pages at once is three clients.                        *)
(*                                                                         *)
(* Every disk operation may fail: a read past the end of the file always   *)
(* does; a write that fails may have changed the page already (pwrite      *)
(* returned less than PAGE_SIZE), which leaves it Torn.                    *)
(***************************************************************************)
EXTENDS Integers, Sequences, FiniteSets, SequencesExt

CONSTANTS
    Client,     \* the pins that may be held at the same time
    PoolSize,   \* number of frames
    MaxPage,    \* page ids are 0..MaxPage
    Content,    \* page contents that callers write
    Zero,       \* a zeroed page
    Torn        \* a page that a failed write has half overwritten

ASSUME PoolAssumption ==
    /\ PoolSize \in Nat \ {0}
    /\ MaxPage \in Nat
    /\ IsFiniteSet(Client)

INVALID_PAGE_ID  == -1
INVALID_FRAME_ID == -1

PageId == 0..MaxPage
Frame  == 0..(PoolSize - 1)
Bytes  == Content \cup {Zero, Torn}

VARIABLES
    pageId,     \* Page::page_id_ of each frame
    pinCount,   \* Page::pin_count_
    dirty,      \* Page::is_dirty_
    data,       \* the frame's slice of page_data_buffer_
    pageTable,  \* page_table_: the frame of each cached page
    freeList,   \* free_list_
    lruList,    \* LRUPageReplacer::lru_list_, oldest first
    disk,       \* the file: bytes of each page (Zero in a hole)
    fileSize,   \* get_file_size_in_pages()
    unsynced,   \* pages written since the last successful fsync
    heldPage,   \* the page each client has pinned
    heldFrame,  \* the Page* it was given
    wrote       \* the client wrote through its Page* since it got it

frameVars  == <<pageId, pinCount, dirty, data>>
diskVars   == <<disk, fileSize, unsynced>>
clientVars == <<heldPage, heldFrame, wrote>>
vars == <<frameVars, pageTable, freeList, lruList, diskVars, clientVars>>

-----------------------------------------------------------------------------
(* LRUPageReplacer *)

\* Mutant: the frame is put where the next victim is taken from.
MarkEvictableAtFront(list, f) == IF Contains(list, f) THEN list ELSE <<f>> \o list

\* mark_evictable: the most recently used frame goes to the back, once.
MarkEvictable(list, f) == IF Contains(list, f) THEN list ELSE Append(list, f)

\* Mutant: a frame that is pinned again stays evictable.
MarkNotEvictableForgotten(list, f) == list

\* mark_not_evictable: nothing to do for a frame that is not tracked.
MarkNotEvictable(list, f) == RemoveFirst(list, f)

-----------------------------------------------------------------------------
(* DiskManager *)

\* The file ends after the last page that was ever written whole.
GrowFile(sizes) ==
    /\ fileSize' \in {fileSize} \cup sizes
    /\ \A n \in {fileSize} \cup sizes : n <= fileSize'

\* Mutant: the file is counted one page too long.
WritePagesTooLong(written, torn) ==
    /\ disk' = [p \in PageId |-> IF p \in written THEN data[pageTable[p]]
                                 ELSE IF p \in torn THEN Torn ELSE disk[p]]
    /\ GrowFile({p + 2 : p \in written} \cup torn)

\* write_page, for the pages in `written` whole and for those in `torn` cut
\* short.  A short write past the end of the file extends it without
\* completing the page.
WritePages(written, torn) ==
    /\ disk' = [p \in PageId |-> IF p \in written THEN data[pageTable[p]]
                                 ELSE IF p \in torn THEN Torn ELSE disk[p]]
    /\ GrowFile({p + 1 : p \in written} \cup torn)

\* The operating system has these pages, the storage device may not.
WriteUnsynced(written, torn) ==
    /\ WritePages(written, torn)
    /\ unsynced' = unsynced \cup written \cup torn

\* read_page: pread returns fewer than PAGE_SIZE bytes past the end.
Readable(p, size) == p < size

-----------------------------------------------------------------------------
Init ==
    /\ pageId    = [f \in Frame |-> INVALID_PAGE_ID]
    /\ pinCount  = [f \in Frame |-> 0]
    /\ dirty     = [f \in Frame |-> FALSE]
    /\ data      = [f \in Frame |-> Zero]
    /\ pageTable = [p \in PageId |-> INVALID_FRAME_ID]
    /\ freeList  = [i \in 1..PoolSize |-> i - 1]
    /\ lruList   = <<>>
    /\ disk      = [p \in PageId |-> Zero]
    /\ fileSize  = 0
    /\ unsynced  = {}
    /\ heldPage  = [c \in Client |-> INVALID_PAGE_ID]
    /\ heldFrame = [c \in Client |-> INVALID_FRAME_ID]
    /\ wrote     = [c \in Client |-> FALSE]

Cached(p) == pageTable[p] # INVALID_FRAME_ID
Idle(c)   == heldPage[c] = INVALID_PAGE_ID

\* A client gets the Page* of frame f and becomes responsible for one unpin.
Handle(c, p, f) ==
    /\ heldPage'  = [heldPage EXCEPT ![c] = p]
    /\ heldFrame' = [heldFrame EXCEPT ![c] = f]
    /\ UNCHANGED wrote

\* The cached branch of fetch_page and of new_or_fetch_page.
PinCached(c, p) ==
    /\ Idle(c)
    /\ Cached(p)
    /\ LET f == pageTable[p]
       IN  /\ pinCount' = [pinCount EXCEPT ![f] = @ + 1]
           /\ lruList' = MarkNotEvictable(lruList, f)
           /\ Handle(c, p, f)
    /\ UNCHANGED <<pageId, dirty, data, pageTable, freeList, diskVars>>

\* acquire_frame: the frame it tries, and the two lists once it has taken it.
SomeFrame == freeList # <<>> \/ lruList # <<>>
NextFrame == IF freeList # <<>> THEN Head(freeList) ELSE Head(lruList)
FreeLeft  == IF freeList # <<>> THEN Tail(freeList) ELSE freeList
LruNotPopped == lruList     \* Mutant: the victim stays in the replacer.
LruLeft   == IF freeList # <<>> THEN lruList ELSE Tail(lruList)

NeedsWriteBack(f) == freeList = <<>> /\ dirty[f]

\* Mutant: a dirty victim is dropped.
EvictWithoutWriteBack(f) == UNCHANGED diskVars

\* The victim's page reaches the disk before the frame is given away.
EvictVictim(f) ==
    IF NeedsWriteBack(f)
    THEN WriteUnsynced({pageId[f]}, {})
    ELSE UNCHANGED diskVars

\* Mutant: the victim keeps its entry.
StillMapped(f) == pageTable

\* page_table_ without the victim's entry.
Unmapped(f) == [p \in PageId |-> IF pageTable[p] = f THEN INVALID_FRAME_ID
                                 ELSE pageTable[p]]

\* acquire_frame fails to write its victim back: the victim stays cached and
\* dirty, and is evictable again as the most recently used frame.
EvictionFails(p) ==
    /\ ~Cached(p)
    /\ SomeFrame
    /\ NeedsWriteBack(NextFrame)
    /\ \E torn \in SUBSET {pageId[NextFrame]} : WriteUnsynced({}, torn)
    /\ lruList' = MarkEvictable(LruLeft, NextFrame)
    /\ UNCHANGED <<frameVars, pageTable, freeList, clientVars>>

\* The frame f now holds page p for client c.
Install(c, p, f, bytes, isDirty) ==
    /\ pageId'    = [pageId EXCEPT ![f] = p]
    /\ pinCount'  = [pinCount EXCEPT ![f] = 1]
    /\ dirty'     = [dirty EXCEPT ![f] = isDirty]
    /\ data'      = [data EXCEPT ![f] = bytes]
    /\ pageTable' = [Unmapped(f) EXCEPT ![p] = f]
    /\ freeList'  = FreeLeft
    /\ lruList'   = LruLeft
    /\ Handle(c, p, f)

\* fetch_page on a miss: the page is read into the frame.
FetchMiss(c, p) ==
    /\ Idle(c)
    /\ ~Cached(p)
    /\ SomeFrame
    /\ EvictVictim(NextFrame)
    /\ Readable(p, fileSize')
    /\ Install(c, p, NextFrame, disk'[p], FALSE)

\* Page::reset
ResetFrame(f) ==
    /\ pageId'   = [pageId EXCEPT ![f] = INVALID_PAGE_ID]
    /\ pinCount' = [pinCount EXCEPT ![f] = 0]
    /\ dirty'    = [dirty EXCEPT ![f] = FALSE]
    /\ data'     = [data EXCEPT ![f] = Zero]

\* fetch_page when the read fails: the victim is gone all the same.
ReadFails(p) ==
    /\ ~Cached(p)
    /\ SomeFrame
    /\ EvictVictim(NextFrame)
    /\ ResetFrame(NextFrame)
    /\ pageTable' = Unmapped(NextFrame)
    /\ freeList'  = Append(FreeLeft, NextFrame)
    /\ lruList'   = LruLeft
    /\ UNCHANGED clientVars

FetchPage(c, p) == PinCached(c, p) \/ FetchMiss(c, p)

\* new_page, and new_or_fetch_page on a miss: a zeroed dirty frame, whatever
\* the file holds for the page.
NewPage(c, p) ==
    /\ Idle(c)
    /\ ~Cached(p)
    /\ SomeFrame
    /\ EvictVictim(NextFrame)
    /\ Install(c, p, NextFrame, Zero, TRUE)

NewOrFetchPage(c, p) == PinCached(c, p) \/ NewPage(c, p)

\* The caller changes bytes of the page it has pinned, without the latch.
WriteBytes(c, v) ==
    /\ ~Idle(c)
    /\ data'  = [data EXCEPT ![heldFrame[c]] = v]
    /\ wrote' = [wrote EXCEPT ![c] = TRUE]
    /\ UNCHANGED <<pageId, pinCount, dirty, pageTable, freeList, lruList,
                   diskVars, heldPage, heldFrame>>

Release(c) ==
    /\ heldPage'  = [heldPage EXCEPT ![c] = INVALID_PAGE_ID]
    /\ heldFrame' = [heldFrame EXCEPT ![c] = INVALID_FRAME_ID]
    /\ wrote'     = [wrote EXCEPT ![c] = FALSE]

\* unpin_page finds the frame by page id, not by the caller's Page*.
UnpinPage(c, isDirty) ==
    /\ ~Idle(c)
    /\ wrote[c] => isDirty
    /\ LET f == pageTable[heldPage[c]]
       IN  IF f = INVALID_FRAME_ID \/ pinCount[f] <= 0
           THEN UNCHANGED <<dirty, pinCount, lruList>>
           ELSE /\ dirty'    = [dirty EXCEPT ![f] = @ \/ isDirty]
                /\ pinCount' = [pinCount EXCEPT ![f] = @ - 1]
                /\ lruList'  = IF pinCount[f] = 1 THEN MarkEvictable(lruList, f)
                               ELSE lruList
    /\ Release(c)
    /\ UNCHANGED <<pageId, data, pageTable, freeList, diskVars>>

\* Mutant: pinned pages are not flushed.
DirtyUnpinnedPages ==
    {p \in PageId : Cached(p) /\ dirty[pageTable[p]] /\ pinCount[pageTable[p]] = 0}

DirtyPages == {p \in PageId : Cached(p) /\ dirty[pageTable[p]]}

\* Mutant: a page whose write failed is clean too.
AllClean(written) == dirty' = [f \in Frame |-> FALSE]

\* Dirty pages written whole are clean; a page whose write failed stays dirty.
CleanAfter(written) == dirty' = [f \in Frame |-> dirty[f] /\ pageId[f] \notin written]

Flush(pages) ==
    /\ \E written \in SUBSET pages : \E torn \in SUBSET (pages \ written) :
          WriteUnsynced(written, torn) /\ CleanAfter(written)
    /\ UNCHANGED <<pageId, pinCount, data, pageTable, freeList, lruList, clientVars>>

FlushPage(p) == p \in DirtyPages /\ Flush({p})

\* force_flush; flush_all_pages does the same and counts the failures.
FlushAllPages == Flush(DirtyPages)

\* checkpoint: flush_all_pages, then fsync whether or not every flush
\* succeeded; true iff both did.  latch_ is free between the two, but the
\* program checkpoints only in the destructor, where nobody else may call.
FlushAndSync(written, torn, synced) ==
    /\ written \subseteq DirtyPages
    /\ torn \subseteq DirtyPages \ written
    /\ unsynced' = IF synced THEN {} ELSE unsynced \cup written \cup torn
    /\ WritePages(written, torn)

Checkpoint(written, torn, synced) ==
    /\ FlushAndSync(written, torn, synced)
    /\ CleanAfter(written)
    /\ UNCHANGED <<pageId, pinCount, data, pageTable, freeList, lruList, clientVars>>

\* delete_page: whatever the frame holds is dropped, written back or not.
DeletePage(p) ==
    /\ Cached(p)
    /\ pinCount[pageTable[p]] <= 0
    /\ LET f == pageTable[p]
       IN  /\ ResetFrame(f)
           /\ lruList'   = MarkNotEvictable(lruList, f)
           /\ freeList'  = Append(freeList, f)
           /\ pageTable' = [pageTable EXCEPT ![p] = INVALID_FRAME_ID]
    /\ UNCHANGED <<diskVars, clientVars>>

\* Nothing but the file is left, and the constructor runs again.
ForgetMemory ==
    /\ pageId'    = [f \in Frame |-> INVALID_PAGE_ID]
    /\ pinCount'  = [f \in Frame |-> 0]
    /\ dirty'     = [f \in Frame |-> FALSE]
    /\ data'      = [f \in Frame |-> Zero]
    /\ pageTable' = [p \in PageId |-> INVALID_FRAME_ID]
    /\ freeList'  = [i \in 1..PoolSize |-> i - 1]
    /\ lruList'   = <<>>
    /\ heldPage'  = [c \in Client |-> INVALID_PAGE_ID]
    /\ heldFrame' = [c \in Client |-> INVALID_FRAME_ID]
    /\ wrote'     = [c \in Client |-> FALSE]

\* The destructor checkpoints, pins or not, and the database is reopened.
Shutdown(written, torn, synced) ==
    /\ FlushAndSync(written, torn, synced)
    /\ ForgetMemory

\* The process dies, and the machine with it when pages are lost.
Crash(lost) ==
    /\ lost \subseteq unsynced
    /\ disk' = [p \in PageId |-> IF p \in lost THEN Torn ELSE disk[p]]
    /\ unsynced' = unsynced \ lost
    /\ UNCHANGED fileSize
    /\ ForgetMemory

Next ==
    \/ \E c \in Client, p \in PageId : FetchPage(c, p)
    \/ \E c \in Client, p \in PageId : NewPage(c, p)
    \/ \E c \in Client, p \in PageId : NewOrFetchPage(c, p)
    \/ \E p \in PageId : ReadFails(p)
    \/ \E p \in PageId : EvictionFails(p)
    \/ \E c \in Client, v \in Content : WriteBytes(c, v)
    \/ \E c \in Client, isDirty \in BOOLEAN : UnpinPage(c, isDirty)
    \/ \E p \in PageId : FlushPage(p)
    \/ FlushAllPages
    \/ \E written, torn \in SUBSET DirtyPages, synced \in BOOLEAN :
          Checkpoint(written, torn, synced)
    \/ \E p \in PageId : DeletePage(p)
    \/ \E written, torn \in SUBSET DirtyPages, synced \in BOOLEAN :
          Shutdown(written, torn, synced)
    \/ \E lost \in SUBSET unsynced : Crash(lost)

Spec == Init /\ [][Next]_vars

-----------------------------------------------------------------------------
(* Properties *)

TypeOK ==
    /\ pageId \in [Frame -> PageId \cup {INVALID_PAGE_ID}]
    /\ pinCount \in [Frame -> Nat]
    /\ dirty \in [Frame -> BOOLEAN]
    /\ data \in [Frame -> Bytes]
    /\ pageTable \in [PageId -> Frame \cup {INVALID_FRAME_ID}]
    /\ freeList \in Seq(Frame)
    /\ lruList \in Seq(Frame)
    /\ disk \in [PageId -> Bytes]
    /\ fileSize \in 0..(MaxPage + 1)
    /\ unsynced \subseteq PageId
    /\ heldPage \in [Client -> PageId \cup {INVALID_PAGE_ID}]
    /\ heldFrame \in [Client -> Frame \cup {INVALID_FRAME_ID}]
    /\ wrote \in [Client -> BOOLEAN]

\* No frame is lost and none is in two places: a frame is on the free list
\* iff it caches nothing, in the replacer iff it caches a page nobody has
\* pinned, and on neither list twice.
FrameAccounting ==
    /\ IsInjective(freeList)
    /\ IsInjective(lruList)
    /\ \A f \in Frame :
          /\ Contains(freeList, f) <=> pageId[f] = INVALID_PAGE_ID
          /\ Contains(lruList, f) <=> pageId[f] # INVALID_PAGE_ID /\ pinCount[f] = 0

\* The page table and the frames say the same, so that no page is cached in
\* two frames and none is cached under a name the table has lost.
PageTableConsistent ==
    \A p \in PageId, f \in Frame : pageTable[p] = f <=> pageId[f] = p

\* A Page* stays the page it was handed out for until its own unpin, whatever
\* the other callers do, and each frame counts exactly the pins held on it.
PinsMatchHolders ==
    /\ \A c \in Client : ~Idle(c) => /\ heldFrame[c] \in Frame
                                     /\ pageId[heldFrame[c]] = heldPage[c]
    /\ \A f \in Frame :
          pinCount[f] = Cardinality({c \in Client : heldFrame[c] = f})

\* Somebody has changed the page and not said so yet.
BeingWritten(p) == \E c \in Client : heldPage[c] = p /\ wrote[c]

\* A page that is clean and has no unannounced writer is on the disk as the
\* pool has it, and can be read back: dropping its frame loses nothing.
CleanMatchesDisk ==
    \A f \in Frame :
        pageId[f] # INVALID_PAGE_ID /\ ~dirty[f] /\ ~BeingWritten(pageId[f])
            => /\ data[f] = disk[pageId[f]]
               /\ Readable(pageId[f], fileSize)

\* What a caller that pins page p sees.
CurrentContent(p) == IF Cached(p) THEN data[pageTable[p]] ELSE disk[p]

\* When checkpoint returns true, or the destructor meets no error, every page
\* without an unannounced writer is on the storage device as callers last
\* left it: what was evicted, flushed earlier or clean included.
CheckpointIsDurable ==
    [][Checkpoint(DirtyPages, {}, TRUE) \/ Shutdown(DirtyPages, {}, TRUE)
        => \A p \in PageId : ~BeingWritten(p) =>
              /\ disk'[p] = CurrentContent(p)
              /\ p \notin unsynced'
              /\ Cached(p) => Readable(p, fileSize')]_vars

\* The replacer only ever drops the frame released longest ago: two frames
\* that stay evictable keep their order, unless the first is the victim
\* acquire_frame failed to write back, and a newcomer goes behind them.
Before(list, f, g) ==
    \E i, j \in 1..Len(list) : i < j /\ list[i] = f /\ list[j] = g

LruKeepsOrder ==
    [][\A f, g \in Frame :
          /\ f # g
          /\ Contains(lruList, f) /\ Contains(lruList', f) /\ Contains(lruList', g)
          /\ Contains(lruList, g) => Before(lruList, f, g)
          => \/ Before(lruList', f, g)
             \/ f = NextFrame /\ \E p \in PageId : EvictionFails(p)]_vars

\* The pool implements the page store: callers that share pages through it,
\* with evictions, flushes and failing disk operations in between, see one
\* current content per page, and lose only what delete_page, a crash or an
\* unannounced write at a shutdown loses.
Store == INSTANCE PageStore WITH
    NoPage  <- INVALID_PAGE_ID,
    content <- [p \in PageId |-> CurrentContent(p)],
    stored  <- disk,
    open    <- heldPage

ImplementsStore == Store!Spec
=============================================================================
