---------------------------- MODULE ExtentManager ----------------------------
(***************************************************************************)
(* Extent allocation (storage/extent_manager.cpp) over the chain of GAM    *)
(* pages (storage/storage_def.h).                                          *)
(*                                                                         *)
(* allocate_extent and deallocate_extent run under lock_.  Both follow the *)
(* next_page_id links of the chain, and every page access can fail and     *)
(* throw, so they are modelled step by step: `step` says where the call    *)
(* is, and the state a throw leaves behind is the one the next call starts *)
(* from.  The buffer pool matters in two ways: which pages are dirty in    *)
(* it, and how far the file reaches, which lags behind allocation until    *)
(* pages are written.                                                      *)
(*                                                                         *)
(* A page that is not a GAM page holds what its user wrote, and what a     *)
(* user writes to a GAM page is read as its bits, its hint and its link.   *)
(***************************************************************************)
EXTENDS Integers, Sequences, FiniteSets

CONSTANTS
    EXTENT_SIZE,    \* pages per extent (8 in the code)
    GAM_MAX_BITS,   \* extents per GAM page (32720 in the code)
    MaxExtent,      \* the last extent whose page ids fit page_id_t
    TouchedPages,   \* pages of allocated extents that their users write
    WrittenBits,    \* what they write, read as the bitmap of a GAM page,
    WrittenHints,   \* as its hint
    WrittenLinks    \* and as its next_page_id

ASSUME ExtentAssumption ==
    /\ EXTENT_SIZE \in Nat \ {0}
    /\ GAM_MAX_BITS \in Nat \ {0, 1}
    /\ MaxExtent \in Nat \ {0}
    /\ TouchedPages \subseteq 0..((MaxExtent + 1) * EXTENT_SIZE - 1)
    /\ WrittenBits \subseteq SUBSET (0..(GAM_MAX_BITS - 1))
    /\ WrittenHints \subseteq 0..GAM_MAX_BITS
    /\ WrittenLinks \subseteq {-1} \cup 0..((MaxExtent + 1) * EXTENT_SIZE - 1)

INVALID_PAGE_ID == -1
FIRST_GAM_PAGE_ID == EXTENT_SIZE

Extent == 0..MaxExtent
PageId == 0..((MaxExtent + 1) * EXTENT_SIZE - 1)
Bit    == 0..(GAM_MAX_BITS - 1)
\* Negative ids other than INVALID_PAGE_ID, whose pages cannot be read, are
\* left out, and a hint of GAM_MAX_BITS stands for every larger one.
Link   == PageId \cup {INVALID_PAGE_ID}

\* extent_id_from_page, first_page_of_extent and the pages that follow it,
\* and the extent that bit b of the i-th GAM page (from 0) stands for.
ExtentOf(p)    == p \div EXTENT_SIZE
PagesOf(e)     == e * EXTENT_SIZE .. e * EXTENT_SIZE + EXTENT_SIZE - 1
\* Mutant: the GAM pages' ranges overlap by one extent.
ExtentAtOverlapping(i, b) == i * (GAM_MAX_BITS - 1) + b
ExtentAt(i, b) == i * GAM_MAX_BITS + b

VARIABLES
    bits,       \* GAMPage::bitmap of each page, read as a GAM page
    hint,       \* GAMPage::first_free_bit_hint
    next,       \* GAMPage::next_page_id
    cursor,     \* current_gam_page_id_
    cursorIdx,  \* current_gam_chain_index_
    step,       \* where the call that holds lock_ is
    newGam,     \* the GAM page create_and_link_new_gam has formatted
    target,     \* the extent that deallocate_extent frees
    gam,        \* the GAM page find_gam_page_at_index has come to
    gamIdx,     \* after so many links
    dirty,      \* pages dirty in the buffer pool
    fileSize,   \* get_file_size_in_pages()
    users,      \* history: how many live allocations there are of each extent
    chain,      \* history: the GAM pages in the order they were linked
    overwritten \* history: a user's write changed the link of one of them

gamVars  == <<bits, hint, next>>
walkVars == <<target, gam, gamIdx>>
poolVars == <<dirty, fileSize>>
linked   == <<chain, overwritten>>
vars == <<gamVars, cursor, cursorIdx, step, newGam, walkVars, users, poolVars, linked>>

-----------------------------------------------------------------------------
\* initialize_new_db: extents 0 and 1 are marked; their last pages have been
\* flushed to extend the file, the header and the GAM page are still dirty.
\* Every other page is zeroed (so is the header, which is never read as a GAM
\* page unless a link was overwritten).
Init ==
    /\ bits = [p \in PageId |-> IF p = FIRST_GAM_PAGE_ID THEN {0, 1} ELSE {}]
    /\ hint = [p \in PageId |-> 0]
    /\ next = [p \in PageId |-> IF p = FIRST_GAM_PAGE_ID THEN INVALID_PAGE_ID ELSE 0]
    /\ cursor = FIRST_GAM_PAGE_ID
    /\ cursorIdx = 0
    /\ step = "idle"
    /\ newGam = FIRST_GAM_PAGE_ID
    /\ target = 0
    /\ gam = FIRST_GAM_PAGE_ID
    /\ gamIdx = 0
    /\ users = [e \in Extent |-> 0]
    /\ dirty = {0, FIRST_GAM_PAGE_ID}
    /\ fileSize = 2 * EXTENT_SIZE
    /\ chain = <<FIRST_GAM_PAGE_ID>>
    /\ overwritten = FALSE

\* allocate_extent_in_gam_page looks from the hint to the end, then from 0.
Hint(g)     == IF hint[g] >= GAM_MAX_BITS THEN 0 ELSE hint[g]
FreeBits(g) == Bit \ bits[g]
ChosenBit(g, b) ==
    /\ b \in FreeBits(g)
    /\ \A a \in FreeBits(g) : (a >= Hint(g)) = (b >= Hint(g)) => b <= a
    /\ b < Hint(g) => \A a \in FreeBits(g) : a < Hint(g)

\* allocate_extent is called.
StartAllocation ==
    /\ step = "idle"
    /\ step' = "search"
    /\ UNCHANGED <<gamVars, cursor, cursorIdx, newGam, walkVars, users, poolVars, linked>>

\* claim_extent_at_bit, and the caller stores the GAM page.
ClaimExtent(b) ==
    /\ step \in {"search", "created"}
    /\ ChosenBit(cursor, b)
    /\ ExtentAt(cursorIdx, b) \in Extent
    /\ bits' = [bits EXCEPT ![cursor] = @ \cup {b}]
    /\ hint' = [hint EXCEPT ![cursor] = b + 1]
    /\ users' = [users EXCEPT ![ExtentAt(cursorIdx, b)] = @ + 1]
    /\ dirty' = dirty \cup {cursor}
    /\ step' = "idle"
    /\ UNCHANGED <<next, cursor, cursorIdx, newGam, walkVars, fileSize, linked>>

\* The page id would not fit page_id_t: the copy of the GAM page that has the
\* bit set is thrown away with the exception.
PageIdOverflow(b) ==
    /\ step \in {"search", "created"}
    /\ ChosenBit(cursor, b)
    /\ ExtentAt(cursorIdx, b) \notin Extent
    /\ step' = "idle"
    /\ UNCHANGED <<gamVars, cursor, cursorIdx, newGam, walkVars, users, poolVars, linked>>

LastGam == next[cursor] = INVALID_PAGE_ID

\* Mutant: a full page sends the search back to the first GAM page.
AdvanceToFirst ==
    /\ step = "search"
    /\ FreeBits(cursor) = {}
    /\ ~LastGam
    /\ cursor' = FIRST_GAM_PAGE_ID
    /\ cursorIdx' = 0
    /\ UNCHANGED <<gamVars, step, newGam, walkVars, users, poolVars, linked>>

\* advance_gam_cursor to the next page of the chain.
AdvanceGamCursor ==
    /\ step = "search"
    /\ FreeBits(cursor) = {}
    /\ ~LastGam
    /\ cursor' = next[cursor]
    /\ cursorIdx' = cursorIdx + 1
    /\ UNCHANGED <<gamVars, step, newGam, walkVars, users, poolVars, linked>>

\* create_and_link_new_gam: the next page of the GAM page's own extent, or
\* else the first page past the end of the file.
FitsInCurrentExtent == ExtentOf(cursor + 1) = ExtentOf(cursor)
NewGamPage == IF FitsInCurrentExtent THEN cursor + 1 ELSE fileSize

\* A page that is dirty in the pool is refused, by new_page because it is
\* cached and then because a page that is dirty cannot be new.
NewGamRefused ==
    /\ step = "search"
    /\ FreeBits(cursor) = {}
    /\ LastGam
    /\ NewGamPage \notin PageId \ dirty
    /\ step' = "idle"
    /\ UNCHANGED <<gamVars, cursor, cursorIdx, newGam, walkVars, users, poolVars, linked>>

\* The page is formatted.
CreateNewGam ==
    /\ step = "search"
    /\ FreeBits(cursor) = {}
    /\ LastGam
    /\ NewGamPage \in PageId \ dirty
    /\ bits' = [bits EXCEPT ![NewGamPage] = IF FitsInCurrentExtent THEN {} ELSE {0}]
    /\ hint' = [hint EXCEPT ![NewGamPage] = 0]
    /\ next' = [next EXCEPT ![NewGamPage] = INVALID_PAGE_ID]
    /\ newGam' = NewGamPage
    /\ dirty' = dirty \cup {NewGamPage}
    /\ step' = "link"
    /\ UNCHANGED <<cursor, cursorIdx, walkVars, users, fileSize, linked>>

\* The old GAM page is read again and gets its next_page_id, and the cursor
\* moves on.
LinkNewGam ==
    /\ step = "link"
    /\ next' = [next EXCEPT ![cursor] = newGam]
    /\ dirty' = dirty \cup {cursor}
    /\ cursor' = newGam
    /\ cursorIdx' = cursorIdx + 1
    /\ step' = "created"
    /\ chain' = Append(chain, newGam)
    /\ overwritten' = (overwritten \/ next[newGam] # INVALID_PAGE_ID)
    /\ UNCHANGED <<bits, hint, newGam, walkVars, users, fileSize>>

\* deallocate_extent is called by the user of extent e; extent 0 is refused.
StartDeallocation(e) ==
    /\ step = "idle"
    /\ users[e] > 0
    /\ e # 0
    /\ step' = "find"
    /\ target' = e
    /\ gam' = FIRST_GAM_PAGE_ID
    /\ gamIdx' = 0
    /\ UNCHANGED <<gamVars, cursor, cursorIdx, newGam, users, poolVars, linked>>

\* find_gam_page_at_index follows a link.
FollowGamLink ==
    /\ step = "find"
    /\ gamIdx < target \div GAM_MAX_BITS
    /\ next[gam] # INVALID_PAGE_ID
    /\ gam' = next[gam]
    /\ gamIdx' = gamIdx + 1
    /\ UNCHANGED <<gamVars, cursor, cursorIdx, step, newGam, target, users, poolVars, linked>>

\* The call returns or throws, and its local variables are gone.
EndCall ==
    /\ step' = "idle"
    /\ target' = 0
    /\ gam' = FIRST_GAM_PAGE_ID
    /\ gamIdx' = 0

\* Any page access of a call can fail, and throws out of it.  So does a chain
\* that is too short for the extent to be freed, and a GAM page that is full
\* right after it was linked makes allocate_extent return INVALID_PAGE_ID.
CallFails ==
    /\ step # "idle"
    /\ EndCall
    /\ UNCHANGED <<gamVars, cursor, cursorIdx, newGam, users, poolVars, linked>>

\* Mutant: the hint is left where it is.
HintKept(h, bit) == h

\* clear_extent_bit rewinds the hint to a lower bit.
RewoundHint(h, bit) == IF bit < h THEN bit ELSE h

\* Mutant: the chain index is rewound and the page is not.
RewindIndexOnly(idx, page) ==
    /\ cursorIdx' = IF idx < cursorIdx THEN idx ELSE cursorIdx
    /\ UNCHANGED cursor

\* Mutant: the cursor is left where it is.
NoRewind(idx, page) == UNCHANGED <<cursorIdx, cursor>>

\* It rewinds the cursor to an earlier GAM page.
RewindCursor(idx, page) ==
    IF idx < cursorIdx THEN cursorIdx' = idx /\ cursor' = page
    ELSE UNCHANGED <<cursorIdx, cursor>>

\* clear_extent_bit in the GAM page that was found.
ClearExtentBit ==
    LET bit == target % GAM_MAX_BITS
    IN  /\ step = "find"
        /\ gamIdx = target \div GAM_MAX_BITS
        /\ users' = [users EXCEPT ![target] = @ - 1]
        /\ bits' = [bits EXCEPT ![gam] = @ \ {bit}]
        /\ hint' = [hint EXCEPT ![gam] = RewoundHint(@, bit)]
        /\ dirty' = dirty \cup {gam}
        /\ RewindCursor(gamIdx, gam)
        /\ EndCall
        /\ UNCHANGED <<next, newGam, fileSize, linked>>

-----------------------------------------------------------------------------
(* The buffer pool and the users of the extents *)

\* A user writes a page of an extent it was given, whatever the page held: in
\* a GAM page it overwrites the bitmap, the hint and the link.
TouchPage(p) ==
    /\ p \in TouchedPages
    /\ \E e \in Extent : users[e] > 0 /\ p \in PagesOf(e)
    /\ \E b \in WrittenBits, h \in WrittenHints, n \in WrittenLinks :
          /\ bits' = [bits EXCEPT ![p] = b]
          /\ hint' = [hint EXCEPT ![p] = h]
          /\ next' = [next EXCEPT ![p] = n]
          /\ overwritten' = (\/ overwritten
                             \/ n # next[p] /\ \E i \in 1..Len(chain) : chain[i] = p)
    /\ dirty' = dirty \cup {p}
    /\ UNCHANGED <<cursor, cursorIdx, step, newGam, walkVars, users, fileSize, chain>>

\* The pool writes a dirty page back.
WriteBackPage(p) ==
    /\ p \in dirty
    /\ dirty' = dirty \ {p}
    /\ fileSize' = IF fileSize <= p THEN p + 1 ELSE fileSize
    /\ UNCHANGED <<gamVars, cursor, cursorIdx, step, newGam, walkVars, users, linked>>

\* An orderly restart: all pages are written, the cursor starts over.
Restart ==
    /\ step = "idle"
    /\ dirty' = {}
    /\ fileSize' \in {fileSize} \cup {p + 1 : p \in dirty}
    /\ \A n \in {fileSize} \cup {p + 1 : p \in dirty} : n <= fileSize'
    /\ cursor' = FIRST_GAM_PAGE_ID
    /\ cursorIdx' = 0
    /\ newGam' = FIRST_GAM_PAGE_ID
    /\ UNCHANGED <<gamVars, step, walkVars, users, linked>>

CallStep ==
    \/ \E b \in Bit : ClaimExtent(b) \/ PageIdOverflow(b)
    \/ AdvanceGamCursor
    \/ NewGamRefused
    \/ CreateNewGam
    \/ LinkNewGam
    \/ FollowGamLink
    \/ ClearExtentBit

Next ==
    \/ StartAllocation
    \/ \E b \in Bit : ClaimExtent(b)
    \/ \E b \in Bit : PageIdOverflow(b)
    \/ AdvanceGamCursor
    \/ NewGamRefused
    \/ CreateNewGam
    \/ LinkNewGam
    \/ \E e \in Extent : StartDeallocation(e)
    \/ FollowGamLink
    \/ ClearExtentBit
    \/ CallFails
    \/ \E p \in PageId : TouchPage(p)
    \/ \E p \in PageId : WriteBackPage(p)
    \/ Restart

Spec == Init /\ [][Next]_vars

\* The thread that allocates or frees keeps running while it holds lock_.
FairSpec == Spec /\ WF_vars(CallStep)

-----------------------------------------------------------------------------
(* Properties *)

\* The cursor is the pair the page-id formula needs: current_gam_page_id_ is
\* the page at position current_gam_chain_index_ of the chain, and no page is
\* in the chain twice.
CursorInChain ==
    /\ cursorIdx < Len(chain)
    /\ cursor = chain[cursorIdx + 1]
    /\ \A i, j \in 1..Len(chain) : i < j => chain[i] < chain[j]

\* Every variable has its type, and the cursor is in the chain for as long as
\* no user has overwritten the link of a GAM page.
TypeOK ==
    /\ bits \in [PageId -> SUBSET Bit]
    /\ hint \in [PageId -> 0..GAM_MAX_BITS]
    /\ next \in [PageId -> Link]
    /\ cursor \in PageId
    /\ cursorIdx \in Nat
    /\ step \in {"idle", "search", "link", "created", "find"}
    /\ newGam \in PageId
    /\ target \in Extent
    /\ gam \in PageId
    /\ gamIdx \in Nat
    /\ users \in [Extent -> Nat]
    /\ dirty \subseteq PageId
    /\ fileSize \in Nat
    /\ chain \in Seq(PageId) /\ chain # <<>>
    /\ overwritten \in BOOLEAN
    /\ ~overwritten => CursorInChain

\* The hint and the cursor only skip what is allocated: no extent is free
\* below the hint of its GAM page or in a GAM page before the cursor, so that
\* a freed extent is always found again.
NothingFreeIsSkipped ==
    /\ \A i \in 1..Len(chain) : \A b \in Bit : b < hint[chain[i]] => b \in bits[chain[i]]
    /\ \A i \in 1..cursorIdx : FreeBits(chain[i]) = {}

\* No extent has two users, and an extent has a user iff its bit is set, the
\* extents that are marked without a user aside.
Marked == {e \in Extent : \E i \in 1..Len(chain) : \E b \in bits[chain[i]] :
                             e = ExtentAt(i - 1, b)}
SelfProtected == {e \in Extent : \E i \in 2..Len(chain) :
                     /\ e = ExtentAt(i - 1, 0)
                     /\ ExtentOf(chain[i]) # ExtentOf(chain[i - 1])}
OneUserPerExtent ==
    /\ \A e \in Extent : users[e] <= 1
    /\ Marked = {0, 1} \cup SelfProtected \cup {e \in Extent : users[e] = 1}

\* extent_manager.cpp:162 says: "GAM pages outside the dedicated GAM extent
\* live at the start of a new extent and must self-protect by marking bit 0 to
\* prevent that extent from being re-allocated."  So no GAM page is in an
\* extent that somebody was given.
GamPagesAreNotHandedOut ==
    \A i \in 1..Len(chain) : users[ExtentOf(chain[i])] = 0

\* As long as the chain stays in the GAM extent, allocation implements the
\* extent space: the lowest free extent first, across the whole chain,
\* whatever failed or was freed before and wherever the cursor is.
Space == INSTANCE ExtentSpace WITH
    Reserved <- {0, 1},
    used <- {e \in Extent : users[e] > 0}

ImplementsSpace == Space!Spec

\* An allocation and a deallocation come to an end, however long the chain.
AllocationEnds == step # "idle" ~> step = "idle"
=============================================================================
