----------------------------- MODULE TableManager ----------------------------
(***************************************************************************)
(* The statements that run on one table: INSERT, the scan of SELECT and    *)
(* DELETE, and COMPACT (storage/table_manager.cpp, table_scanner.cpp, and  *)
(* execute_delete in sql/executor.cpp).                                    *)
(*                                                                         *)
(* The engine runs one statement at a time; the steps of a statement are   *)
(* its page accesses, each of which can fail.  Pages are the row pages of  *)
(* module RowSlots; which extents are the table's is a list, as module     *)
(* IamManager implements it, and every page of an extent that is listed    *)
(* has been formatted.  The hint outlives a removal that fails half-way,   *)
(* and can lead an INSERT to a page that is no longer the table's; what    *)
(* becomes of the table then is not followed, here as in TableStorage.     *)
(***************************************************************************)
EXTENDS Integers, Sequences, FiniteSets, SequencesExt

CONSTANTS
    PAGE_SIZE, HEADER_SIZE, SLOT_SIZE,
    Payload, Sizes,     \* rows, as in module SlottedPage
    EXTENT_SIZE,        \* pages per extent
    MaxExtent,          \* data extents are 0..MaxExtent
    UINT32              \* PageStats::free_space counts modulo this (2^32)

ASSUME TableAssumption ==
    /\ {PAGE_SIZE, HEADER_SIZE, SLOT_SIZE, EXTENT_SIZE} \subseteq Nat \ {0}
    /\ HEADER_SIZE < PAGE_SIZE
    /\ Sizes \subseteq Nat \ {0}
    /\ MaxExtent \in Nat
    /\ UINT32 \in Nat /\ UINT32 > PAGE_SIZE

Tuple == [payload : Payload, size : Sizes]
NoRow == [payload |-> "none", size |-> 0]

Extent  == 0..MaxExtent
PageId  == 0..((MaxExtent + 1) * EXTENT_SIZE - 1)
INVALID_PAGE_ID == -1

ExtentOf(p)  == p \div EXTENT_SIZE
PagesOf(e)   == [k \in 1..EXTENT_SIZE |-> e * EXTENT_SIZE + k - 1]

VARIABLES
    pages,      \* the rows of each page
    extents,    \* the table's extents, in the order of its IAM chain
    used,       \* the data extents that are marked in the GAM
    hint,       \* the page where IamManager looks for room first
    astray,     \* a row has gone to a page that is not the table's
    stmt,       \* the statement that runs, or the phase of COMPACT
    current,    \* the page that INSERT or a scan has pinned, or COMPACT's source
    todo,       \* pages or extents that are still to be visited
    slot,       \* the next slot to be visited
    where,      \* the rows that the WHERE clause of a DELETE matches
    seen,       \* how many copies of each row the scan has returned
    skipped,    \* the scan has passed over a page it could not fetch
    stats       \* COMPACT's PageStats, by ascending live_count

extentVars == <<extents, used, hint, astray>>
tableVars == <<pages, extentVars>>
scanVars  == <<where, seen, skipped>>
vars == <<tableVars, stmt, current, todo, slot, scanVars, stats>>

Slots == INSTANCE RowSlots WITH page <- pages

NoRowsSeen == [t \in Tuple |-> 0]

Init ==
    /\ pages = [p \in PageId |-> Slots!NoRows]
    /\ extents = <<>>
    /\ used = {}
    /\ hint = INVALID_PAGE_ID
    /\ astray = FALSE
    /\ stmt = "idle"
    /\ current = INVALID_PAGE_ID
    /\ todo = <<>>
    /\ slot = 1
    /\ where = {}
    /\ seen = NoRowsSeen
    /\ skipped = FALSE
    /\ stats = <<>>

ListedPages == {p \in PageId : ExtentOf(p) \in ToSet(extents)}
TablePages ==
    [n \in 1..(Len(extents) * EXTENT_SIZE) |->
        PagesOf(extents[(n - 1) \div EXTENT_SIZE + 1])[((n - 1) % EXTENT_SIZE) + 1]]

\* The statement is over, and its local variables are gone.
EndStatement ==
    /\ stmt' = "idle"
    /\ current' = INVALID_PAGE_ID
    /\ todo' = <<>>
    /\ slot' = 1
    /\ where' = {}
    /\ seen' = NoRowsSeen
    /\ skipped' = FALSE
    /\ stats' = <<>>

-----------------------------------------------------------------------------
(* INSERT: insert_rows tries the page of the row before, then a page that  *)
(* find_page_with_space returns, then the first page of a new extent.      *)

\* Nothing is followed after a row has gone astray.
Inserting == stmt \in {"idle", "insert"} /\ ~astray

NoCurrentRoom(t) ==
    current # INVALID_PAGE_ID => ~Slots!HasRoom(pages[current], t)

PutRow(t, p) == pages' = [pages EXCEPT ![p] = Slots!InsertRow(@, t)]

InsertIntoCurrent(t) ==
    /\ stmt = "insert"
    /\ ~NoCurrentRoom(t)
    /\ PutRow(t, current)
    /\ UNCHANGED <<extentVars, stmt, current, todo, slot, scanVars, stats>>

\* find_page_with_space: the hint's page, a later one of its extent, or a page
\* of the chain that has room for the row and a slot.  A page that cannot be
\* fetched is passed over.  Nobody asks whether the hint's extent is listed.
HintedPages ==
    {p \in PageId : hint # INVALID_PAGE_ID /\ ExtentOf(p) = ExtentOf(hint) /\ p >= hint}

FindPage(t, p) ==
    /\ Inserting
    /\ NoCurrentRoom(t)
    /\ p \in HintedPages \cup ListedPages
    /\ t.size + SLOT_SIZE <= Slots!FreeSpace(pages[p])
    /\ hint' = p
    /\ UNCHANGED <<extents, used>>

InsertIntoFound(t, p) ==
    /\ FindPage(t, p)
    /\ p \in ListedPages
    /\ PutRow(t, p)
    /\ stmt' = "insert"
    /\ current' = p
    /\ UNCHANGED <<astray, todo, slot, scanVars, stats>>

\* The hint is of an extent that is no longer listed.  The page may have got
\* another user, and what becomes of either is not followed.
InsertAstray(t, p) ==
    /\ FindPage(t, p)
    /\ p \notin ListedPages
    /\ PutRow(t, p)
    /\ astray' = TRUE
    /\ EndStatement

\* The page that was found cannot be fetched once more.
FoundPageFails(t, p) ==
    /\ FindPage(t, p)
    /\ EndStatement
    /\ UNCHANGED <<pages, astray>>

\* Pages that cannot be fetched count as full, so that a new extent may be
\* taken at any time.  Its pages are formatted, whatever they hold.
NewExtent == Min(Extent \ used)
Formatted == [p \in PageId |-> IF ExtentOf(p) = NewExtent THEN Slots!NoRows ELSE pages[p]]

TakeExtent(t) ==
    /\ Inserting
    /\ NoCurrentRoom(t)
    /\ Extent \ used # {}
    /\ used' = used \cup {NewExtent}
    /\ UNCHANGED astray

TakeNewExtent(t) ==
    /\ TakeExtent(t)
    /\ extents' = Append(extents, NewExtent)
    /\ hint' = PagesOf(NewExtent)[1]

InsertIntoNewExtent(t) ==
    LET first == PagesOf(NewExtent)[1]
    IN  /\ TakeNewExtent(t)
        /\ Slots!HasRoom(Slots!NoRows, t)
        /\ pages' = [Formatted EXCEPT ![first] = Slots!InsertRow(@, t)]
        /\ stmt' = "insert"
        /\ current' = first
        /\ UNCHANGED <<todo, slot, scanVars, stats>>

\* The page cannot be fetched, or the row does not fit any page: the statement
\* ends, and the table keeps the extent.
AllocateForNothing(t) ==
    /\ TakeNewExtent(t)
    /\ pages' = Formatted
    /\ EndStatement

\* The IAM chain cannot be fetched or extended: the extent is lost.
AllocationFails(t) ==
    /\ TakeExtent(t)
    /\ EndStatement
    /\ UNCHANGED <<pages, extents, hint>>

\* No row is left, or a page for the next one cannot be had.
EndInsert ==
    /\ stmt = "insert"
    /\ EndStatement
    /\ UNCHANGED tableVars

\* The database is closed and opened again: the hints are gone.
Reopen ==
    /\ stmt = "idle"
    /\ hint' = INVALID_PAGE_ID
    /\ UNCHANGED <<pages, extents, used, astray, stmt, current, todo, slot, scanVars, stats>>

-----------------------------------------------------------------------------
(* SELECT and DELETE: TableScanner *)

StartScan(match) ==
    /\ stmt = "idle" /\ ~astray
    /\ stmt' = "scan"
    /\ todo' = TablePages
    /\ where' = match
    /\ UNCHANGED <<tableVars, current, slot, seen, skipped, stats>>

\* move_to_next_page
ScanNextPage ==
    /\ stmt = "scan"
    /\ current = INVALID_PAGE_ID
    /\ todo # <<>>
    /\ \/ current' = Head(todo) /\ UNCHANGED skipped
       \/ UNCHANGED current /\ skipped' = TRUE
    /\ todo' = Tail(todo)
    /\ slot' = 1
    /\ UNCHANGED <<tableVars, stmt, where, seen, stats>>

\* next returns a row, which DELETE removes before it asks for another one.
AtRow == current # INVALID_PAGE_ID /\ slot <= Len(pages[current].rows)

ScanRow ==
    /\ stmt = "scan"
    /\ AtRow
    /\ slot' = slot + 1
    /\ LET t == pages[current].rows[slot]
       IN  /\ seen' = IF t = NoRow THEN seen ELSE [seen EXCEPT ![t] = @ + 1]
           /\ pages' = IF t \in where
                       THEN [pages EXCEPT ![current] = Slots!DeleteRow(@, slot)]
                       ELSE pages
    /\ UNCHANGED <<extentVars, stmt, current, todo, where, skipped, stats>>

\* release_current_page
ScanPageDone ==
    /\ stmt = "scan"
    /\ current # INVALID_PAGE_ID
    /\ ~AtRow
    /\ current' = INVALID_PAGE_ID
    /\ slot' = 1
    /\ UNCHANGED <<tableVars, stmt, todo, scanVars, stats>>

\* An IAM page that cannot be fetched ends the scan with an exception.
EndScan ==
    /\ stmt = "scan"
    /\ current = INVALID_PAGE_ID
    /\ EndStatement
    /\ UNCHANGED tableVars

-----------------------------------------------------------------------------
(* COMPACT: compact_extents *)

PageStats(p) == [id |-> p, live |-> Cardinality(Slots!Taken(pages[p])),
                 free |-> Slots!FreeSpace(pages[p])]

\* survey_pages and the sort: any order of pages with the same live_count.
SurveyPages(fetched) ==
    {s \in SetToSeqs({PageStats(p) : p \in fetched}) :
        \A i, j \in DOMAIN s : i < j => s[i].live <= s[j].live}

StartCompaction(fetched) ==
    /\ stmt = "idle" /\ ~astray
    /\ fetched # {}
    /\ stmt' = "migrate"
    /\ stats' \in SurveyPages(fetched)
    /\ todo' = [i \in DOMAIN stats' |-> i]
    /\ UNCHANGED <<tableVars, current, slot, scanVars>>

\* migrate_tuples: the source pages are visited in the order of stats.
Source == stats[Head(todo)]

SkipSource ==
    /\ stmt = "migrate"
    /\ current = INVALID_PAGE_ID
    /\ todo # <<>>
    /\ todo' = Tail(todo)
    /\ UNCHANGED <<tableVars, stmt, current, slot, scanVars, stats>>

FetchSource ==
    /\ stmt = "migrate"
    /\ current = INVALID_PAGE_ID
    /\ todo # <<>>
    /\ Source.live > 0
    /\ current' = Source.id
    /\ slot' = 1
    /\ UNCHANGED <<tableVars, stmt, todo, scanVars, stats>>

\* The last page of the list that is not the source and that the list says
\* has room for the row.
Candidates(t) == {k \in DOMAIN stats : stats[k].id # current /\ stats[k].free >= t.size}
Destination(t) == stats[Max(Candidates(t))].id

\* The row stays: its slot is empty, no page has room, the destination cannot
\* be fetched or turns out to be full.
LeaveTuple ==
    /\ stmt = "migrate"
    /\ AtRow
    /\ slot' = slot + 1
    /\ UNCHANGED <<tableVars, stmt, current, todo, scanVars, stats>>

\* Mutant: the row is not removed from its source.
CopyRow(t, dst) == [pages EXCEPT ![dst] = Slots!InsertRow(@, t)]
MoveRow(t, dst) ==
    [pages EXCEPT ![dst] = Slots!InsertRow(@, t), ![current] = Slots!DeleteRow(@, slot)]

\* Mutant: PageStats::free_space becomes negative.
RoomLeftSigned(free, t) == free - (t.size + SLOT_SIZE)

\* The slot is counted, whether or not a gap was reused.
RoomLeft(free, t) == (free - (t.size + SLOT_SIZE)) % UINT32

MigrateTuple ==
    /\ stmt = "migrate"
    /\ AtRow
    /\ LET t == pages[current].rows[slot]
           k == Max(Candidates(t))
       IN  /\ t # NoRow
           /\ Candidates(t) # {}
           /\ Slots!HasRoom(pages[Destination(t)], t)
           /\ pages' = MoveRow(t, Destination(t))
           /\ stats' = [stats EXCEPT ![k].free = RoomLeft(@, t)]
    /\ slot' = slot + 1
    /\ UNCHANGED <<extentVars, stmt, current, todo, scanVars>>

SourceDone ==
    /\ stmt = "migrate"
    /\ current # INVALID_PAGE_ID
    /\ ~AtRow
    /\ current' = INVALID_PAGE_ID
    /\ todo' = Tail(todo)
    /\ slot' = 1
    /\ UNCHANGED <<tableVars, stmt, scanVars, stats>>

\* Every page that can be fetched is compacted.
Defragment(fetched) ==
    /\ stmt = "migrate"
    /\ todo = <<>>
    /\ pages' = [p \in PageId |-> IF p \in fetched THEN Slots!CompactRows(pages[p])
                                  ELSE pages[p]]
    /\ stmt' = "free"
    /\ todo' = extents
    /\ stats' = <<>>
    /\ UNCHANGED <<extentVars, current, slot, scanVars>>

\* free_empty_extents walks a copy of each IAM page.
AllEmpty(e) == \A p \in ToSet(PagesOf(e)) : Slots!Taken(pages[p]) = {}

\* A page has rows, or cannot be fetched.
KeepExtent ==
    /\ stmt = "free"
    /\ todo # <<>>
    /\ todo' = Tail(todo)
    /\ UNCHANGED <<tableVars, stmt, current, slot, scanVars, stats>>

FindEmpty ==
    /\ stmt = "free"
    /\ todo # <<>>
    /\ AllEmpty(Head(todo))
    /\ stmt' = "remove"
    /\ UNCHANGED <<tableVars, current, todo, slot, scanVars, stats>>

\* remove_extent_from_iam does not find the extent, or cannot fetch a page of
\* the chain.
NotRemoved ==
    /\ stmt = "remove"
    /\ stmt' = "free"
    /\ todo' = Tail(todo)
    /\ UNCHANGED <<tableVars, current, slot, scanVars, stats>>

Unlist ==
    /\ stmt = "remove"
    /\ Head(todo) \in ToSet(extents)
    /\ extents' = RemoveFirst(extents, Head(todo))
    /\ UNCHANGED <<pages, astray>>

\* Mutant: an extent that is not listed counts as removed.
RemoveAgain ==
    /\ stmt = "remove"
    /\ stmt' = "free"
    /\ extents' = RemoveFirst(extents, Head(todo))
    /\ used' = used \ {Head(todo)}
    /\ hint' = INVALID_PAGE_ID
    /\ UNCHANGED <<pages, astray, current, todo, slot, scanVars, stats>>

\* --idx: the place of the extent is visited once more, in the copy.
RemoveExtent ==
    /\ Unlist
    /\ used' = used \ {Head(todo)}
    /\ hint' = INVALID_PAGE_ID
    /\ stmt' = "free"
    /\ UNCHANGED <<current, todo, slot, scanVars, stats>>

\* The IAM page has become empty, and the one before it cannot be fetched.
UnlinkFails ==
    /\ Unlist
    /\ used' = used \ {Head(todo)}
    /\ stmt' = "free"
    /\ todo' = Tail(todo)
    /\ UNCHANGED <<hint, current, slot, scanVars, stats>>

\* deallocate_extent throws.
DeallocationFails ==
    /\ Unlist
    /\ EndStatement
    /\ UNCHANGED <<used, hint>>

\* An exception may end it early.
EndCompaction ==
    /\ stmt = "free"
    /\ EndStatement
    /\ UNCHANGED tableVars

-----------------------------------------------------------------------------
Next ==
    \/ \E t \in Tuple : InsertIntoCurrent(t)
    \/ \E t \in Tuple, p \in PageId : InsertIntoFound(t, p)
    \/ \E t \in Tuple, p \in PageId : InsertAstray(t, p)
    \/ \E t \in Tuple, p \in PageId : FoundPageFails(t, p)
    \/ \E t \in Tuple : InsertIntoNewExtent(t)
    \/ \E t \in Tuple : AllocateForNothing(t)
    \/ \E t \in Tuple : AllocationFails(t)
    \/ EndInsert
    \/ Reopen
    \/ \E match \in SUBSET Tuple : StartScan(match)
    \/ ScanNextPage
    \/ ScanRow
    \/ ScanPageDone
    \/ EndScan
    \/ \E fetched \in SUBSET ListedPages : StartCompaction(fetched)
    \/ SkipSource
    \/ FetchSource
    \/ LeaveTuple
    \/ MigrateTuple
    \/ SourceDone
    \/ \E fetched \in SUBSET ListedPages : Defragment(fetched)
    \/ KeepExtent
    \/ FindEmpty
    \/ NotRemoved
    \/ RemoveExtent
    \/ UnlinkFails
    \/ DeallocationFails
    \/ EndCompaction

Spec == Init /\ [][Next]_vars

ScanStep == ScanNextPage \/ ScanRow \/ ScanPageDone \/ EndScan

CompactionStep ==
    \/ SkipSource \/ FetchSource \/ LeaveTuple \/ MigrateTuple \/ SourceDone
    \/ \E fetched \in SUBSET ListedPages : Defragment(fetched)
    \/ KeepExtent \/ FindEmpty
    \/ NotRemoved \/ RemoveExtent \/ UnlinkFails \/ DeallocationFails
    \/ EndCompaction

\* The thread that runs the statement keeps running.
FairSpec == Spec /\ WF_vars(ScanStep) /\ WF_vars(CompactionStep)

-----------------------------------------------------------------------------
(* Properties *)

TypeOK ==
    /\ \A p \in PageId : /\ pages[p].rows \in Seq(Tuple \cup {NoRow})
                         /\ pages[p].freePtr \in HEADER_SIZE..PAGE_SIZE
    /\ extents \in Seq(Extent) /\ IsInjective(extents)
    /\ ToSet(extents) \subseteq used /\ used \subseteq Extent
    /\ hint \in PageId \cup {INVALID_PAGE_ID}
    /\ astray \in BOOLEAN
    /\ stmt \in {"idle", "insert", "scan", "migrate", "free", "remove"}
    /\ current \in PageId \cup {INVALID_PAGE_ID}
    /\ todo \in Seq(Nat)
    /\ slot \in Nat \ {0}
    /\ where \subseteq Tuple
    /\ seen \in [Tuple -> Nat]
    /\ skipped \in BOOLEAN
    /\ \A k \in DOMAIN stats : /\ stats[k].id \in PageId
                               /\ stats[k].live \in Nat
                               /\ stats[k].free \in 0..(UINT32 - 1)

\* How many copies of a row are in the table's extents.
Count(t) ==
    Cardinality(UNION {{p} \X {i \in DOMAIN pages[p].rows : pages[p].rows[i] = t} : p \in ListedPages})

\* The table implements a bag of rows: whichever page accesses of a statement
\* fail, COMPACT neither loses nor doubles a row, and no statement gives up an
\* extent that has one.  A row is lost only by an INSERT that follows a hint to
\* an extent that a COMPACT has unlisted before its removal failed, and that no
\* other page has taken the place of since (iam_manager.cpp:167, 243, 247).
Running == CASE stmt = "idle" -> "none"
             [] stmt \in {"migrate", "free", "remove"} -> "compact"
             [] OTHER -> stmt

\* The hint's extent is not the table's.
HintStale == hint # INVALID_PAGE_ID /\ hint \notin ListedPages

Bag == INSTANCE RowBag WITH
    count   <- [t \in Tuple |-> Count(t)],
    running <- Running,
    stale   <- HintStale,
    lost    <- astray

ImplementsBag == Bag!Spec

\* A scan that could fetch every page has returned each row of the table once,
\* and a DELETE has removed those its WHERE clause matches and no other,
\* although it removes slots under the scan.
ScanIsComplete ==
    [][EndScan /\ todo = <<>> /\ ~skipped
        => \A t \in Tuple : Count(t) = IF t \in where THEN 0 ELSE seen[t]]_vars

\* Scans and compactions come to an end.
StatementEnds == stmt \in {"scan", "migrate", "free", "remove"} ~> stmt = "idle"
=============================================================================
