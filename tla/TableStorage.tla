----------------------------- MODULE TableStorage ----------------------------
(***************************************************************************)
(* The tables' rows over the IAM chains, the extents and the buffer pool:  *)
(* what INSERT, DELETE and COMPACT of several tables do to each other      *)
(* (storage/table_manager.cpp over iam_manager.cpp).                       *)
(*                                                                         *)
(* Every step is a step of IamManager, or none, together with what happens *)
(* to the pages.  Statements run one at a time; COMPACT is followed step   *)
(* by step, because it can be cut short, and INSERT and DELETE concern one *)
(* row (module TableManager has their loops).  A page holds RowsPerPage    *)
(* rows.  Of the pool only what decides whether an IAM page can be created *)
(* is kept: which pages that are in no use are cached with changes that    *)
(* are not written; after a page access has failed that can be any of      *)
(* them.  The catalog has given a table a name before the first statement  *)
(* on it.                                                                  *)
(***************************************************************************)
EXTENDS IamManager

CONSTANTS
    Row,            \* rows, all different
    RowsPerPage,
    NoTable

ASSUME StorageAssumption == RowsPerPage \in Nat \ {0} /\ NoTable \notin Table

VARIABLES
    rows,       \* the rows of each page
    dirty,      \* pages in no use that are dirty in the pool, until a failure
    compacting, \* the table that COMPACT is working on
    kept,       \* the rows that the statements have put into each table
    strayed,    \* a row has gone to a page that is not of its table
    failed      \* a page could not be read or written

iamVars  == <<used, chain, list, hint>>
dataVars == <<rows, kept, strayed>>
allVars  == <<iamVars, dataVars, dirty, compacting, failed>>

PagesOf(e) == FirstPageOf(e)..(FirstPageOf(e + 1) - 1)
PagesIn(es) == UNION {PagesOf(e) : e \in es}
TablePages(t) == PagesIn(Listed(t))
RowsOf(t) == UNION {rows[p] : p \in TablePages(t)}
HasRoomFor(p) == Cardinality(rows[p]) < RowsPerPage

StorageInit ==
    /\ Init
    /\ rows = [p \in PageId |-> {}]
    /\ dirty = {}
    /\ compacting = NoTable
    /\ kept = [t \in Table |-> {}]
    /\ strayed = FALSE
    /\ failed = FALSE

\* A statement may start.  Nothing is followed after a row has strayed.
Idle == compacting = NoTable /\ ~strayed

-----------------------------------------------------------------------------
(* Creating IAM pages.  new_page refuses a page that is cached, and then   *)
(* the cached page is taken only if it is not dirty.                       *)

CanCreate(p) == p \notin dirty
MayRefuse(p) == failed \/ p \in dirty

\* After a failure any page that is not in use may be dirty.
PageFails == failed' = TRUE /\ dirty' = {}

CreateTable(t) ==
    /\ Idle
    /\ Free # {} /\ CanCreate(FirstPageOf(NewExtent))
    /\ CreateIamChain(t)
    /\ UNCHANGED <<dataVars, dirty, compacting, failed>>

CreateTableFails(t) ==
    /\ Idle
    /\ CreateFails(t)
    /\ \/ PageFails
       \/ MayRefuse(FirstPageOf(NewExtent)) /\ UNCHANGED <<dirty, failed>>
    /\ UNCHANGED <<dataVars, compacting>>

-----------------------------------------------------------------------------
(* INSERT and DELETE of one row *)

\* A row of a page of another table, or of none: what becomes of the rows then
\* is not followed.
Put(t, r, p) ==
    IF p \in TablePages(t)'
    THEN /\ rows' = [rows EXCEPT ![p] = @ \cup {r}]
         /\ kept' = [kept EXCEPT ![t] = @ \cup {r}]
         /\ UNCHANGED strayed
    ELSE /\ rows' = [q \in PageId |-> {}]
         /\ kept' = [u \in Table |-> {}]
         /\ strayed' = TRUE

NewRow(r) == \A t \in Table : r \notin kept[t]

\* find_page_with_space: the hint's page, a later one of its extent, or a page
\* of the chain.  Pages that cannot be read are passed over.
FindPage(t, p) ==
    \/ p = hint[t] /\ UNCHANGED iamVars
    \/ ScanExtentForward(t, p)
    \/ ScanIamChain(t, p)

InsertIntoFound(t, r, p) ==
    /\ Idle
    /\ chain[t] # <<>>
    /\ NewRow(r)
    /\ HasRoomFor(p)
    /\ FindPage(t, p)
    /\ Put(t, r, p)
    /\ UNCHANGED <<dirty, compacting, failed>>

\* acquire_page_for_insert takes a new extent and formats its pages, whatever
\* they hold; the row goes to the first one.
Formatted(e) == [p \in PageId |-> IF ExtentOf(p) = e THEN {} ELSE rows[p]]

InsertIntoNewExtent(t, r) ==
    LET first == FirstPageOf(NewExtent)
    IN  /\ Idle
        /\ chain[t] # <<>>
        /\ NewRow(r)
        /\ Free # {}
        /\ \/ RecordExtent(t)
           \/ /\ NeedsIamPage(t) /\ CanCreate(NewIamPage(t))
              /\ LinkNewIamPage(t)
        /\ dirty' = dirty \ PagesOf(NewExtent)
        /\ rows' = [Formatted(NewExtent) EXCEPT ![first] = @ \cup {r}]
        /\ kept' = [kept EXCEPT ![t] = @ \cup {r}]
        /\ UNCHANGED <<strayed, compacting, failed>>

\* The extents are lost.  When the old tail cannot be fetched, the new IAM
\* page stays in the pool and is not linked.
InsertFails(t) ==
    /\ Idle
    /\ \/ (AllocationFails(t) \/ LinkFails(t)) /\ PageFails
       \/ /\ NeedsIamPage(t) /\ MayRefuse(NewIamPage(t))
          /\ AllocationFails(t) /\ used' = used \cup ExtentsTaken(t)
          /\ UNCHANGED <<dirty, failed>>
    /\ UNCHANGED <<dataVars, compacting>>

Delete(t, r) ==
    /\ Idle
    /\ r \in RowsOf(t)
    /\ rows' = [p \in PageId |-> IF p \in TablePages(t) THEN rows[p] \ {r} ELSE rows[p]]
    /\ kept' = [kept EXCEPT ![t] = @ \ {r}]
    /\ UNCHANGED <<iamVars, dirty, strayed, compacting, failed>>

-----------------------------------------------------------------------------
(* COMPACT *)

\* Where migrate_tuples may leave the rows: in any pages of the table that
\* have room (module TableManager says which).
Placements(t) ==
    {f \in [RowsOf(t) -> TablePages(t)] :
        \A p \in TablePages(t) : Cardinality({r \in RowsOf(t) : f[r] = p}) <= RowsPerPage}

MigrateRows(t) ==
    /\ Idle
    /\ chain[t] # <<>>
    /\ \E f \in Placements(t) :
          rows' = [p \in PageId |-> IF p \in TablePages(t) THEN {r \in RowsOf(t) : f[r] = p}
                                    ELSE rows[p]]
    /\ compacting' = t
    /\ UNCHANGED <<iamVars, kept, strayed, dirty, failed>>

\* Mutant: the first page speaks for the extent.
FirstEmpty(e) == rows[FirstPageOf(e)] = {}

\* free_empty_extents: Defragmentation has written to every page of the extent.
AllEmpty(e) == \A p \in PagesOf(e) : rows[p] = {}

Unlinked(t) == ToSet(chain[t]) \ ToSet(chain'[t])

FreeExtent(t, e) ==
    /\ compacting = t
    /\ AllEmpty(e)
    /\ RemoveExtent(t, e)
    /\ dirty' = IF failed THEN {} ELSE dirty \cup PagesOf(e) \cup Unlinked(t)
    /\ UNCHANGED <<dataVars, compacting, failed>>

\* deallocate_extent throws, and COMPACT ends there; or the page before cannot
\* be read, and COMPACT goes on.
FreeExtentFails(t, e) ==
    /\ compacting = t
    /\ AllEmpty(e)
    /\ RemoveFails(t, e)
    /\ compacting' = IF used' = used THEN NoTable ELSE compacting
    /\ PageFails
    /\ UNCHANGED dataVars

\* Mutant: compact_extents returns without force_flush.
NotFlushed == UNCHANGED <<dirty, failed>>

\* force_flush: pages that cannot be written stay dirty.
Flushed ==
    /\ dirty' = {}
    /\ failed' \in {failed, TRUE}

EndCompaction ==
    /\ compacting # NoTable
    /\ Flushed
    /\ compacting' = NoTable
    /\ UNCHANGED <<iamVars, dataVars>>

\* The database is closed, which writes everything, and opened again.
Reopen ==
    /\ compacting = NoTable
    /\ Restart
    /\ dirty' = {}
    /\ UNCHANGED <<dataVars, compacting, failed>>

StorageNext ==
    \/ \E t \in Table : CreateTable(t)
    \/ \E t \in Table : CreateTableFails(t)
    \/ \E t \in Table, r \in Row, p \in PageId : InsertIntoFound(t, r, p)
    \/ \E t \in Table, r \in Row : InsertIntoNewExtent(t, r)
    \/ \E t \in Table : InsertFails(t)
    \/ \E t \in Table, r \in Row : Delete(t, r)
    \/ \E t \in Table : MigrateRows(t)
    \/ \E t \in Table, e \in Extent : FreeExtent(t, e)
    \/ \E t \in Table, e \in Extent : FreeExtentFails(t, e)
    \/ EndCompaction
    \/ Reopen

StorageSpec == StorageInit /\ [][StorageNext]_allVars

-----------------------------------------------------------------------------
(* Properties *)

StorageTypeOK ==
    /\ TypeOK
    /\ rows \in [PageId -> SUBSET Row]
    /\ \A p \in PageId : Cardinality(rows[p]) <= RowsPerPage
    /\ dirty \subseteq PageId
    /\ compacting \in Table \cup {NoTable}
    /\ kept \in [Table -> SUBSET Row]
    /\ strayed \in BOOLEAN /\ failed \in BOOLEAN

(***************************************************************************)
(* A table has the rows that were inserted into it and not deleted,        *)
(* whatever other tables take, free and format, and whichever removals     *)
(* fail half-way - until an INSERT follows a hint that such a removal has  *)
(* left behind (iam_manager.cpp, remove_extent_from_iam).                  *)
(***************************************************************************)
TablesKeepTheirRows == ~strayed => \A t \in Table : RowsOf(t) = kept[t]

(***************************************************************************)
(* A page that is handed out is not dirty in the pool, and so an IAM page  *)
(* can be created on it: COMPACT flushes after it has freed extents and    *)
(* unlinked IAM pages.  Without it a table could not grow until the page   *)
(* is evicted (iam_manager.cpp:20, 64), and every attempt loses extents.   *)
(* A page that could not be read or written before is the only exception.  *)
(***************************************************************************)
RefusedOnlyAfterFailure == compacting = NoTable /\ ~failed => dirty = {}
=============================================================================
