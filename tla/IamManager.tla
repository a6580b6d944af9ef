------------------------------ MODULE IamManager -----------------------------
(***************************************************************************)
(* The chains of IAM pages that say which extents belong to which table    *)
(* (storage/iam_manager.cpp, IAMPage in storage/storage_def.h).            *)
(*                                                                         *)
(* The engine runs one statement at a time, so every method is one action  *)
(* per outcome.  Every page access can fail, because the disk does or      *)
(* because the pool refuses: the outcomes of a failure are the states in   *)
(* which the methods throw or return false.  Extents come from             *)
(* allocate_extent, the lowest free one first (module ExtentManager).      *)
(*                                                                         *)
(* A chain of next_page_id links is a sequence of pages.  Which data pages *)
(* have room is up to their contents, so that a search may find any page   *)
(* it looks at.                                                            *)
(***************************************************************************)
EXTENDS Integers, Sequences, FiniteSets, SequencesExt

CONSTANTS
    Table,
    EXTENT_SIZE,        \* pages per extent (8 in the code)
    IAM_MAX_EXTENTS,    \* extents per IAM page (1022 in the code)
    MaxExtent           \* the database has the extents 0..MaxExtent

ASSUME IamAssumption ==
    /\ EXTENT_SIZE \in Nat \ {0}
    /\ IAM_MAX_EXTENTS \in Nat \ {0}
    /\ MaxExtent \in Nat \ {0}

INVALID_PAGE_ID == -1

Extent == 0..MaxExtent
PageId == 0..((MaxExtent + 1) * EXTENT_SIZE - 1)

\* extent_id_from_page and first_page_of_extent
ExtentOf(p)    == p \div EXTENT_SIZE
FirstPageOf(e) == e * EXTENT_SIZE

VARIABLES
    used,       \* extents marked in the GAM pages
    chain,      \* the IAM pages of each table, the head first
    list,       \* IAMPage::extent_ids of each IAM page
    hint        \* table_page_hints_

vars == <<used, chain, list, hint>>

-----------------------------------------------------------------------------
Init ==
    /\ used = {0, 1}
    /\ chain = [t \in Table |-> <<>>]
    /\ list = [p \in PageId |-> <<>>]
    /\ hint = [t \in Table |-> INVALID_PAGE_ID]

\* The extent the next allocate_extent returns.
Free      == Extent \ used
NewExtent == Min(Free)

\* create_iam_chain for a table that has none.
CreateIamChain(t) ==
    /\ chain[t] = <<>>
    /\ Free # {}
    /\ used' = used \cup {NewExtent}
    /\ chain' = [chain EXCEPT ![t] = <<FirstPageOf(NewExtent)>>]
    /\ list' = [list EXCEPT ![FirstPageOf(NewExtent)] = <<>>]
    /\ UNCHANGED hint

\* The page cannot be created: the extent is lost.
CreateFails(t) ==
    /\ chain[t] = <<>>
    /\ Free # {}
    /\ used' = used \cup {NewExtent}
    /\ UNCHANGED <<chain, list, hint>>

\* Mutant: IAMPage::has_space is off by one.
HasOneMore(p) == Len(list[p]) <= IAM_MAX_EXTENTS

HasSpace(p) == Len(list[p]) < IAM_MAX_EXTENTS
Roomy(t)    == {i \in DOMAIN chain[t] : HasSpace(chain[t][i])}

\* allocate_extent_for_table records the extent in the first IAM page of the
\* chain that has space for it.
RecordExtent(t) ==
    /\ Free # {}
    /\ Roomy(t) # {}
    /\ used' = used \cup {NewExtent}
    /\ list' = [list EXCEPT ![chain[t][Min(Roomy(t))]] = Append(@, NewExtent)]
    /\ hint' = [hint EXCEPT ![t] = FirstPageOf(NewExtent)]
    /\ UNCHANGED chain

\* link_new_iam_page: the page after the tail, unless the tail is the last
\* page of its extent.
\* Mutant: the head is taken for the tail.
HeadPage(t) == Head(chain[t])
TailPage(t) == Last(chain[t])
\* Mutant: the page after the tail is always taken.
AlwaysInTailExtent(t) == TRUE
InTailExtent(t) == TailPage(t) % EXTENT_SIZE < EXTENT_SIZE - 1
SecondExtent    == Min(Free \ {NewExtent})
NewIamPage(t) ==
    IF InTailExtent(t) THEN TailPage(t) + 1 ELSE FirstPageOf(SecondExtent)
ExtentsTaken(t) == {NewExtent} \cup (IF InTailExtent(t) THEN {} ELSE {SecondExtent})

NeedsIamPage(t) ==
    /\ chain[t] # <<>>
    /\ Roomy(t) = {}
    /\ Free # {}
    /\ InTailExtent(t) \/ Free # {NewExtent}

LinkNewIamPage(t) ==
    /\ NeedsIamPage(t)
    /\ used' = used \cup ExtentsTaken(t)
    /\ list' = [list EXCEPT ![NewIamPage(t)] = <<NewExtent>>]
    /\ chain' = [chain EXCEPT ![t] = Append(@, NewIamPage(t))]
    /\ hint' = [hint EXCEPT ![t] = FirstPageOf(NewExtent)]

\* The old tail cannot be fetched: the new page is not linked.
LinkFails(t) ==
    /\ NeedsIamPage(t)
    /\ used' = used \cup ExtentsTaken(t)
    /\ list' = [list EXCEPT ![NewIamPage(t)] = <<NewExtent>>]
    /\ UNCHANGED <<chain, hint>>

\* An IAM page cannot be fetched, the second extent cannot be allocated, or
\* the new IAM page cannot be created: the extents are lost.
AllocationFails(t) ==
    /\ chain[t] # <<>>
    /\ Free # {}
    /\ \/ used' = used \cup {NewExtent}
       \/ NeedsIamPage(t) /\ used' = used \cup ExtentsTaken(t)
    /\ UNCHANGED <<chain, list, hint>>

-----------------------------------------------------------------------------
(* find_page_with_space.  A search that finds the hint's page, or nothing, *)
(* changes nothing.                                                        *)

Listed(t) == UNION {ToSet(list[p]) : p \in ToSet(chain[t])}

\* scan_extent_forward: a later page of the hint's extent.
ScanExtentForward(t, p) ==
    /\ hint[t] # INVALID_PAGE_ID
    /\ ExtentOf(p) = ExtentOf(hint[t])
    /\ p > hint[t]
    /\ hint' = [hint EXCEPT ![t] = p]
    /\ UNCHANGED <<used, chain, list>>

\* scan_iam_chain: a page of any extent of the chain.
ScanIamChain(t, p) ==
    /\ ExtentOf(p) \in Listed(t)
    /\ hint' = [hint EXCEPT ![t] = p]
    /\ UNCHANGED <<used, chain, list>>

-----------------------------------------------------------------------------
(* remove_extent_from_iam *)

\* The IAM page that lists the extent, and its position in the chain.
Position(t, e) == Min({i \in DOMAIN chain[t] : e \in ToSet(list[chain[t][i]])})
IamPageOf(t, e) == chain[t][Position(t, e)]

Unlist(t, e) == list' = [list EXCEPT ![IamPageOf(t, e)] = RemoveFirst(@, e)]

\* The page is empty now, and not the head.
ToUnlink(t, e) == Len(list[IamPageOf(t, e)]) = 1 /\ Position(t, e) # 1

\* Mutant: the chain ends where the page was.
CutChain(t, i) == SubSeq(chain[t], 1, i - 1)

\* The link of the page before skips the page.
WithoutPage(t, i) == RemoveAt(chain[t], i)

\* Mutant: the hint outlives the extent.
HintKept(t) == UNCHANGED hint
ForgetHint(t) == hint' = [hint EXCEPT ![t] = INVALID_PAGE_ID]

\* Mutant: the extent stays marked in the GAM.
StillMarked(e) == used
Unmarked(e) == used \ {e}

RemoveExtent(t, e) ==
    /\ e \in Listed(t)
    /\ Unlist(t, e)
    /\ used' = Unmarked(e)
    /\ chain' = IF ToUnlink(t, e)
                THEN [chain EXCEPT ![t] = WithoutPage(t, Position(t, e))]
                ELSE chain
    /\ ForgetHint(t)

\* deallocate_extent throws, or else the page before cannot be fetched and
\* the method returns false.
RemoveFails(t, e) ==
    /\ e \in Listed(t)
    /\ Unlist(t, e)
    /\ \/ UNCHANGED used
       \/ ToUnlink(t, e) /\ used' = Unmarked(e)
    /\ UNCHANGED <<chain, hint>>

\* The hints are in memory only.
Restart ==
    /\ hint' = [t \in Table |-> INVALID_PAGE_ID]
    /\ UNCHANGED <<used, chain, list>>

Next ==
    \/ \E t \in Table : CreateIamChain(t)
    \/ \E t \in Table : CreateFails(t)
    \/ \E t \in Table : RecordExtent(t)
    \/ \E t \in Table : LinkNewIamPage(t)
    \/ \E t \in Table : LinkFails(t)
    \/ \E t \in Table : AllocationFails(t)
    \/ \E t \in Table, p \in PageId : ScanExtentForward(t, p)
    \/ \E t \in Table, p \in PageId : ScanIamChain(t, p)
    \/ \E t \in Table, e \in Extent : RemoveExtent(t, e)
    \/ \E t \in Table, e \in Extent : RemoveFails(t, e)
    \/ Restart

Spec == Init /\ [][Next]_vars

-----------------------------------------------------------------------------
(* Properties *)

TypeOK ==
    /\ used \subseteq Extent
    /\ chain \in [Table -> Seq(PageId)]
    /\ list \in [PageId -> Seq(Extent)]
    /\ \A p \in PageId : Len(list[p]) <= IAM_MAX_EXTENTS
    /\ hint \in [Table -> PageId \cup {INVALID_PAGE_ID}]

\* Every extent that is in use has one owner: it is listed once in the chain
\* of one table, or it holds IAM pages, which are in one place of one chain;
\* and it is marked, so that it is not handed out again.
Slots == {s \in Table \X (1..Cardinality(PageId)) \X (1..IAM_MAX_EXTENTS) :
             s[2] \in DOMAIN chain[s[1]] /\ s[3] \in DOMAIN list[chain[s[1]][s[2]]]}
ListedAt(s) == list[chain[s[1]][s[2]]][s[3]]
IamExtents(t) == {ExtentOf(p) : p \in ToSet(chain[t])}

OneOwner ==
    /\ \A r, s \in Slots : ListedAt(r) = ListedAt(s) => r = s
    /\ \A t \in Table : /\ IsInjective(chain[t])
                        /\ Listed(t) \cup IamExtents(t) \subseteq used
    /\ \A t, u \in Table : /\ Listed(t) \cap IamExtents(u) = {}
                           /\ t # u => IamExtents(t) \cap IamExtents(u) = {}

\* The tail's position says which IAM page is free: chains grow front to back
\* within an extent, so that the page after the tail is in no chain.
TailIsLast ==
    \A t \in Table : \A i, j \in DOMAIN chain[t] :
        i < j /\ ExtentOf(chain[t][i]) = ExtentOf(chain[t][j]) => chain[t][i] < chain[t][j]

\* A hint never leaves its table's extents, until a removal fails half-way.
HintInTable(t) == hint[t] = INVALID_PAGE_ID \/ ExtentOf(hint[t]) \in Listed(t)

HintsGoStaleByFailure ==
    [][\A t \in Table : HintInTable(t)
          => HintInTable(t)' \/ \E e \in Extent : RemoveFails(t, e)]_vars

\* An extent that is marked and that no chain knows is lost for good.  Only a
\* call that fails loses one, or the unlinking of the last IAM page that an
\* extent holds.
Lost == used \ ({0, 1} \cup UNION {Listed(t) \cup IamExtents(t) : t \in Table})

LostByFailureOrUnlinking ==
    [][\A e \in Lost' \ Lost :
          \E t \in Table :
              \/ CreateFails(t) \/ LinkFails(t) \/ AllocationFails(t)
              \/ \E f \in Extent : RemoveFails(t, f)
              \/ e \in IamExtents(t) \ IamExtents(t)']_vars

\* The chains implement one set of extents for each table: linking, unlinking
\* and failures in between lose no other extent and add none twice.
Extents == INSTANCE TableExtents WITH
    owned <- [t \in Table |-> Listed(t)]

ImplementsExtents == Extents!Spec
=============================================================================
