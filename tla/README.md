# LettyDB: TLA+ models, model checking and proofs

LettyDB is a single-file relational database in C++: a SQL front end over a
catalog, tables made of slotted pages, extents that are handed out by allocation
maps, and a buffer pool above one page file. This directory models it from the text of
a statement down to the page file, checks the models with TLC on small instances, and
proves with TLAPS, for every value of the constants, all of it but the parser and liveness. Paths below are relative to the
repository; `BPM` is `src/buffer/buffer_pool_manager.cpp`.

## The system

| Part | State it keeps | Operations | What makes it correct |
|---|---|---|---|
| Buffer pool (`src/buffer`) | frames with page id, pin count and dirty flag; page table; free list; LRU list | `fetch_page`, `new_page`, `new_or_fetch_page`, `unpin_page`, `flush_page`, `flush_all_pages`, `force_flush`, `checkpoint`, `delete_page` | no frame is lost; a pinned page stays where it is; dropping a clean page loses nothing; a checkpoint makes everything durable |
| Page file (`storage/disk_manager`) | the bytes and the length of the file, what has been synced | `read_page`, `write_page`, `sync`, `get_file_size_in_pages` | failures are reported; what is synced survives a crash |
| Extent manager (`storage/extent_manager`) | GAM pages (a bit per extent, a hint, a link), cursor into their chain | `allocate_extent`, `deallocate_extent`, `initialize_new_db` | an extent has one user; a freed extent is found again; allocation ends |
| Slotted page (`storage/slotted_page`) | slot directory, rows, free-space pointer | `insert_tuple`, `delete_tuple`, `get_tuple`, `compact` | rows do not overlap; a row keeps its bytes and its slot |
| IAM manager (`storage/iam_manager`) | a chain of IAM pages per table with lists of extents; a hint per table in memory | `create_iam_chain`, `allocate_extent_for_table`, `find_page_with_space`, `remove_extent_from_iam` | an extent belongs to one table; a search stays in the table; nothing is leaked |
| Table manager and scanner (`storage/table_manager`, `table_scanner`) | none between statements; the page it stands on during one | `insert_rows`, `scan_table`, `delete_row`, `compact_table` | rows are neither lost nor doubled; a scan sees each row once |
| Catalog (`src/catalog`) | `sys_tables` and `sys_columns` on disk; table cache; next oid in the header | `init`, `create_table`, `get_table` | what is loaded is what was created |
| Executor (`sql/executor`) | none | one method per statement | values reach their columns; NOT NULL holds; queries answer as SQL's logic does |
| Tuple (`storage/tuple`) | none | `serialize`, `deserialize` | the round trip is the identity |
| Lexer and parser (`src/sql`) | position in the text | text to syntax tree | the tree is that of the grammar |
| Database engine, CLI, storage inspector | the wiring of the other parts; none; none | open, execute, close; read a line; print | -- |

How they interact. The engine parses a statement and the executor runs it on the
calling thread, to its end, before the next one. The executor asks the catalog for
a table's metadata (the page id of its IAM head and its schema) and calls the table
manager, which finds pages through the IAM manager, which gets extents from the
extent manager. All of them reach pages only by pinning them in the buffer pool.
Only the pool and the extent manager have mutexes; the pool's is released between
the return of a `Page*` and its `unpin_page`, so that the bytes of a frame are
written outside of it.

What is hard here:

- *Failure.* Every pin can be refused (`nullptr`): the pool is full of pinned
  pages, the page cannot be read, or the victim cannot be written. Few callers undo
  what they did before, so the interesting states come from a method that failed
  half-way. All models let each such access fail.
- *Interleaving.* Pins, unannounced writes, unpins, flushes and evictions of the
  pool; DELETE and the scanner on one page; COMPACT moving rows between pages that
  it counted before.
- *Caches of positions.* The GAM cursor and hints, the page hints of the IAM
  manager, the page statistics of COMPACT, the table cache: each may be stale when
  it is used.
- *Limits.* A full page, a full IAM page, a full GAM page, the end of the GAM
  extent, an unsigned count below zero, the 16-bit oid.
- *Text.* A line that is almost a statement; characters that touch; precedence.
- *Crash.* The README of the repository says that there is no crash recovery; what
  can be asked is what a completed checkpoint guarantees.

`PROJECT.json` lists each hazard at its line, with the properties aimed at it.

## The modules

```
  Lexer -- Parser -- SqlText -- Frontend        (each extends the one before)
  TupleFormat -- Where -- Executor                                ExecutorProofs
  Catalog                                                         CatalogProofs
  TableManager ---- implements ----> RowBag                       TableManagerProofs
      | built on
      v
  RowSlots <------- implements ----- SlottedPage                  SlottedPageProofs
  TableStorage -- extends --> IamManager -- implements --> TableExtents
                                                                  TableStorageProofs
  ExtentManager -- implements ----> ExtentSpace                   ExtentManagerProofs
  BufferPool ----- implements ----> PageStore                     BufferPoolProofs
                                          (all on CommonLemmas)
```

`MCBufferPool`, `MCTableStorage`, `MCCatalog`, `MCExecutor` and `MCFrontend` add a symmetry set
or sets of records for TLC.
A definition whose comment starts with "Mutant:" is a plausible bug: the run of the
property must find it when it takes the place of the definition after it.

### BufferPool, PageStore

State: one function per field of `Page` (`pageId`, `pinCount`, `dirty`, `data`),
`pageTable`, `freeList`, `lruList`, the file (`disk`, `fileSize`, `unsynced`), and
the callers: a *client* is one pin, with the `Page*` it got. Each public method is
one action, because it runs under `latch_`, and a client writes its bytes
(`WriteBytes`) between any two of them. `acquire_frame` is the operators
`SomeFrame`, `NextFrame`, `FreeLeft`, `LruLeft`, `EvictVictim`; its failure is
`EvictionFails`, and a failing read after a frame was found is `ReadFails`. A write
that fails may leave the page `Torn`. `Flush(pages)` covers `force_flush` and
`flush_all_pages`, of which any subset of the writes may fail. `Crash` forgets
memory and, for any set of unsynced pages, leaves `Torn` ones; `Shutdown` is the
destructor.

`PageStore` is what callers may rely on: one current content per page, which only
a holder changes, and the short list of ways to lose it. The refinement maps the
content of a page to its frame's bytes if it is cached and to the file otherwise.

### ExtentManager, ExtentSpace

State: bits, hint and link of every page, read as a GAM page, cursor and
chain index, the file's length (which places GAM pages beyond the first extent),
and who uses each extent. `allocate_extent` and `deallocate_extent` are loops over page
accesses along the links; the first is cut into `StartAllocation`, `ClaimExtent`,
`AdvanceGamCursor`, `CreateNewGam` and `LinkNewGam`, the second into `StartDeallocation`,
`FollowGamLink` and `ClearExtentBit`, and either can fail at any of these points
(`CallFails`). The lock is held over all of them, so that they do not mix. What the user of
an extent writes (`TouchPage`) can be any bits, hint and link, should the page be a GAM page.
`chain` is history: the GAM pages in the order in which they were linked, which is what the
links say until a user changes one of them (`overwritten`). `ExtentSpace` hands out the
lowest free extent.

### SlottedPage, RowSlots

`SlottedPage` has the bytes of one page; a byte is what row it belongs to. `RowSlots`
is the page without bytes: rows under slot numbers and the free-space pointer. The
first implements the second, and the second is the page of `TableManager`.

### IamManager, TableExtents, TableStorage

State of `IamManager`: extents marked in the GAM, the chain of each table as a sequence of
pages, the list of each IAM page, the hints. One action per method and outcome; the failing
outcomes are those where a pin is refused between two changes (`CreateFails`, `LinkFails`,
`AllocationFails`, `RemoveFails`). `TableExtents` is a set of extents per table.

`TableStorage` puts rows on top of it: every step of several tables' INSERT, DELETE and
COMPACT is a step of `IamManager`, or none, together with what happens to the rows. What a
search returns is looked at here: the page of a hint that a failed removal left behind may
belong to another table or to none, and a row that goes there has `strayed`. COMPACT is cut
at each extent it frees, since it can end there (`MigrateRows`, `FreeExtent`,
`FreeExtentFails`, `EndCompaction`); where it moves rows is any placement with room, which
`TableManager` refines. Of the pool there is what decides whether an IAM page can be created:
`new_page` refuses a page that is cached, and the fallback takes the cached page only if it
is clean (`CanCreate`, `MayRefuse`). Freed and unlinked pages are dirty until COMPACT
flushes; after an access has failed, any page that is in no use may be.

### TableManager, RowBag

One table, one statement at a time, one page access per step. INSERT tries the
current page, a page that the search returned, a new extent, which can stay without the row
(`AllocateForNothing`) or be lost (`AllocationFails`). The search begins at the `hint`, and nobody
asks whether its extent is still listed: after a removal that failed half-way (`UnlinkFails`,
`DeallocationFails`) a row can go to a page that is not the table's (`InsertAstray`). What becomes of that page
and of the table then is not followed, here as in `TableStorage`. The scan has the
scanner's page and slot; DELETE's `WHERE` is a set of rows and each matching row is
deleted at the step that returns it, as `execute_delete` does. COMPACT is survey and
sort, `migrate_tuples` row by row, the compaction of every page, and
`free_empty_extents` extent by extent over its copy of the list, where the place of an extent that
was removed is visited once more. `RowBag` counts the copies of each row: an
insert adds one, a scan that deletes removes one, COMPACT changes nothing. A COMPACT that fails may leave the
next place `stale`, and then, but not otherwise, an insert may lose its row.

### Catalog

The two system tables as lists of pages (rows go where `find_page_with_space` puts
them), the table cache, the oid counter, and `create_table` in its steps, after each
of which it may throw; an extent that was allocated for a row then stays, some of its pages
not formatted. Initially the system tables have their first extents, or bootstrap failed (it is not repeated)
before it had allocated one or both of them, or before it had formatted all their pages. `ReopenWhole` is closing the database and
`init` with `load_all_tables`; `ReopenPartly` is the same with a page that cannot be
fetched, which the scan passes over. `created` and `missed` are history: what the successful calls made
of each name, and whether a load was partial.

### Executor, Where, TupleFormat

`TupleFormat` is `serialize` and `deserialize` on sequences of bytes: the null bitmap with
`BITS` columns to a byte, each byte the set of its bits that are 1, fields of a fixed size, strings with their length
and without the character 0. What lies
behind a short DATE string is any content of the stack (`Paddings`). `Where` is the
evaluation of a WHERE clause, with exceptions and short circuits, next to `Truth`, SQL's
logic of three values; both are recursive functions on `Expressions`, the nodes of the trees that the parser builds. `Executor` runs statements on these: INSERT checks its column list,
then every row, and only then stores the first one (`StartInsert`, `BuildTuple`,
`RefuseTuple`, `InsertRows`), and stores row by row as `insert_rows` does (`InsertRow`,
`SerializeThrows`, `NoPageForRow`), with `held` for the page that stays pinned from one row
to the next. A table without columns has rows without bytes, which `insert_rows` passes over. SELECT and DELETE meet the stored rows in any order, since their places are
the matter of `TableManager`; empty slots are dropped when a scan ends.

### Lexer, Parser, SqlText, Frontend

`Lexer` and `Parser` are the functions of `lexer.cpp` and `parser.cpp`, under their names. A text is
a sequence of pieces: a run of letters, a run of digits, or one character; pieces that touch are one
run of characters, so that `12.a` and `1.1` have to be told apart as in the code. A `parse_` function
takes the position and gives a node with the next position, or the kind of error: a parse error, an
unsupported statement, a number that `std::stoll`, `std::stod` or (the size of a VARCHAR) `std::stoi` refuses, or a
read of the token behind the last one, which `peek()` does not prevent. Lists are one operator (`ListOf`) over the kinds of elements, because
the code has the same loop seven times, each with its `if (match(COMMA)) advance()`.

`SqlText` goes the other way, from a tree to the words that mean it, with the fewest or with all
parentheses; it is written from SQL's grammar and not from the code. `Frontend` builds lines word by
word and states how the two fit: what was written is what the tree says (`TreeIsTheText`), and trees that are written
are accepted and come back (`TextParsesBack`): those that the lines gave, and `Statements`, a sample of the grammar in
which every clause is there or not, lists have one element or two, every type and kind of literal occurs, and
conditions are two operations deep. How a token is spelled and which tokens run together (`Spelled`, `RunTogether`)
is the writer's side and has no source.

## Runs

| Run | Question | Bounds | Result |
|---|---|---|---|
| `buffer_pool` | Are frames, pins, dirty flags and the LRU order kept in all interleavings; is a checkpoint durable; does the pool implement the page store? | 2 pins, 2 frames, 3 pages, 1 content besides Zero and Torn | holds |
| `extent_manager` | One user per extent, lowest first, nothing lost, allocation ends? | 3 bits per GAM page, extents of 3 pages, 7 extents: the chain has all its GAM pages in the GAM extent | holds |
| `extent_manager_beyond` | Are GAM pages kept out of tables beyond the GAM extent? | 2 bits, extents of 2 pages, 7 extents | violated |
| `slotted_page` | Do rows keep their bytes and slots; is space reclaimed? | 14 bytes, rows of 1 and 3 bytes, 2 payloads | holds |
| `table_storage` | Has every extent one owner; do tables keep their rows; do chains implement sets of extents; what makes hints stale, leaks extents, or keeps a table from growing? | 2 tables, 1 row, 7 extents of 2 pages with 1 row each, 1 extent per IAM page | holds |
| `table_manager` | Are rows kept, and when is one lost; is a scan complete; do statements end, and do pages and statistics keep their bounds, when extents come and go? | 2 extents of 1 page of 7 bytes, rows of 1 and 2 bytes | holds |
| `catalog` | Are tables and columns kept, and created once, over failures, partial loads and reopening? | 2 names, 2 columns, tables of up to 2 columns, pages with room 2, extents of 2 pages, 3 creations, 1 page missed in 1 load | holds |
| `catalog_order` | Does a table come back with its columns in order? | the same, but up to 3 columns and pages with room 3 | violated |
| `executor` | Is what INSERT stores read back as meant; is NOT NULL kept; do queries answer as SQL does? | 4 columns (INT, BOOL, VARCHAR, DATE), 2 to a bitmap byte, 8 rows of literals, 5 column lists, 6 WHERE clauses, 2 rows, ints modulo 4, a buffer of 9 | holds |
| `executor_pins` | Is every page unpinned between statements? | the same | violated |
| `frontend` | Does the lexer find the words; is the tree that of the grammar, and does a sample with every clause of it parse; where does the parser leave the tokens? | 3 words in any order with or without blanks, then up to 9 words as long as the parser reads to the end; about 30,000 statements written from their trees | holds |
| `frontend_errors` | Are syntax errors refused? | 6 words | violated |

Why the bounds are enough. Two frames and three pages make every fetch compete; with
two pins one can be at work while the other one fills the pool. Three bits per GAM
page and seven extents make the chain grow twice and the cursor rewind over more than
one page; with extents of two pages the chain leaves the GAM extent. A 14-byte page
holds up to four rows, so that gaps arise in the middle and at the end of the
directory. One extent per IAM page makes each allocation link a page, and extents of
two pages make the tail reach the end of its extent. A chain of three IAM pages, which is
the shortest with a page in the middle to unlink and with a second IAM extent, takes seven extents with
its data, and the second table needs some of the same ones after they were freed. One row is enough there:
rows meet only in the room of a page, which is the matter of `table_manager`, and the one row can be in any
page of either table. In `table_manager` the two pages are a source and a destination,
and a page of 7 bytes holds up to three rows, with gaps at the end, in the middle and at the front; everything the run checks
there, but the end of its statements, is proved for any number and any size of pages. The catalog's `sys_columns` outgrows its first extent. Two stored
rows are enough for `executor`, whose rows interact only through the pinned page and the
counts of a result; its literals include one that wraps, one of the wrong kind, one that is
too long for the buffer, short and full dates, NULL in each nullable column and in one that
is not. Nine words hold every clause of every statement at least once, though not all together; every word of
three-word lines is tried next to every other one, with and without a blank. `MaxExtent`,
`WrittenBits`, `WrittenHints`, `WrittenLinks`, `MaxPage`, `MaxCreations`, `MaxRows`, `MaxPins`, `MaxAny`, `MaxWords` and the wrap `UINT32` are bounds of the runs; the code's
values are in the comments next to the constants. `TouchedPages` are the pages whose
write lets the file grow.

Deadlock is checked in every run but `frontend` and `frontend_errors`, where a line may be at its
bound, or the parser no longer read to its end.

Fairness is assumed in two runs. `extent_manager`: weak fairness of the steps of the
running allocation or deallocation. The thread holds `lock_` and waits for nobody, since the pool
answers at once, if only with `nullptr`. `table_manager`: weak fairness of the steps of
the running scan and of the running compaction, on the caller's thread. Nothing is
assumed of the disk: no operation has to succeed.

## Divergences

Four runs check what a comment or document says, and TLC finds the code doing
otherwise. They are quoted in `PROJECT.json`.

1. The GAM page that no longer fits in the GAM extent goes to the end of the file and
   protects the wrong extent (`extent_manager.cpp:145`, run `extent_manager_beyond`).
2. Columns can come back in another order (`catalog_manager.cpp:37`, run `catalog_order`).
3. An INSERT that fails at a row that cannot be serialized leaves the page of the row
   before pinned (`table_manager.cpp:57`, run `executor_pins`).
4. What follows a statement is not looked at (`parser.cpp:29`, run `frontend_errors`): `DELETE FROM t WHRE id = 1`
   deletes every row.

These were met while modelling; the models follow the code, and no run is spent on them:

5. A removal that fails after the extent was unlisted keeps the hint (`iam_manager.cpp:243`, `:247`), and a
   later search returns a page outside of the table, where an inserted row is lost. `HintsGoStaleByFailure` says that this is
   the only way, and `TablesKeepTheirRows` and `ImplementsBag` that nothing else takes rows from a table.
6. A table that was created at the second attempt, after `create_table` threw behind
   `insert_sys_table_record` (`catalog_manager.cpp:263`), is reopened with the chain of the first
   (`:55`), without its rows. `ReopenKeepsTables` excepts names with two rows for this.
7. `buffer_pool_manager.h:104` says that `fetch_page` returns `nullptr` if all frames are
   pinned. It also does when the victim cannot be written (`BPM:196`) or the page not be
   read (`BPM:76`).
8. `slotted_page.h:204` says that `compact` eliminates all orphaned bytes. It returns
   early without a tombstone (`slotted_page.cpp:53`), and `delete_tuple` trims the last ones
   (`:153`): the bytes of the last rows stay. `slotted_page.h:167` says that a delete
   frees the row's size; it frees directory entries only.
9. `table_manager.h:157` says that COMPACT moves rows to denser pages. The search for a
   destination runs over the whole list (`table_manager.cpp:272`), sparser pages included.
10. The count of a destination's room is compared with the row's size and reduced by the
   size of the row and a slot (`table_manager.cpp:295`): when the row reuses a slot it wraps
   below zero, and the page is tried for every later row. (`RoomLeft` in `TableManager`;
   the mutant that does not wrap is found at once.)
11. `sys_columns` does not store whether a column may be NULL (`catalog_manager.cpp:215`),
    and every column that is loaded may: NOT NULL is gone after reopening.
12. A string shorter than its DATE or TIMESTAMP column, such as a date in a TIMESTAMP column,
    is followed by bytes that were never written (`tuple.cpp:96`), while `deserialize` trims
    "null padding" (`:159`): it is read back with whatever was on the stack. `ReadBack` allows it.
13. A value of another kind than its column, such as an integer literal for a FLOAT column, throws
    `std::bad_variant_access` (`tuple.cpp:38`, `:68`), which `Executor::execute` does not catch
    (`executor.cpp:120`); the command line does.
14. A bootstrap that throws after it has put the chains into the header (`catalog_manager.cpp:78`) is not
    repeated: the system tables then work without rows about themselves, and a user can create a
    table named `sys_tables`. The same goes for a failure between their extents or pages (`:84-90`).
15. `ValueElement` follows `parser.cpp:167`: a list of values passes over any token that is no literal, so that
    `VALUES (a)` is a row without values. Where the line ends in the list, the end of the tokens is passed, too
    (`:203`), and `peek()` (`parser.h:66`) reads behind the vector. `PastEndOnlyForAValue` says that this is the only way.
16. A comma before the first or after the last element of a list is accepted, and so are INSERT without VALUES and CREATE
    TABLE without columns.
17. `std::stoll`, `std::stod` and, for the size of a VARCHAR, `std::stoi` throw `std::out_of_range` (`parser.cpp:169`, `:172`,
    `:263`), which is no `std::runtime_error` (`parser.h:42`); the smallest 64-bit integer cannot be written, because the sign is applied after the conversion (`parser.cpp:192`).

What holds although it looks doubtful: the position of the tail does say which IAM page
is free, after any unlinking (`TailIsLast`); freeing extents while walking a stale copy
of the IAM page, in which the place of a freed extent is visited again, frees no extent with rows and ends; DELETE under the scanner skips no
row; an allocation that failed between creating and linking a GAM page is resumed
without two pages for the same bits; a page that was freed or unlinked can be created again as an IAM page, since
COMPACT flushes before it returns (`RefusedOnlyAfterFailure`).

## Proofs

The theorems hold for every value of the constants, within the named assumption of each module
(`PoolAssumption`, `ExtentAssumption`, `SlottedPageAssumption`, `IamAssumption`, `StorageAssumption`,
`TableAssumption`, `CatalogAssumption`, `FormatAssumption`, `ExpressionAssumption`, `IntAssumption`, `ExecutorAssumption`). Where a theorem has a further hypothesis, it is listed here with what it stands for in
the code. Each module's proof has an inductive invariant, one lemma per action or kind of change, and a theorem per
property.

| Module | Theorems | Says of the specification |
|---|---|---|
| `BufferPoolProofs` | `Invariance`, `TypeCorrect`, `FramesAccounted`, `PagesMapped`, `PinsProtect`, `CleanIsStored` | `IInv`, `TypeOK`, `FrameAccounting`, `PageTableConsistent`, `PinsMatchHolders`, `CleanMatchesDisk` always hold |
| | `CheckpointDurable`, `LruOrderKept` | `CheckpointIsDurable`, `LruKeepsOrder` |
| | `Refinement` | implements `PageStore` |
| `ExtentManagerProofs` | `TypeCorrect` | `TypeOK` |
| | `NothingIsSkipped`, `ExtentsHaveOneUser`, `LastTryFindsSpace`, `GamPagesAreKept`, `Refinement` | `NothingFreeIsSkipped`, `OneUserPerExtent`, `NewGamHasSpace`, `GamPagesAreNotHandedOut`, and it implements `ExtentSpace`: while `ChainInGamExtent` |
| | `SmallDatabaseIsSafe` | the same without that condition, if `SmallDatabase` |
| `SlottedPageProofs` | `Invariance`, `TypeCorrect`, `Separation`, `CompactReclaims` | `IInv`, `TypeOK`, `NothingOverlaps`, `RebuildReclaimsAll` |
| | `Refinement` | implements `RowSlots` |
| `TableStorageProofs` | `IamInvariance`, `TypeCorrect`, `ExtentsHaveOneOwner`, `TailsAreLast`, `HintsStayInTheirTable`, `NothingElseIsLost` | `IamInv`, `TypeOK`, `OneOwner`, `TailIsLast`, `HintsGoStaleByFailure`, `LostByFailureOrUnlinking` |
| | `Refinement` | implements `TableExtents` |
| | `StorageImplementsIam` | every statement is a step of `IamManager` or none |
| | `StorageOneOwner`, `StorageTailIsLast`, `StorageHints`, `StorageLosses`, `StorageRefinement` | so that what is proved of the chains holds under the statements |
| | `StorageTypeCorrect`, `CleanWhenHandedOut`, `RowsAreKept` | `StorageTypeOK`, `RefusedOnlyAfterFailure`, `TablesKeepTheirRows` |
| `TableManagerProofs` | `Invariance`, `TypeCorrect`, `CompleteScans`, `StatementsShorten` | `IInv`, `TypeOK`, `ScanIsComplete`, `StatementShortens` |
| | `Refinement` | implements `RowBag` |
| `CatalogProofs` | `Invariance`, `TypeCorrect`, `OidsAreUnique`, `NamesAreUnique`, `TablesAreReopened` | `IInv`, `TypeOK`, `OidsNameOneTable`, `CreatedOnce`, `ReopenKeepsTables`, if `OidsSuffice` |
| `ExecutorProofs` | `Invariance`, `TypeCorrect`, `InsertIsReadBack`, `ScansAnswer` | `IInv`, `TypeOK`, `RowsReadBack`, `ScanAnswersQuery` |

`NewGamHasSpace` and `StatementShortens` are stated in the proof modules: what they say of the runs' instances is part of
what `AllocationEnds` and `StatementEnds` check there.

`CommonLemmas` has what several of them need: division, least and greatest elements, `Append`, `RemoveAt`,
`RemoveFirst`, `ToSet`, and induction over `0..n`, stated for a set (`LeastNatural`, `Induction`, `Recursion`,
`SameRecursion`): a recursive function on `0..n` has the values its equation says. That is how the loops of `compact`
are reasoned about; a recursive operator cannot be. `TreeRecursion` is the same for a function on the nodes of finite
trees, and `FlattenFacts` and `FlattenPositions` say where the parts of a concatenation of many sequences are found in it.

**Buffer pool.** `Lists(freeList, FreeFrames)` and `Lists(lruList, EvictableFrames)` say that each list has exactly
the frames it should, each once, in a form that survives appending, taking the head and
removing an element (`AppendLists`, `TailLists`, `RemoveFirstLists`). `PageTableConsistent` and
`PinsMatchHolders` are needed so that the victim of an eviction is a frame without
holders. `HandlesConsistent` is the strengthening that is not a property: a client has a
page iff it has a frame, and has written only if it has either. Without it the unpin
step cannot be shown to decrement a positive count. `CleanMatchesDisk` rests on all of
them, and `CheckpointDurable` on it: every page that is not dirty is already
on the disk and every dirty one is written by a checkpoint that succeeds. For `Refinement`, the lemmas that
preserve the invariant per kind of change also say what the change does to `CurrentContent`: nothing for fetches,
evictions and flushes, since the frame that is given up is clean or was just written.

**Extent manager.** `GamChain` says that the links of the GAM pages give the chain and that cursor and walk are at places of it. It holds
until a user overwrites a link (`ChainOrOverwritten`), which takes a GAM page outside of the GAM extent, and has to say why the GAM page that is created at the end of the file is not one the
chain has already: a page behind the end of the file can only be in the chain while it is dirty (`UnwrittenAreDirty`),
and `create_and_link_new_gam` refuses a dirty page. `SpaceInv` has the properties and two facts that they need: the
chain is a prefix of extent 1, and the page about to be linked stands for free extents only. It holds as long as the
chain lies in extent 1 (`ChainInGamExtent`). That condition cannot be dropped: divergence 1 is what happens without it. It is
a property of the database's size: `SmallDatabase` says that there are fewer extents than the pages of
extent 1 have bits for, which with the code's 8 pages of about 32000 bits is a file below 8 GB, and `SmallDatabaseIsSafe` that such
a database meets the condition for good. `LastTryFindsSpace` is a comment of `allocate_extent` ("guaranteed to have space"): without space it would return
`INVALID_PAGE_ID` as if it were a page. The run's constants are of this kind. `TypeCorrect` has no such hypothesis: what it says of the cursor's place in the chain
holds beyond the GAM extent, too, for as long as no link was overwritten, and the types of the variables after that.

**Slotted page.** The invariant is that the page is one of `GoodPage`: the types, and `Sound`, that is `NothingOverlaps` with each byte's
owner. `CompactReclaims` needs one more, which is not visible in any single operation: the lengths of all
entries add up to no more than the bytes behind `freePtr` (`Counted`). It is what makes the tuples fit when
`compact` inserts them without asking. The sum and the rebuilt page are recursive functions; both are followed over the
directory by induction.

**IAM chains.** `IamInv` states the properties in terms of disjointness of the tables' pages, lists and extents, and
by position in the chain, which appending and unlinking preserve one table at a time. `RowsAreKept` adds the rows: a
page that is in no table's extent may have rows, of a table that freed it, but they are out of every table's reach until the page
is formatted, and it is formatted when it is handed out.

**Table statements.** A page is a `SoundPage`: its free-space pointer lies behind the directory, and the sizes of its rows
add up to no more than the bytes behind that pointer (`Counted`, as partial sums over the slots, which an insert, a delete and a
compaction each carry over). Without it the pages that `Defragment` packs could refuse a row. `InsertedRow`, `DeletedRow` and
`CompactedRows` say what the operations of `RowSlots` do to the copies of each row; `SamePerPage`, `OneMoreOnAPage` and `PagesWithNothing`
carry that from one page to the table, for any finite number of pages. `Refinement` follows: a move of COMPACT is one insert and one delete,
an extent that is freed has no row, and a new one is formatted before it is read; a hint outside of the listed extents comes only from a removal
that failed (`HintOK`), and until then no insert is lost. It needs that the pinned page and COMPACT's statistics only
name pages of the table (`CurrentOK`, `CompactionOK`), however stale the numbers are, and that the walk over the copy, which meets a
freed extent once more, finds it unlisted then.
`CompleteScans` has a second invariant, `ScanInv`: the copies of a row behind the scanner's place are those it has returned or, if they
match the DELETE, none. A deletion can shorten the directory that is being scanned; the lemma `ScanRowInv` shows that it takes no slot from the
part still ahead that has a row. `StatementsShorten` is what there is to prove of termination without fairness: the visits that are left, and within
a visit the slots that are left, are naturals that no step of a scan or a compaction leaves as they were. A deletion only shortens the page that is walked
(`DeletedRow`), and a row moves to another page (`DestinationFacts`); that the walk can always take its next step stays with `StatementEnds`.

**Catalog.** The invariant relates the stored rows to the call in progress: rows have oids below the counter and chains below the number created,
each oid of a call is its own (`TablesInv`, `CallInv`), and `sys_columns` holds under an oid exactly the columns recorded so
far, name by name (`Holds`); of what a successful call made, both stay true (`CreatedInv`). `OnceInv` is why `create_table` may
look only at the cache. `OidsSuffice` says that there are fewer calls than oids (65436): with the wrap of the `uint16_t`
two tables share an oid, and the hypothesis excludes just that. The order in which a scan returns rows is a bijection of
numbers with places (`NthIsBijection`).

**Executor.** Three things are proved of the definitions before the state is looked at. `RoundTrip`: for any schema
and any tuple that fits it, each field starts in the bytes where `deserialize` looks for it (`OffsetFacts`, by induction over the columns,
since the place of a field depends on the lengths read before it), the bitmap has the bit of a column iff its value is NULL (`BitmapFacts`, which rests on
column numbers being determined by their byte and bit), and what is read is what was written, up to the bytes behind a short DATE. `TupleForFacts`:
`build_column_index` picks for each column the value the statement means for it, whatever the order of the list. `WhereAnswersSql`: on every
finite tree, the short-circuit evaluation, unless it throws, is true exactly where SQL's logic of three values is; false stands for
both false and unknown, which no operator of the clause turns into true. The invariant then says that a stored row is one that an
accepted INSERT serialized (`WrittenRows`, a slot can be empty during a DELETE only), that the rows still to come of an INSERT were all
checked and follow each other (`InsertInv`), and that a SELECT has one row for each it has passed that satisfies the clause: there is an
injection `f` with `result[j]` the projection of row `f[j]` (`ScanInv`). When nothing is left to scan, `f` is the bijection that
`ScansAnswer` counts with. `ExpressionAssumption` is what it needs of the parser: the operands of a node are nodes, and trees are finite.

Model-checked only:

- Liveness: `AllocationEnds`, `StatementEnds`, with their fairness. The prover has no rule for it, and none for ENABLED.
  What their proofs would rest on is proved where it is not evident: `StatementsShorten`, and `LastTryFindsSpace` for the last step of an allocation.
- `Frontend`, with `LexesWhatIsMeant`, `TreeIsTheText`, `TextParsesBack` and `PastEndOnlyForAValue`: `Lexer`, `Parser` and
  `SqlText` are recursive operators over texts and trees, which the prover does not load; what they compute for every
  text would be an induction over data.

## Not modelled

- The translation of CREATE TABLE's tree into columns, the formatting of dates, and statements on tables that do
  not exist. Of the lexer, five keywords no statement uses (ORDER, ASC, DESC, LIMIT, OFFSET).
- The storage inspector and the command line change no state; the engine only wires the others.
- Counters, statistics and log messages.
- The rows of the system tables about themselves, and whether a column may be NULL (divergence 11). The wrap of the
  16-bit oid takes 65436 creations, and the overflow of a page id 2^28 extents; both are in the modules (`OidAfter`,
  `PageIdOverflow`) and out of the runs' reach.
- Pins of the table, IAM and extent managers: these modules treat an access as
  succeeding or failing. Pins that a failing method leaves behind are listed as hazards.
- Two statements at a time: the engine does not run them.

## Plan

Done: (1) the buffer pool with its proofs, (2) extents, (3) slotted pages, (4) IAM
chains, (5) table statements, (6) the catalog with failing loads, (7) rows as bytes, WHERE and the
executor, (8) rows of several tables over the IAM chains, (9) the lexer and the parser.

(10) proofs of every safety property, action property and refinement of the buffer pool, the extents, the slotted page, the
IAM chains, the storage of tables, the statements on one table, the catalog, and the executor with its WHERE clauses and the
bytes of rows.

Next, as far as the prover reaches:

1. That the placement of rows by COMPACT in `TableManager` is one that `TableStorage` allows, so that the two views of COMPACT
   are one chain of refinements.

`Lexer`, `Parser` and `SqlText` are recursive operators and stay with TLC.
