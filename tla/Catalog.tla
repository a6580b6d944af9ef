-------------------------------- MODULE Catalog ------------------------------
(***************************************************************************)
(* The catalog (catalog/catalog_manager.cpp): the system tables sys_tables *)
(* and sys_columns, and the cache of table definitions that statements     *)
(* use, which is filled by create_table and, when the database is opened,  *)
(* from the system tables.                                                 *)
(*                                                                         *)
(* create_table makes several changes one after the other, and each of     *)
(* them may throw.  A system table is a list of pages in which a row goes  *)
(* to the page that find_page_with_space returns; every page can be        *)
(* fetched while a page is searched (module IamManager has searches that   *)
(* fail), and not always when an extent is formatted and when the catalog  *)
(* is loaded.  The rows of the system tables about themselves are left     *)
(* out, and so are the types of columns and whether they may be NULL.      *)
(***************************************************************************)
EXTENDS Integers, Sequences, FiniteSets, FiniteSetsExt

CONSTANTS
    Name,           \* table names
    Column,         \* column definitions, with the width of their row
    MAX_COLUMNS,    \* 256 in the code
    EXTENT_SIZE,    \* pages per extent
    PAGE_ROOM,      \* the room for rows that a page has
    MaxCreations    \* create_table is called so often

ColumnName == {c.name : c \in Column}

ASSUME CatalogAssumption ==
    /\ Column \subseteq [name : ColumnName, width : 1..PAGE_ROOM]
    /\ {EXTENT_SIZE, PAGE_ROOM} \subseteq Nat \ {0}
    /\ {MAX_COLUMNS, MaxCreations} \subseteq Nat

\* next_table_oid is a uint16_t that starts at 100.
UINT16    == 65536
FIRST_OID == 100

Schema  == UNION {[1..n -> Column] : n \in 1..MAX_COLUMNS}
NoTable == [oid |-> 0, iam |-> 0, schema |-> <<>>]

VARIABLES
    nextOid,    \* DatabaseHeader::next_table_oid
    iamChains,  \* how many IAM chains have been created
    sysTables,  \* the pages of sys_tables and the hint for the next insert
    sysColumns, \* the same for sys_columns
    cache,      \* table_cache_
    call,       \* where create_table is, and its arguments and local variables
    created,    \* what the calls of create_table that succeeded made of each name
    missed      \* a load has passed over a page that could not be fetched

vars == <<nextOid, iamChains, sysTables, sysColumns, cache, call, created, missed>>

-----------------------------------------------------------------------------
(* insert_into_table and scan_system_table.  Hint 0 means no hint.         *)

\* initialize_data_extent, when it throws after n pages.  A page that was not
\* formatted has no rows and no room.
NotFormatted   == [rows |-> <<>>, room |-> 0]
EmptyPage      == [rows |-> <<>>, room |-> PAGE_ROOM]
FormattedTo(n) == [k \in 1..EXTENT_SIZE |-> IF k <= n THEN EmptyPage ELSE NotFormatted]
EmptyExtent    == FormattedTo(EXTENT_SIZE)

NoExtents      == [pages |-> <<>>, hint |-> 0]
FirstExtent(n) == [pages |-> FormattedTo(n), hint |-> 0]
EmptyTable     == FirstExtent(EXTENT_SIZE)

\* Mutant: the width of the row is not compared with the room.
NotFull(table, row)  == {p \in DOMAIN table.pages : table.pages[p].room > 0}
WithRoom(table, row) == {p \in DOMAIN table.pages : row.width <= table.pages[p].room}
InHintExtent(table)  == {p \in DOMAIN table.pages :
                            /\ p >= table.hint
                            /\ (p - 1) \div EXTENT_SIZE = (table.hint - 1) \div EXTENT_SIZE}

\* The hint's page and what follows it in its extent, then every page, then a
\* new extent.
PageFor(table, row) ==
    LET near == WithRoom(table, row) \cap InHintExtent(table)
    IN  IF table.hint # 0 /\ near # {} THEN Min(near)
        ELSE IF WithRoom(table, row) # {} THEN Min(WithRoom(table, row))
        ELSE Len(table.pages) + 1

InsertRow(table, row) ==
    LET p     == PageFor(table, row)
        pages == IF p \in DOMAIN table.pages THEN table.pages
                 ELSE table.pages \o EmptyExtent
    IN  [pages |-> [pages EXCEPT ![p].rows = Append(@, row), ![p].room = @ - row.width],
         hint  |-> p]

\* The table keeps the extent that was allocated for a row when formatting it
\* fails, or fetching its first page.
ExtentStays(table, row, after) ==
    /\ PageFor(table, row) \notin DOMAIN table.pages
    /\ \E n \in 0..EXTENT_SIZE :
          after = [pages |-> table.pages \o FormattedTo(n), hint |-> Len(table.pages) + 1]

\* Where the rows are, without those of pages that cannot be fetched.
\* Mutant: only the first extent is read.
FirstPlaces(table, lost) ==
    UNION {{<<p, i>> : i \in DOMAIN table.pages[p].rows} :
               p \in {q \in DOMAIN table.pages : q <= EXTENT_SIZE}}

Places(table, lost) ==
    UNION {{<<p, i>> : i \in DOMAIN table.pages[p].rows} : p \in DOMAIN table.pages \ lost}

RowAt(table, at) == table.pages[at[1]].rows[at[2]]

\* The order in which a scan returns the rows of some places.
Earlier(a, b) == a[1] < b[1] \/ (a[1] = b[1] /\ a[2] < b[2])
Before(S, a)  == {b \in S : Earlier(b, a)}
Nth(S, i)     == CHOOSE a \in S : Cardinality(Before(S, a)) = i - 1

-----------------------------------------------------------------------------
Idle == [step |-> "idle", name |-> "", schema |-> <<>>, oid |-> 0, iam |-> 0,
         recorded |-> 0]

\* What bootstrap leaves: it is not repeated once the header has the chains of
\* the system tables, although it may have failed to give one or both of them
\* an extent, or to format all pages of the first extent or of the second.
Bootstrapped(tables, columns) ==
    \/ {tables, columns} \subseteq {NoExtents, FirstExtent(0)}
    \/ columns = FirstExtent(0) /\ \E n \in 1..EXTENT_SIZE : tables = FirstExtent(n)
    \/ tables = EmptyTable /\ \E n \in 1..EXTENT_SIZE : columns = FirstExtent(n)

Init ==
    /\ nextOid = FIRST_OID
    /\ iamChains = 0
    /\ sysTables \in {NoExtents} \cup {FirstExtent(n) : n \in 0..EXTENT_SIZE}
    /\ sysColumns \in {NoExtents} \cup {FirstExtent(n) : n \in 0..EXTENT_SIZE}
    /\ Bootstrapped(sysTables, sysColumns)
    /\ cache = [n \in Name |-> NoTable]
    /\ call = Idle
    /\ created = [n \in Name |-> <<>>]
    /\ missed = FALSE

\* Mutant: the counter in the header is not advanced.
SameOid(oid) == oid
OidAfter(oid) == (oid + 1) % UINT16

\* Mutant: create_table does not ask.
NeverExists(n) == FALSE
TableExists(n) == cache[n] # NoTable

\* create_table checks its arguments and takes an oid.
BeginCreateTable(n, schema) ==
    /\ call = Idle
    /\ nextOid < FIRST_OID + MaxCreations
    /\ ~TableExists(n)
    /\ nextOid' = OidAfter(nextOid)
    /\ call' = [Idle EXCEPT !.step = "chain", !.name = n, !.schema = schema, !.oid = nextOid]
    /\ UNCHANGED <<iamChains, sysTables, sysColumns, cache, created, missed>>

CreateIamChain ==
    /\ call.step = "chain"
    /\ iamChains' = iamChains + 1
    /\ call' = [call EXCEPT !.step = "table", !.iam = iamChains + 1]
    /\ UNCHANGED <<nextOid, sysTables, sysColumns, cache, created, missed>>

\* insert_sys_table_record
TableRow == [oid |-> call.oid, name |-> call.name, iam |-> call.iam, width |-> 1]

InsertSysTableRecord ==
    /\ call.step = "table"
    /\ sysTables' = InsertRow(sysTables, TableRow)
    /\ call' = [call EXCEPT !.step = "columns"]
    /\ UNCHANGED <<nextOid, iamChains, sysColumns, cache, created, missed>>

\* insert_sys_column_record for the next column.
ColumnRow(c) == [oid |-> call.oid, name |-> c.name, width |-> c.width]

InsertSysColumnRecord ==
    /\ call.step = "columns"
    /\ call.recorded < Len(call.schema)
    /\ sysColumns' = InsertRow(sysColumns, ColumnRow(call.schema[call.recorded + 1]))
    /\ call' = [call EXCEPT !.recorded = @ + 1]
    /\ UNCHANGED <<nextOid, iamChains, sysTables, cache, created, missed>>

NewTable == [oid |-> call.oid, iam |-> call.iam, schema |-> call.schema]

\* The table can be used.
CacheTable ==
    /\ call.step = "columns"
    /\ call.recorded = Len(call.schema)
    /\ cache' = [cache EXCEPT ![call.name] = NewTable]
    /\ created' = [created EXCEPT ![call.name] = Append(@, NewTable)]
    /\ call' = Idle
    /\ UNCHANGED <<nextOid, iamChains, sysTables, sysColumns, missed>>

\* A step throws.  What was done before stays done.
CreateTableFails ==
    /\ call # Idle
    /\ call' = Idle
    /\ \/ UNCHANGED <<iamChains, sysTables, sysColumns>>
       \/ /\ call.step = "chain"
          /\ iamChains' = iamChains + 1
          /\ UNCHANGED <<sysTables, sysColumns>>
       \/ /\ call.step = "table"
          /\ ExtentStays(sysTables, TableRow, sysTables')
          /\ UNCHANGED <<iamChains, sysColumns>>
       \/ /\ call.step = "columns" /\ call.recorded < Len(call.schema)
          /\ ExtentStays(sysColumns, ColumnRow(call.schema[call.recorded + 1]), sysColumns')
          /\ UNCHANGED <<iamChains, sysTables>>
    /\ UNCHANGED <<nextOid, cache, created, missed>>

\* load_all_tables: the first row of sys_tables with the name, and the rows of
\* sys_columns with its oid, in the order in which the scan returns them.
Named(n, lost)       == {a \in Places(sysTables, lost) : RowAt(sysTables, a).name = n}
ColumnsOf(oid, lost) == {a \in Places(sysColumns, lost) : RowAt(sysColumns, a).oid = oid}

LoadedSchema(oid, lost) ==
    LET columns == ColumnsOf(oid, lost)
    IN  [i \in 1..Cardinality(columns) |->
            LET row == RowAt(sysColumns, Nth(columns, i))
            IN  [name |-> row.name, width |-> row.width]]

LoadedTable(n, lostTables, lostColumns) ==
    LET tables == Named(n, lostTables)
        row    == RowAt(sysTables, Nth(tables, 1))
    IN  IF tables = {} THEN NoTable
        ELSE [oid |-> row.oid, iam |-> row.iam, schema |-> LoadedSchema(row.oid, lostColumns)]

\* The pages with rows.  At most one of them is lost, in one load: a bound of
\* the model.
Pages(table) == {p \in DOMAIN table.pages : table.pages[p].rows # <<>>}

\* The database is closed and opened again.
Reopen(lostTables, lostColumns) ==
    /\ call = Idle
    /\ cache' = [n \in Name |-> LoadedTable(n, lostTables, lostColumns)]
    /\ sysTables' = [sysTables EXCEPT !.hint = 0]
    /\ sysColumns' = [sysColumns EXCEPT !.hint = 0]
    /\ missed' = (missed \/ lostTables \cup lostColumns # {})
    /\ UNCHANGED <<nextOid, iamChains, call, created>>

ReopenWhole == Reopen({}, {})

ReopenPartly ==
    /\ ~missed
    /\ \/ \E p \in Pages(sysTables) : Reopen({p}, {})
       \/ \E p \in Pages(sysColumns) : Reopen({}, {p})

Next ==
    \/ \E n \in Name, schema \in Schema : BeginCreateTable(n, schema)
    \/ CreateIamChain
    \/ InsertSysTableRecord
    \/ InsertSysColumnRecord
    \/ CacheTable
    \/ CreateTableFails
    \/ ReopenWhole
    \/ ReopenPartly

Spec == Init /\ [][Next]_vars

-----------------------------------------------------------------------------
(* Properties *)

TypeOK ==
    /\ nextOid \in 0..(UINT16 - 1)
    /\ iamChains \in Nat
    /\ \A table \in {sysTables, sysColumns} :
          /\ Len(table.pages) % EXTENT_SIZE = 0
          /\ table.hint \in 0..Len(table.pages)
          /\ \A p \in DOMAIN table.pages : table.pages[p].room \in 0..PAGE_ROOM
    /\ \A n \in Name : /\ cache[n].oid \in Nat
                       /\ cache[n].iam \in 0..iamChains
                       /\ Len(cache[n].schema) <= MAX_COLUMNS
    /\ call.step \in {"idle", "chain", "table", "columns"}
    /\ call.recorded \in 0..Len(call.schema)

\* An oid names one table and one set of columns, and a chain belongs to one
\* table, also when creations fail half-way and are tried again: otherwise a
\* table would be loaded with columns or extents of another one.
OidsNameOneTable ==
    \A a, b \in Places(sysTables, {}) : a # b =>
        /\ RowAt(sysTables, a).oid # RowAt(sysTables, b).oid
        /\ RowAt(sysTables, a).iam # RowAt(sysTables, b).iam

\* A name is given to one table only, whatever creations fail in between and
\* however often the database is reopened; create_table looks only at the
\* cache for that.  If a load has passed over a page, a table that exists can
\* be created again: its rows can then be out of reach.
CreatedOnce == ~missed => \A n \in Name : Len(created[n]) <= 1

\* Opening the database with every page finds every table that was created,
\* and loses none that could be used, also after a load that passed over a
\* page.  A table whose name no other call has used gets its own rows and its
\* own columns.
ColumnNames(table) == [name \in ColumnName |->
    Cardinality({i \in DOMAIN table.schema : table.schema[i].name = name})]

ReopenKeepsTables ==
    [][ReopenWhole => \A n \in Name :
          /\ cache[n] # NoTable \/ created[n] # <<>> => cache'[n] # NoTable
          /\ Len(created[n]) = 1 /\ Cardinality(Named(n, {})) = 1 =>
                /\ cache'[n].iam = created[n][1].iam
                /\ ColumnNames(cache'[n]) = ColumnNames(created[n][1])]_vars

\* README.md:27 says of the catalog: "Persistent table definitions and
\* schemas, loaded when reopening a database."  So the columns of a table are
\* in the order in which its rows are serialized, before and after.
ReopenKeepsColumnOrder ==
    [][ReopenWhole => \A n \in Name :
          ~missed /\ cache[n] # NoTable /\ Cardinality(Named(n, {})) = 1 =>
              \A i \in DOMAIN cache[n].schema :
                  cache'[n].schema[i].name = cache[n].schema[i].name]_vars
=============================================================================
