------------------------------- MODULE Executor -------------------------------
(***************************************************************************)
(* INSERT, SELECT and DELETE on one table: what Executor makes of the      *)
(* columns, literals and WHERE clause of a statement (sql/executor.cpp),   *)
(* and the pin that TableManager::insert_rows keeps from one row to the    *)
(* next (storage/table_manager.cpp).                                       *)
(*                                                                         *)
(* Where a row is stored is left to module TableManager: here a new row    *)
(* goes to the page of the row before or to another one, and a scan meets  *)
(* the rows in any order.                                                  *)
(***************************************************************************)
EXTENDS Where

CONSTANTS
    NameLists,      \* column lists of INSERT, <<>> for none
    LiteralRows,    \* a row of VALUES: a sequence of literals
    WhereClauses,   \* expressions
    Selections,     \* column lists of SELECT
    MaxRows,        \* bound: rows in the table and in a statement
    MaxPins         \* bound: pages that stay pinned are counted up to it

ASSUME ExecutorAssumption ==
    /\ \A names \in NameLists \cup Selections : names \in Seq(ToSet(names))
    /\ LiteralRows \subseteq Seq(Values)
    /\ WhereClauses \subseteq {<<>>} \cup {<<e>> : e \in Expressions}
    /\ MaxRows \in Nat
    /\ MaxPins \in Nat

VARIABLES
    rows,       \* the stored rows of the table; <<>> is a slot without one
    stmt,       \* the statement that runs
    node,       \* its column list, rows of values and WHERE clause
    todo,       \* a scan: the rows still to come; INSERT: the values
    held,       \* insert_rows has the page of the row before pinned
    pins,       \* pages that statements have left pinned
    result      \* the rows that SELECT returns

vars == <<rows, stmt, node, todo, held, pins, result>>

NoNode == [names |-> <<>>, values |-> <<>>, where |-> <<>>]

Init ==
    /\ rows = <<>>
    /\ stmt = "idle"
    /\ node = NoNode
    /\ todo = {}
    /\ held = FALSE
    /\ pins = 0
    /\ result = <<>>

Stored == {k \in DOMAIN rows : rows[k] # <<>>}

EndStatement ==
    /\ stmt' = "idle"
    /\ node' = NoNode
    /\ todo' = {}
    /\ held' = FALSE
    /\ result' = <<>>

-----------------------------------------------------------------------------
(* INSERT *)

\* build_column_index: the position in VALUES of a column that is listed, 0
\* of one that is not.
BuildColumnIndex(names) ==
    [i \in ColumnIndex |->
        IF names = <<>> THEN i
        ELSE Max({0} \cup {v \in DOMAIN names :
                    HasColumn(names[v]) /\ FindColumn(names[v]) = i})]

\* No unknown or duplicate column, and no NOT NULL column is left out.
ColumnListAccepted(names) ==
    names # <<>> =>
        /\ Len(names) <= Len(Schema)
        /\ \A v \in DOMAIN names : HasColumn(names[v])
        /\ IsInjective(names)
        /\ \A i \in ColumnIndex :
              BuildColumnIndex(names)[i] = 0 => Schema[i].nullable

\* The row of values in the order of the schema.
TupleFor(names, values) ==
    LET index == BuildColumnIndex(names)
    IN  [i \in ColumnIndex |->
            IF index[i] = 0 THEN NULL ELSE LiteralToValue(values[index[i]])]

\* Mutant: only a column without a value is checked, not a NULL.
RowLongEnough(names, values) ==
    Len(values) = IF names = <<>> THEN Len(Schema) ELSE Len(names)

RowAccepted(names, values) ==
    /\ Len(values) = IF names = <<>> THEN Len(Schema) ELSE Len(names)
    /\ \A i \in ColumnIndex :
          IsNull(TupleFor(names, values)[i]) => Schema[i].nullable

\* execute_insert, up to the first row.
StartInsert(names) ==
    /\ stmt = "idle"
    /\ ColumnListAccepted(names)
    /\ stmt' = "build"
    /\ node' = [NoNode EXCEPT !.names = names]
    /\ UNCHANGED <<rows, todo, held, pins, result>>

\* Every row is checked before the first one is stored.
BuildTuple(values) ==
    /\ stmt = "build"
    /\ Cardinality(Stored) + Len(node.values) < MaxRows
    /\ RowAccepted(node.names, values)
    /\ node' = [node EXCEPT !.values = Append(@, values)]
    /\ UNCHANGED <<rows, stmt, todo, held, pins, result>>

RefuseTuple(values) ==
    /\ stmt = "build"
    /\ ~RowAccepted(node.names, values)
    /\ EndStatement
    /\ UNCHANGED <<rows, pins>>

\* insert_rows begins.
InsertRows ==
    /\ stmt = "build"
    /\ stmt' = "insert"
    /\ todo' = DOMAIN node.values
    /\ UNCHANGED <<rows, node, held, pins, result>>

NextTuple == TupleFor(node.names, node.values[Min(todo)])

\* Into the page of the row before, or into another one when that is full.
\* Without columns the row has no bytes and is passed over.
InsertRow(padding) ==
    /\ stmt = "insert"
    /\ todo # {}
    /\ CanSerialize(NextTuple)
    /\ rows' = IF ColumnIndex = {} THEN rows ELSE Append(rows, Serialize(NextTuple, padding))
    /\ todo' = todo \ {Min(todo)}
    /\ held' = (held \/ ColumnIndex # {})
    /\ UNCHANGED <<stmt, node, pins, result>>

\* serialize throws: nothing unpins the page of the row before, whose rows
\* stay and are not marked dirty by it.
SerializeThrows ==
    /\ stmt = "insert"
    /\ todo # {}
    /\ ~CanSerialize(NextTuple)
    /\ pins' = Min({MaxPins, IF held THEN pins + 1 ELSE pins})
    /\ EndStatement
    /\ UNCHANGED rows

\* No page can be had, after that of the row before was unpinned.
NoPageForRow ==
    /\ stmt = "insert"
    /\ todo # {}
    /\ ColumnIndex # {}
    /\ CanSerialize(NextTuple)
    /\ EndStatement
    /\ UNCHANGED <<rows, pins>>

EndInsert ==
    /\ stmt = "insert"
    /\ todo = {}
    /\ EndStatement
    /\ UNCHANGED <<rows, pins>>

-----------------------------------------------------------------------------
(* SELECT and DELETE *)

\* Without a WHERE clause every row matches.
TupleMatchesWhere(tuple) ==
    IF node.where = <<>> THEN "true" ELSE EvaluateWhere(node.where[1], tuple)

StartScan(kind, names, where) ==
    /\ stmt = "idle"
    /\ \A k \in DOMAIN names : HasColumn(names[k])
    /\ kind = "delete" => names = <<>>
    /\ stmt' = kind
    /\ node' = [NoNode EXCEPT !.names = names, !.where = where]
    /\ todo' = Stored
    /\ UNCHANGED <<rows, held, pins, result>>

\* * stands for all columns.
ProjectTuple(tuple) ==
    IF node.names = <<>> THEN tuple
    ELSE [k \in DOMAIN node.names |-> tuple[FindColumn(node.names[k])]]

Matches(k) == TupleMatchesWhere(Deserialize(rows[k]))

ScanRow(kind, k, answer) ==
    /\ stmt = kind
    /\ k \in todo
    /\ CanDeserialize(rows[k])
    /\ Matches(k) = answer
    /\ todo' = todo \ {k}

SkipRow(k) ==
    /\ \E kind \in {"select", "delete"} : ScanRow(kind, k, "false")
    /\ UNCHANGED <<rows, stmt, node, held, pins, result>>

SelectRow(k) ==
    /\ ScanRow("select", k, "true")
    /\ result' = Append(result, ProjectTuple(Deserialize(rows[k])))
    /\ UNCHANGED <<rows, stmt, node, held, pins>>

\* delete_row fails when the page cannot be fetched again.
DeleteRow(k) ==
    /\ ScanRow("delete", k, "true")
    /\ rows' \in {rows, [rows EXCEPT ![k] = <<>>]}
    /\ UNCHANGED <<stmt, node, held, pins, result>>

\* Empty slots are forgotten, since a scan meets the rows in any order.
RowsLeft == FlattenSeq([k \in DOMAIN rows |-> IF rows[k] = <<>> THEN <<>> ELSE <<rows[k]>>])

\* deserialize or the WHERE clause throws; the scanner unpins its page.
ScanThrows(k) ==
    /\ stmt \in {"select", "delete"}
    /\ k \in todo
    /\ CanDeserialize(rows[k]) => Matches(k) = "throws"
    /\ EndStatement
    /\ rows' = RowsLeft
    /\ UNCHANGED pins

EndScan ==
    /\ stmt \in {"select", "delete"}
    /\ todo = {}
    /\ EndStatement
    /\ rows' = RowsLeft
    /\ UNCHANGED pins

-----------------------------------------------------------------------------
Next ==
    \/ \E names \in NameLists : StartInsert(names)
    \/ \E values \in LiteralRows : BuildTuple(values) \/ RefuseTuple(values)
    \/ InsertRows
    \/ \E padding \in Paddings : InsertRow(padding)
    \/ SerializeThrows
    \/ NoPageForRow
    \/ EndInsert
    \/ \E names \in Selections, where \in WhereClauses :
          StartScan("select", names, where) \/ StartScan("delete", names, where)
    \/ \E k \in DOMAIN rows : SkipRow(k) \/ SelectRow(k) \/ DeleteRow(k) \/ ScanThrows(k)
    \/ EndScan

Spec == Init /\ [][Next]_vars

-----------------------------------------------------------------------------
(* Properties *)

\* What a stored row decodes to.
TableRow(k) == Deserialize(rows[k])

\* Every stored row can be decoded under the schema that wrote it, and gives a
\* value of its type for every column.  NULL is only in columns that may be
\* NULL (README.md: NOT NULL columns require values), whatever the column list,
\* the literals and the null bitmap are.
TypeOK ==
    /\ Len(rows) <= MaxRows
    /\ stmt \in {"idle", "build", "insert", "select", "delete"}
    /\ held \in BOOLEAN
    /\ pins \in 0..MaxPins
    /\ \A k \in Stored :
          /\ CanDeserialize(rows[k])
          /\ \A i \in ColumnIndex :
                LET value == TableRow(k)[i]
                IN  /\ IF value = NULL THEN Schema[i].nullable
                       ELSE value.kind = KindOf(Schema[i].type)
                    /\ value.kind = "int" =>
                         value.data[1] \in -(INT32 \div 2)..(INT32 \div 2 - 1)

\* A name stands for the first column that has it.
Named(name, i) ==
    Schema[i].name = name /\ \A j \in ColumnIndex : j < i => Schema[j].name # name

\* The value that a row of VALUES means for column i.
Meant(names, values, i) ==
    IF names = <<>> THEN values[i]
    ELSE IF \E v \in DOMAIN names : Named(names[v], i)
         THEN values[CHOOSE v \in DOMAIN names : Named(names[v], i)]
         ELSE NULL

\* An int is read back modulo its width, a string of a DATE or TIMESTAMP is
\* cut at the length of the column.  A shorter one is read back with whatever
\* follows it.
ReadBack(column, meant, read) ==
    CASE meant.kind = "int" ->
            read.kind = "int" /\ (read.data[1] - meant.data[1]) % INT32 = 0
      [] meant.kind = "string" /\ column.type # "VARCHAR" ->
            /\ read.kind = "string"
            /\ IsPrefix(SubSeq(meant.data, 1, Min({Len(meant.data), column.length})), read.data)
      [] OTHER -> read = meant

\* A row that INSERT stores decodes to the values that the statement names
\* for its columns, in whichever order, NULL where it names none, and leaves
\* the rows that are there alone.
RowsReadBack ==
    [][Len(rows') > Len(rows) =>
        /\ SubSeq(rows', 1, Len(rows)) = rows
        /\ \A i \in ColumnIndex :
              ReadBack(Schema[i], Meant(node.names, node.values[Min(todo)], i),
                       TableRow(Len(rows))'[i])]_vars

\* The rows that satisfy the WHERE clause in SQL's three-valued logic.
Satisfying ==
    {k \in Stored : node.where = <<>> \/ Truth(node.where[1], TableRow(k)) = "true"}

\* A SELECT that ends without an error returns one row for each row of the
\* table that satisfies its WHERE clause; DELETE, whether or not it fails half
\* way, takes no row that does not.
ScanAnswersQuery ==
    [][/\ stmt = "select" /\ EndScan =>
            \A t \in {ProjectTuple(TableRow(k)) : k \in Stored} \cup ToSet(result) :
                Cardinality({j \in DOMAIN result : result[j] = t})
                  = Cardinality({k \in Satisfying : ProjectTuple(TableRow(k)) = t})
       /\ stmt = "delete" /\ stmt' = "delete" =>
            \A k \in Stored : rows'[k] = <<>> => k \in Satisfying]_vars

\* buffer_pool_manager.h: "The caller is responsible for exactly one matching
\* unpin_page()".  Between statements no page is pinned.
PinsAreReturned == stmt = "idle" => pins = 0
=============================================================================
