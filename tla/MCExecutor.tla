------------------------------ MODULE MCExecutor ------------------------------
EXTENDS Executor

Col(name, type, length, nullable) ==
    [name |-> name, type |-> type, length |-> length, nullable |-> nullable]

\* With two columns to a byte, the null bitmap has two bytes.
MCSchema == <<
    Col("id",   "INTEGER", 1, FALSE),
    Col("on",   "BOOLEAN", 1, TRUE),
    Col("name", "VARCHAR", 5, FALSE),
    Col("day",  "DATE",    2, TRUE) >>

Num(n)  == Value("int", <<n>>)
Str(s)  == Value("string", s)
True    == Value("bool", <<1>>)
False   == Value("bool", <<0>>)

\* INT32 = 4: 3 is read back as -1.  The last rows are refused, of the wrong
\* type, or too long for a buffer of 9.
MCLiteralRows == {
    <<Num(1), True, Str(<<1>>), Str(<<1, 2>>)>>,
    <<Num(3), NULL, Str(<<>>), Str(<<1>>)>>,
    <<Num(0), False, Str(<<1, 2>>), NULL>>,
    <<Str(<<1>>), Num(1)>>,
    <<Str(<<1, 2>>), NULL>>,
    <<Num(1), NULL, NULL, NULL>>,
    <<Num(1), Num(1), Str(<<1>>), NULL>>,
    <<Num(1), True, Str(<<1, 2, 1>>), Str(<<1, 2>>)>> }

MCNameLists == { <<>>, <<"name", "id">>, <<"id", "on">>, <<"id", "id">>,
                 <<"day", "name", "on", "id">> }

MCSelections == { <<>>, <<"day", "id">> }

Column(name) == [op |-> "column", name |-> name]
Lit(value)   == [op |-> "literal", value |-> value]
Compare(l, op, r) == [op |-> op, left |-> l, right |-> r]
IsNullExpr(e, is_not) == [op |-> "IS", left |-> e, is_not |-> is_not]

MCWhereClauses == { <<>> } \cup { <<e>> : e \in {
    Compare(Column("on"), "!=", Lit(True)),
    Compare(IsNullExpr(Column("day"), TRUE), "AND",
            Compare(Column("day"), "<=", Column("name"))),
    Compare(Column("on"), "OR", Compare(Column("id"), "<", Lit(Value("double", <<1>>)))),
    Compare(Column("name"), ">", Lit(Num(0))),
    Column("nowhere") } }

\* The nodes of these trees, which have three levels.
MCExpressions ==
    LET clauses == {clause[1] : clause \in MCWhereClauses \ {<<>>}}
        parts   == clauses \cup UNION {Operands(e) : e \in clauses}
    IN  parts \cup UNION {Operands(e) : e \in parts}
=============================================================================
