------------------------------- MODULE SqlText -------------------------------
(***************************************************************************)
(* The reference for the parser: how a tree is written.  It says what the  *)
(* grammar of README.md and of the tests means (which operator binds more, *)
(* where parentheses are needed, in which order the clauses come) and is   *)
(* written from the trees, without any of the parser's operators.          *)
(***************************************************************************)
EXTENDS Parser
LOCAL INSTANCE SequencesExt

\* A keyword, a character or an operator of two characters as a token.
Word(type) ==
    Token(type, CASE type = "NE"  -> <<"BANG", "EQ">>
                  [] type = "LTE" -> <<"LT", "EQ">>
                  [] type = "GTE" -> <<"GT", "EQ">>
                  [] OTHER        -> <<type>>)

Words(types) == [i \in DOMAIN types |-> Word(types[i])]
Name(text)   == <<Token("IDENTIFIER", text)>>
InParens(ts) == Words(<<"LPAREN">>) \o ts \o Words(<<"RPAREN">>)

\* The elements of `es`, each written by W, with a comma in between.
Commas(es, W(_)) ==
    FlattenSeq([i \in DOMAIN es |-> (IF i = 1 THEN <<>> ELSE Words(<<"COMMA">>)) \o W(es[i])])

Unless(isAbsent, ts) == IF isAbsent THEN <<>> ELSE ts

-----------------------------------------------------------------------------
\* How tightly an expression holds together: a comparison more than AND, AND
\* more than OR.
Binding(e) ==
    CASE e.node = "Binary" /\ e.op = "OR"  -> 1
      [] e.node = "Binary" /\ e.op = "AND" -> 2
      [] e.node \in {"Binary", "IsNull"}   -> 3
      [] OTHER                             -> 4

\* An expression where one that binds at least as `need` stands alone; with
\* `all`, every operation gets its parentheses.  Operators group to the left.
RECURSIVE Expression(_, _, _)
Expression(e, need, all) ==
    LET b == Binding(e)
        bare ==
          CASE e.node = "Identifier" -> Name(e.name)
            [] e.node = "Qualified"  -> Name(e.qualifier) \o Words(<<"DOT">>) \o Name(e.name)
            [] e.node = "Literal"    -> Unless(e.sign = "+", Words(<<"MINUS">>)) \o <<Token(e.type, e.text)>>
            [] e.node = "Binary"     -> Expression(e.left, b, all) \o Words(<<e.op>>)
                                            \o Expression(e.right, b + 1, all)
            [] e.node = "IsNull"     -> Expression(e.expression, 3, all)
                                            \o Words(IF e.is_not THEN <<"IS", "NOT", "NULL_LITERAL">>
                                                                 ELSE <<"IS", "NULL_LITERAL">>)
    IN  IF b < need \/ (all /\ b < 4) THEN InParens(bare) ELSE bare

Whole(e, all) == Expression(e, 1, all)

ClauseText(keyword, e, all) ==
    IF e.node = "nullptr" THEN <<>> ELSE Words(<<keyword>>) \o Whole(e, all)

Alias(a) == IF a = <<>> THEN <<>> ELSE Words(<<"AS">>) \o Name(a)

TableText(t) == Name(t.name) \o Alias(t.alias)

SelectText(s, all) ==
    Words(<<"SELECT">>)
    \o (IF s.is_select_all THEN Words(<<"STAR">>)
        ELSE Commas(s.columns, LAMBDA c : Whole(c.expression, all) \o Alias(c.alias)))
    \o Words(<<"FROM">>) \o TableText(s.from_clause)
    \o FlattenSeq([i \in DOMAIN s.join_clause |->
            LET j == s.join_clause[i]
            IN  Words(<<"JOIN">>) \o TableText(j.table) \o Words(<<"ON">>) \o Whole(j.on_condition, all)])
    \o ClauseText("WHERE", s.where_clause, all)
    \o (IF s.group_by.node = "nullptr" THEN <<>>
        ELSE Words(<<"GROUP", "BY">>) \o Commas(s.group_by.expressions, LAMBDA e : Whole(e, all))
                \o ClauseText("HAVING", s.group_by.having_clause, all))

ColumnText(c) ==
    Name(c.name) \o Words(<<c.type>>)
    \o Unless(c.size = <<>>, InParens(<<Token("INT_LITERAL", c.size)>>))
    \o Unless(c.nullable, Words(<<"NOT", "NULL_LITERAL">>))

NameList(ns) == Commas(ns, LAMBDA n : Name(n.name))

\* The words of a statement.
Text(s, all) ==
    CASE s.node = "Select" -> SelectText(s, all)
      [] s.node = "Insert" ->
            Words(<<"INSERT", "INTO">>) \o Name(s.tableName)
            \o Unless(s.columnNames = <<>>, InParens(NameList(s.columnNames)))
            \o Unless(s.values = <<>>, Words(<<"VALUES">>) \o
                    Commas(s.values, LAMBDA r : InParens(Commas(r, LAMBDA v : Whole(v, all)))))
      [] s.node = "Update" ->
            Words(<<"UPDATE">>) \o Name(s.table_name) \o Words(<<"SET">>)
            \o Commas(s.updates, LAMBDA u : Name(u.column) \o Words(<<"EQ">>) \o Whole(u.value, all))
            \o ClauseText("WHERE", s.where_clause, all)
      [] s.node = "Delete" ->
            Words(<<"DELETE", "FROM">>) \o Name(s.table_name) \o ClauseText("WHERE", s.where_clause, all)
      [] s.node = "Drop" ->
            Words(IF s.if_exists THEN <<"DROP", "TABLE", "IF", "EXISTS">> ELSE <<"DROP", "TABLE">>)
            \o NameList(s.table_names)
      [] s.node = "Compact" -> Words(<<"COMPACT", "TABLE">>) \o Name(s.table_name)
      [] s.node = "CreateTable" ->
            Words(<<"CREATE", "TABLE">>) \o Name(s.table_name)
            \o InParens(Commas(s.columns, ColumnText)
                  \o Unless(s.primary_key_columns = <<>>,
                        Unless(s.columns = <<>>, Words(<<"COMMA">>))
                        \o Words(<<"PRIMARY", "KEY">>) \o InParens(NameList(s.primary_key_columns))))
      [] s.node = "CreateIndex" ->
            Words(<<"CREATE", "INDEX">>) \o Name(s.index_name) \o Words(<<"ON">>) \o Name(s.table_name)
            \o InParens(NameList(s.columns))

-----------------------------------------------------------------------------
(* A sample of the grammar: every clause there or left out, lists of one   *)
(* and of two, every type and every kind of literal, and conditions two    *)
(* operations deep.                                                        *)

OneOrTwo(S) == {<<x>> : x \in S} \cup {<<x, y>> : x, y \in S}
MaybeNone(S) == {nullptr} \cup S

Names   == {Identifier(Token("IDENTIFIER", <<text>>)) : text \in {"a", "b"}}
Columns == Names \cup {Qualified(Token("IDENTIFIER", <<"a">>), Token("IDENTIFIER", <<"b">>))}
One     == Literal(Token("INT_LITERAL", <<"1">>), "+")
Values  == {Literal(Token("INT_LITERAL", <<"2024">>), sign) : sign \in {"+", "-"}}
           \cup {Literal(Token("FLOAT_LITERAL", <<"1", "DOT", "1">>), sign) : sign \in {"+", "-"}}
           \cup {Literal(Word(type), "+") : type \in {"NULL_LITERAL", "TRUE", "FALSE"}}
           \cup {Literal(Token(type, <<"1">>), "+") :
                    type \in {"STRING_LITERAL", "DATE_LITERAL", "TIMESTAMP_LITERAL"}}

Operations(S, ops) == {Binary(x, op, y) : x, y \in S, op \in ops}
                      \cup {IsNull(x, isNot) : x \in S, isNot \in BOOLEAN}
Conditions ==
    LET ops == {"OR", "AND", "EQ"}
        few == {One, Identifier(Token("IDENTIFIER", <<"a">>))}
    IN  Operations(few \cup Operations(few, ops), ops)
        \cup Operations(Columns \cup Values, Relations)
SomeConditions == Operations({One}, {"OR"})

Tables == [node : {"Table"}, name : {<<"a">>}, alias : {<<>>, <<"b">>}]

Selects ==
    LET columns == [node : {"Column"}, expression : Columns, alias : {<<>>, <<"b">>}]
        joins   == [node : {"Join"}, table : Tables, on_condition : SomeConditions]
        groups  == [node : {"GroupBy"}, expressions : OneOrTwo(Names),
                    having_clause : MaybeNone(SomeConditions)]
    IN  {[node |-> "Select", is_select_all |-> cs = <<>>, columns |-> cs, from_clause |-> table,
          join_clause |-> join, where_clause |-> where, group_by |-> group] :
            cs \in {<<>>} \cup OneOrTwo(columns), table \in Tables,
            join \in {<<>>} \cup {<<j>> : j \in joins}, where \in MaybeNone({One}),
            group \in MaybeNone(groups)}

Inserts ==
    [node : {"Insert"}, tableName : {<<"a">>}, columnNames : {<<>>} \cup OneOrTwo(Names),
     values : {<<>>} \cup {<<row>> : row \in OneOrTwo(Values)} \cup OneOrTwo({<<One>>, <<One, One>>})]

Updates ==
    [node : {"Update"}, table_name : {<<"a">>},
     updates : OneOrTwo([node : {"Set"}, column : {<<"a">>}, value : Values \cup SomeConditions]),
     where_clause : MaybeNone(SomeConditions)]

Deletes == [node : {"Delete"}, table_name : {<<"a">>}, where_clause : MaybeNone(Conditions)]

Creates ==
    LET definitions == {[node |-> "Definition", name |-> <<"a">>, type |-> type, size |-> size,
                         nullable |-> nullable] :
                            type \in ColumnTypes, size \in {<<>>, <<"1">>}, nullable \in BOOLEAN}
        keys == [node : {"Key"}, name : {<<"a">>, <<"b">>}]
    IN  [node : {"CreateTable"}, table_name : {<<"a">>},
         columns : OneOrTwo({d \in definitions : d.size # <<>> => d.type = "VARCHAR"}),
         primary_key_columns : {<<>>} \cup OneOrTwo(keys)]
        \cup [node : {"CreateIndex"}, index_name : {<<"a">>}, table_name : {<<"b">>},
              columns : OneOrTwo(Names)]

Statements ==
    Selects \cup Inserts \cup Updates \cup Deletes \cup Creates
    \cup [node : {"Drop"}, if_exists : BOOLEAN, table_names : OneOrTwo(Names)]
    \cup [node : {"Compact"}, table_name : {<<"a">>}]
=============================================================================
