-------------------------------- MODULE Parser -------------------------------
(***************************************************************************)
(* parser.cpp: recursive descent from tokens to the tree of a statement.   *)
(*                                                                         *)
(* A parse_ function takes the tokens and a position (the member pos) and  *)
(* gives a result: "ok" with a node and the next position, or how it       *)
(* ended: "ParseError" (a DbException), "Unsupported" (a runtime_error),   *)
(* "OutOfRange" (std::stoll, std::stod, std::stoi: no runtime_error), or   *)
(* "PastEnd": peek() was asked for a token after the last one, and what    *)
(* follows is up to the memory found there.                                *)
(***************************************************************************)
EXTENDS Lexer

CONSTANTS TooLarge,  \* numbers that std::stoll or std::stod refuses
          TooWide    \* digits whose number std::stoi refuses

\* What has no int64_t has no int, either.
ASSUME WidthAssumption == {number \in TooLarge : Len(number) = 1} \subseteq TooWide

\* A unique_ptr that was never set.
nullptr == [node |-> "nullptr"]

Ok(node, pos)  == [end |-> "ok", node |-> node, pos |-> pos]
Fail(end, pos) == [end |-> end, node |-> nullptr, pos |-> pos]

\* Go on with the node and the position of r, unless it failed.
Then(r, F(_, _)) == IF r.end = "ok" THEN F(r.node, r.pos) ELSE r

\* Wrap the node of r.
Map(r, F(_)) == Then(r, LAMBDA n, p : Ok(F(n), p))

PeekIn(ts, pos, types) == pos <= Len(ts) /\ ts[pos].type \in types

match(ts, pos, type) == PeekIn(ts, pos, {type})

ensure(ts, pos, type) ==
    CASE pos > Len(ts)        -> Fail("PastEnd", pos)
      [] match(ts, pos, type) -> Ok(ts[pos], pos + 1)
      [] OTHER                -> Fail("ParseError", pos)

\* The tokens `types` one after the other; the node is the last one.
RECURSIVE Expect(_, _, _)
Expect(ts, pos, types) ==
    LET r == ensure(ts, pos, Head(types))
    IN  IF r.end # "ok" \/ Len(types) = 1 THEN r ELSE Expect(ts, r.pos, Tail(types))

-----------------------------------------------------------------------------
(* Nodes of ast.h. *)

Identifier(token)    == [node |-> "Identifier", name |-> token.text]
Qualified(t, c)      == [node |-> "Qualified", qualifier |-> t.text, name |-> c.text]
Literal(token, sign) == [node |-> "Literal", type |-> token.type, text |-> token.text, sign |-> sign]
Binary(left, op, right) == [node |-> "Binary", left |-> left, op |-> op, right |-> right]
IsNull(expression, isNot) == [node |-> "IsNull", expression |-> expression, is_not |-> isNot]

Numbers  == {"INT_LITERAL", "FLOAT_LITERAL"}
Literals == Numbers \cup {"NULL_LITERAL", "DATE_LITERAL", "TIMESTAMP_LITERAL",
                          "STRING_LITERAL", "TRUE", "FALSE"}
Relations == {"EQ", "NE", "LT", "LTE", "GT", "GTE"}

\* The literal at pos, a number with its sign, when the caller has seen that it
\* is one: std::stoll throws for a number that has no int64_t, std::stod for one
\* that has no double.
LiteralAt(ts, pos, sign) ==
    IF ts[pos].type \in Numbers /\ ts[pos].text \in TooLarge THEN Fail("OutOfRange", pos)
    ELSE Ok(Literal(ts[pos], sign), pos + 1)

\* A minus sign and the number it needs.
NegativeAt(ts, pos) ==
    IF PeekIn(ts, pos + 1, Numbers) THEN LiteralAt(ts, pos + 1, "-")
    ELSE Fail("ParseError", pos + 1)

\* What follows a name: nothing, or a dot and the column.
NameAt(ts, pos) ==
    IF match(ts, pos + 1, "DOT")
    THEN Map(ensure(ts, pos + 2, "IDENTIFIER"), LAMBDA c : Qualified(ts[pos], c))
    ELSE Ok(Identifier(ts[pos]), pos + 1)

-----------------------------------------------------------------------------
(* Expressions: OR binds weakest, then AND, then comparisons and IS NULL. *)

RECURSIVE parse_logical_expression(_, _), parse_and_expression(_, _),
          parse_relational_expression(_, _), parse_value_or_identifier(_, _),
          MoreOr(_, _), MoreAnd(_, _), MoreRelations(_, _)

parse_logical_expression(ts, pos) == MoreOr(ts, parse_and_expression(ts, pos))

\* The while loops: `left` is what was built so far.
MoreOr(ts, left) ==
    IF left.end = "ok" /\ match(ts, left.pos, "OR")
    THEN MoreOr(ts, Map(parse_and_expression(ts, left.pos + 1),
                        LAMBDA right : Binary(left.node, "OR", right)))
    ELSE left

parse_and_expression(ts, pos) == MoreAnd(ts, parse_relational_expression(ts, pos))

\* Mutant: the right side of AND takes an OR with it.
AndTakesOr(ts, left) ==
    IF left.end = "ok" /\ match(ts, left.pos, "AND")
    THEN MoreAnd(ts, Map(parse_logical_expression(ts, left.pos + 1),
                         LAMBDA right : Binary(left.node, "AND", right)))
    ELSE left

MoreAnd(ts, left) ==
    IF left.end = "ok" /\ match(ts, left.pos, "AND")
    THEN MoreAnd(ts, Map(parse_relational_expression(ts, left.pos + 1),
                         LAMBDA right : Binary(left.node, "AND", right)))
    ELSE left

parse_relational_expression(ts, pos) == MoreRelations(ts, parse_value_or_identifier(ts, pos))

MoreRelations(ts, left) ==
    CASE left.end # "ok" -> left
      [] left.end = "ok" /\ PeekIn(ts, left.pos, Relations) ->
            MoreRelations(ts, Map(parse_value_or_identifier(ts, left.pos + 1),
                LAMBDA right : Binary(left.node, ts[left.pos].type, right)))
      [] left.end = "ok" /\ match(ts, left.pos, "IS") ->
            LET isNot == match(ts, left.pos + 1, "NOT")
                null  == ensure(ts, left.pos + (IF isNot THEN 2 ELSE 1), "NULL_LITERAL")
            IN  MoreRelations(ts, Map(null, LAMBDA t : IsNull(left.node, isNot)))
      [] OTHER -> left

parse_value_or_identifier(ts, pos) ==
    CASE pos > Len(ts)              -> Fail("PastEnd", pos)
      [] PeekIn(ts, pos, Literals)  -> LiteralAt(ts, pos, "+")
      [] match(ts, pos, "MINUS")    -> NegativeAt(ts, pos)
      [] match(ts, pos, "IDENTIFIER") -> NameAt(ts, pos)
      [] match(ts, pos, "LPAREN")   ->
            Then(parse_logical_expression(ts, pos + 1),
                 LAMBDA e, p : Map(ensure(ts, p, "RPAREN"), LAMBDA t : e))
      [] OTHER                      -> Fail("ParseError", pos)

-----------------------------------------------------------------------------
(* Lists: do { if (match(COMMA)) advance(); one element; } while (match(COMMA)). *)

\* An element adds a sequence of nodes: none or one, two for a column with a key.
NameElement(ts, pos) ==
    Map(ensure(ts, pos, "IDENTIFIER"), LAMBDA t : <<Identifier(t)>>)

ColumnElement(ts, pos) ==
    LET Column(e, alias) == <<[node |-> "Column", expression |-> e, alias |-> alias]>>
    IN  Then(ensure(ts, pos, "IDENTIFIER"), LAMBDA t, next :
        Then(NameAt(ts, pos), LAMBDA e, p :
            IF match(ts, p, "AS")
            THEN Map(ensure(ts, p + 1, "IDENTIFIER"), LAMBDA a : Column(e, a.text))
            ELSE Ok(Column(e, <<>>), p)))

SetElement(ts, pos) ==
    Then(Expect(ts, pos, <<"IDENTIFIER", "EQ">>), LAMBDA eq, p :
        Map(parse_logical_expression(ts, p),
            LAMBDA v : <<[node |-> "Set", column |-> ts[pos].text, value |-> v]>>))

\* A token that is no literal is passed over, the end of the tokens with it.
ValueElement(ts, pos) ==
    CASE pos > Len(ts)             -> Fail("PastEnd", pos)
      [] PeekIn(ts, pos, Literals) -> Map(LiteralAt(ts, pos, "+"), LAMBDA v : <<v>>)
      [] match(ts, pos, "MINUS")   -> Map(NegativeAt(ts, pos), LAMBDA v : <<v>>)
      [] OTHER                     -> Ok(<<>>, pos + 1)

\* Mutant: as in the list of values, advance() whatever the token is.
KeyElementSkips(ts, pos) ==
    IF match(ts, pos, "IDENTIFIER") THEN Ok(<<[node |-> "Key", name |-> ts[pos].text]>>, pos + 1)
    ELSE IF pos > Len(ts) THEN Fail("PastEnd", pos) ELSE Ok(<<>>, pos + 1)

KeyElement(ts, pos) ==
    IF match(ts, pos, "IDENTIFIER") THEN Ok(<<[node |-> "Key", name |-> ts[pos].text]>>, pos + 1)
    ELSE Ok(<<>>, pos)

ExpressionElement(ts, pos) == Map(parse_logical_expression(ts, pos), LAMBDA e : <<e>>)

ColumnTypes == {"INT", "BOOL", "FLOAT", "DATE", "TIMESTAMP", "VARCHAR"}

\* The type of a column; the node is the size of a VARCHAR, or no text.
TypeAt(ts, pos) ==
    CASE ~PeekIn(ts, pos, ColumnTypes) -> Fail("ParseError", pos)
      [] match(ts, pos, "VARCHAR") /\ match(ts, pos + 1, "LPAREN") ->
            Then(ensure(ts, pos + 2, "INT_LITERAL"), LAMBDA size, p :
                IF size.text \in TooWide THEN Fail("OutOfRange", p)
                ELSE Map(ensure(ts, p, "RPAREN"), LAMBDA t : size.text))
      [] OTHER -> Ok(<<>>, pos + 1)

\* Two keywords that may be there; the node says whether they are.
Both(ts, pos, first, second) ==
    IF match(ts, pos, first) THEN Map(ensure(ts, pos + 1, second), LAMBDA t : TRUE)
    ELSE Ok(FALSE, pos)

DefinitionAt(ts, pos) ==
    LET name == ts[pos].text
        column(size, notNull) ==
            [node |-> "Definition", name |-> name, type |-> ts[pos + 1].type,
             size |-> size, nullable |-> ~notNull]
    IN  Then(TypeAt(ts, pos + 1), LAMBDA size, p :
        Then(Both(ts, p, "NOT", "NULL_LITERAL"), LAMBDA notNull, q :
        Map(Both(ts, q, "PRIMARY", "KEY"), LAMBDA key :
            <<column(size, notNull)>> \o (IF key THEN <<[node |-> "Key", name |-> name]>> ELSE <<>>))))

RECURSIVE ListOf(_, _, _), Element(_, _, _)
ListOf(kind, ts, pos) ==
    LET first == Element(kind, ts, IF match(ts, pos, "COMMA") THEN pos + 1 ELSE pos)
    IN  IF first.end = "ok" /\ match(ts, first.pos, "COMMA")
        THEN Map(ListOf(kind, ts, first.pos), LAMBDA rest : first.node \o rest)
        ELSE first

\* A column of CREATE TABLE, or a table's key, or both, or neither.
DefinitionElement(ts, pos) ==
    Then(IF match(ts, pos, "IDENTIFIER") THEN DefinitionAt(ts, pos) ELSE Ok(<<>>, pos),
         LAMBDA column, p :
            IF ~match(ts, p, "PRIMARY") THEN Ok(column, p)
            ELSE Then(Expect(ts, p, <<"PRIMARY", "KEY", "LPAREN">>), LAMBDA t, q :
                 Then(ListOf("key", ts, q), LAMBDA keys, r :
                 Map(ensure(ts, r, "RPAREN"), LAMBDA u : column \o keys))))

parse_value_list(ts, pos) ==
    Then(ensure(ts, pos, "LPAREN"), LAMBDA t, p :
    Then(ListOf("value", ts, p), LAMBDA values, q :
    Map(ensure(ts, q, "RPAREN"), LAMBDA u : <<values>>)))

Element(kind, ts, pos) ==
    CASE kind = "name"       -> NameElement(ts, pos)
      [] kind = "column"     -> ColumnElement(ts, pos)
      [] kind = "set"        -> SetElement(ts, pos)
      [] kind = "value"      -> ValueElement(ts, pos)
      [] kind = "row"        -> parse_value_list(ts, pos)
      [] kind = "key"        -> KeyElement(ts, pos)
      [] kind = "definition" -> DefinitionElement(ts, pos)

\* GROUP BY takes expressions between commas, none before the first.
RECURSIVE parse_expression_list(_, _)
parse_expression_list(ts, pos) ==
    LET first == ExpressionElement(ts, pos)
    IN  IF first.end = "ok" /\ match(ts, first.pos, "COMMA")
        THEN Map(parse_expression_list(ts, first.pos + 1), LAMBDA rest : first.node \o rest)
        ELSE first

-----------------------------------------------------------------------------
(* Clauses and statements. *)

\* The expression after a keyword that may be there (WHERE, HAVING).
Clause(ts, pos, keyword) ==
    IF match(ts, pos, keyword) THEN parse_logical_expression(ts, pos + 1) ELSE Ok(nullptr, pos)

\* Mutant: the alias is read and not kept.
TableWithoutAlias(ts, pos) ==
    Then(ensure(ts, pos, "IDENTIFIER"), LAMBDA t, p :
        Ok([node |-> "Table", name |-> t.text, alias |-> <<>>],
           IF match(ts, p, "IDENTIFIER") THEN p + 1 ELSE p))

parse_from_table_ref(ts, pos) ==
    LET Table(t, alias) == [node |-> "Table", name |-> t.text, alias |-> alias]
    IN  Then(ensure(ts, pos, "IDENTIFIER"), LAMBDA t, p :
            CASE match(ts, p, "AS") ->
                    Map(ensure(ts, p + 1, "IDENTIFIER"), LAMBDA a : Table(t, a.text))
              [] match(ts, p, "IDENTIFIER") -> Ok(Table(t, ts[p].text), p + 1)
              [] OTHER -> Ok(Table(t, <<>>), p))

JoinClause(ts, pos) ==
    IF ~match(ts, pos, "JOIN") THEN Ok(<<>>, pos)
    ELSE Then(parse_from_table_ref(ts, pos + 1), LAMBDA t, p :
         Then(ensure(ts, p, "ON"), LAMBDA on, q :
         Map(parse_logical_expression(ts, q), LAMBDA e :
            <<[node |-> "Join", table |-> t, on_condition |-> e]>>)))

parse_group_by_clause(ts, pos) ==
    IF ~match(ts, pos, "GROUP") THEN Ok(nullptr, pos)
    ELSE Then(ensure(ts, pos + 1, "BY"), LAMBDA by, p :
         Then(parse_expression_list(ts, p), LAMBDA es, q :
         Map(Clause(ts, q, "HAVING"), LAMBDA h :
            [node |-> "GroupBy", expressions |-> es, having_clause |-> h])))

parse_select_node(ts, pos) ==
    LET columns == IF match(ts, pos + 1, "STAR") THEN Ok(<<>>, pos + 2)
                   ELSE ListOf("column", ts, pos + 1)
    IN  Then(columns, LAMBDA cs, p1 :
        Then(ensure(ts, p1, "FROM"), LAMBDA from, p2 :
        Then(parse_from_table_ref(ts, p2), LAMBDA table, p3 :
        Then(JoinClause(ts, p3), LAMBDA join, p4 :
        Then(Clause(ts, p4, "WHERE"), LAMBDA where, p5 :
        Map(parse_group_by_clause(ts, p5), LAMBDA group :
            [node |-> "Select", is_select_all |-> cs = <<>>, columns |-> cs,
             from_clause |-> table, join_clause |-> join, where_clause |-> where,
             group_by |-> group]))))))

\* The column list may be left out, and so may VALUES with its rows.
parse_insert_node(ts, pos) ==
    Then(Expect(ts, pos, <<"INSERT", "INTO", "IDENTIFIER">>), LAMBDA table, p :
    Then(CASE match(ts, p, "LPAREN") ->
                 Then(ListOf("name", ts, p + 1), LAMBDA ns, q :
                     Map(ensure(ts, q, "RPAREN"), LAMBDA t : ns))
           [] match(ts, p, "IDENTIFIER") -> Fail("ParseError", p)
           [] OTHER -> Ok(<<>>, p), LAMBDA names, q :
    Map(IF match(ts, q, "VALUES") THEN ListOf("row", ts, q + 1) ELSE Ok(<<>>, q), LAMBDA rows :
        [node |-> "Insert", tableName |-> table.text, columnNames |-> names, values |-> rows])))

parse_update_node(ts, pos) ==
    Then(Expect(ts, pos, <<"UPDATE", "IDENTIFIER", "SET">>), LAMBDA set, p :
    Then(ListOf("set", ts, p), LAMBDA updates, q :
    Map(Clause(ts, q, "WHERE"), LAMBDA where :
        [node |-> "Update", table_name |-> ts[pos + 1].text, updates |-> updates,
         where_clause |-> where])))

parse_delete_node(ts, pos) ==
    Then(Expect(ts, pos, <<"DELETE", "FROM", "IDENTIFIER">>), LAMBDA table, p :
    Map(Clause(ts, p, "WHERE"), LAMBDA where :
        [node |-> "Delete", table_name |-> table.text, where_clause |-> where]))

parse_drop_node(ts, pos) ==
    Then(ensure(ts, pos + 1, "TABLE"), LAMBDA t, p :
    Then(Both(ts, p, "IF", "EXISTS"), LAMBDA ifExists, q :
    Map(ListOf("name", ts, q), LAMBDA names :
        [node |-> "Drop", if_exists |-> ifExists, table_names |-> names])))

parse_compact_node(ts, pos) ==
    Map(Expect(ts, pos, <<"TABLE", "IDENTIFIER">>), LAMBDA t :
        [node |-> "Compact", table_name |-> t.text])

parse_create_table_node(ts, pos) ==
    Then(Expect(ts, pos, <<"TABLE", "IDENTIFIER", "LPAREN">>), LAMBDA t, p :
    Then(ListOf("definition", ts, p), LAMBDA items, q :
    Map(ensure(ts, q, "RPAREN"), LAMBDA u :
        [node |-> "CreateTable", table_name |-> ts[pos + 1].text,
         columns |-> SelectSeq(items, LAMBDA i : i.node = "Definition"),
         primary_key_columns |-> SelectSeq(items, LAMBDA i : i.node = "Key")])))

parse_create_index_node(ts, pos) ==
    Then(Expect(ts, pos, <<"INDEX", "IDENTIFIER", "ON", "IDENTIFIER", "LPAREN">>), LAMBDA t, p :
    Then(ListOf("name", ts, p), LAMBDA names, q :
    Map(ensure(ts, q, "RPAREN"), LAMBDA u :
        [node |-> "CreateIndex", index_name |-> ts[pos + 1].text,
         table_name |-> ts[pos + 3].text, columns |-> names])))

parse_create_node(ts, pos) ==
    CASE match(ts, pos + 1, "TABLE") -> parse_create_table_node(ts, pos + 1)
      [] match(ts, pos + 1, "INDEX") -> parse_create_index_node(ts, pos + 1)
      [] OTHER -> Fail("ParseError", pos + 1)

\* Parser::parse: one statement; what comes after it is not looked at.
parse(ts) ==
    CASE match(ts, 1, "SELECT")  -> parse_select_node(ts, 1)
      [] match(ts, 1, "INSERT")  -> parse_insert_node(ts, 1)
      [] match(ts, 1, "DELETE")  -> parse_delete_node(ts, 1)
      [] match(ts, 1, "UPDATE")  -> parse_update_node(ts, 1)
      [] match(ts, 1, "DROP")    -> parse_drop_node(ts, 1)
      [] match(ts, 1, "CREATE")  -> parse_create_node(ts, 1)
      [] match(ts, 1, "COMPACT") -> parse_compact_node(ts, 2)
      [] OTHER -> Fail("Unsupported", 1)

=============================================================================
