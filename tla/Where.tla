--------------------------------- MODULE Where --------------------------------
(***************************************************************************)
(* The WHERE clause (sql/executor.cpp): evaluate_where_clause answers      *)
(* "true", "false", or "throws" for a DbException.                         *)
(*                                                                         *)
(* An expression is a record.  Its op is "literal", with a value; "column",*)
(* with a name; "IS", with left and is_not; or "AND", "OR" or a            *)
(* comparison, with left and right.                                        *)
(***************************************************************************)
EXTENDS TupleFormat

CONSTANTS
    Expressions,    \* the nodes of the trees of WHERE clauses
    INT32           \* the number of ints (2^32)

\* What an expression is made of.
Operands(e) ==
    CASE e.op \in {"literal", "column"} -> {}
      [] e.op = "IS"                    -> {e.left}
      [] OTHER                          -> {e.left, e.right}

\* The parser builds finite trees: among any expressions there is one that has
\* no other of them as an operand.
ASSUME ExpressionAssumption ==
    /\ \A e \in Expressions :
          /\ Operands(e) \subseteq Expressions
          /\ e.op = "literal" => e.value \in Values
    /\ \A S \in SUBSET Expressions : S # {} => \E e \in S : Operands(e) \cap S = {}

ASSUME IntAssumption == INT32 \in Nat \ {0} /\ INT32 % 2 = 0

Bool(b) == IF b THEN "true" ELSE "false"
THROWS == Value("throws", <<>>)

\* find_column_index: the first column of this name.
HasColumn(name) == \E i \in ColumnIndex : Schema[i].name = name
FindColumn(name) == Min({i \in ColumnIndex : Schema[i].name = name})

\* literal_to_value casts an int64_t to int32_t.
LiteralToValue(literal) ==
    IF literal.kind = "int"
    THEN Value("int", <<((literal.data[1] + INT32 \div 2) % INT32) - INT32 \div 2>>)
    ELSE literal

Evaluate(e, tuple) ==
    CASE e.op = "literal" -> LiteralToValue(e.value)
      [] e.op = "column" -> IF HasColumn(e.name) THEN tuple[FindColumn(e.name)] ELSE THROWS
      [] OTHER -> THROWS

\* Lexicographic order of strings; numbers and booleans are strings of one.
Precedes(l, r) ==
    \E k \in 1..(Len(l) + 1) :
        /\ k - 1 <= Len(r) /\ SubSeq(l, 1, k - 1) = SubSeq(r, 1, k - 1)
        /\ IF k > Len(l) THEN Len(l) < Len(r) ELSE k <= Len(r) /\ l[k] < r[k]

\* An int compares with a double.
Comparable(l, r) == l.kind = r.kind \/ {l.kind, r.kind} = {"int", "double"}

Holds(l, op, r) ==
    CASE op = "="  -> l = r
      [] op = "!=" -> l # r
      [] op = "<"  -> Precedes(l, r)
      [] op = "<=" -> ~Precedes(r, l)
      [] op = ">"  -> Precedes(r, l)
      [] op = ">=" -> ~Precedes(l, r)

\* Mutant: NULL is not equal to anything, so != holds.
ApplyComparisonNullDiffers(l, op, r) ==
    IF THROWS \in {l, r} THEN "throws"
    ELSE IF NULL \in {l, r} THEN Bool(op = "!=")
    ELSE IF ~Comparable(l, r) THEN "throws"
    ELSE Bool(Holds(l.data, op, r.data))

\* apply_comparison: NULL compares with nothing.
ApplyComparison(l, op, r) ==
    IF THROWS \in {l, r} THEN "throws"
    ELSE IF NULL \in {l, r} THEN "false"
    ELSE IF ~Comparable(l, r) THEN "throws"
    ELSE Bool(Holds(l.data, op, r.data))

\* The right operand of AND and OR is evaluated only if it matters.
EvaluateWhere(expression, tuple) ==
    LET answer[e \in Expressions] ==
            CASE e.op = "AND" -> IF answer[e.left] = "true" THEN answer[e.right] ELSE answer[e.left]
              [] e.op = "OR"  -> IF answer[e.left] = "false" THEN answer[e.right] ELSE answer[e.left]
              [] e.op = "IS"  -> LET v == Evaluate(e.left, tuple)
                                 IN  IF v = THROWS THEN "throws" ELSE Bool(IsNull(v) # e.is_not)
              [] e.op \in {"literal", "column"} ->
                    LET v == Evaluate(e, tuple)
                    IN  IF v.kind = "bool" THEN Bool(v.data = <<1>>) ELSE "throws"
              [] OTHER -> ApplyComparison(Evaluate(e.left, tuple), e.op, Evaluate(e.right, tuple))
    IN  answer[expression]

-----------------------------------------------------------------------------
(* The reference: SQL's logic of three values, of a clause that is typed. *)

TruthOfComparison(l, op, r) ==
    IF NULL \in {l, r} THEN "unknown" ELSE Bool(Holds(l.data, op, r.data))

Truth(expression, tuple) ==
    LET truth[e \in Expressions] ==
            CASE e.op \in {"AND", "OR"} ->
                    LET both   == {truth[e.left], truth[e.right]}
                        strong == Bool(e.op = "OR")
                        weak   == Bool(e.op = "AND")
                    IN  IF strong \in both THEN strong
                        ELSE IF "unknown" \in both THEN "unknown" ELSE weak
              [] e.op = "IS" -> Bool((Evaluate(e.left, tuple) = NULL) # e.is_not)
              [] e.op \in {"literal", "column"} ->
                    LET v == Evaluate(e, tuple)
                    IN  IF IsNull(v) THEN "unknown" ELSE Bool(v.data = <<1>>)
              [] OTHER -> TruthOfComparison(Evaluate(e.left, tuple), e.op, Evaluate(e.right, tuple))
    IN  truth[expression]
=============================================================================
