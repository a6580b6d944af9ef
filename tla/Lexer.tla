-------------------------------- MODULE Lexer --------------------------------
(***************************************************************************)
(* lexer.cpp: the text of a statement as a sequence of tokens.             *)
(*                                                                         *)
(* The text is a sequence of pieces.  A piece is a run of letters that is  *)
(* never looked into (a keyword, or a name), a run of digits, or a         *)
(* character, named by the token it makes alone.  Pieces that touch are    *)
(* one run of characters, as in the code: "SELECT" next to "a" is the      *)
(* identifier SELECTa.  A token is its type and its text, in pieces.       *)
(* peek() and advance() never leave the text, so a position is passed      *)
(* along instead of kept.                                                  *)
(***************************************************************************)
EXTENDS Naturals, Sequences

CONSTANTS Letters,     \* runs of letters that are no keyword
          Digits,      \* runs of digits
          DateForm,    \* the texts is_date_literal of utils.cpp accepts
          TimestampForm \* the texts is_timestamp_literal of utils.cpp accepts

\* keyword_map, without the words no statement of the parser uses (ORDER, ASC,
\* DESC, LIMIT, OFFSET).
Keyword == {"SELECT", "FROM", "WHERE", "INSERT", "INTO", "VALUES", "UPDATE", "SET",
            "DELETE", "CREATE", "TABLE", "INDEX", "DROP", "IF", "EXISTS", "PRIMARY",
            "KEY", "INT", "FLOAT", "VARCHAR", "BOOL", "DATE", "TIMESTAMP", "JOIN", "ON",
            "GROUP", "BY", "HAVING", "AND", "OR", "NOT", "IS", "NULL_LITERAL", "TRUE",
            "FALSE", "AS", "COMPACT"}

\* The characters that are a token by themselves.
Single == {"STAR", "DOT", "COMMA", "LPAREN", "RPAREN", "SEMICOLON", "PLUS", "MINUS"}

Token(type, text) == [type |-> type, text |-> text]

\* The token of a keyword or of a character, which says all of its text.
Fixed(type) == Token(type, <<type>>)

IsLetter(piece) == piece \in Keyword \cup Letters
IsDigit(piece)  == piece \in Digits

\* Whether the piece at p of cs is there and satisfies the class.
Have(cs, p, Class(_)) == p <= Len(cs) /\ Class(cs[p])

\* The first position from p on whose piece is not of the class: a while loop.
Skip(cs, p, Class(_)) ==
    CHOOSE q \in p..Len(cs) + 1 :
        /\ \A i \in p..q - 1 : Class(cs[i])
        /\ ~Have(cs, q, Class)

-----------------------------------------------------------------------------
(* Each operator gives the token that starts at p and the position after it. *)

make_operator(cs, p) ==
    LET two == Have(cs, p + 1, LAMBDA c : c = "EQ")
    IN  CASE cs[p] = "EQ"   -> <<Fixed("EQ"), p + 1>>
          [] cs[p] = "BANG" -> IF two THEN <<Token("NE", <<"BANG", "EQ">>), p + 2>>
                                      ELSE <<Token("UNKNOWN", <<"BANG">>), p + 1>>
          [] cs[p] = "LT"   -> IF two THEN <<Token("LTE", <<"LT", "EQ">>), p + 2>>
                                      ELSE <<Fixed("LT"), p + 1>>
          [] cs[p] = "GT"   -> IF two THEN <<Token("GTE", <<"GT", "EQ">>), p + 2>>
                                      ELSE <<Fixed("GT"), p + 1>>

\* Without a closing quote the rest of the text is one unknown token.
make_string(cs, p) ==
    LET q == Skip(cs, p + 1, LAMBDA c : c # "QUOTE")
        value == SubSeq(cs, p + 1, q - 1)
    IN  IF q > Len(cs) THEN <<Token("UNKNOWN", <<"QUOTE">> \o value), q>>
        ELSE IF value \in DateForm THEN <<Token("DATE_LITERAL", value), q + 1>>
        ELSE IF value \in TimestampForm THEN <<Token("TIMESTAMP_LITERAL", value), q + 1>>
        ELSE <<Token("STRING_LITERAL", value), q + 1>>

\* Mutant: a dot after digits always belongs to the number.
make_numbers_with_dot(cs, p) ==
    LET q == Skip(cs, p, IsDigit)
        isFloat == Have(cs, q, LAMBDA c : c = "DOT")
        r == IF isFloat THEN Skip(cs, q + 1, IsDigit) ELSE q
    IN  <<Token(IF isFloat THEN "FLOAT_LITERAL" ELSE "INT_LITERAL", SubSeq(cs, p, r - 1)), r>>

\* A dot belongs to the number only when a digit follows it.
make_numbers(cs, p) ==
    LET q == Skip(cs, p, IsDigit)
        isFloat == Have(cs, q, LAMBDA c : c = "DOT") /\ Have(cs, q + 1, IsDigit)
        r == IF isFloat THEN Skip(cs, q + 1, IsDigit) ELSE q
    IN  <<Token(IF isFloat THEN "FLOAT_LITERAL" ELSE "INT_LITERAL", SubSeq(cs, p, r - 1)), r>>

make_key_or_identifier(cs, p) ==
    LET q == Skip(cs, p, LAMBDA c : IsLetter(c) \/ IsDigit(c))
        text == SubSeq(cs, p, q - 1)
    IN  <<IF q = p + 1 /\ cs[p] \in Keyword THEN Fixed(cs[p]) ELSE Token("IDENTIFIER", text), q>>

handle_unexpected_character(cs, p) == <<Token("UNKNOWN", <<cs[p]>>), p + 1>>

next_token(cs, start) ==
    LET p == Skip(cs, start, LAMBDA c : c = "BLANK")
    IN  CASE p > Len(cs)      -> <<Token("EOF_FILE", <<>>), p>>
          [] Have(cs, p, LAMBDA c : c \in Single) -> <<Fixed(cs[p]), p + 1>>
          [] Have(cs, p, LAMBDA c : c = "QUOTE")  -> make_string(cs, p)
          [] Have(cs, p, LAMBDA c : c \in {"EQ", "GT", "LT", "BANG"}) -> make_operator(cs, p)
          [] Have(cs, p, IsDigit)  -> make_numbers(cs, p)
          [] Have(cs, p, IsLetter) -> make_key_or_identifier(cs, p)
          [] OTHER -> handle_unexpected_character(cs, p)

RECURSIVE TokensFrom(_, _)
TokensFrom(cs, p) ==
    LET next == next_token(cs, p)
    IN  IF next[1].type = "EOF_FILE" THEN <<next[1]>>
        ELSE <<next[1]>> \o TokensFrom(cs, next[2])

tokenize(cs) == TokensFrom(cs, 1)

=============================================================================
