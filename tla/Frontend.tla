------------------------------ MODULE Frontend -------------------------------
(***************************************************************************)
(* The SQL front end: a line of text, its tokens (Lexer) and what the      *)
(* parser makes of them (Parser).  The CLI hands over whole lines; a line  *)
(* is built here word by word, and whatever is there so far is a line that *)
(* may be handed over.  The words are compared with the grammar (SqlText). *)
(*                                                                         *)
(* Bounds: MaxAny words of Sample in any order, with or without blanks;    *)
(* then up to MaxWords words of Alphabet, as long as the parser reads to   *)
(* the end of what is there (another word can still matter, or is the      *)
(* first one the parser does not look at).                                 *)
(***************************************************************************)
EXTENDS SqlText
LOCAL INSTANCE Functions

CONSTANTS Alphabet,   \* the tokens a line is made of
          Sample,     \* those that are put together in any order
          MaxAny, MaxWords

ASSUME MaxAny \in Nat /\ MaxWords \in Nat

VARIABLES words,      \* the tokens the writer means
          text,       \* the line
          tokens,     \* what the lexer gives, and the parser is constructed with
          result      \* what parse() gives

vars == <<words, text, tokens, result>>

\* The pieces of text of a token.
Spelled(w) ==
    IF w.type \in {"STRING_LITERAL", "DATE_LITERAL", "TIMESTAMP_LITERAL"}
    THEN <<"QUOTE">> \o w.text \o <<"QUOTE">> ELSE w.text

Type(i) == words[i].type

\* Without a blank the two run into each other: a word and letters or digits, a
\* number and digits, the first character of an operator and "=", a number with
\* a dot and digits.
IsWord(w) == w.type = "IDENTIFIER" \/ w.type \in Keyword
RunTogether(w) ==
    LET n == Len(words)
    IN  /\ n > 0
        /\ \/ IsWord(words[n]) /\ (IsWord(w) \/ w.type \in Numbers)
           \/ Type(n) \in Numbers /\ w.type \in Numbers
           \/ words[n].text \in {<<"LT">>, <<"GT">>, <<"BANG">>} /\ Head(w.text) = "EQ"
           \/ n > 1 /\ Type(n) = "DOT" /\ Type(n - 1) = "INT_LITERAL" /\ w.type \in Numbers

Write(w, blank) ==
    /\ blank \/ ~RunTogether(w)
    /\ words' = Append(words, w)
    /\ text' = text \o (IF blank THEN <<"BLANK">> ELSE <<>>) \o Spelled(w)
    /\ tokens' = tokenize(text')
    /\ result' = parse(tokens')

Init ==
    /\ words = <<>>
    /\ text = <<>>
    /\ tokens = tokenize(<<>>)
    /\ result = parse(tokens)

WriteAny ==
    /\ Len(words) < MaxAny
    /\ \E w \in Sample, blank \in BOOLEAN : Write(w, blank)

WriteNext ==
    /\ Len(words) < MaxWords
    /\ result.pos > Len(words)
    /\ \E w \in Alphabet : Write(w, TRUE)

Next == WriteAny \/ WriteNext

Spec == Init /\ [][Next]_vars

-----------------------------------------------------------------------------
Accepted == result.end = "ok"

\* The words the parser took.
Taken == SubSeq(words, 1, result.pos - 1)

Without(types, ts) == SelectSeq(ts, LAMBDA w : w.type \notin types)

\* Parentheses and AS can be left out or added without a change of meaning.
Optional == {"LPAREN", "RPAREN", "AS"}

\* Words that the parser takes and that are in no tree: a comma before the first
\* or after the last element of a list, a value list with a word that is no
\* value, and the place where a key is declared.
LooseAt(i) ==
    LET before == IF i = 1 THEN "none" ELSE Type(i - 1)
    IN  \/ Type(i) = "COMMA" /\ before \in {"SELECT", "LPAREN", "SET", "VALUES", "TABLE", "EXISTS", "COMMA"}
        \/ Type(i) = "RPAREN" /\ before \in {"LPAREN", "COMMA"}
        \/ Type(i) = "PRIMARY"
        \/ /\ \E v \in 1..i - 1 : Type(v) = "VALUES"
           /\ \/ Type(i) \notin Literals \cup {"MINUS", "COMMA", "LPAREN", "RPAREN"}
              \/ Type(i) = "LPAREN" /\ before # "VALUES" /\ ~(before = "COMMA" /\ Type(i - 2) = "RPAREN")

Loose == \E i \in 1..result.pos - 1 : LooseAt(i)

(***************************************************************************)
(* The lexer finds the words that were meant, and only those, whatever     *)
(* touches (lexer.cpp): keywords, names and numbers that touch a character *)
(* need no blank, an operator of two characters is one token, and a dot    *)
(* belongs to a number only when digits follow.                            *)
(***************************************************************************)
LexesWhatIsMeant == tokens = Append(words, Token("EOF_FILE", <<>>))

(***************************************************************************)
(* The tree of an accepted statement says what was written: written out by *)
(* the grammar, with OR weaker than AND weaker than comparisons and with   *)
(* operators grouping to the left, it gives the words the parser took, in  *)
(* their order, and needs no parentheses where there were none.            *)
(***************************************************************************)
TreeIsTheText ==
    Accepted /\ ~Loose =>
        LET written == Text(result.node, FALSE)
        IN  /\ Without(Optional, written) = Without(Optional, Taken)
            /\ Without({"LPAREN"}, Taken) = Taken => Without({"LPAREN"}, written) = written

\* The statement itself and, for DELETE, those whose condition is an operation on
\* its condition: what the parser has to be able to read if it can read this one.
Larger(s) ==
    LET w == s.where_clause
        conditions == {Binary(w, op, w) : op \in {"OR", "AND", "EQ"}} \cup {IsNull(w, b) : b \in BOOLEAN}
    IN  {s} \cup IF s.node = "Delete" /\ w # nullptr
                 THEN {[s EXCEPT !.where_clause = c] : c \in conditions} ELSE {}

\* The statement can be written, with the fewest or with all the parentheses,
\* and the parser takes that text to its end and gives the statement.
ReadsBack(s) ==
    \A all \in BOOLEAN :
        LET ts == Append(Text(s, all), Token("EOF_FILE", <<>>))
        IN  parse(ts) = Ok(s, Len(ts))

(***************************************************************************)
(* The sample of the grammar, in which every clause, every type and every  *)
(* kind of literal occurs, every tree the parser gives, and every          *)
(* operation on its conditions read back as they were written: none is     *)
(* refused or read in another way.  (A row without values cannot be        *)
(* written.)                                                               *)
(***************************************************************************)
TextParsesBack ==
    /\ words = <<>> => \A s \in Statements : ReadsBack(s)
    /\ Accepted /\ ~(result.node.node = "Insert" /\ <<>> \in Range(result.node.values)) =>
          \A s \in Larger(result.node) : ReadsBack(s)

(***************************************************************************)
(* peek() does not look at the end (parser.h:65), and only a list of       *)
(* values passes over the end of the tokens (parser.cpp:204): the parser   *)
(* asks for a token after the last one only when the line ends where a     *)
(* value has to be.                                                        *)
(***************************************************************************)
PastEndOnlyForAValue ==
    result.end = "PastEnd" =>
        /\ \E i \in DOMAIN words : Type(i) = "VALUES"
        /\ Type(Len(words)) \in {"LPAREN", "COMMA"}

(***************************************************************************)
(* parser.h:42: parse() "@throws std::runtime_error for unsupported        *)
(* statement types or syntax errors".  So an accepted line is a statement  *)
(* of the grammar, with a semicolon or without.  (A key may be declared in *)
(* two places, and the tree does not say in which.)                        *)
(***************************************************************************)
SyntaxErrorsAreThrown ==
    Accepted /\ (\A i \in DOMAIN words : Type(i) # "PRIMARY") =>
        Without(Optional, Text(result.node, FALSE)) \in
            {Without(Optional, words),
             Without(Optional \cup {"SEMICOLON"}, words)}

=============================================================================
