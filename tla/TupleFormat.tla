------------------------------ MODULE TupleFormat -----------------------------
(***************************************************************************)
(* The bytes of a row: Tuple::serialize and Tuple::deserialize             *)
(* (storage/tuple.cpp).                                                    *)
(*                                                                         *)
(* A stored row is a sequence with an element for each byte, except that   *)
(* an INTEGER, a DOUBLE and a length take one element each.  A byte of the *)
(* null bitmap is the set of its bits that are 1, any other a number.  A   *)
(* string is the sequence of its characters, none of which is 0.           *)
(***************************************************************************)
EXTENDS Integers, Sequences, SequencesExt

CONSTANTS
    Schema,     \* the columns: records of name, type, length and nullable
    BITS,       \* columns per byte of the null bitmap (8)
    BUF_SIZE,   \* the buffer of a row, a page
    Byte        \* what a byte of the stack that was never written may hold

ASSUME FormatAssumption ==
    /\ BITS \in Nat \ {0}
    /\ BUF_SIZE \in Nat
    /\ 0 \in Byte /\ Byte \subseteq Nat
    /\ Schema \in Seq(ToSet(Schema))
    /\ \A i \in DOMAIN Schema :
          /\ Schema[i].type \in {"INTEGER", "DOUBLE", "BOOLEAN", "VARCHAR", "DATE", "TIMESTAMP"}
          /\ Schema[i].length \in Nat \ {0}
          /\ Schema[i].type \in {"INTEGER", "DOUBLE", "BOOLEAN"} => Schema[i].length = 1
          /\ Schema[i].nullable \in BOOLEAN

ColumnIndex == DOMAIN Schema

\* A value is of a kind, and its data is a string or one number.
Value(kind, data) == [kind |-> kind, data |-> data]
NULL == Value("null", <<>>)
IsNull(value) == value.kind = "null"

Values ==
    {NULL} \cup [kind : {"int", "double"}, data : [1..1 -> Int]]
           \cup [kind : {"bool"}, data : {<<0>>, <<1>>}]
           \cup [kind : {"string"}, data : Seq(Nat \ {0})]

KindOf(type) ==
    CASE type = "INTEGER" -> "int"
      [] type = "DOUBLE"  -> "double"
      [] type = "BOOLEAN" -> "bool"
      [] OTHER            -> "string"      \* VARCHAR, DATE, TIMESTAMP

\* What the DATE bytes beyond a short string, or of NULL, hold on the stack.
Padded == {i \in ColumnIndex : Schema[i].type \in {"DATE", "TIMESTAMP"}}
Paddings == [1..Max({0} \cup {Schema[i].length : i \in Padded}) -> Byte]

-----------------------------------------------------------------------------
NullBitmapSize == (Len(Schema) + BITS - 1) \div BITS

\* Column i has bit (i - 1) % BITS of byte (i - 1) \div BITS.
NullBit(i)  == (i - 1) % BITS
NullByte(i) == (i - 1) \div BITS + 1

\* Mutant: a column of the second byte marks the first one.
NullBitmapOneByte(tuple) ==
    [b \in 1..NullBitmapSize |->
        {NullBit(i) : i \in {j \in ColumnIndex : b = 1 /\ IsNull(tuple[j])}}]

NullBitmap(tuple) ==
    [b \in 1..NullBitmapSize |->
        {NullBit(i) : i \in {j \in ColumnIndex : NullByte(j) = b /\ IsNull(tuple[j])}}]

IsNullBitSet(data, i) == NullBit(i) \in data[NullByte(i)]

\* A field is written for NULL, too.
Field(column, value, padding) ==
    LET written == SubSeq(value.data, 1, Min({Len(value.data), column.length}))
    IN  CASE column.type \in {"INTEGER", "DOUBLE", "BOOLEAN"} ->
                IF IsNull(value) THEN <<0>> ELSE value.data
          [] column.type = "VARCHAR" -> <<Len(value.data)>> \o value.data
          [] OTHER -> written \o SubSeq(padding, Len(written) + 1, column.length)

\* std::get throws when the value is of another kind, and serialize when the
\* row is longer than the buffer.
CanSerialize(tuple) ==
    /\ \A i \in ColumnIndex :
          IsNull(tuple[i]) \/ tuple[i].kind = KindOf(Schema[i].type)
    /\ NullBitmapSize + SumFunction([i \in ColumnIndex |->
          IF Schema[i].type = "VARCHAR" THEN 1 + Len(tuple[i].data)
                                        ELSE Schema[i].length]) <= BUF_SIZE

Serialize(tuple, padding) ==
    NullBitmap(tuple)
        \o FlattenSeq([i \in ColumnIndex |-> Field(Schema[i], tuple[i], padding)])

-----------------------------------------------------------------------------
\* str.find('\0'): a string ends before the first 0.
TrimPadding(str) ==
    IF 0 \in ToSet(str) THEN SubSeq(str, 1, SelectInSeq(str, LAMBDA c : c = 0) - 1)
                        ELSE str

\* How far deserialize advances over the field of column i.
FieldSize(data, offset, i) ==
    IF Schema[i].type = "VARCHAR" THEN 1 + data[offset + 1] ELSE Schema[i].length

\* What deserialize has read before the field of column i, which starts with
\* the next byte.
Offsets(data) ==
    LET offset[i \in ColumnIndex] ==
            IF i = 1 THEN NullBitmapSize
            ELSE offset[i - 1] + FieldSize(data, offset[i - 1], i - 1)
    IN  offset

ReadValue(data, offset, i) ==
    LET field == SubSeq(data, offset + 1, offset + FieldSize(data, offset, i))
        type  == Schema[i].type
    IN  IF IsNullBitSet(data, i) THEN NULL
        ELSE Value(KindOf(type), CASE type = "VARCHAR" -> Tail(field)
                                   [] type \in {"DATE", "TIMESTAMP"} -> TrimPadding(field)
                                   [] OTHER -> field)

Deserialize(data) ==
    [i \in ColumnIndex |-> ReadValue(data, Offsets(data)[i], i)]

\* Otherwise DbErrorCode::Corruption is thrown.
CanDeserialize(data) ==
    /\ Len(data) >= NullBitmapSize
    /\ \A i \in ColumnIndex : Offsets(data)[i] < Len(data)
=============================================================================
