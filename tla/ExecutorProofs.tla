---------------------------- MODULE ExecutorProofs ----------------------------
(***************************************************************************)
(* What INSERT stores is read back as it was meant, NOT NULL columns are   *)
(* never NULL, and SELECT and DELETE answer in SQL's logic: for every      *)
(* schema, every statement, every tree of a WHERE clause, every size of    *)
(* the buffer and of the null bitmap's bytes, and whatever the bytes that  *)
(* are never written hold.                                                 *)
(***************************************************************************)
EXTENDS Executor, CommonLemmas, FunctionTheorems

-----------------------------------------------------------------------------
(* Values and columns *)

\* What the assumption on the schema gives for one column.
LEMMA SchemaFacts ==
    /\ Len(Schema) \in Nat
    /\ ColumnIndex = 1..Len(Schema)
    /\ NullBitmapSize \in Nat
    /\ \A i \in ColumnIndex :
          /\ Schema[i].type \in {"INTEGER", "DOUBLE", "BOOLEAN", "VARCHAR", "DATE", "TIMESTAMP"}
          /\ Schema[i].length \in Nat \ {0}
          /\ Schema[i].type \in {"INTEGER", "DOUBLE", "BOOLEAN"} => Schema[i].length = 1
<1>1. Len(Schema) \in Nat /\ ColumnIndex = 1..Len(Schema)
    BY FormatAssumption, LenProperties DEF ColumnIndex
<1>2. NullBitmapSize \in Nat
    <2>1. Len(Schema) + BITS - 1 \in Nat /\ BITS \in Nat \ {0}
        BY <1>1, FormatAssumption
    <2>2. QED
        BY <2>1, Division DEF NullBitmapSize
<1>3. QED
    BY <1>1, <1>2, FormatAssumption DEF ColumnIndex

\* A value's data is a sequence of numbers, and only NULL is of its kind.
LEMMA ValueFacts ==
    ASSUME NEW v \in Values
    PROVE  /\ v.kind \in {"null", "int", "double", "bool", "string"}
           /\ v = NULL <=> IsNull(v)
           /\ IsNull(v) => v.data = <<>>
           /\ v = Value(v.kind, v.data)
           /\ v.data \in Seq(Int)
           /\ v.kind \in {"int", "double", "bool"} => Len(v.data) = 1 /\ v.data[1] \in Int
           /\ v.kind = "string" => v.data \in Seq(Nat \ {0})
<1>1. CASE v = NULL
    <2>1. v.kind = "null" /\ v.data = <<>>
        BY <1>1 DEF NULL, Value
    <2>2. QED
        BY <1>1, <2>1, EmptySeq DEF NULL, Value, IsNull
<1>2. CASE v \in [kind : {"int", "double"}, data : [1..1 -> Int]]
    <2>1. v.kind \in {"int", "double"} /\ v.data \in [1..1 -> Int] /\ v = Value(v.kind, v.data)
        BY <1>2 DEF Value
    <2>2. v.data \in Seq(Int) /\ Len(v.data) = 1
        BY <2>1, FunctionIsSeq
    <2>3. v.kind # "null" /\ v # NULL
        BY <2>1 DEF NULL, Value
    <2>4. QED
        BY <2>1, <2>2, <2>3 DEF IsNull
<1>3. CASE v \in [kind : {"bool"}, data : {<<0>>, <<1>>}]
    <2>1. v.kind = "bool" /\ v.data \in {<<0>>, <<1>>} /\ v = Value(v.kind, v.data)
        BY <1>3 DEF Value
    <2>2. \A n \in {0, 1} : <<n>> \in Seq(Int) /\ Len(<<n>>) = 1 /\ <<n>>[1] \in Int
        OBVIOUS
    <2>3. v.kind # "null" /\ v # NULL
        BY <2>1 DEF NULL, Value
    <2>4. QED
        BY <2>1, <2>2, <2>3 DEF IsNull
<1>4. CASE v \in [kind : {"string"}, data : Seq(Nat \ {0})]
    <2>1. v.kind = "string" /\ v.data \in Seq(Nat \ {0}) /\ v = Value(v.kind, v.data)
        BY <1>4 DEF Value
    <2>2. v.data \in Seq(Int)
        <3>1. Nat \ {0} \subseteq Int
            OBVIOUS
        <3>2. QED
            BY <2>1, <3>1, SeqMonotonic
    <2>3. v.kind # "null" /\ v # NULL
        BY <2>1 DEF NULL, Value
    <2>4. QED
        BY <2>1, <2>2, <2>3 DEF IsNull
<1>5. QED
    BY <1>1, <1>2, <1>3, <1>4 DEF Values

\* A row that std::get accepts: each value is NULL or of its column's kind.
Fits(tuple) ==
    /\ tuple \in [ColumnIndex -> Values]
    /\ \A i \in ColumnIndex : IsNull(tuple[i]) \/ tuple[i].kind = KindOf(Schema[i].type)

\* The padding is long enough for every DATE and TIMESTAMP.
LEMMA PaddingFacts ==
    ASSUME NEW padding \in Paddings, NEW i \in Padded
    PROVE  \A p \in 1..Schema[i].length : padding[p] \in Nat
<1> DEFINE N == Len(Schema)
           lengths == {0} \cup {Schema[j].length : j \in Padded}
           Bounded(m) == \E b \in Nat : \A j \in 1..m : Schema[j].length <= b
           P == {m \in 0..N : Bounded(m)}
<1>1. N \in Nat /\ \A j \in 1..N : Schema[j].length \in Nat
    BY SchemaFacts
<1>2. Padded \subseteq 1..N
    BY SchemaFacts DEF Padded
<1> HIDE DEF N
<1>3. ASSUME NEW m \in 0..N, m \in P, m < N PROVE m + 1 \in P
    <2>1. PICK b \in Nat : \A j \in 1..m : Schema[j].length <= b
        BY <1>3
    <2>2. m + 1 \in 1..N /\ m + 1 \in 0..N /\ m \in Nat
        BY <1>1, <1>3
    <2>3. Schema[m + 1].length \in Nat
        BY <1>1, <2>2
    <2>4. PICK c \in Nat : b <= c /\ Schema[m + 1].length <= c
        <3>1. b + Schema[m + 1].length \in Nat /\ b <= b + Schema[m + 1].length
              /\ Schema[m + 1].length <= b + Schema[m + 1].length
            BY <2>3
        <3>2. QED
            BY <3>1
    <2>5. ASSUME NEW j \in 1..(m + 1) PROVE Schema[j].length <= c
        <3>1. CASE j = m + 1
            BY <2>4, <3>1
        <3>2. CASE j \in 1..m
            <4>1. j \in 1..N /\ Schema[j].length <= b
                BY <1>1, <2>1, <2>2, <3>2
            <4>2. QED
                BY <1>1, <2>4, <4>1
        <3>3. QED
            BY <2>2, <3>1, <3>2
    <2>6. QED
        BY <2>2, <2>5
<1>4. PICK b \in Nat : \A j \in 1..N : Schema[j].length <= b
    <2>1. 0 \in P /\ N \in 0..N
        BY <1>1
    <2> HIDE DEF P
    <2>2. \A m \in 0..N : m \in P
        BY <1>1, <1>3, <2>1, Induction
    <2>3. N \in P
        BY <2>1, <2>2
    <2>4. QED
        BY <2>3 DEF P
<1>5. lengths \in SUBSET (0..b) /\ lengths # {} /\ Schema[i].length \in lengths
    <2>1. ASSUME NEW j \in Padded PROVE Schema[j].length \in 0..b
        BY <1>1, <1>2, <1>4
    <2>2. QED
        BY <2>1
<1> HIDE DEF lengths
<1>6. Max(lengths) \in 0..b /\ Schema[i].length <= Max(lengths)
    BY <1>5, MaxIsGreatest
<1>7. padding \in [1..Max(lengths) -> Byte] /\ Byte \subseteq Nat
    <2>1. Paddings = [1..Max(lengths) -> Byte]
        BY DEF Paddings, lengths
    <2>2. QED
        BY <2>1, FormatAssumption
<1>8. Schema[i].length \in Nat
    BY <1>1, <1>2
<1> DEFINE m == Max(lengths)
<1>9. m \in 0..b /\ Schema[i].length <= m /\ padding \in [1..m -> Nat]
    BY <1>6, <1>7
<1> HIDE DEF m
<1>10. QED
    BY <1>8, <1>9

-----------------------------------------------------------------------------
(* The field of one column *)

\* A sequence that agrees with the start of another one is its prefix.
LEMMA PrefixByPosition ==
    ASSUME NEW S, NEW s \in Seq(S), NEW t \in Seq(S), Len(s) <= Len(t),
           \A p \in 1..Len(s) : s[p] = t[p]
    PROVE  IsPrefix(s, t)
<1> DEFINE n == Len(s)
           u == SubSeq(s, 1, n)
           v == SubSeq(t, 1, n)
<1>1. n \in Nat /\ Len(t) \in Nat /\ \A p \in 1..n : s[p] \in S /\ t[p] \in S
    <2>1. n \in Nat /\ Len(t) \in Nat
        BY LenProperties
    <2>2. \A p \in 1..n : p \in 1..Len(t)
        BY <2>1
    <2>3. QED
        BY <2>1, <2>2, ElementOfSeq
<1>2. /\ u \in Seq(S) /\ Len(u) = (IF 1 <= n THEN n - 1 + 1 ELSE 0)
      /\ \A p \in 1..(n - 1 + 1) : u[p] = s[1 + p - 1]
      /\ v \in Seq(S) /\ Len(v) = (IF 1 <= n THEN n - 1 + 1 ELSE 0)
      /\ \A p \in 1..(n - 1 + 1) : v[p] = t[1 + p - 1]
    <2> HIDE DEF n
    <2>1. n \in Int /\ 1 \in Int
        BY <1>1
    <2>2. QED
        BY <1>1, <2>1, SubSeqProperties
<1>3. Len(u) = n /\ Len(v) = n /\ \A p \in 1..n : u[p] = v[p]
    <2> HIDE DEF u, v
    <2>1. Len(u) = n /\ Len(v) = n
        BY <1>1, <1>2
    <2>2. ASSUME NEW p \in 1..n PROVE u[p] = v[p]
        <3>1. n - 1 + 1 = n /\ 1 + p - 1 = p
            BY <1>1
        <3>2. u[p] = s[p] /\ v[p] = t[p]
            BY <1>2, <3>1
        <3>3. QED
            BY <3>2
    <2>3. QED
        BY <2>1, <2>2
<1>4. u = v
    <2> HIDE DEF u, v
    <2>1. QED
        BY <1>2, <1>3, SeqEqual
<1>5. QED
    BY <1>4 DEF IsPrefix

\* TrimPadding keeps what lies before the first 0.
LEMMA TrimFacts ==
    ASSUME NEW str \in Seq(Int), NEW s \in Seq(Int), Len(s) <= Len(str),
           \A p \in 1..Len(s) : s[p] = str[p] /\ s[p] # 0
    PROVE  IsPrefix(s, TrimPadding(str))
<1> DEFINE zeros == {p \in 1..Len(str) : str[p] = 0}
           z     == Min(zeros)
<1>1. Len(str) \in Nat /\ Len(s) \in Nat
    BY LenProperties
<1>2. \A c : c \in ToSet(str) <=> \E p \in 1..Len(str) : str[p] = c
    BY ToSetFacts
<1>3. CASE zeros = {}
    <2>1. 0 \notin ToSet(str)
        BY <1>2, <1>3
    <2>2. TrimPadding(str) = str
        <3> DEFINE cut == SubSeq(str, 1, SelectInSeq(str, LAMBDA c : c = 0) - 1)
        <3>1. TrimPadding(str) = IF 0 \in ToSet(str) THEN cut ELSE str
            BY DEF TrimPadding
        <3> HIDE DEF cut
        <3>2. QED
            BY <2>1, <3>1
    <2>3. QED
        BY <2>2, PrefixByPosition
<1>4. CASE zeros # {}
    <2>1. 0 \in ToSet(str)
        BY <1>2, <1>4
    <2>2. SelectInSeq(str, LAMBDA c : c = 0) = z
        BY <1>4 DEF SelectInSeq
    <2> DEFINE t == SubSeq(str, 1, z - 1)
    <2>3. TrimPadding(str) = t
        BY <2>1, <2>2 DEF TrimPadding
    <2>4. z \in 1..Len(str) /\ str[z] = 0
        <3>1. zeros \in SUBSET Nat
            OBVIOUS
        <3> HIDE DEF zeros
        <3>2. z \in zeros
            BY <1>4, <3>1, MinIsLeast
        <3>3. QED
            BY <3>2 DEF zeros
    <2> HIDE DEF z, zeros
    <2>5. Len(s) < z
        BY <1>1, <2>4
    <2>6. \A p \in 1..(z - 1) : str[p] \in Int
        <3>1. \A p \in 1..(z - 1) : p \in 1..Len(str)
            BY <1>1, <2>4
        <3>2. QED
            BY <3>1, ElementOfSeq
    <2>7. /\ t \in Seq(Int) /\ Len(t) = (IF 1 <= z - 1 THEN (z - 1) - 1 + 1 ELSE 0)
          /\ \A p \in 1..((z - 1) - 1 + 1) : t[p] = str[1 + p - 1]
        <3>1. z - 1 \in Int /\ 1 \in Int
            BY <2>4
        <3>2. QED
            BY <2>6, <3>1, SubSeqProperties
    <2> HIDE DEF t
    <2>8. Len(t) = z - 1 /\ (z - 1) - 1 + 1 = z - 1
        BY <2>4, <2>7
    <2>9. Len(s) <= Len(t) /\ \A p \in 1..Len(s) : s[p] = t[p]
        <3>1. Len(s) <= Len(t)
            BY <1>1, <2>4, <2>5, <2>8
        <3>2. ASSUME NEW p \in 1..Len(s) PROVE s[p] = t[p]
            <4>1. p \in 1..(z - 1) /\ 1 + p - 1 = p
                BY <1>1, <2>4, <2>5
            <4>2. t[p] = str[p]
                BY <2>7, <2>8, <4>1
            <4>3. QED
                BY <4>2
        <3>3. QED
            BY <3>1, <3>2
    <2>10. QED
        BY <2>3, <2>7, <2>9, PrefixByPosition
<1>5. QED
    BY <1>3, <1>4

\* What a string of a DATE or TIMESTAMP is cut to.
Written(column, value) == SubSeq(value.data, 1, Min({Len(value.data), column.length}))

\* A part of a sequence, from position a, has its elements.
LEMMA SubSeqFacts ==
    ASSUME NEW S, NEW s, NEW a \in Nat, NEW b \in Nat, a <= b + 1, \A p \in a..b : s[p] \in S
    PROVE  /\ SubSeq(s, a, b) \in Seq(S)
           /\ Len(SubSeq(s, a, b)) = b - a + 1
           /\ \A p \in 1..(b - a + 1) : SubSeq(s, a, b)[p] = s[a + p - 1]
<1> DEFINE t == SubSeq(s, a, b)
<1>1. /\ t \in Seq(S) /\ Len(t) = (IF a <= b THEN b - a + 1 ELSE 0)
      /\ \A p \in 1..(b - a + 1) : t[p] = s[a + p - 1]
    BY SubSeqProperties
<1> HIDE DEF t
<1>2. Len(t) = b - a + 1
    BY <1>1
<1>3. QED
    BY <1>1, <1>2 DEF t

\* The field of a DATE or TIMESTAMP: the string, cut, and what lay behind it.
LEMMA DateField ==
    ASSUME NEW d \in Seq(Nat \ {0}), NEW length \in Nat, NEW padding,
           \A p \in 1..length : padding[p] \in Nat
    PROVE  LET w == SubSeq(d, 1, Min({Len(d), length}))
               F == w \o SubSeq(padding, Len(w) + 1, length)
           IN  F \in Seq(Int) /\ Len(F) = length /\ IsPrefix(w, TrimPadding(F))
<1> DEFINE m == Min({Len(d), length})
           w == SubSeq(d, 1, m)
           r == SubSeq(padding, m + 1, length)
<1>1. Len(d) \in Nat
    BY LenProperties
<1>2. m \in Nat /\ m <= Len(d) /\ m <= length
    <2>1. {Len(d), length} \in SUBSET Nat /\ {Len(d), length} # {}
        BY <1>1
    <2>2. m \in {Len(d), length} /\ \A k \in {Len(d), length} : m <= k
        BY <2>1, MinIsLeast
    <2> HIDE DEF m
    <2>3. QED
        BY <1>1, <2>2
<1> HIDE DEF m
<1>3. \A p \in 1..m : d[p] \in Nat \ {0}
    <2>1. \A p \in 1..m : p \in 1..Len(d)
        BY <1>1, <1>2
    <2>2. QED
        BY <2>1, ElementOfSeq
<1>4. w \in Seq(Int) /\ Len(w) = m /\ \A p \in 1..m : w[p] = d[p]
    <2>1. \A p \in 1..m : d[p] \in Int
        BY <1>3
    <2>2. /\ w \in Seq(Int) /\ Len(w) = m - 1 + 1
          /\ \A p \in 1..(m - 1 + 1) : w[p] = d[1 + p - 1]
        <3>1. 1 \in Nat /\ 1 <= m + 1
            BY <1>2
        <3>2. QED
            BY <1>2, <2>1, <3>1, SubSeqFacts
    <2> HIDE DEF w
    <2>3. m - 1 + 1 = m /\ \A p \in 1..m : 1 + p - 1 = p
        BY <1>2
    <2>4. QED
        BY <2>2, <2>3
<1> HIDE DEF w
<1>5. r \in Seq(Int) /\ Len(r) = length - m
    <2>1. \A p \in (m + 1)..length : padding[p] \in Int
        BY <1>2
    <2>2. r \in Seq(Int) /\ Len(r) = length - (m + 1) + 1
        <3>1. m + 1 \in Nat /\ m + 1 <= length + 1
            BY <1>2
        <3>2. QED
            BY <2>1, <3>1, SubSeqFacts
    <2> HIDE DEF r
    <2>3. QED
        BY <1>2, <2>2
<1> HIDE DEF r
<1> DEFINE F == w \o r
<1>6. /\ F \in Seq(Int) /\ Len(F) = Len(w) + Len(r)
      /\ \A p \in 1..Len(w) : F[p] = w[p]
    BY <1>4, <1>5, ConcatPositions
<1> HIDE DEF F
<1>7. Len(F) = length /\ Len(w) <= Len(F)
    BY <1>2, <1>4, <1>5, <1>6
<1>8. \A p \in 1..Len(w) : w[p] = F[p] /\ w[p] # 0
    BY <1>3, <1>4, <1>6
<1>9. IsPrefix(w, TrimPadding(F))
    BY <1>4, <1>6, <1>7, <1>8, TrimFacts
<1>10. F = w \o SubSeq(padding, Len(w) + 1, length)
    BY <1>4 DEF F, r
<1>11. QED
    BY <1>6, <1>7, <1>9, <1>10 DEF w, m

\* The field of a VARCHAR: its length and the string.
LEMMA VarcharField ==
    ASSUME NEW d \in Seq(Int)
    PROVE  LET F == <<Len(d)>> \o d
           IN  F \in Seq(Int) /\ F[1] = Len(d) /\ Len(F) = 1 + Len(d) /\ Tail(F) = d
<1> DEFINE h == <<Len(d)>>
           F == h \o d
<1>1. Len(d) \in Nat
    BY LenProperties
<1>2. h \in Seq(Int) /\ Len(h) = 1 /\ h[1] = Len(d)
    BY <1>1
<1> HIDE DEF h
<1>3. /\ F \in Seq(Int) /\ Len(F) = Len(h) + Len(d)
      /\ \A p \in 1..Len(h) : F[p] = h[p]
      /\ \A p \in 1..Len(d) : F[Len(h) + p] = d[p]
    <2>1. h \in Seq(Int) /\ d \in Seq(Int)
        BY <1>2
    <2>2. QED
        BY <2>1, ConcatPositions
<1> HIDE DEF F
<1>4. F[1] = Len(d) /\ Len(F) = 1 + Len(d) /\ \A p \in 1..Len(d) : F[1 + p] = d[p]
    BY <1>2, <1>3
<1>5. F # <<>>
    BY <1>1, <1>3, <1>4, EmptySeq
<1>6. /\ Tail(F) \in Seq(Int) /\ Len(Tail(F)) = Len(F) - 1
      /\ \A p \in 1..Len(Tail(F)) : Tail(F)[p] = F[p + 1]
    BY <1>3, <1>5, HeadTailProperties
<1>7. Len(Tail(F)) = Len(d) /\ \A p \in 1..Len(d) : Tail(F)[p] = d[p]
    <2>1. Len(Tail(F)) = Len(d)
        BY <1>1, <1>4, <1>6
    <2>2. \A p \in 1..Len(d) : p + 1 = 1 + p
        BY <1>1
    <2>3. QED
        BY <1>4, <1>6, <2>1, <2>2
<1>8. Tail(F) = d
    BY <1>6, <1>7, SeqEqual
<1>9. QED
    BY <1>3, <1>4, <1>8 DEF F, h

\* Each field has the size by which deserialize advances, and the value.
LEMMA FieldFacts ==
    ASSUME NEW tuple, Fits(tuple), NEW padding \in Paddings, NEW i \in ColumnIndex
    PROVE  LET F == Field(Schema[i], tuple[i], padding)
           IN  /\ F \in Seq(Int)
               /\ Len(F) \in Nat \ {0}
               /\ Schema[i].type = "VARCHAR" =>
                     F[1] \in Nat /\ Len(F) = 1 + F[1] /\ Tail(F) = tuple[i].data
               /\ Schema[i].type # "VARCHAR" => Len(F) = Schema[i].length
               /\ Schema[i].type \in {"INTEGER", "DOUBLE", "BOOLEAN"} /\ ~IsNull(tuple[i]) =>
                     F = tuple[i].data
               /\ Schema[i].type \in {"DATE", "TIMESTAMP"} =>
                     IsPrefix(Written(Schema[i], tuple[i]), TrimPadding(F))
<1> DEFINE F == Field(Schema[i], tuple[i], padding)
           v == tuple[i]
           type == Schema[i].type
           length == Schema[i].length
<1>1. v \in Values /\ (IsNull(v) \/ v.kind = KindOf(type))
    BY DEF Fits
<1>2. /\ IsNull(v) => v.data = <<>>
      /\ v.data \in Seq(Int)
      /\ v.kind \in {"int", "double", "bool"} => Len(v.data) = 1
      /\ v.kind = "string" => v.data \in Seq(Nat \ {0})
    BY <1>1, ValueFacts
<1>3. /\ type \in {"INTEGER", "DOUBLE", "BOOLEAN", "VARCHAR", "DATE", "TIMESTAMP"}
      /\ length \in Nat \ {0}
      /\ type \in {"INTEGER", "DOUBLE", "BOOLEAN"} => length = 1
    BY SchemaFacts
<1> HIDE DEF F, v, type, length
<1>4. CASE type \in {"INTEGER", "DOUBLE", "BOOLEAN"}
    <2>1. F = IF IsNull(v) THEN <<0>> ELSE v.data
        BY <1>4 DEF F, Field, v, type
    <2>2. <<0>> \in Seq(Int) /\ Len(<<0>>) = 1
        OBVIOUS
    <2>3. ~IsNull(v) => v.kind \in {"int", "double", "bool"}
        BY <1>1, <1>4 DEF KindOf
    <2>4. F \in Seq(Int) /\ Len(F) = 1
        BY <1>2, <2>1, <2>2, <2>3
    <2>5. type # "VARCHAR" /\ type \notin {"DATE", "TIMESTAMP"}
        BY <1>4
    <2>6. QED
        BY <1>3, <1>4, <2>1, <2>4, <2>5 DEF F, v, type, length
<1>5. CASE type = "VARCHAR"
    <2>1. F = <<Len(v.data)>> \o v.data
        BY <1>5 DEF F, Field, v, type
    <2>2. F \in Seq(Int) /\ F[1] = Len(v.data) /\ Len(F) = 1 + Len(v.data) /\ Tail(F) = v.data
        BY <1>2, <2>1, VarcharField
    <2>3. Len(v.data) \in Nat
        BY <1>2, LenProperties
    <2>4. Len(F) \in Nat \ {0}
        BY <2>2, <2>3
    <2>5. type \notin {"INTEGER", "DOUBLE", "BOOLEAN"} /\ type \notin {"DATE", "TIMESTAMP"}
        BY <1>5
    <2>6. QED
        BY <1>5, <2>2, <2>3, <2>4, <2>5 DEF F, v, type, length
<1>6. CASE type \in {"DATE", "TIMESTAMP"}
    <2>1. v.data \in Seq(Nat \ {0})
        <3>1. CASE IsNull(v)
            BY <1>2, <3>1, EmptySeq
        <3>2. CASE v.kind = KindOf(type)
            <4>1. v.kind = "string"
                BY <1>6, <3>2 DEF KindOf
            <4>2. QED
                BY <1>2, <4>1
        <3>3. QED
            BY <1>1, <3>1, <3>2
    <2>2. \A p \in 1..length : padding[p] \in Nat
        <3>1. i \in Padded
            BY <1>6 DEF Padded, type
        <3>2. QED
            BY <3>1, PaddingFacts DEF length
    <2> DEFINE w == SubSeq(v.data, 1, Min({Len(v.data), length}))
    <2>3. F = w \o SubSeq(padding, Len(w) + 1, length)
        BY <1>6 DEF F, Field, v, type, length
    <2>4. F \in Seq(Int) /\ Len(F) = length /\ IsPrefix(w, TrimPadding(F))
        BY <1>3, <2>1, <2>2, <2>3, DateField
    <2>5. type # "VARCHAR" /\ type \notin {"INTEGER", "DOUBLE", "BOOLEAN"}
        BY <1>6
    <2>6. w = Written(Schema[i], tuple[i])
        BY DEF Written, v, length
    <2> HIDE DEF w
    <2>7. QED
        BY <1>3, <1>6, <2>4, <2>5, <2>6 DEF F, v, type, length
<1>7. QED
    BY <1>3, <1>4, <1>5, <1>6

-----------------------------------------------------------------------------
(* The bytes of a row *)

\* Each column has a bit of its own, in a byte of the bitmap.
LEMMA BitmapFacts ==
    ASSUME NEW tuple
    PROVE  /\ NullBitmap(tuple) \in Seq(SUBSET Nat)
           /\ Len(NullBitmap(tuple)) = NullBitmapSize
           /\ \A i \in ColumnIndex :
                 /\ NullByte(i) \in 1..NullBitmapSize
                 /\ NullBit(i) \in NullBitmap(tuple)[NullByte(i)] <=> IsNull(tuple[i])
<1> DEFINE n == Len(Schema)
           s == NullBitmapSize
           Nulls(b) == {j \in ColumnIndex : NullByte(j) = b /\ IsNull(tuple[j])}
<1>1. n \in Nat /\ ColumnIndex = 1..n /\ s \in Nat /\ BITS \in Nat \ {0}
    BY SchemaFacts, FormatAssumption
<1>2. \A i \in ColumnIndex : i - 1 \in Nat
    BY <1>1
<1>3. ASSUME NEW i \in ColumnIndex
      PROVE  /\ NullBit(i) \in 0..(BITS - 1)
             /\ NullByte(i) - 1 \in Nat /\ NullByte(i) \in Nat
             /\ i - 1 = (NullByte(i) - 1) * BITS + NullBit(i)
    <2>1. /\ (i - 1) \div BITS \in Nat /\ (i - 1) % BITS \in 0..(BITS - 1)
          /\ i - 1 = ((i - 1) \div BITS) * BITS + ((i - 1) % BITS)
        BY <1>1, <1>2, Division
    <2> DEFINE q == (i - 1) \div BITS
    <2> HIDE DEF q
    <2>2. NullByte(i) = q + 1 /\ q \in Nat
        BY <2>1 DEF NullByte, q
    <2>3. NullByte(i) - 1 = q
        BY <2>2
    <2>4. QED
        BY <2>1, <2>2, <2>3 DEF NullBit, q
<1>4. ASSUME NEW i \in ColumnIndex PROVE NullByte(i) \in 1..s
    <2> DEFINE q == NullByte(i) - 1
    <2>1. q \in Nat /\ NullBit(i) \in 0..(BITS - 1) /\ i - 1 = q * BITS + NullBit(i)
        BY <1>3
    <2>2. n + BITS - 1 \in Nat
        BY <1>1
    <2>3. n + BITS - 1 = s * BITS + ((n + BITS - 1) % BITS)
          /\ (n + BITS - 1) % BITS \in 0..(BITS - 1)
        <3> DEFINE e == n + BITS - 1
        <3>1. e \in Nat /\ s = e \div BITS
            BY <2>2 DEF NullBitmapSize
        <3> HIDE DEF e, s
        <3>2. e = s * BITS + (e % BITS) /\ e % BITS \in 0..(BITS - 1)
            BY <1>1, <3>1, Division
        <3>3. QED
            BY <3>2 DEF e
    <2> HIDE DEF q, s
    <2>4. s <= q => s * BITS <= q * BITS
        BY <1>1, <2>1, Products
    <2>5. s * BITS \in Nat /\ q * BITS \in Nat
        BY <1>1, <2>1, Products
    <2>6. i <= n
        BY <1>1
    <2>7. ~(s <= q)
        <3> DEFINE x == s * BITS
                   y == q * BITS
        <3> HIDE DEF x, y
        <3>1. x <= y => FALSE
            BY <1>1, <2>1, <2>3, <2>5, <2>6 DEF x, y
        <3>2. QED
            BY <2>4, <3>1 DEF x, y
    <2>8. q + 1 \in 1..s
        BY <1>1, <2>1, <2>7
    <2>9. NullByte(i) = q + 1
        BY <1>3 DEF q
    <2>10. QED
        BY <2>8, <2>9 DEF s
<1>5. ASSUME NEW i \in ColumnIndex, NEW j \in ColumnIndex,
             NullByte(j) = NullByte(i), NullBit(j) = NullBit(i)
      PROVE  i = j
    <2>1. i - 1 = j - 1
        BY <1>3, <1>5
    <2>2. QED
        BY <1>1, <2>1
<1>6. NullBitmap(tuple) \in [1..s -> SUBSET Nat]
      /\ \A b \in 1..s : NullBitmap(tuple)[b] = {NullBit(j) : j \in Nulls(b)}
    <2>1. \A b \in 1..s : {NullBit(j) : j \in Nulls(b)} \in SUBSET Nat
        <3>1. \A j \in ColumnIndex : NullBit(j) \in Nat
            BY <1>1, <1>3
        <3>2. QED
            BY <3>1
    <2>2. NullBitmap(tuple) = [b \in 1..s |-> {NullBit(j) : j \in Nulls(b)}]
        BY DEF NullBitmap
    <2> HIDE DEF s, Nulls
    <2>3. QED
        BY <2>1, <2>2
<1>7. NullBitmap(tuple) \in Seq(SUBSET Nat) /\ Len(NullBitmap(tuple)) = s
    <2> DEFINE m == NullBitmap(tuple)
               T == SUBSET Nat
    <2>1. s \in Nat /\ m \in [1..s -> T]
        BY <1>1, <1>6
    <2> HIDE DEF s, m, T
    <2>2. m \in Seq(T) /\ Len(m) = s
        BY <2>1, FunctionIsSeq
    <2>3. QED
        BY <2>2 DEF m, T
<1>8. ASSUME NEW i \in ColumnIndex
      PROVE  NullBit(i) \in NullBitmap(tuple)[NullByte(i)] <=> IsNull(tuple[i])
    <2>1. NullBitmap(tuple)[NullByte(i)] = {NullBit(j) : j \in Nulls(NullByte(i))}
        BY <1>4, <1>6
    <2>2. IsNull(tuple[i]) => i \in Nulls(NullByte(i))
        OBVIOUS
    <2>3. ASSUME NEW j \in Nulls(NullByte(i)), NullBit(j) = NullBit(i) PROVE IsNull(tuple[i])
        BY <1>5, <2>3
    <2> HIDE DEF Nulls
    <2>4. QED
        BY <2>1, <2>2, <2>3
<1>9. QED
    BY <1>4, <1>7, <1>8

\* What is in a row: bytes of the bitmap, and numbers.
Bytes == (SUBSET Nat) \cup Int

\* The bitmap comes first, then the field of column i at start[i - 1].
Placed(data, start, tuple, padding) ==
    /\ start[0] = 0
    /\ data \in Seq(Bytes)
    /\ Len(data) = NullBitmapSize + start[Len(Schema)]
    /\ \A b \in 1..NullBitmapSize : data[b] = NullBitmap(tuple)[b]
    /\ \A i \in ColumnIndex :
          /\ start[i] = start[i - 1] + Len(Field(Schema[i], tuple[i], padding))
          /\ start[i] <= start[Len(Schema)]
          /\ \A p \in 1..Len(Field(Schema[i], tuple[i], padding)) :
                data[NullBitmapSize + start[i - 1] + p] = Field(Schema[i], tuple[i], padding)[p]

\* serialize puts every field at a place of its own.
LEMMA Layout ==
    ASSUME NEW tuple, Fits(tuple), NEW padding \in Paddings
    PROVE  \E start \in [0..Len(Schema) -> Nat] :
              Placed(Serialize(tuple, padding), start, tuple, padding)
<1> DEFINE n == Len(Schema)
           s == NullBitmapSize
           F(i) == Field(Schema[i], tuple[i], padding)
           fields == [i \in ColumnIndex |-> F(i)]
           R == Seq(Int)
           flat == FlattenSeq(fields)
           bitmap == NullBitmap(tuple)
           data == Serialize(tuple, padding)
<1>1. n \in Nat /\ ColumnIndex = 1..n /\ s \in Nat
    BY SchemaFacts
<1>2. \A i \in ColumnIndex : F(i) \in R /\ Len(F(i)) \in Nat
    BY FieldFacts
<1>3. data = bitmap \o flat
    BY DEF Serialize
<1> HIDE DEF n, s, F
<1>4. fields \in Seq(R) /\ Len(fields) = n /\ \A i \in 1..n : fields[i] = F(i)
    <2> HIDE DEF R
    <2>1. fields \in [1..n -> R] /\ \A i \in 1..n : fields[i] = F(i)
        BY <1>1, <1>2
    <2> HIDE DEF fields
    <2>2. n \in Nat
        BY <1>1
    <2>3. fields \in Seq(R) /\ Len(fields) = n
        BY <2>1, <2>2, FunctionIsSeq
    <2>4. QED
        BY <2>1, <2>3
<1> HIDE DEF fields
<1>5. /\ flat \in Seq(Int)
      /\ \E start \in [0..Len(fields) -> Nat] : PlacedAt(start, flat, fields)
    <2>1. fields \in Seq(Seq(Int))
        BY <1>4
    <2>2. QED
        BY <2>1, FlattenPositions
<1> HIDE DEF flat, R
<1>6. PICK start \in [0..Len(fields) -> Nat] : PlacedAt(start, flat, fields)
    BY <1>5
<1>7. /\ start[0] = 0
      /\ flat \in Seq(Int)
      /\ Len(flat) = start[Len(fields)]
      /\ \A i \in 1..Len(fields) :
            /\ start[i] = start[i - 1] + Len(fields[i])
            /\ start[i] <= start[Len(fields)]
            /\ \A p \in 1..Len(fields[i]) : flat[start[i - 1] + p] = fields[i][p]
    BY <1>5, <1>6 DEF PlacedAt
<1>8. bitmap \in Seq(Bytes) /\ flat \in Seq(Bytes) /\ Len(bitmap) = s
    <2>1. bitmap \in Seq(SUBSET Nat) /\ Len(bitmap) = s
        BY BitmapFacts DEF s
    <2> DEFINE T == SUBSET Nat
    <2>2. T \subseteq Bytes /\ Int \subseteq Bytes
        BY DEF Bytes
    <2>3. bitmap \in Seq(T)
        BY <2>1
    <2> HIDE DEF T, bitmap
    <2>4. QED
        BY <1>7, <2>1, <2>2, <2>3, SeqMonotonic
<1> HIDE DEF bitmap, data
<1>9. /\ data \in Seq(Bytes)
      /\ Len(data) = s + Len(flat)
      /\ \A p \in 1..s : data[p] = bitmap[p]
      /\ \A p \in 1..Len(flat) : data[s + p] = flat[p]
    BY <1>3, <1>8, ConcatPositions, SMTT(30)
<1>10. start \in [0..n -> Nat] /\ start[0] = 0 /\ Len(flat) = start[n]
    BY <1>4, <1>7
<1>11. ASSUME NEW i \in 1..n
      PROVE  /\ start[i] = start[i - 1] + Len(F(i)) /\ start[i] <= start[n]
             /\ \A p \in 1..Len(F(i)) : data[s + start[i - 1] + p] = F(i)[p]
    <2>1. start[i] = start[i - 1] + Len(F(i)) /\ start[i] <= start[n]
          /\ \A p \in 1..Len(F(i)) : flat[start[i - 1] + p] = F(i)[p]
        BY <1>4, <1>7
    <2>2. start[i - 1] \in Nat /\ start[i] \in Nat /\ start[n] \in Nat /\ Len(F(i)) \in Nat
        BY <1>1, <1>2, <1>10
    <2>3. ASSUME NEW p \in 1..Len(F(i)) PROVE data[s + start[i - 1] + p] = F(i)[p]
        <3>1. start[i - 1] + p \in 1..Len(flat)
            BY <1>10, <2>1, <2>2
        <3>2. data[s + (start[i - 1] + p)] = flat[start[i - 1] + p]
            BY <1>9, <3>1, SMTT(30)
        <3>3. s + (start[i - 1] + p) = s + start[i - 1] + p
            BY <1>1, <2>2
        <3>4. QED
            BY <2>1, <3>2, <3>3
    <2>4. QED
        BY <2>1, <2>3
<1>12. Placed(data, start, tuple, padding)
    BY <1>1, <1>9, <1>10, <1>11 DEF Placed, n, s, F, bitmap
<1>13. QED
    BY <1>10, <1>12 DEF n, data

\* deserialize finds a field where the fields before it end.
LEMMA OffsetFacts ==
    ASSUME NEW data, NEW start \in [0..Len(Schema) -> Nat], start[0] = 0,
           \A i \in ColumnIndex :
              /\ FieldSize(data, NullBitmapSize + start[i - 1], i) \in Nat
              /\ start[i] = start[i - 1] + FieldSize(data, NullBitmapSize + start[i - 1], i)
    PROVE  \A i \in ColumnIndex : Offsets(data)[i] = NullBitmapSize + start[i - 1]
<1> DEFINE n == Len(Schema)
           s == NullBitmapSize
           Size(o, i) == FieldSize(data, o, i)
           Body(f) == [i \in ColumnIndex |-> IF i = 1 THEN s ELSE f[i - 1] + Size(f[i - 1], i - 1)]
           offset == CHOOSE f : f = Body(f)
           h == [i \in ColumnIndex |-> s + start[i - 1]]
<1>1. n \in Nat /\ ColumnIndex = 1..n /\ s \in Nat
    BY SchemaFacts
<1>2. \A i \in 1..n : /\ start[i] \in Nat /\ start[i - 1] \in Nat
                      /\ Size(s + start[i - 1], i) \in Nat
                      /\ start[i] = start[i - 1] + Size(s + start[i - 1], i)
    BY <1>1, SMTT(30)
<1>3. Offsets(data) = offset
    BY DEF Offsets
<1> HIDE DEF n, s, Size
<1>4. ASSUME NEW j \in 1..n PROVE s + start[j] = (s + start[j - 1]) + Size(s + start[j - 1], j)
    <2> DEFINE a == start[j - 1]
               z == Size(s + a, j)
    <2>1. a \in Nat /\ z \in Nat /\ start[j] = a + z
        BY <1>2
    <2> HIDE DEF a, z
    <2>2. s + (a + z) = (s + a) + z
        BY <1>1, <2>1
    <2>3. QED
        BY <2>1, <2>2 DEF a, z
<1>5. offset = Body(offset)
    <2>1. ASSUME NEW i \in 1..n
          PROVE  h[i] = IF i = 1 THEN s ELSE h[i - 1] + Size(h[i - 1], i - 1)
        <3>1. CASE i = 1
            BY <1>1, <3>1
        <3>2. CASE i # 1
            <4> DEFINE j == i - 1
            <4>1. j \in 1..n
                BY <1>1, <3>2
            <4>2. h[i] = s + start[j] /\ h[j] = s + start[j - 1]
                BY <1>1, <4>1
            <4> HIDE DEF h, j
            <4>3. h[i] = h[j] + Size(h[j], j)
                BY <1>4, <4>1, <4>2
            <4>4. QED
                BY <3>2, <4>3 DEF j
        <3>3. QED
            BY <3>1, <3>2
    <2>2. h = Body(h)
        BY <1>1, <2>1
    <2> HIDE DEF h, Body
    <2>3. QED
        BY <2>2
<1>6. \A i \in 1..n : offset[i] = IF i = 1 THEN s ELSE offset[i - 1] + Size(offset[i - 1], i - 1)
    <2> HIDE DEF offset
    <2>1. QED
        BY <1>1, <1>5
<1> HIDE DEF offset
<1> DEFINE P == {m \in 0..n : m # 0 => offset[m] = s + start[m - 1]}
<1>7. \A m \in 0..n : m \in P /\ m < n => m + 1 \in P
    <2> SUFFICES ASSUME NEW m \in 0..n, m \in P, m < n PROVE offset[m + 1] = s + start[m]
        BY <1>1
    <2>1. m + 1 \in 1..n /\ (m + 1) - 1 = m
        BY <1>1
    <2>2. CASE m = 0
        <3>1. offset[m + 1] = s
            BY <1>6, <2>1, <2>2
        <3>2. QED
            BY <1>1, <2>2, <3>1
    <2>3. CASE m # 0
        <3>1. m \in 1..n /\ m + 1 # 1
            BY <1>1, <2>3
        <3>2. offset[m] = s + start[m - 1]
            BY <2>3
        <3>3. offset[m + 1] = offset[m] + Size(offset[m], m)
            BY <1>6, <2>1, <3>1
        <3>4. QED
            BY <1>4, <3>1, <3>2, <3>3
    <2>4. QED
        BY <2>2, <2>3
<1>8. ASSUME NEW i \in 1..n PROVE offset[i] = s + start[i - 1]
    <2>1. 0 \in P /\ i \in 0..n /\ i # 0
        BY <1>1
    <2> HIDE DEF P
    <2>2. \A m \in 0..n : m \in P
        BY <1>1, <1>7, <2>1, Induction
    <2>3. i \in P
        BY <2>1, <2>2
    <2>4. QED
        BY <2>1, <2>3 DEF P
<1>9. QED
    BY <1>1, <1>3, <1>8 DEF s

\* What deserialize makes of a value that serialize wrote.
Reads(column, written, read) ==
    IF IsNull(written) THEN read = NULL
    ELSE /\ read.kind = KindOf(column.type)
         /\ column.type \in {"INTEGER", "DOUBLE", "BOOLEAN", "VARCHAR"} => read = written
         /\ column.type \in {"DATE", "TIMESTAMP"} => IsPrefix(Written(column, written), read.data)

\* deserialize undoes serialize, up to what lies behind a short DATE.
LEMMA RoundTrip ==
    ASSUME NEW tuple, Fits(tuple), NEW padding \in Paddings
    PROVE  LET data == Serialize(tuple, padding)
           IN  /\ data \in Seq(Bytes)
               /\ ColumnIndex # {} => data # <<>>
               /\ CanDeserialize(data)
               /\ \A i \in ColumnIndex : Reads(Schema[i], tuple[i], Deserialize(data)[i])
<1> DEFINE n == Len(Schema)
           s == NullBitmapSize
           F(i) == Field(Schema[i], tuple[i], padding)
           data == Serialize(tuple, padding)
<1>1. n \in Nat /\ ColumnIndex = 1..n /\ s \in Nat
    BY SchemaFacts
<1>0. PICK start \in [0..n -> Nat] : Placed(data, start, tuple, padding)
    BY Layout
<1> HIDE DEF n, s, F, data
<1>2. /\ start[0] = 0
      /\ data \in Seq(Bytes)
      /\ Len(data) = s + start[n]
      /\ \A b \in 1..s : data[b] = NullBitmap(tuple)[b]
      /\ \A i \in ColumnIndex :
            /\ start[i] = start[i - 1] + Len(F(i))
            /\ start[i] <= start[n]
            /\ \A p \in 1..Len(F(i)) : data[s + start[i - 1] + p] = F(i)[p]
    BY <1>0 DEF Placed, n, s, F
<1>3. \A i \in ColumnIndex :
         /\ F(i) \in Seq(Int) /\ Len(F(i)) \in Nat \ {0}
         /\ Schema[i].type = "VARCHAR" => F(i)[1] \in Nat /\ Len(F(i)) = 1 + F(i)[1]
         /\ Schema[i].type # "VARCHAR" => Len(F(i)) = Schema[i].length
    BY FieldFacts DEF F
<1>4. \A i \in ColumnIndex : start[i - 1] \in Nat /\ start[i] \in Nat /\ start[n] \in Nat
    BY <1>1
<1>5. ASSUME NEW i \in ColumnIndex PROVE FieldSize(data, s + start[i - 1], i) = Len(F(i))
    <2>1. CASE Schema[i].type = "VARCHAR"
        <3>1. 1 \in 1..Len(F(i))
            BY <1>3
        <3>2. data[s + start[i - 1] + 1] = F(i)[1]
            BY <1>2, <3>1
        <3>3. QED
            BY <1>3, <2>1, <3>2 DEF FieldSize
    <2>2. CASE Schema[i].type # "VARCHAR"
        BY <1>3, <2>2 DEF FieldSize
    <2>3. QED
        BY <2>1, <2>2
<1>6. \A i \in ColumnIndex : Offsets(data)[i] = s + start[i - 1]
    <2>1. \A i \in ColumnIndex :
              /\ FieldSize(data, s + start[i - 1], i) \in Nat
              /\ start[i] = start[i - 1] + FieldSize(data, s + start[i - 1], i)
        BY <1>2, <1>3, <1>5
    <2>2. start \in [0..Len(Schema) -> Nat] /\ start[0] = 0
        BY <1>2 DEF n
    <2>3. QED
        BY <2>1, <2>2, OffsetFacts DEF s
<1>7. ASSUME NEW i \in ColumnIndex
      PROVE  SubSeq(data, Offsets(data)[i] + 1,
                    Offsets(data)[i] + FieldSize(data, Offsets(data)[i], i)) = F(i)
    <2> DEFINE o == s + start[i - 1]
               m == Len(F(i))
               t == SubSeq(data, o + 1, o + m)
    <2>0. o \in Nat /\ m \in Nat \ {0}
        BY <1>1, <1>3, <1>4, SMTT(30)
    <2>1. o \in Nat /\ m \in Nat \ {0} /\ o + 1 \in Nat /\ o + m \in Nat /\ o + 1 <= (o + m) + 1
        <3> HIDE DEF o, m
        <3>1. QED
            BY <2>0
    <2>2. \A p \in 1..m : data[o + p] = F(i)[p] /\ F(i)[p] \in Int
        <3>1. \A p \in 1..m : F(i)[p] \in Int
            BY <1>3, ElementOfSeq
        <3>2. QED
            BY <1>2, <3>1
    <2> HIDE DEF o
    <2>3. \A p \in (o + 1)..(o + m) : data[p] \in Int
        <3> SUFFICES ASSUME NEW p \in (o + 1)..(o + m) PROVE data[p] \in Int
            OBVIOUS
        <3>1. p - o \in 1..m /\ o + (p - o) = p
            BY <2>1
        <3>2. QED
            BY <2>2, <3>1
    <2> HIDE DEF m
    <2>4. /\ t \in Seq(Int) /\ Len(t) = (o + m) - (o + 1) + 1
          /\ \A p \in 1..((o + m) - (o + 1) + 1) : t[p] = data[(o + 1) + p - 1]
        BY <2>1, <2>3, SubSeqFacts
    <2> HIDE DEF t
    <2>5. Len(t) = m /\ \A p \in 1..m : t[p] = F(i)[p]
        <3>1. (o + m) - (o + 1) + 1 = m
            BY <2>1
        <3>2. \A p \in 1..m : (o + 1) + p - 1 = o + p
            BY <2>1
        <3>3. QED
            BY <2>2, <2>4, <3>1, <3>2
    <2>6. t = F(i)
        BY <1>3, <2>4, <2>5, SeqEqual DEF m
    <2>7. Offsets(data)[i] = o /\ FieldSize(data, o, i) = m
        BY <1>5, <1>6 DEF o, m
    <2>8. QED
        BY <2>6, <2>7 DEF t
<1>8. ASSUME NEW i \in ColumnIndex PROVE IsNullBitSet(data, i) <=> IsNull(tuple[i])
    <2>1. NullByte(i) \in 1..s /\ (NullBit(i) \in NullBitmap(tuple)[NullByte(i)] <=> IsNull(tuple[i]))
        BY BitmapFacts DEF s
    <2>2. QED
        BY <1>2, <2>1 DEF IsNullBitSet
<1>9. CanDeserialize(data)
    <2>1. Len(data) >= s
        <3>1. start[n] \in Nat
            BY <1>1
        <3>2. QED
            BY <1>1, <1>2, <3>1
    <2>2. ASSUME NEW i \in ColumnIndex PROVE Offsets(data)[i] < Len(data)
        <3>1. start[i] = start[i - 1] + Len(F(i)) /\ start[i] <= start[n] /\ Len(F(i)) \in Nat \ {0}
            BY <1>2, <1>3
        <3>2. start[i - 1] < start[n]
            BY <1>4, <3>1
        <3>3. s + start[i - 1] < s + start[n]
            BY <1>1, <1>4, <3>2
        <3>4. QED
            BY <1>2, <1>6, <3>3
    <2>3. QED
        BY <2>1, <2>2 DEF CanDeserialize, s
<1>10. ASSUME ColumnIndex # {} PROVE data # <<>>
    <2>1. PICK i \in ColumnIndex : TRUE
        BY <1>10
    <2>2. Offsets(data)[i] < Len(data) /\ Offsets(data)[i] \in Nat
        BY <1>1, <1>4, <1>6, <1>9 DEF CanDeserialize
    <2>3. Len(<<>>) = 0
        OBVIOUS
    <2>4. QED
        BY <2>2, <2>3
<1>11. ASSUME NEW i \in ColumnIndex
       PROVE  Reads(Schema[i], tuple[i], Deserialize(data)[i])
    <2> DEFINE read == Deserialize(data)[i]
               type == Schema[i].type
               inner == CASE type = "VARCHAR" -> Tail(F(i))
                          [] type \in {"DATE", "TIMESTAMP"} -> TrimPadding(F(i))
                          [] OTHER -> F(i)
    <2>1. read = IF IsNull(tuple[i]) THEN NULL ELSE Value(KindOf(type), inner)
        BY <1>7, <1>8 DEF Deserialize, ReadValue
    <2>2. /\ type \in {"INTEGER", "DOUBLE", "BOOLEAN", "VARCHAR", "DATE", "TIMESTAMP"}
          /\ type = "VARCHAR" => Tail(F(i)) = tuple[i].data
          /\ type \in {"INTEGER", "DOUBLE", "BOOLEAN"} /\ ~IsNull(tuple[i]) => F(i) = tuple[i].data
          /\ type \in {"DATE", "TIMESTAMP"} =>
                IsPrefix(Written(Schema[i], tuple[i]), TrimPadding(F(i)))
        BY FieldFacts, SchemaFacts, SMTT(30) DEF F
    <2> HIDE DEF read, inner
    <2>3. CASE IsNull(tuple[i])
        BY <2>1, <2>3 DEF Reads, read
    <2>4. CASE ~IsNull(tuple[i])
        <3>1. read = Value(KindOf(type), inner) /\ read.kind = KindOf(type) /\ read.data = inner
            BY <2>1, <2>4 DEF Value
        <3>2. tuple[i] = Value(KindOf(type), tuple[i].data)
            <4>1. tuple[i] \in Values /\ tuple[i].kind = KindOf(type)
                BY <2>4 DEF Fits
            <4>2. QED
                BY <4>1, ValueFacts
        <3>3. type \in {"INTEGER", "DOUBLE", "BOOLEAN", "VARCHAR"} => read = tuple[i]
            BY <2>2, <2>4, <3>1, <3>2 DEF inner
        <3>4. type \in {"DATE", "TIMESTAMP"} => inner = TrimPadding(F(i))
            BY DEF inner
        <3>5. QED
            BY <2>2, <2>4, <3>1, <3>3, <3>4 DEF Reads, read
    <2>5. QED
        BY <2>3, <2>4
<1>12. QED
    BY <1>2, <1>9, <1>10, <1>11 DEF data

-----------------------------------------------------------------------------
(* WHERE clauses *)

Answers == {"true", "false", "throws"}

\* What evaluate_where_clause answers from the answers of the operands.
LEMMA EvaluateWhereFacts ==
    ASSUME NEW tuple, NEW expression \in Expressions
    PROVE  LET answer(e) == EvaluateWhere(e, tuple)
               value(e)  == Evaluate(e, tuple)
               e         == expression
           IN  /\ answer(e) \in Answers
               /\ e.op = "AND" => answer(e) = IF answer(e.left) = "true" THEN answer(e.right)
                                                                        ELSE answer(e.left)
               /\ e.op = "OR"  => answer(e) = IF answer(e.left) = "false" THEN answer(e.right)
                                                                         ELSE answer(e.left)
               /\ e.op = "IS"  => answer(e) = IF value(e.left) = THROWS THEN "throws"
                                              ELSE Bool(IsNull(value(e.left)) # e.is_not)
               /\ e.op \in {"literal", "column"} =>
                     answer(e) = IF value(e).kind = "bool" THEN Bool(value(e).data = <<1>>)
                                                           ELSE "throws"
               /\ e.op \notin {"AND", "OR", "IS", "literal", "column"} =>
                     answer(e) = ApplyComparison(value(e.left), e.op, value(e.right))
<1> DEFINE Step(f, e) ==
               CASE e.op = "AND" -> IF f[e.left] = "true" THEN f[e.right] ELSE f[e.left]
                 [] e.op = "OR"  -> IF f[e.left] = "false" THEN f[e.right] ELSE f[e.left]
                 [] e.op = "IS"  -> LET v == Evaluate(e.left, tuple)
                                    IN  IF v = THROWS THEN "throws" ELSE Bool(IsNull(v) # e.is_not)
                 [] e.op \in {"literal", "column"} ->
                       LET v == Evaluate(e, tuple)
                       IN  IF v.kind = "bool" THEN Bool(v.data = <<1>>) ELSE "throws"
                 [] OTHER -> ApplyComparison(Evaluate(e.left, tuple), e.op, Evaluate(e.right, tuple))
           Body(f) == [e \in Expressions |-> Step(f, e)]
           answer == CHOOSE f : f = Body(f)
           sub == [e \in Expressions |-> Operands(e)]
           def == [e \in Expressions |-> [f \in [Expressions -> Answers] |-> Step(f, e)]]
<1>1. \A e : EvaluateWhere(e, tuple) = answer[e]
    BY DEF EvaluateWhere
<1>2. \A e \in Expressions : Operands(e) \subseteq Expressions
    BY ExpressionAssumption
<1>3. ASSUME NEW e \in Expressions, NEW f, \A y \in Operands(e) : f[y] \in Answers
      PROVE  Step(f, e) \in Answers
    <2>1. \A b : Bool(b) \in Answers
        BY DEF Bool, Answers
    <2>2. \A l, op, r : ApplyComparison(l, op, r) \in Answers
        BY DEF ApplyComparison, Bool, Answers
    <2>3. CASE e.op \in {"AND", "OR"}
        <3>1. e.left \in Operands(e) /\ e.right \in Operands(e)
            BY <2>3 DEF Operands
        <3>2. f[e.left] \in Answers /\ f[e.right] \in Answers
            BY <1>3, <3>1
        <3>3. QED
            BY <2>3, <3>2
    <2>4. CASE e.op \in {"IS", "literal", "column"}
        BY <2>1, <2>4 DEF Answers
    <2>5. CASE e.op \notin {"AND", "OR", "IS", "literal", "column"}
        BY <2>2, <2>5
    <2>6. QED
        BY <2>3, <2>4, <2>5
<1>4. ASSUME NEW e \in Expressions, NEW f, NEW g, \A y \in Operands(e) : f[y] = g[y]
      PROVE  Step(f, e) = Step(g, e)
    <2>1. CASE e.op \in {"AND", "OR"}
        <3>1. e.left \in Operands(e) /\ e.right \in Operands(e)
            BY <2>1 DEF Operands
        <3>2. f[e.left] = g[e.left] /\ f[e.right] = g[e.right]
            BY <1>4, <3>1
        <3>3. QED
            BY <2>1, <3>2
    <2>2. CASE e.op \notin {"AND", "OR"}
        BY <2>2
    <2>3. QED
        BY <2>1, <2>2
<1>5. PICK h \in [Expressions -> Answers] : \A e \in Expressions : h[e] = Step(h, e)
    <2> HIDE DEF Step
    <2>1. "true" \in Answers
        BY DEF Answers
    <2>2. \A e \in Expressions : sub[e] = Operands(e) /\ sub[e] \subseteq Expressions
        BY <1>2
    <2>3. \A T \in SUBSET Expressions : T # {} => \E e \in T : sub[e] \cap T = {}
        BY <2>2, ExpressionAssumption
    <2>4. \A e \in Expressions, f \in [Expressions -> Answers] : def[e][f] = Step(f, e)
        OBVIOUS
    <2>5. \A e \in Expressions, f \in [Expressions -> Answers] : def[e][f] \in Answers
        BY <1>2, <1>3, <2>4
    <2>6. \A e \in Expressions : \A f, g \in [Expressions -> Answers] :
              (\A y \in sub[e] : f[y] = g[y]) => def[e][f] = def[e][g]
        BY <1>4, <2>2, <2>4
    <2>7. \A e \in Expressions : sub[e] \subseteq Expressions
        BY <2>2
    <2> HIDE DEF sub, def
    <2>8. Recursive(Expressions, Answers, sub, def)
        BY <2>1, <2>3, <2>5, <2>6, <2>7 DEF Recursive
    <2>9. \E f \in [Expressions -> Answers] : \A e \in Expressions : f[e] = def[e][f]
        BY <2>8, TreeRecursion
    <2>10. QED
        BY <2>4, <2>9
<1>6. \A e \in Expressions : answer[e] = Step(answer, e)
    <2> HIDE DEF Step
    <2>1. h = Body(h)
        BY <1>5
    <2> HIDE DEF Body
    <2>2. answer = Body(answer)
        BY <2>1
    <2> HIDE DEF answer
    <2>3. QED
        BY <2>2 DEF Body
<1> HIDE DEF answer
<1>7. \A e \in Expressions : answer[e] \in Answers
    <2> DEFINE T == {e \in Expressions : answer[e] \notin Answers}
    <2>1. ASSUME T # {} PROVE FALSE
        <3>1. PICK e \in T : Operands(e) \cap T = {}
            BY <2>1, ExpressionAssumption
        <3>2. \A y \in Operands(e) : answer[y] \in Answers
            BY <1>2, <3>1
        <3>3. QED
            BY <1>3, <1>6, <3>1, <3>2
    <2>2. QED
        BY <2>1
<1>8. answer[expression] = Step(answer, expression) /\ answer[expression] \in Answers
    BY <1>6, <1>7
<1>9. QED
    BY <1>1, <1>8

TruthValues == {"true", "false", "unknown"}

\* The reference, from the truth of the operands.
LEMMA TruthFacts ==
    ASSUME NEW tuple, NEW expression \in Expressions
    PROVE  LET truth(e) == Truth(e, tuple)
               value(e) == Evaluate(e, tuple)
               e        == expression
           IN  /\ truth(e) \in TruthValues
               /\ e.op \in {"AND", "OR"} =>
                     truth(e) = IF Bool(e.op = "OR") \in {truth(e.left), truth(e.right)}
                                THEN Bool(e.op = "OR")
                                ELSE IF "unknown" \in {truth(e.left), truth(e.right)}
                                     THEN "unknown" ELSE Bool(e.op = "AND")
               /\ e.op = "IS" => truth(e) = Bool((value(e.left) = NULL) # e.is_not)
               /\ e.op \in {"literal", "column"} =>
                     truth(e) = IF IsNull(value(e)) THEN "unknown"
                                                    ELSE Bool(value(e).data = <<1>>)
               /\ e.op \notin {"AND", "OR", "IS", "literal", "column"} =>
                     truth(e) = TruthOfComparison(value(e.left), e.op, value(e.right))
<1> DEFINE Step(f, e) ==
               CASE e.op \in {"AND", "OR"} ->
                       IF Bool(e.op = "OR") \in {f[e.left], f[e.right]} THEN Bool(e.op = "OR")
                       ELSE IF "unknown" \in {f[e.left], f[e.right]} THEN "unknown"
                                                                     ELSE Bool(e.op = "AND")
                 [] e.op = "IS" -> Bool((Evaluate(e.left, tuple) = NULL) # e.is_not)
                 [] e.op \in {"literal", "column"} ->
                       LET v == Evaluate(e, tuple)
                       IN  IF IsNull(v) THEN "unknown" ELSE Bool(v.data = <<1>>)
                 [] OTHER -> TruthOfComparison(Evaluate(e.left, tuple), e.op, Evaluate(e.right, tuple))
           Body(f) == [e \in Expressions |-> Step(f, e)]
           truth == CHOOSE f : f = Body(f)
           sub == [e \in Expressions |-> Operands(e)]
           def == [e \in Expressions |-> [f \in [Expressions -> TruthValues] |-> Step(f, e)]]
<1>1. \A e : Truth(e, tuple) = truth[e]
    BY DEF Truth
<1>2. \A e \in Expressions : Operands(e) \subseteq Expressions
    BY ExpressionAssumption
<1>3. ASSUME NEW e \in Expressions, NEW f PROVE Step(f, e) \in TruthValues
    <2>1. \A b : Bool(b) \in TruthValues
        BY DEF Bool, TruthValues
    <2>2. \A l, op, r : TruthOfComparison(l, op, r) \in TruthValues
        BY DEF TruthOfComparison, Bool, TruthValues
    <2>3. "unknown" \in TruthValues
        BY DEF TruthValues
    <2>4. CASE e.op \in {"AND", "OR", "IS", "literal", "column"}
        BY <2>1, <2>3, <2>4
    <2>5. CASE e.op \notin {"AND", "OR", "IS", "literal", "column"}
        BY <2>2, <2>5
    <2>6. QED
        BY <2>4, <2>5
<1>4. ASSUME NEW e \in Expressions, NEW f, NEW g, \A y \in Operands(e) : f[y] = g[y]
      PROVE  Step(f, e) = Step(g, e)
    <2>1. CASE e.op \in {"AND", "OR"}
        <3>1. e.left \in Operands(e) /\ e.right \in Operands(e)
            BY <2>1 DEF Operands
        <3>2. f[e.left] = g[e.left] /\ f[e.right] = g[e.right]
            BY <1>4, <3>1
        <3>3. QED
            BY <2>1, <3>2
    <2>2. CASE e.op \notin {"AND", "OR"}
        BY <2>2
    <2>3. QED
        BY <2>1, <2>2
<1>5. PICK h \in [Expressions -> TruthValues] : \A e \in Expressions : h[e] = Step(h, e)
    <2> HIDE DEF Step
    <2>1. "true" \in TruthValues
        BY DEF TruthValues
    <2>2. \A e \in Expressions : sub[e] = Operands(e) /\ sub[e] \subseteq Expressions
        BY <1>2
    <2>3. \A T \in SUBSET Expressions : T # {} => \E e \in T : sub[e] \cap T = {}
        BY <2>2, ExpressionAssumption
    <2>4. \A e \in Expressions, f \in [Expressions -> TruthValues] : def[e][f] = Step(f, e)
        OBVIOUS
    <2>5. \A e \in Expressions, f \in [Expressions -> TruthValues] : def[e][f] \in TruthValues
        BY <1>3, <2>4
    <2>6. \A e \in Expressions : \A f, g \in [Expressions -> TruthValues] :
              (\A y \in sub[e] : f[y] = g[y]) => def[e][f] = def[e][g]
        BY <1>4, <2>2, <2>4
    <2>7. \A e \in Expressions : sub[e] \subseteq Expressions
        BY <2>2
    <2> HIDE DEF sub, def
    <2>8. Recursive(Expressions, TruthValues, sub, def)
        BY <2>1, <2>3, <2>5, <2>6, <2>7 DEF Recursive
    <2>9. \E f \in [Expressions -> TruthValues] : \A e \in Expressions : f[e] = def[e][f]
        BY <2>8, TreeRecursion
    <2>10. QED
        BY <2>4, <2>9
<1>6. \A e \in Expressions : truth[e] = Step(truth, e)
    <2> HIDE DEF Step
    <2>1. h = Body(h)
        BY <1>5
    <2> HIDE DEF Body
    <2>2. truth = Body(truth)
        BY <2>1
    <2> HIDE DEF truth
    <2>3. QED
        BY <2>2 DEF Body
<1> HIDE DEF truth
<1>7. truth[expression] = Step(truth, expression) /\ truth[expression] \in TruthValues
    BY <1>3, <1>6
<1>8. QED
    BY <1>1, <1>7

\* A row that can be read: no value is a stored exception, and NULL is one value.
Readable(tuple) ==
    \A i \in ColumnIndex : tuple[i] # THROWS /\ IsNull(tuple[i]) = (tuple[i] = NULL)

\* A column that is found is a column, the first of its name.
LEMMA FoundColumn ==
    ASSUME NEW name, HasColumn(name)
    PROVE  /\ FindColumn(name) \in ColumnIndex
           /\ Schema[FindColumn(name)].name = name
           /\ \A j \in ColumnIndex : Schema[j].name = name => FindColumn(name) <= j
<1> DEFINE T == {i \in ColumnIndex : Schema[i].name = name}
<1>1. T \in SUBSET Nat
    BY SchemaFacts
<1>2. T # {}
    BY DEF HasColumn
<1> HIDE DEF T
<1>3. Min(T) \in T /\ \A k \in T : Min(T) <= k
    BY <1>1, <1>2, MinIsLeast
<1>4. FindColumn(name) = Min(T)
    BY DEF FindColumn, T
<1>5. QED
    BY <1>3, <1>4 DEF T

\* A literal stands for a value of its kind.
LEMMA LiteralFacts ==
    ASSUME NEW literal \in Values
    PROVE  /\ LiteralToValue(literal) \in Values
           /\ LiteralToValue(literal).kind = literal.kind
           /\ literal.kind # "int" => LiteralToValue(literal) = literal
           /\ literal.kind = "int" =>
                 LiteralToValue(literal).data[1]
                   = ((literal.data[1] + INT32 \div 2) % INT32) - INT32 \div 2
<1>1. CASE literal.kind # "int"
    BY <1>1 DEF LiteralToValue
<1>2. CASE literal.kind = "int"
    <2> DEFINE n == ((literal.data[1] + INT32 \div 2) % INT32) - INT32 \div 2
               w == <<n>>
    <2>1. literal.data[1] \in Int
        BY <1>2, ValueFacts
    <2>2. n \in Int
        <3>1. INT32 \div 2 \in Int
            BY IntAssumption
        <3> DEFINE a == literal.data[1] + INT32 \div 2
        <3>2. a \in Int
            BY <2>1, <3>1
        <3> HIDE DEF a
        <3>3. a % INT32 \in Int
            BY <3>2, IntAssumption
        <3>4. QED
            BY <3>1, <3>3 DEF a
    <2>3. LiteralToValue(literal) = Value("int", w)
        BY <1>2 DEF LiteralToValue
    <2> HIDE DEF n
    <2>4. w \in [1..1 -> Int] /\ w[1] = n
        BY <2>2
    <2> HIDE DEF w
    <2>5. Value("int", w) \in Values
        BY <2>4 DEF Value, Values
    <2>6. QED
        BY <1>2, <2>3, <2>4, <2>5 DEF Value, n
<1>3. QED
    BY <1>1, <1>2

\* An expression's value is a value, or an exception.
LEMMA EvaluateFacts ==
    ASSUME NEW tuple, Readable(tuple), NEW e \in Expressions
    PROVE  Evaluate(e, tuple) # THROWS =>
              IsNull(Evaluate(e, tuple)) = (Evaluate(e, tuple) = NULL)
<1>1. CASE e.op = "literal"
    <2>1. e.value \in Values
        BY <1>1, ExpressionAssumption
    <2>2. LiteralToValue(e.value) \in Values
        BY <2>1, LiteralFacts
    <2>3. Evaluate(e, tuple) = LiteralToValue(e.value)
        BY <1>1 DEF Evaluate
    <2>4. Evaluate(e, tuple) \in Values
        BY <2>2, <2>3
    <2>5. Evaluate(e, tuple) = NULL <=> IsNull(Evaluate(e, tuple))
        BY <2>4, ValueFacts
    <2>6. QED
        BY <2>5 DEF IsNull
<1>2. CASE e.op = "column"
    <2>1. CASE HasColumn(e.name)
        BY <1>2, <2>1, FoundColumn DEF Evaluate, Readable
    <2>2. CASE ~HasColumn(e.name)
        BY <1>2, <2>2 DEF Evaluate
    <2>3. QED
        BY <2>1, <2>2
<1>3. CASE e.op \notin {"literal", "column"}
    BY <1>3 DEF Evaluate
<1>4. QED
    BY <1>1, <1>2, <1>3

\* A WHERE clause that does not throw holds of the rows of which it is true in
\* SQL's logic of three values, and of no other: short-circuiting and taking
\* unknown for false make no difference.
LEMMA WhereAnswersSql ==
    ASSUME NEW tuple, Readable(tuple), NEW expression \in Expressions,
           EvaluateWhere(expression, tuple) # "throws"
    PROVE  EvaluateWhere(expression, tuple) = "true" <=> Truth(expression, tuple) = "true"
<1> DEFINE A(e) == EvaluateWhere(e, tuple)
           B(e) == Truth(e, tuple)
           V(e) == Evaluate(e, tuple)
           Right(e) == A(e) # "throws" => (A(e) = "true" <=> B(e) = "true")
           T == {e \in Expressions : ~Right(e)}
<1>1. \A e \in Expressions : Operands(e) \subseteq Expressions
    BY ExpressionAssumption
<1>2. \A e \in Expressions :
         /\ A(e) \in Answers
         /\ e.op = "AND" => A(e) = IF A(e.left) = "true" THEN A(e.right) ELSE A(e.left)
         /\ e.op = "OR"  => A(e) = IF A(e.left) = "false" THEN A(e.right) ELSE A(e.left)
         /\ e.op = "IS"  => A(e) = IF V(e.left) = THROWS THEN "throws"
                                   ELSE Bool(IsNull(V(e.left)) # e.is_not)
         /\ e.op \in {"literal", "column"} =>
               A(e) = IF V(e).kind = "bool" THEN Bool(V(e).data = <<1>>) ELSE "throws"
         /\ e.op \notin {"AND", "OR", "IS", "literal", "column"} =>
               A(e) = ApplyComparison(V(e.left), e.op, V(e.right))
    BY EvaluateWhereFacts
<1>3. \A e \in Expressions :
         /\ B(e) \in TruthValues
         /\ e.op \in {"AND", "OR"} =>
               B(e) = IF Bool(e.op = "OR") \in {B(e.left), B(e.right)} THEN Bool(e.op = "OR")
                      ELSE IF "unknown" \in {B(e.left), B(e.right)} THEN "unknown"
                                                                    ELSE Bool(e.op = "AND")
         /\ e.op = "IS" => B(e) = Bool((V(e.left) = NULL) # e.is_not)
         /\ e.op \in {"literal", "column"} =>
               B(e) = IF IsNull(V(e)) THEN "unknown" ELSE Bool(V(e).data = <<1>>)
         /\ e.op \notin {"AND", "OR", "IS", "literal", "column"} =>
               B(e) = TruthOfComparison(V(e.left), e.op, V(e.right))
    BY TruthFacts
<1>4. \A e \in Expressions : V(e) # THROWS => IsNull(V(e)) = (V(e) = NULL)
    BY EvaluateFacts
<1> HIDE DEF A, B, V
<1>5. ASSUME NEW e \in Expressions, \A y \in Operands(e) : Right(y) PROVE Right(e)
    <2> SUFFICES ASSUME A(e) # "throws" PROVE A(e) = "true" <=> B(e) = "true"
        OBVIOUS
    <2>1. CASE e.op \in {"AND", "OR"}
        <3> DEFINE l == e.left
                   r == e.right
        <3>1. l \in Operands(e) /\ r \in Operands(e)
            BY <2>1 DEF Operands
        <3>2. Right(l) /\ Right(r) /\ l \in Expressions /\ r \in Expressions
            BY <1>1, <1>5, <3>1
        <3> HIDE DEF l, r
        <3>3. A(l) \in Answers /\ A(r) \in Answers /\ B(l) \in TruthValues /\ B(r) \in TruthValues
            BY <1>2, <1>3, <3>2
        <3>4. CASE e.op = "AND"
            <4>1. A(e) = IF A(l) = "true" THEN A(r) ELSE A(l)
                BY <1>2, <3>4 DEF l, r
            <4>2. B(e) = IF "false" \in {B(l), B(r)} THEN "false"
                         ELSE IF "unknown" \in {B(l), B(r)} THEN "unknown" ELSE "true"
                BY <1>3, <3>4 DEF l, r, Bool
            <4>3. QED
                BY <3>2, <3>3, <4>1, <4>2 DEF Answers, TruthValues
        <3>5. CASE e.op = "OR"
            <4>1. A(e) = IF A(l) = "false" THEN A(r) ELSE A(l)
                BY <1>2, <3>5 DEF l, r
            <4>2. B(e) = IF "true" \in {B(l), B(r)} THEN "true"
                         ELSE IF "unknown" \in {B(l), B(r)} THEN "unknown" ELSE "false"
                BY <1>3, <3>5 DEF l, r, Bool
            <4>3. QED
                BY <3>2, <3>3, <4>1, <4>2 DEF Answers, TruthValues
        <3>6. QED
            BY <2>1, <3>4, <3>5
    <2>2. CASE e.op = "IS"
        <3>1. e.left \in Expressions
            BY <1>1, <2>2 DEF Operands
        <3>2. A(e) = IF V(e.left) = THROWS THEN "throws" ELSE Bool(IsNull(V(e.left)) # e.is_not)
            BY <1>2, <2>2
        <3>3. V(e.left) # THROWS
            BY <3>2
        <3>4. IsNull(V(e.left)) = (V(e.left) = NULL)
            BY <1>4, <3>1, <3>3
        <3>5. B(e) = Bool((V(e.left) = NULL) # e.is_not)
            BY <1>3, <2>2
        <3>6. A(e) = B(e)
            BY <3>2, <3>3, <3>4, <3>5, Zenon
        <3>7. QED
            BY <3>6
    <2>3. CASE e.op \in {"literal", "column"}
        <3>1. V(e).kind = "bool" /\ A(e) = Bool(V(e).data = <<1>>)
            BY <1>2, <2>3
        <3>2. ~IsNull(V(e))
            BY <3>1 DEF IsNull
        <3>3. B(e) = Bool(V(e).data = <<1>>)
            BY <1>3, <2>3, <3>2
        <3>4. QED
            BY <3>1, <3>3
    <2>4. CASE e.op \notin {"AND", "OR", "IS", "literal", "column"}
        <3> DEFINE l == V(e.left)
                   r == V(e.right)
        <3>1. A(e) = ApplyComparison(l, e.op, r) /\ B(e) = TruthOfComparison(l, e.op, r)
            BY <1>2, <1>3, <2>4
        <3> HIDE DEF l, r
        <3>2. CASE NULL \in {l, r}
            BY <3>1, <3>2 DEF ApplyComparison, TruthOfComparison
        <3>3. CASE NULL \notin {l, r}
            <4>1. A(e) = Bool(Holds(l.data, e.op, r.data))
                BY <3>1, <3>3 DEF ApplyComparison
            <4>2. B(e) = Bool(Holds(l.data, e.op, r.data))
                BY <3>1, <3>3 DEF TruthOfComparison
            <4>3. QED
                BY <4>1, <4>2
        <3>4. QED
            BY <3>2, <3>3
    <2>5. QED
        BY <2>1, <2>2, <2>3, <2>4
<1>6. T = {}
    <2> SUFFICES ASSUME T # {} PROVE FALSE
        OBVIOUS
    <2> HIDE DEF Right
    <2>1. PICK e \in T : Operands(e) \cap T = {}
        BY ExpressionAssumption
    <2>2. \A y \in Operands(e) : Right(y)
        BY <1>1, <2>1
    <2>3. QED
        BY <1>5, <2>1, <2>2
<1>7. QED
    BY <1>6 DEF A, B

-----------------------------------------------------------------------------
(* What INSERT makes of a row of VALUES *)

\* An int literal keeps its value modulo the width of an int, and is in range.
LEMMA IntLiteral ==
    ASSUME NEW literal \in Values, literal.kind = "int"
    PROVE  /\ LiteralToValue(literal).data[1] \in -(INT32 \div 2)..(INT32 \div 2 - 1)
           /\ (LiteralToValue(literal).data[1] - literal.data[1]) % INT32 = 0
<1> DEFINE a == literal.data[1]
           h == INT32 \div 2
           n == INT32
           q == (a + h) \div n
           r == (a + h) % n
<1>1. a \in Int /\ LiteralToValue(literal).data[1] = r - h
    BY ValueFacts, LiteralFacts
<1>2. n \in Nat \ {0} /\ h \in Nat /\ n = h + h
    BY IntAssumption
<1> HIDE DEF a, h, n
<1>3. q \in Int /\ r \in 0..(n - 1) /\ a + h = q * n + r
    <2> DEFINE e == a + h
    <2>1. e \in Int
        BY <1>1, <1>2
    <2> HIDE DEF e
    <2>2. e \div n \in Int /\ e % n \in 0..(n - 1) /\ e = (e \div n) * n + (e % n)
        BY <1>2, <2>1, IntDivision
    <2>3. QED
        BY <2>2 DEF e
<1> HIDE DEF q, r
<1>4. r - h \in (-h)..(h - 1)
    BY <1>2, <1>3
<1>5. (r - h) - a = (-q) * n
    <2> DEFINE x == q * n
    <2>1. x \in Int /\ (-q) * n = -x
        BY <1>2, <1>3
    <2> HIDE DEF x
    <2>2. a + h = x + r
        BY <1>3 DEF x
    <2>3. QED
        BY <1>1, <1>2, <1>3, <2>1, <2>2
<1>6. ((-q) * n) % n = 0
    BY <1>2, <1>3, MultipleFacts
<1>7. QED
    BY <1>1, <1>4, <1>5, <1>6 DEF a, h, n

\* find_column_index finds the column that a name stands for.
LEMMA NamedFacts ==
    ASSUME NEW name, NEW i \in ColumnIndex
    PROVE  Named(name, i) <=> HasColumn(name) /\ FindColumn(name) = i
<1>1. \A j \in ColumnIndex : j \in Nat
    BY SchemaFacts
<1>2. ASSUME Named(name, i) PROVE HasColumn(name) /\ FindColumn(name) = i
    <2>1. Schema[i].name = name /\ \A j \in ColumnIndex : j < i => Schema[j].name # name
        BY <1>2 DEF Named
    <2>2. HasColumn(name)
        BY <2>1 DEF HasColumn
    <2>3. /\ FindColumn(name) \in ColumnIndex /\ Schema[FindColumn(name)].name = name
          /\ FindColumn(name) <= i
        BY <2>1, <2>2, FoundColumn
    <2>4. ~(FindColumn(name) < i)
        BY <2>1, <2>3
    <2>5. QED
        BY <1>1, <2>2, <2>3, <2>4
<1>3. ASSUME HasColumn(name), FindColumn(name) = i PROVE Named(name, i)
    <2>1. Schema[i].name = name /\ \A j \in ColumnIndex : Schema[j].name = name => i <= j
        BY <1>3, FoundColumn
    <2>2. QED
        BY <1>1, <2>1 DEF Named
<1>4. QED
    BY <1>2, <1>3

\* build_column_index picks for each column the value that is meant for it.
LEMMA TupleForFacts ==
    ASSUME NEW names \in NameLists, ColumnListAccepted(names),
           NEW values \in LiteralRows, RowAccepted(names, values), NEW i \in ColumnIndex
    PROVE  /\ Meant(names, values, i) \in Values
           /\ TupleFor(names, values)[i] = LiteralToValue(Meant(names, values, i))
<1> DEFINE meant == Meant(names, values, i)
           index == BuildColumnIndex(names)[i]
<1>1. Len(Schema) \in Nat /\ ColumnIndex = 1..Len(Schema)
    BY SchemaFacts
<1>2. /\ values \in Seq(Values) /\ Len(values) \in Nat
      /\ \A v \in 1..Len(values) : values[v] \in Values
    BY ExecutorAssumption, LenProperties, ElementOfSeq
<1>3. TupleFor(names, values)[i] = IF index = 0 THEN NULL ELSE LiteralToValue(values[index])
    BY DEF TupleFor
<1>4. CASE names = <<>>
    <2>1. index = i
        BY <1>4 DEF BuildColumnIndex
    <2>2. meant = values[i]
        BY <1>4 DEF Meant
    <2>3. Len(values) = Len(Schema)
        BY <1>4 DEF RowAccepted
    <2>4. i \in 1..Len(values) /\ i # 0
        BY <1>1, <2>3
    <2>5. QED
        BY <1>2, <1>3, <2>1, <2>2, <2>4
<1>5. CASE names # <<>>
    <2> DEFINE V == {v \in DOMAIN names : HasColumn(names[v]) /\ FindColumn(names[v]) = i}
               N == Len(names)
    <2>1. N \in Nat /\ DOMAIN names = 1..N /\ names \in Seq(ToSet(names))
        BY ExecutorAssumption, LenProperties
    <2>2. Len(values) = N
        BY <1>5 DEF RowAccepted
    <2>3. \A v, w \in 1..N : names[v] = names[w] => v = w
        <3>1. IsInjective(names)
            BY <1>5 DEF ColumnListAccepted
        <3>2. QED
            BY <2>1, <3>1, ToSetFacts
    <2>4. index = Max({0} \cup V)
        BY <1>5 DEF BuildColumnIndex
    <2>5. \A v \in 1..N : Named(names[v], i) <=> v \in V
        BY <2>1, NamedFacts
    <2>6. \A v \in V : v \in 1..N /\ names[v] = Schema[i].name
        BY <2>1, FoundColumn
    <2>7. \A v, w \in V : v = w
        BY <2>3, <2>6
    <2>8. meant = IF \E v \in 1..N : Named(names[v], i)
                  THEN values[CHOOSE v \in 1..N : Named(names[v], i)] ELSE NULL
        BY <1>5, <2>1 DEF Meant
    <2> HIDE DEF V, N
    <2>9. {0} \cup V \in SUBSET (0..N) /\ {0} \cup V # {}
        BY <2>1, <2>6
    <2> DEFINE T == {0} \cup V
    <2>10. index \in T /\ \A v \in T : v <= index
        <3>1. T \in SUBSET (0..N) /\ T # {}
            BY <2>9
        <3> HIDE DEF T
        <3>2. QED
            BY <2>1, <2>4, <3>1, MaxIsGreatest DEF T
    <2>11. CASE V = {}
        <3>1. index = 0 /\ meant = NULL
            BY <2>5, <2>8, <2>10, <2>11
        <3>2. NULL \in Values /\ LiteralToValue(NULL) = NULL
            BY DEF Values, LiteralToValue, NULL, Value
        <3>3. QED
            BY <1>3, <3>1, <3>2
    <2>12. CASE V # {}
        <3>1. PICK v \in V : TRUE
            BY <2>12
        <3>2. v \in 1..N /\ Named(names[v], i)
            BY <2>5, <2>6, <3>1
        <3>3. \A w \in 1..N : Named(names[w], i) <=> w = v
            BY <2>5, <2>7, <3>1, <3>2
        <3>4. meant = values[v]
            BY <2>8, <3>2, <3>3
        <3>5. index = v
            <4>1. index # 0
                BY <2>1, <2>10, <3>2
            <4>2. QED
                BY <2>7, <2>10, <4>1
        <3>6. v # 0 /\ v \in 1..Len(values)
            BY <2>1, <2>2, <3>2
        <3>7. QED
            BY <1>2, <1>3, <3>4, <3>5, <3>6
    <2>13. QED
        BY <2>11, <2>12
<1>6. QED
    BY <1>4, <1>5

\* A row that INSERT may store: NULL only where it may be, and ints of their width.
Storable(tuple) ==
    /\ Fits(tuple)
    /\ \A i \in ColumnIndex :
          /\ IsNull(tuple[i]) => Schema[i].nullable
          /\ tuple[i].kind = "int" => tuple[i].data[1] \in -(INT32 \div 2)..(INT32 \div 2 - 1)

\* The checks of execute_insert and std::get leave storable rows.
LEMMA AcceptedRows ==
    ASSUME NEW names \in NameLists, ColumnListAccepted(names),
           NEW values \in LiteralRows, RowAccepted(names, values),
           CanSerialize(TupleFor(names, values))
    PROVE  Storable(TupleFor(names, values))
<1> DEFINE tuple == TupleFor(names, values)
           meant(i) == Meant(names, values, i)
<1>1. \A i \in ColumnIndex : meant(i) \in Values /\ tuple[i] = LiteralToValue(meant(i))
    BY TupleForFacts
<1>2. DOMAIN tuple = ColumnIndex /\ tuple = [i \in ColumnIndex |-> tuple[i]]
    BY DEF TupleFor
<1>3. \A i \in ColumnIndex : IsNull(tuple[i]) => Schema[i].nullable
    BY DEF RowAccepted
<1>4. \A i \in ColumnIndex : IsNull(tuple[i]) \/ tuple[i].kind = KindOf(Schema[i].type)
    BY DEF CanSerialize
<1> HIDE DEF tuple, meant
<1>5. ASSUME NEW i \in ColumnIndex
      PROVE  /\ tuple[i] \in Values
             /\ tuple[i].kind = "int" => tuple[i].data[1] \in -(INT32 \div 2)..(INT32 \div 2 - 1)
    <2>1. meant(i) \in Values /\ tuple[i] = LiteralToValue(meant(i))
        BY <1>1
    <2>2. tuple[i] \in Values /\ tuple[i].kind = meant(i).kind
        BY <2>1, LiteralFacts
    <2>3. tuple[i].kind = "int" => tuple[i].data[1] \in -(INT32 \div 2)..(INT32 \div 2 - 1)
        BY <2>1, <2>2, IntLiteral
    <2>4. QED
        BY <2>2, <2>3
<1>6. tuple \in [ColumnIndex -> Values]
    BY <1>2, <1>5
<1>7. QED
    BY <1>3, <1>4, <1>5, <1>6 DEF Storable, Fits, tuple

-----------------------------------------------------------------------------
(* The inductive invariant *)

\* The bytes that accepted rows of accepted statements are written as, if any.
RowsOf(names, values) == {Serialize(TupleFor(names, values), padding) : padding \in Paddings}
AcceptedValues(names) == {values \in LiteralRows : RowAccepted(names, values)}
Serialized ==
    UNION {UNION {RowsOf(names, values) :
                values \in {w \in AcceptedValues(names) : CanSerialize(TupleFor(names, w))}} :
        names \in {n \in NameLists : ColumnListAccepted(n)}}
WrittenRows == Serialized \ {<<>>}

\* Every slot of the table is one of those, or was emptied by a DELETE that runs.
RowsInv ==
    /\ Len(rows) <= MaxRows
    /\ rows \in Seq({<<>>} \cup WrittenRows)
    /\ stmt # "delete" => rows \in Seq(WrittenRows)

StatementInv ==
    /\ stmt \in {"idle", "build", "insert", "select", "delete"}
    /\ node = [names |-> node.names, values |-> node.values, where |-> node.where]
    /\ held \in BOOLEAN
    /\ pins \in 0..MaxPins

\* The rows of VALUES were checked before the first is stored, they are stored
\* in their order, and there is room for those to come.
InsertInv ==
    stmt \in {"build", "insert"} =>
        /\ node.names \in NameLists
        /\ ColumnListAccepted(node.names)
        /\ node.values \in Seq(AcceptedValues(node.names))
        /\ stmt = "build" => Len(rows) + Len(node.values) <= MaxRows
        /\ stmt = "insert" => \E m \in 1..(Len(node.values) + 1) :
              /\ todo = m..Len(node.values)
              /\ Len(rows) + (Len(node.values) + 1 - m) <= MaxRows

\* A scan that runs has yet to see some of the rows.  The rows that SELECT has
\* are, each once, those it has seen that satisfy the clause: result[j] is the
\* projection of row f[j].
Selected(f) ==
    /\ \A i, j \in 1..Len(result) : f[i] = f[j] => i = j
    /\ {f[j] : j \in 1..Len(result)} = Satisfying \ todo
    /\ \A j \in 1..Len(result) : result[j] = ProjectTuple(TableRow(f[j]))

ScanInv ==
    /\ stmt \in {"select", "delete"} => node.where \in WhereClauses /\ todo \subseteq Stored
    /\ stmt # "select" => result = <<>>
    /\ result \in Seq(ToSet(result))
    /\ stmt = "select" => \E f \in [1..Len(result) -> Stored] : Selected(f)

IInv == RowsInv /\ StatementInv /\ InsertInv /\ ScanInv

\* A written row is a storable one in bytes.
LEMMA WrittenRowsFacts ==
    /\ \A names \in NameLists : ColumnListAccepted(names) =>
          \A values \in AcceptedValues(names), padding \in Paddings :
             CanSerialize(TupleFor(names, values)) /\ ColumnIndex # {} =>
                Serialize(TupleFor(names, values), padding) \in WrittenRows
    /\ \A data \in WrittenRows :
          /\ data # <<>>
          /\ \E tuple, padding : /\ Storable(tuple) /\ padding \in Paddings
                                 /\ data = Serialize(tuple, padding)
<1> DEFINE Names == {n \in NameLists : ColumnListAccepted(n)}
           Rows(n) == {w \in AcceptedValues(n) : CanSerialize(TupleFor(n, w))}
<1>1. Serialized = UNION {UNION {RowsOf(names, values) : values \in Rows(names)} : names \in Names}
    BY DEF Serialized
<1>2. ASSUME NEW names \in Names, NEW values \in Rows(names), NEW padding \in Paddings
      PROVE  Serialize(TupleFor(names, values), padding) \in Serialized
    <2> DEFINE data == Serialize(TupleFor(names, values), padding)
    <2>1. data \in RowsOf(names, values)
        BY DEF RowsOf
    <2> HIDE DEF data, Names, Rows
    <2>2. data \in UNION {RowsOf(names, w) : w \in Rows(names)}
        BY <2>1
    <2>3. QED
        BY <1>1, <2>2 DEF data
<1>3. ASSUME NEW data \in Serialized
      PROVE  \E tuple, padding : /\ Storable(tuple) /\ padding \in Paddings
                                 /\ data = Serialize(tuple, padding)
    <2>1. PICK names \in Names : data \in UNION {RowsOf(names, values) : values \in Rows(names)}
        <3> HIDE DEF Names, Rows
        <3>1. QED
            BY <1>1
    <2>2. PICK values \in Rows(names) : data \in RowsOf(names, values)
        <3> HIDE DEF Rows
        <3>1. QED
            BY <2>1
    <2>3. PICK padding \in Paddings : data = Serialize(TupleFor(names, values), padding)
        BY <2>2 DEF RowsOf
    <2>4. names \in NameLists /\ ColumnListAccepted(names) /\ values \in LiteralRows
          /\ RowAccepted(names, values) /\ CanSerialize(TupleFor(names, values))
        BY DEF AcceptedValues
    <2>5. Storable(TupleFor(names, values))
        BY <2>4, AcceptedRows
    <2>6. QED
        BY <2>3, <2>5
<1>4. ASSUME NEW names \in Names, NEW values \in Rows(names), NEW padding \in Paddings,
             ColumnIndex # {}
      PROVE  Serialize(TupleFor(names, values), padding) # <<>>
    <2>1. /\ names \in NameLists /\ ColumnListAccepted(names) /\ values \in LiteralRows
          /\ RowAccepted(names, values) /\ CanSerialize(TupleFor(names, values))
        BY DEF AcceptedValues
    <2>2. Storable(TupleFor(names, values))
        BY <2>1, AcceptedRows
    <2>3. QED
        BY <1>4, <2>2, RoundTrip DEF Storable
<1>5. QED
    BY <1>2, <1>3, <1>4 DEF WrittenRows

\* A written row can be read, and gives values of its columns' types.
LEMMA WrittenRowsRead ==
    ASSUME NEW data \in WrittenRows
    PROVE  /\ CanDeserialize(data)
           /\ Readable(Deserialize(data))
           /\ \A i \in ColumnIndex :
                 LET value == Deserialize(data)[i]
                 IN  /\ IF value = NULL THEN Schema[i].nullable
                        ELSE value.kind = KindOf(Schema[i].type)
                     /\ value.kind = "int" =>
                           value.data[1] \in -(INT32 \div 2)..(INT32 \div 2 - 1)
<1>1. PICK tuple, padding :
         Storable(tuple) /\ padding \in Paddings /\ data = Serialize(tuple, padding)
    BY WrittenRowsFacts
<1>2. Fits(tuple) /\ tuple \in [ColumnIndex -> Values]
    BY <1>1 DEF Storable, Fits
<1>3. CanDeserialize(data) /\ \A i \in ColumnIndex : Reads(Schema[i], tuple[i], Deserialize(data)[i])
    BY <1>1, <1>2, RoundTrip
<1>4. ASSUME NEW i \in ColumnIndex
      PROVE  LET value == Deserialize(data)[i]
             IN  /\ IF value = NULL THEN Schema[i].nullable
                    ELSE value.kind = KindOf(Schema[i].type)
                 /\ value.kind = "int" => value.data[1] \in -(INT32 \div 2)..(INT32 \div 2 - 1)
                 /\ value # THROWS /\ IsNull(value) = (value = NULL)
    <2> DEFINE value == Deserialize(data)[i]
               type == Schema[i].type
    <2>1. Reads(Schema[i], tuple[i], value)
        BY <1>3
    <2>2. /\ tuple[i] \in Values
          /\ IsNull(tuple[i]) => Schema[i].nullable
          /\ IsNull(tuple[i]) \/ tuple[i].kind = KindOf(type)
          /\ tuple[i].kind = "int" => tuple[i].data[1] \in -(INT32 \div 2)..(INT32 \div 2 - 1)
        BY <1>1, <1>2 DEF Storable, Fits
    <2>3. type \in {"INTEGER", "DOUBLE", "BOOLEAN", "VARCHAR", "DATE", "TIMESTAMP"}
        BY SchemaFacts
    <2> HIDE DEF value
    <2>4. CASE IsNull(tuple[i])
        <3>1. value = NULL
            BY <2>1, <2>4 DEF Reads
        <3>2. QED
            BY <2>2, <2>4, <3>1 DEF value, NULL, THROWS, Value, IsNull
    <2>5. CASE ~IsNull(tuple[i])
        <3>1. /\ value.kind = KindOf(type)
              /\ type \in {"INTEGER", "DOUBLE", "BOOLEAN", "VARCHAR"} => value = tuple[i]
            BY <2>1, <2>5 DEF Reads
        <3>2. KindOf(type) \in {"int", "double", "bool", "string"}
              /\ (KindOf(type) = "int" => type = "INTEGER")
            BY <2>3 DEF KindOf
        <3>3. value # NULL /\ value # THROWS /\ ~IsNull(value)
            BY <3>1, <3>2 DEF NULL, THROWS, Value, IsNull
        <3>4. value.kind = "int" => value = tuple[i]
            BY <3>1, <3>2
        <3>5. /\ IF value = NULL THEN Schema[i].nullable ELSE value.kind = KindOf(type)
              /\ value.kind = "int" => value.data[1] \in -(INT32 \div 2)..(INT32 \div 2 - 1)
              /\ value # THROWS /\ IsNull(value) = (value = NULL)
            <4>1. IsNull(value) = (value = NULL)
                BY <3>3 DEF IsNull
            <4>2. QED
                BY <2>2, <3>1, <3>3, <3>4, <4>1
        <3>6. QED
            BY <3>5 DEF value
    <2>6. QED
        BY <2>4, <2>5
<1>5. QED
    BY <1>3, <1>4 DEF Readable

\* Only what a DELETE emptied is gone when the scan ends.
LEMMA RowsLeftFacts ==
    ASSUME rows \in Seq({<<>>} \cup WrittenRows)
    PROVE  RowsLeft \in Seq(WrittenRows) /\ Len(RowsLeft) <= Len(rows)
<1> DEFINE n == Len(rows)
           W == WrittenRows
           R == Seq(W)
           seqs == [k \in DOMAIN rows |-> IF rows[k] = <<>> THEN <<>> ELSE <<rows[k]>>]
<1>1. n \in Nat /\ DOMAIN rows = 1..n /\ \A k \in 1..n : rows[k] = <<>> \/ rows[k] \in W
    <2>1. \A k \in 1..n : rows[k] \in {<<>>} \cup W
        BY ElementOfSeq
    <2>2. QED
        BY <2>1, LenProperties
<1> HIDE DEF n, W
<1>2. \A k \in 1..n : seqs[k] \in R /\ Len(seqs[k]) \in {0, 1}
    <2> SUFFICES ASSUME NEW k \in 1..n PROVE seqs[k] \in R /\ Len(seqs[k]) \in {0, 1}
        OBVIOUS
    <2>1. CASE rows[k] = <<>>
        <3>1. seqs[k] = <<>>
            BY <1>1, <2>1
        <3>2. <<>> \in Seq(W) /\ Len(<<>>) = 0
            BY EmptySeq
        <3>3. QED
            BY <3>1, <3>2
    <2>2. CASE rows[k] # <<>>
        <3>1. seqs[k] = <<rows[k]>> /\ rows[k] \in W
            BY <1>1, <2>2
        <3> DEFINE row == rows[k]
        <3> HIDE DEF row
        <3>2. row \in W
            BY <3>1 DEF row
        <3>3. <<row>> \in Seq(W) /\ Len(<<row>>) = 1
            BY <3>2
        <3>4. QED
            BY <3>1, <3>3 DEF row
    <2>3. QED
        BY <2>1, <2>2
<1>3. seqs \in Seq(R) /\ Len(seqs) = n
    <2> HIDE DEF R
    <2>1. seqs \in [1..n -> R]
        BY <1>1, <1>2
    <2> HIDE DEF seqs
    <2>2. n \in Nat
        BY <1>1
    <2>3. QED
        BY <2>1, <2>2, FunctionIsSeq
<1> HIDE DEF seqs
<1> DEFINE flat == FlattenSeq(seqs)
<1>4. /\ flat \in Seq(W)
      /\ \E start \in [0..Len(seqs) -> Nat] : PlacedAt(start, flat, seqs)
    <2>1. seqs \in Seq(Seq(W))
        BY <1>3
    <2>2. QED
        BY <2>1, FlattenPositions
<1> HIDE DEF flat, R
<1>5. PICK start \in [0..Len(seqs) -> Nat] : PlacedAt(start, flat, seqs)
    BY <1>4
<1>6. /\ start[0] = 0
      /\ flat \in Seq(W)
      /\ Len(flat) = start[Len(seqs)]
      /\ \A i \in 1..Len(seqs) : start[i] = start[i - 1] + Len(seqs[i])
    BY <1>4, <1>5 DEF PlacedAt
<1> DEFINE P == {m \in 0..n : start[m] <= m}
<1>7. ASSUME NEW m \in 0..n, m \in P, m < n PROVE m + 1 \in P
    <2>1. m + 1 \in 1..n /\ m + 1 \in 0..n /\ (m + 1) - 1 = m
        BY <1>1, <1>7
    <2>2. start[m + 1] = start[m] + Len(seqs[m + 1]) /\ Len(seqs[m + 1]) \in {0, 1}
        BY <1>2, <1>3, <1>6, <2>1
    <2>3. start[m] \in Nat /\ start[m] <= m
        BY <1>3, <1>7
    <2>4. start[m + 1] <= m + 1
        BY <1>1, <2>2, <2>3, SMTT(30)
    <2>5. QED
        BY <2>1, <2>4
<1>8. n \in P
    <2>1. 0 \in P /\ n \in 0..n
        BY <1>1, <1>6
    <2> HIDE DEF P
    <2>2. \A m \in 0..n : m \in P
        BY <1>1, <1>7, <2>1, Induction
    <2>3. QED
        BY <2>1, <2>2
<1>9. Len(flat) <= n
    BY <1>3, <1>6, <1>8
<1>10. RowsLeft = flat
    BY DEF RowsLeft, flat, seqs
<1>11. QED
    BY <1>6, <1>9, <1>10 DEF flat, n, W

-----------------------------------------------------------------------------
(* Every step keeps the invariant *)

\* The table is a sequence; while no DELETE runs every slot has a row.
LEMMA RowsFacts ==
    ASSUME RowsInv
    PROVE  /\ Len(rows) \in Nat /\ DOMAIN rows = 1..Len(rows)
           /\ \A k \in DOMAIN rows : rows[k] = <<>> \/ rows[k] \in WrittenRows
           /\ \A k \in Stored : k \in DOMAIN rows /\ rows[k] \in WrittenRows
           /\ stmt # "delete" => Stored = DOMAIN rows
<1> DEFINE T == {<<>>} \cup WrittenRows
<1>1. rows \in Seq(T)
    BY DEF RowsInv
<1> HIDE DEF T
<1>2. Len(rows) \in Nat /\ DOMAIN rows = 1..Len(rows)
    BY <1>1, LenProperties
<1>3. \A k \in 1..Len(rows) : rows[k] \in T
    BY <1>1, ElementOfSeq
<1>4. ASSUME stmt # "delete", NEW k \in DOMAIN rows PROVE rows[k] # <<>>
    <2>1. rows \in Seq(WrittenRows)
        BY <1>4 DEF RowsInv
    <2>2. rows[k] \in WrittenRows
        BY <1>2, <2>1, ElementOfSeq
    <2>3. QED
        BY <2>2, WrittenRowsFacts
<1>5. QED
    BY <1>2, <1>3, <1>4 DEF T, Stored

\* A new table has no rows, and no statement runs.
LEMMA InitInv == Init => IInv
<1> SUFFICES ASSUME Init PROVE IInv
    OBVIOUS
<1>1. /\ rows = <<>> /\ stmt = "idle" /\ node = NoNode /\ todo = {} /\ held = FALSE
      /\ pins = 0 /\ result = <<>>
    BY DEF Init
<1>2. MaxRows \in Nat /\ MaxPins \in Nat
    BY ExecutorAssumption
<1>3. RowsInv
    <2> DEFINE T == {<<>>} \cup WrittenRows
    <2>1. <<>> \in Seq(T) /\ <<>> \in Seq(WrittenRows) /\ Len(<<>>) = 0
        BY EmptySeq
    <2> HIDE DEF T
    <2>2. QED
        BY <1>1, <1>2, <2>1 DEF RowsInv, T
<1>4. StatementInv
    <2>1. node = [names |-> <<>>, values |-> <<>>, where |-> <<>>]
        BY <1>1 DEF NoNode
    <2>2. node = [names |-> node.names, values |-> node.values, where |-> node.where]
        BY <2>1
    <2>3. 0 \in 0..MaxPins
        BY <1>2
    <2>4. QED
        BY <1>1, <2>2, <2>3 DEF StatementInv
<1>5. InsertInv
    BY <1>1 DEF InsertInv
<1>6. ScanInv
    <2>1. <<>> \in Seq(ToSet(<<>>))
        BY EmptySeq
    <2>2. QED
        BY <1>1, <2>1 DEF ScanInv
<1>7. QED
    BY <1>3, <1>4, <1>5, <1>6 DEF IInv

\* A statement ends with a table of whole rows.
LEMMA EndInv ==
    ASSUME EndStatement, rows' \in Seq(WrittenRows), Len(rows') <= MaxRows, pins' \in 0..MaxPins
    PROVE  IInv'
<1>1. stmt' = "idle" /\ node' = NoNode /\ todo' = {} /\ held' = FALSE /\ result' = <<>>
    BY DEF EndStatement
<1>2. RowsInv'
    <2>1. WrittenRows \subseteq {<<>>} \cup WrittenRows
        OBVIOUS
    <2> DEFINE T == {<<>>} \cup WrittenRows
    <2>2. WrittenRows \subseteq T
        BY <2>1
    <2> HIDE DEF T
    <2>3. rows' \in Seq(T)
        BY <2>2, SeqMonotonic
    <2>4. QED
        BY <2>3 DEF RowsInv, T
<1>3. StatementInv'
    BY <1>1 DEF StatementInv, NoNode
<1>4. InsertInv'
    BY <1>1 DEF InsertInv
<1>5. ScanInv'
    <2>1. <<>> \in Seq(ToSet(<<>>))
        BY EmptySeq
    <2>2. QED
        BY <1>1, <2>1 DEF ScanInv
<1>6. QED
    BY <1>2, <1>3, <1>4, <1>5 DEF IInv

\* The table of a statement that is no DELETE is whole, of any scan when what
\* was emptied is forgotten.
LEMMA EndsInv ==
    ASSUME IInv, EndStatement, pins' \in 0..MaxPins,
           \/ stmt # "delete" /\ rows' = rows
           \/ rows' = RowsLeft
    PROVE  IInv'
<1>1. CASE stmt # "delete" /\ rows' = rows
    <2>1. rows' \in Seq(WrittenRows) /\ Len(rows') <= MaxRows
        BY <1>1 DEF IInv, RowsInv
    <2>2. QED
        BY <2>1, EndInv
<1>2. CASE rows' = RowsLeft
    <2>1. rows \in Seq({<<>>} \cup WrittenRows) /\ Len(rows) <= MaxRows /\ Len(rows) \in Nat
        BY RowsFacts DEF IInv, RowsInv
    <2>2. RowsLeft \in Seq(WrittenRows) /\ Len(RowsLeft) <= Len(rows)
        BY <2>1, RowsLeftFacts
    <2>3. Len(RowsLeft) \in Nat
        BY <2>2, LenProperties
    <2>4. MaxRows \in Nat
        BY ExecutorAssumption
    <2>5. rows' \in Seq(WrittenRows) /\ Len(rows') <= MaxRows
        BY <1>2, <2>1, <2>2, <2>3, <2>4
    <2>6. QED
        BY <2>5, EndInv
<1>3. QED
    BY <1>1, <1>2

\* INSERT begins: the table is as it was, the column list was accepted.
LEMMA StartInsertInv ==
    ASSUME IInv, NEW names \in NameLists, StartInsert(names)
    PROVE  IInv'
<1>1. /\ stmt = "idle" /\ ColumnListAccepted(names) /\ stmt' = "build"
      /\ node' = [NoNode EXCEPT !.names = names]
      /\ UNCHANGED <<rows, todo, held, pins, result>>
    BY DEF StartInsert
<1>2. node' = [names |-> names, values |-> <<>>, where |-> <<>>]
    BY <1>1 DEF NoNode
<1>3. RowsInv'
    BY <1>1 DEF IInv, RowsInv
<1>4. StatementInv'
    BY <1>1, <1>2 DEF IInv, StatementInv
<1>5. InsertInv'
    <2>1. <<>> \in Seq(AcceptedValues(names)) /\ Len(<<>>) = 0
        BY EmptySeq
    <2>2. Len(rows) + 0 <= MaxRows
        BY RowsFacts DEF IInv, RowsInv
    <2>3. node'.names = names /\ node'.values = <<>>
        BY <1>2
    <2>4. Len(rows') + Len(node'.values) <= MaxRows
        BY <1>1, <2>1, <2>2, <2>3
    <2>5. QED
        BY <1>1, <2>1, <2>3, <2>4 DEF InsertInv
<1>6. ScanInv'
    BY <1>1 DEF IInv, ScanInv
<1>7. QED
    BY <1>3, <1>4, <1>5, <1>6 DEF IInv

\* A row of VALUES that passes the checks: together with the rows of the table
\* those of the statement stay within the bound.
LEMMA BuildTupleInv ==
    ASSUME IInv, NEW values \in LiteralRows, BuildTuple(values)
    PROVE  IInv'
<1>1. /\ stmt = "build" /\ Cardinality(Stored) + Len(node.values) < MaxRows
      /\ RowAccepted(node.names, values)
      /\ node' = [node EXCEPT !.values = Append(@, values)]
      /\ UNCHANGED <<rows, stmt, todo, held, pins, result>>
    BY DEF BuildTuple
<1>2. node' = [names |-> node.names, values |-> Append(node.values, values), where |-> node.where]
    <2>1. node = [names |-> node.names, values |-> node.values, where |-> node.where]
        BY DEF IInv, StatementInv
    <2>2. QED
        BY <1>1, <2>1
<1>3. RowsInv'
    BY <1>1 DEF IInv, RowsInv
<1>4. StatementInv'
    BY <1>1, <1>2 DEF IInv, StatementInv
<1>5. InsertInv'
    <2>1. node.names \in NameLists /\ ColumnListAccepted(node.names)
          /\ node.values \in Seq(AcceptedValues(node.names))
        BY <1>1 DEF IInv, InsertInv
    <2> DEFINE A == AcceptedValues(node.names)
               s == node.values
    <2>2. values \in A
        BY <1>1 DEF AcceptedValues
    <2>3. s \in Seq(A)
        BY <2>1
    <2> HIDE DEF A, s
    <2>4. Append(s, values) \in Seq(A) /\ Len(Append(s, values)) = Len(s) + 1 /\ Len(s) \in Nat
        BY <2>2, <2>3, AppendProperties, LenProperties
    <2>5. Len(rows) + Len(Append(s, values)) <= MaxRows
        <3>1. Len(rows) \in Nat /\ Stored = 1..Len(rows)
            BY <1>1, RowsFacts DEF IInv
        <3>2. Cardinality(Stored) = Len(rows)
            <4>1. 1 \in Int /\ Len(rows) \in Int
                BY <3>1
            <4>2. Cardinality(1..Len(rows)) = IF 1 > Len(rows) THEN 0 ELSE Len(rows) - 1 + 1
                BY <4>1, FS_Interval
            <4>3. QED
                BY <3>1, <4>2
        <3>3. Len(rows) + Len(s) < MaxRows
            BY <1>1, <3>2 DEF s
        <3>4. QED
            BY <2>4, <3>1, <3>3, ExecutorAssumption
    <2>6. QED
        BY <1>1, <1>2, <2>1, <2>4, <2>5 DEF InsertInv, A, s
<1>6. ScanInv'
    BY <1>1 DEF IInv, ScanInv
<1>7. QED
    BY <1>3, <1>4, <1>5, <1>6 DEF IInv

\* The rows of the statement are about to be stored, from the first one on.
LEMMA InsertRowsInv ==
    ASSUME IInv, InsertRows
    PROVE  IInv'
<1>1. /\ stmt = "build" /\ stmt' = "insert" /\ todo' = DOMAIN node.values
      /\ UNCHANGED <<rows, node, held, pins, result>>
    BY DEF InsertRows
<1>2. RowsInv'
    BY <1>1 DEF IInv, RowsInv
<1>3. StatementInv'
    BY <1>1 DEF IInv, StatementInv
<1>4. InsertInv'
    <2>1. /\ node.names \in NameLists /\ ColumnListAccepted(node.names)
          /\ node.values \in Seq(AcceptedValues(node.names))
          /\ Len(rows) + Len(node.values) <= MaxRows
        BY <1>1 DEF IInv, InsertInv
    <2> DEFINE n == Len(node.values)
    <2>2. n \in Nat /\ DOMAIN node.values = 1..n
        BY <2>1, LenProperties
    <2>3. Len(rows) \in Nat
        BY RowsFacts DEF IInv
    <2>4. 1 \in 1..(n + 1) /\ todo' = 1..n /\ Len(rows) + (n + 1 - 1) <= MaxRows
        <3> HIDE DEF n
        <3>1. n + 1 - 1 = n /\ 1 \in 1..(n + 1)
            BY <2>2
        <3>2. QED
            BY <1>1, <2>1, <2>2, <3>1 DEF n
    <2>5. QED
        BY <1>1, <2>1, <2>4 DEF InsertInv
<1>5. ScanInv'
    BY <1>1 DEF IInv, ScanInv
<1>6. QED
    BY <1>2, <1>3, <1>4, <1>5 DEF IInv

\* The row that insert_rows is at is the next of those that were accepted.
LEMMA NextTupleFacts ==
    ASSUME IInv, stmt = "insert", todo # {}
    PROVE  /\ Min(todo) \in 1..Len(node.values)
           /\ Len(node.values) \in Nat
           /\ node.values[Min(todo)] \in AcceptedValues(node.names)
           /\ todo = Min(todo)..Len(node.values)
           /\ Len(rows) + (Len(node.values) + 1 - Min(todo)) <= MaxRows
           /\ node.names \in NameLists /\ ColumnListAccepted(node.names)
<1> DEFINE n == Len(node.values)
<1>1. /\ node.names \in NameLists /\ ColumnListAccepted(node.names)
      /\ node.values \in Seq(AcceptedValues(node.names))
    BY DEF IInv, InsertInv
<1>2. n \in Nat
    BY <1>1, LenProperties
<1>3. PICK m \in 1..(n + 1) : todo = m..n /\ Len(rows) + (n + 1 - m) <= MaxRows
    BY DEF IInv, InsertInv
<1> HIDE DEF n
<1>4. m \in 1..n /\ m \in todo /\ todo \in SUBSET Nat /\ \A k \in todo : m <= k
    BY <1>2, <1>3
<1>5. Min(todo) \in todo /\ \A k \in todo : Min(todo) <= k
    BY <1>4, MinIsLeast
<1>6. Min(todo) = m
    BY <1>2, <1>3, <1>4, <1>5
<1>7. node.values[m] \in AcceptedValues(node.names)
    BY <1>1, <1>4, ElementOfSeq DEF n
<1>8. QED
    BY <1>1, <1>2, <1>3, <1>4, <1>6, <1>7 DEF n

\* A row is stored: the bytes were written from values that were checked, and
\* the rows still to come are those behind it.
LEMMA InsertRowInv ==
    ASSUME IInv, NEW padding \in Paddings, InsertRow(padding)
    PROVE  IInv'
<1> DEFINE data == Serialize(NextTuple, padding)
           n == Len(node.values)
           m == Min(todo)
<1>1. /\ stmt = "insert" /\ todo # {} /\ CanSerialize(NextTuple)
      /\ rows' = (IF ColumnIndex = {} THEN rows ELSE Append(rows, data))
      /\ todo' = todo \ {m} /\ held' = (held \/ ColumnIndex # {})
      /\ UNCHANGED <<stmt, node, pins, result>>
    BY DEF InsertRow
<1>2. /\ m \in 1..n /\ n \in Nat /\ node.values[m] \in AcceptedValues(node.names)
      /\ todo = m..n /\ Len(rows) + (n + 1 - m) <= MaxRows
      /\ node.names \in NameLists /\ ColumnListAccepted(node.names)
    BY <1>1, NextTupleFacts
<1>3. ColumnIndex # {} => data \in WrittenRows
    BY <1>1, <1>2, WrittenRowsFacts DEF NextTuple
<1>4. rows \in Seq(WrittenRows)
    BY <1>1 DEF IInv, RowsInv
<1> HIDE DEF data, m
<1>5. /\ rows' \in Seq(WrittenRows)
      /\ Len(rows) \in Nat /\ Len(rows') \in Nat /\ Len(rows') <= Len(rows) + 1
    <2>1. CASE ColumnIndex = {}
        BY <1>1, <1>4, <2>1, LenProperties
    <2>2. CASE ColumnIndex # {}
        BY <1>1, <1>3, <1>4, <2>2, AppendProperties, LenProperties
    <2>3. QED
        BY <2>1, <2>2
<1>6. m + 1 \in 1..(n + 1) /\ todo' = (m + 1)..n /\ Len(rows') + (n + 1 - (m + 1)) <= MaxRows
    <2>1. m + 1 \in 1..(n + 1)
        BY <1>2
    <2>2. todo' = (m + 1)..n
        BY <1>1, <1>2
    <2>3. PICK k, l \in Nat : k = Len(rows) /\ l = Len(rows') /\ l <= k + 1
        BY <1>5
    <2>4. l + (n + 1 - (m + 1)) <= MaxRows
        <3>1. n \in Nat /\ m \in Nat /\ MaxRows \in Nat /\ k + (n + 1 - m) <= MaxRows
            BY <1>2, <2>3, ExecutorAssumption
        <3> HIDE DEF n
        <3>2. QED
            BY <2>3, <3>1
    <2>5. QED
        BY <2>1, <2>2, <2>3, <2>4
<1>7. Len(rows') <= MaxRows
    <2>1. PICK l \in Nat : l = Len(rows') /\ l + (n + 1 - (m + 1)) <= MaxRows
        BY <1>5, <1>6
    <2>2. n \in Nat /\ m \in 1..n /\ MaxRows \in Nat
        BY <1>2, ExecutorAssumption
    <2> HIDE DEF n
    <2>3. QED
        BY <2>1, <2>2
<1>8. RowsInv'
    <2> DEFINE T == {<<>>} \cup WrittenRows
    <2>1. WrittenRows \subseteq T
        OBVIOUS
    <2> HIDE DEF T
    <2>2. rows' \in Seq(T)
        BY <1>5, <2>1, SeqMonotonic
    <2>3. QED
        BY <1>5, <1>7, <2>2 DEF RowsInv, T
<1>9. StatementInv'
    BY <1>1 DEF IInv, StatementInv
<1>10. InsertInv'
    <2>1. node.values \in Seq(AcceptedValues(node.names))
        BY <1>1 DEF IInv, InsertInv
    <2>2. n' = n
        BY <1>1
    <2>3. QED
        BY <1>1, <1>2, <1>6, <2>1, <2>2 DEF InsertInv
<1>11. ScanInv'
    BY <1>1 DEF IInv, ScanInv
<1>12. QED
    BY <1>8, <1>9, <1>10, <1>11 DEF IInv

\* A row matches when the clause is true of it.
LEMMA MatchesFacts ==
    ASSUME IInv, stmt \in {"select", "delete"}, NEW k \in todo
    PROVE  /\ k \in Stored
           /\ Matches(k) = "true" => k \in Satisfying
           /\ Matches(k) = "false" => k \notin Satisfying
<1> DEFINE tuple == Deserialize(rows[k])
<1>1. k \in Stored /\ node.where \in WhereClauses
    BY DEF IInv, ScanInv
<1>2. rows[k] \in WrittenRows
    BY <1>1, RowsFacts DEF IInv
<1>3. Readable(tuple)
    BY <1>2, WrittenRowsRead
<1>4. TableRow(k) = tuple
    BY DEF TableRow
<1> HIDE DEF tuple
<1>5. Matches(k) = IF node.where = <<>> THEN "true" ELSE EvaluateWhere(node.where[1], tuple)
    BY DEF Matches, TupleMatchesWhere, tuple
<1>6. k \in Satisfying <=> node.where = <<>> \/ Truth(node.where[1], tuple) = "true"
    BY <1>1, <1>4 DEF Satisfying
<1>7. CASE node.where = <<>>
    BY <1>1, <1>5, <1>6, <1>7
<1>8. CASE node.where # <<>>
    <2>1. node.where \in {<<e>> : e \in Expressions}
        BY <1>1, <1>8, ExecutorAssumption
    <2>2. PICK e \in Expressions : node.where = <<e>>
        BY <2>1
    <2>3. node.where[1] = e
        BY <2>2
    <2>4. EvaluateWhere(e, tuple) # "throws" =>
             (EvaluateWhere(e, tuple) = "true" <=> Truth(e, tuple) = "true")
        BY <1>3, WhereAnswersSql
    <2>5. QED
        BY <1>1, <1>5, <1>6, <1>8, <2>3, <2>4
<1>9. QED
    BY <1>7, <1>8

\* A scan begins with all rows to come, and has returned none.
LEMMA StartScanInv ==
    ASSUME IInv, NEW kind \in {"select", "delete"}, NEW names, NEW where \in WhereClauses,
           StartScan(kind, names, where)
    PROVE  IInv'
<1>1. /\ stmt = "idle" /\ stmt' = kind
      /\ node' = [NoNode EXCEPT !.names = names, !.where = where]
      /\ todo' = Stored
      /\ UNCHANGED <<rows, held, pins, result>>
    BY DEF StartScan
<1>2. node' = [names |-> names, values |-> <<>>, where |-> where]
    BY <1>1 DEF NoNode
<1>3. RowsInv'
    BY <1>1 DEF IInv, RowsInv
<1>4. StatementInv'
    <2>1. node' = [names |-> node'.names, values |-> node'.values, where |-> node'.where]
        BY <1>2
    <2>2. QED
        BY <1>1, <2>1 DEF IInv, StatementInv
<1>5. InsertInv'
    BY <1>1 DEF InsertInv
<1>6. ScanInv'
    <2>1. Stored' = Stored /\ todo' = Stored
        BY <1>1 DEF Stored
    <2>2. result' = <<>> /\ Len(<<>>) = 0 /\ <<>> \in Seq(ToSet(<<>>))
        BY <1>1, EmptySeq DEF IInv, ScanInv
    <2>3. Satisfying' \ todo' = {}
        <3>1. Satisfying' \subseteq Stored'
            BY DEF Satisfying
        <3>2. QED
            BY <2>1, <3>1
    <2> DEFINE f == [j \in 1..0 |-> 0]
    <2>4. f \in [1..0 -> Stored']
        OBVIOUS
    <2>5. Len(result') = 0 /\ 1..Len(result') = {}
        BY <2>2
    <2> HIDE DEF f
    <2>6. f \in [1..Len(result') -> Stored']
        BY <2>4, <2>5
    <2>7. /\ \A i, j \in 1..Len(result') : f[i] = f[j] => i = j
          /\ {f[j] : j \in 1..Len(result')} = Satisfying' \ todo'
          /\ \A j \in 1..Len(result') : result'[j] = ProjectTuple(TableRow(f[j]))'
        BY <2>3, <2>5
    <2>8. \E g \in [1..Len(result') -> Stored'] :
             /\ \A i, j \in 1..Len(result') : g[i] = g[j] => i = j
             /\ {g[j] : j \in 1..Len(result')} = Satisfying' \ todo'
             /\ \A j \in 1..Len(result') : result'[j] = ProjectTuple(TableRow(g[j]))'
        BY <2>6, <2>7
    <2>9. node'.where = where
        BY <1>2
    <2>10. (\E g \in [1..Len(result) -> Stored] : Selected(g))'
        BY <2>8 DEF Selected
    <2>11. QED
        BY <1>1, <2>1, <2>2, <2>9, <2>10 DEF ScanInv
<1>7. QED
    BY <1>3, <1>4, <1>5, <1>6 DEF IInv

\* A row that does not match is of no more interest.
LEMMA SkipRowInv ==
    ASSUME IInv, NEW k, SkipRow(k)
    PROVE  IInv'
<1>1. /\ stmt \in {"select", "delete"} /\ k \in todo /\ Matches(k) = "false"
      /\ todo' = todo \ {k}
      /\ UNCHANGED <<rows, stmt, node, held, pins, result>>
    BY DEF SkipRow, ScanRow
<1>2. k \in Stored /\ k \notin Satisfying
    BY <1>1, MatchesFacts
<1>3. Stored' = Stored /\ Satisfying' = Satisfying
      /\ \A j : ProjectTuple(TableRow(j))' = ProjectTuple(TableRow(j))
    BY <1>1 DEF Stored, Satisfying, ProjectTuple, TableRow
<1>4. RowsInv' /\ StatementInv' /\ InsertInv'
    BY <1>1 DEF IInv, RowsInv, StatementInv, InsertInv
<1>5. ScanInv'
    <2>1. stmt' = "select" => (\E f \in [1..Len(result) -> Stored] : Selected(f))'
        <3> SUFFICES ASSUME stmt' = "select"
                     PROVE  (\E f \in [1..Len(result) -> Stored] : Selected(f))'
            OBVIOUS
        <3>1. PICK f \in [1..Len(result) -> Stored] : Selected(f)
            BY <1>1 DEF IInv, ScanInv
        <3>2. Satisfying \ todo' = Satisfying \ todo
            BY <1>1, <1>2
        <3>3. Selected(f)'
            BY <1>1, <1>3, <3>1, <3>2 DEF Selected
        <3>4. f \in [1..Len(result') -> Stored']
            BY <1>1, <1>3, <3>1
        <3>5. QED
            BY <3>3, <3>4
    <2>2. stmt' \in {"select", "delete"} => node'.where \in WhereClauses /\ todo' \subseteq Stored'
        BY <1>1, <1>3 DEF IInv, ScanInv
    <2>3. (stmt' # "select" => result' = <<>>) /\ result' \in Seq(ToSet(result'))
        BY <1>1 DEF IInv, ScanInv
    <2>4. QED
        BY <2>1, <2>2, <2>3 DEF ScanInv
<1>6. QED
    BY <1>4, <1>5 DEF IInv

\* A row that matches is returned, once.
LEMMA SelectRowInv ==
    ASSUME IInv, NEW k, SelectRow(k)
    PROVE  IInv'
<1> DEFINE row == ProjectTuple(TableRow(k))
           n == Len(result)
<1>1. /\ stmt = "select" /\ k \in todo /\ Matches(k) = "true"
      /\ todo' = todo \ {k} /\ result' = Append(result, row)
      /\ UNCHANGED <<rows, stmt, node, held, pins>>
    BY DEF SelectRow, ScanRow, TableRow
<1>2. k \in Stored /\ k \in Satisfying
    BY <1>1, MatchesFacts
<1>3. Stored' = Stored /\ Satisfying' = Satisfying
      /\ \A j : ProjectTuple(TableRow(j))' = ProjectTuple(TableRow(j))
    BY <1>1 DEF Stored, Satisfying, ProjectTuple, TableRow
<1>4. RowsInv' /\ StatementInv' /\ InsertInv'
    BY <1>1 DEF IInv, RowsInv, StatementInv, InsertInv
<1> HIDE DEF row
<1>5. /\ result' \in Seq(ToSet(result')) /\ n \in Nat /\ Len(result') = n + 1
      /\ \A j \in 1..n : result'[j] = result[j]
      /\ result'[n + 1] = row
    <2> DEFINE T == ToSet(result)
               S == T \cup {row}
    <2>1. result \in Seq(T) /\ T \subseteq S /\ row \in S
        BY DEF IInv, ScanInv
    <2> HIDE DEF T, S
    <2>2. result \in Seq(S)
        BY <2>1, SeqMonotonic
    <2>3. /\ Append(result, row) \in Seq(S) /\ Len(Append(result, row)) = Len(result) + 1
          /\ \A j \in 1..Len(result) : Append(result, row)[j] = result[j]
          /\ Append(result, row)[Len(result) + 1] = row
          /\ ToSet(Append(result, row)) = ToSet(result) \cup {row}
          /\ Len(result) \in Nat
        BY <2>1, <2>2, AppendFacts, LenProperties
    <2>4. ToSet(result') = S
        BY <1>1, <2>3 DEF S, T
    <2>5. QED
        BY <1>1, <2>3, <2>4
<1>6. PICK f \in [1..n -> Stored] : Selected(f)
    BY <1>1 DEF IInv, ScanInv
<1> HIDE DEF n
<1>7. /\ \A i, j \in 1..n : f[i] = f[j] => i = j
      /\ {f[j] : j \in 1..n} = Satisfying \ todo
      /\ \A j \in 1..n : result[j] = ProjectTuple(TableRow(f[j]))
    BY <1>6 DEF Selected, n
<1> DEFINE g == [j \in 1..(n + 1) |-> IF j = n + 1 THEN k ELSE f[j]]
<1>8. /\ \A j \in 1..n : j \in 1..(n + 1) /\ j # n + 1
      /\ n + 1 \in 1..(n + 1)
      /\ \A j \in 1..(n + 1) : j = n + 1 \/ j \in 1..n
    BY <1>5
<1>9. /\ g \in [1..(n + 1) -> Stored]
      /\ g[n + 1] = k
      /\ \A j \in 1..n : g[j] = f[j]
    BY <1>2, <1>6, <1>8
<1> HIDE DEF g
<1>10. \A j \in 1..n : f[j] # k
    BY <1>1, <1>7
<1>11. \A i, j \in 1..(n + 1) : g[i] = g[j] => i = j
    BY <1>7, <1>8, <1>9, <1>10
<1>12. {g[j] : j \in 1..(n + 1)} = Satisfying \ todo'
    <2>1. {g[j] : j \in 1..(n + 1)} = {f[j] : j \in 1..n} \cup {k}
        <3>1. ASSUME NEW x \in {g[j] : j \in 1..(n + 1)} PROVE x \in {f[j] : j \in 1..n} \cup {k}
            BY <1>8, <1>9
        <3>2. ASSUME NEW x \in {f[j] : j \in 1..n} \cup {k} PROVE x \in {g[j] : j \in 1..(n + 1)}
            BY <1>8, <1>9
        <3>3. QED
            BY <3>1, <3>2
    <2>2. Satisfying \ todo' = (Satisfying \ todo) \cup {k}
        BY <1>1, <1>2
    <2>3. QED
        BY <1>7, <2>1, <2>2
<1>13. \A j \in 1..(n + 1) : result'[j] = ProjectTuple(TableRow(g[j]))
    <2>1. ASSUME NEW j \in 1..n PROVE result'[j] = ProjectTuple(TableRow(g[j]))
        BY <1>5, <1>7, <1>9
    <2>2. result'[n + 1] = ProjectTuple(TableRow(g[n + 1]))
        BY <1>5, <1>9 DEF row
    <2>3. QED
        BY <1>8, <2>1, <2>2
<1>14. PICK h \in [1..(n + 1) -> Stored] :
          /\ \A i, j \in 1..(n + 1) : h[i] = h[j] => i = j
          /\ {h[j] : j \in 1..(n + 1)} = Satisfying \ todo'
          /\ \A j \in 1..(n + 1) : result'[j] = ProjectTuple(TableRow(h[j]))
    BY <1>9, <1>11, <1>12, <1>13
<1>15. ScanInv'
    <2>1. (\E i \in [1..Len(result) -> Stored] : Selected(i))'
        <3>1. h \in [1..Len(result') -> Stored']
            BY <1>3, <1>5, <1>14
        <3>2. Selected(h)'
            BY <1>3, <1>5, <1>14 DEF Selected
        <3>3. QED
            BY <3>1, <3>2
    <2>2. node'.where \in WhereClauses /\ todo' \subseteq Stored'
        BY <1>1, <1>3 DEF IInv, ScanInv
    <2>3. QED
        BY <1>1, <1>5, <2>1, <2>2 DEF ScanInv
<1>16. QED
    BY <1>4, <1>15 DEF IInv

\* A row that is deleted leaves the other rows as they are.
LEMMA DeleteRowInv ==
    ASSUME IInv, NEW k, DeleteRow(k)
    PROVE  IInv'
<1> DEFINE n == Len(rows)
           T == {<<>>} \cup WrittenRows
<1>1. /\ stmt = "delete" /\ k \in todo
      /\ todo' = todo \ {k}
      /\ rows' \in {rows, [rows EXCEPT ![k] = <<>>]}
      /\ UNCHANGED <<stmt, node, held, pins, result>>
    BY DEF DeleteRow, ScanRow
<1>2. k \in 1..n /\ n \in Nat /\ DOMAIN rows = 1..n /\ rows \in Seq(T) /\ todo \subseteq Stored
    BY <1>1, RowsFacts, MatchesFacts DEF IInv, ScanInv, RowsInv
<1> HIDE DEF n
<1>3. /\ rows' \in Seq(T) /\ Len(rows') = n
      /\ \A j \in 1..n : j # k => rows'[j] = rows[j]
    <2>1. CASE rows' = rows
        BY <1>2, <2>1 DEF n
    <2>2. CASE rows' = [rows EXCEPT ![k] = <<>>]
        <3>1. <<>> \in T
            OBVIOUS
        <3> HIDE DEF T
        <3>2. k \in 1..Len(rows)
            BY <1>2 DEF n
        <3>3. /\ [rows EXCEPT ![k] = <<>>] \in Seq(T)
              /\ Len([rows EXCEPT ![k] = <<>>]) = Len(rows)
              /\ \A j \in 1..Len(rows) :
                    [rows EXCEPT ![k] = <<>>][j] = IF j = k THEN <<>> ELSE rows[j]
            BY <1>2, <3>1, <3>2, ExceptSeq
        <3>4. QED
            BY <2>2, <3>3 DEF n
    <2>3. QED
        BY <1>1, <2>1, <2>2
<1>4. RowsInv'
    BY <1>1, <1>3 DEF IInv, RowsInv, n
<1>5. StatementInv' /\ InsertInv'
    BY <1>1 DEF IInv, StatementInv, InsertInv
<1>6. todo' \subseteq Stored'
    <2>1. DOMAIN rows' = 1..n
        <3> HIDE DEF T
        <3>1. DOMAIN rows' = 1..Len(rows')
            BY <1>3, LenProperties
        <3>2. QED
            BY <1>3, <3>1
    <2>2. ASSUME NEW j \in todo' PROVE j \in Stored'
        <3>1. j # k /\ j \in 1..n /\ rows[j] # <<>>
            BY <1>1, <1>2 DEF Stored
        <3>2. rows'[j] # <<>>
            BY <1>3, <3>1
        <3>3. QED
            BY <2>1, <3>1, <3>2 DEF Stored
    <2>3. QED
        BY <2>2
<1>7. ScanInv'
    BY <1>1, <1>6 DEF IInv, ScanInv
<1>8. QED
    BY <1>4, <1>5, <1>7 DEF IInv

\* Every step keeps the invariant.
LEMMA NextInv ==
    ASSUME IInv, [Next]_vars
    PROVE  IInv'
<1>1. pins \in 0..MaxPins /\ MaxPins \in Nat
    BY ExecutorAssumption DEF IInv, StatementInv
<1>2. CASE \E names \in NameLists : StartInsert(names)
    BY <1>2, StartInsertInv
<1>3. ASSUME NEW values \in LiteralRows, BuildTuple(values) PROVE IInv'
    BY <1>3, BuildTupleInv
<1>4. ASSUME NEW values \in LiteralRows, RefuseTuple(values) PROVE IInv'
    <2>1. EndStatement /\ stmt # "delete" /\ rows' = rows /\ pins' \in 0..MaxPins
        BY <1>1, <1>4 DEF RefuseTuple
    <2>2. QED
        BY <2>1, EndsInv
<1>5. CASE InsertRows
    BY <1>5, InsertRowsInv
<1>6. CASE \E padding \in Paddings : InsertRow(padding)
    BY <1>6, InsertRowInv
<1>7. CASE SerializeThrows
    <2> DEFINE p == IF held THEN pins + 1 ELSE pins
    <2>1. EndStatement /\ stmt # "delete" /\ rows' = rows /\ pins' = Min({MaxPins, p})
        BY <1>7 DEF SerializeThrows
    <2>2. p \in Nat
        BY <1>1
    <2> HIDE DEF p
    <2>3. Min({MaxPins, p}) \in {MaxPins, p} /\ \A x \in {MaxPins, p} : Min({MaxPins, p}) <= x
        <3>1. {MaxPins, p} \in SUBSET Nat /\ {MaxPins, p} # {}
            BY <1>1, <2>2
        <3>2. QED
            BY <3>1, MinIsLeast
    <2>4. pins' \in 0..MaxPins
        BY <1>1, <2>1, <2>2, <2>3
    <2>5. QED
        BY <2>1, <2>4, EndsInv
<1>8. CASE NoPageForRow \/ EndInsert
    <2>1. EndStatement /\ stmt # "delete" /\ rows' = rows /\ pins' \in 0..MaxPins
        BY <1>1, <1>8 DEF NoPageForRow, EndInsert
    <2>2. QED
        BY <2>1, EndsInv
<1>9. ASSUME NEW names \in Selections, NEW where \in WhereClauses,
             StartScan("select", names, where) \/ StartScan("delete", names, where)
      PROVE  IInv'
    BY <1>9, StartScanInv
<1>10. ASSUME NEW k \in DOMAIN rows, SkipRow(k) \/ SelectRow(k) \/ DeleteRow(k) PROVE IInv'
    BY <1>10, SkipRowInv, SelectRowInv, DeleteRowInv
<1>11. ASSUME NEW k \in DOMAIN rows, ScanThrows(k) PROVE IInv'
    <2>1. EndStatement /\ rows' = RowsLeft /\ pins' \in 0..MaxPins
        BY <1>1, <1>11 DEF ScanThrows
    <2>2. QED
        BY <2>1, EndsInv
<1>12. CASE EndScan
    <2>1. EndStatement /\ rows' = RowsLeft /\ pins' \in 0..MaxPins
        BY <1>1, <1>12 DEF EndScan
    <2>2. QED
        BY <2>1, EndsInv
<1>13. CASE UNCHANGED vars
    <2>1. /\ rows' = rows /\ stmt' = stmt /\ node' = node /\ todo' = todo /\ held' = held
          /\ pins' = pins /\ result' = result
        BY <1>13 DEF vars
    <2>2. RowsInv' /\ StatementInv' /\ InsertInv'
        BY <2>1 DEF IInv, RowsInv, StatementInv, InsertInv
    <2>3. Stored' = Stored /\ Satisfying' = Satisfying
          /\ \A j : ProjectTuple(TableRow(j))' = ProjectTuple(TableRow(j))
        BY <2>1 DEF Stored, Satisfying, ProjectTuple, TableRow
    <2>4. \A f : Selected(f) => Selected(f)'
        BY <2>1, <2>3 DEF Selected
    <2>5. ScanInv'
        BY <2>1, <2>3, <2>4 DEF IInv, ScanInv
    <2>6. QED
        BY <2>2, <2>5 DEF IInv
<1>14. QED
    BY <1>2, <1>3, <1>4, <1>5, <1>6, <1>7, <1>8, <1>9, <1>10, <1>11, <1>12, <1>13 DEF Next

-----------------------------------------------------------------------------
(* The theorems *)

\* What deserialize reads back is what the statement meant.
LEMMA ReadBackFacts ==
    ASSUME NEW i \in ColumnIndex, NEW meant \in Values, NEW written, NEW read,
           written = LiteralToValue(meant),
           IsNull(written) \/ written.kind = KindOf(Schema[i].type),
           Reads(Schema[i], written, read)
    PROVE  ReadBack(Schema[i], meant, read)
<1> DEFINE type == Schema[i].type
<1>1. type \in {"INTEGER", "DOUBLE", "BOOLEAN", "VARCHAR", "DATE", "TIMESTAMP"}
    BY SchemaFacts
<1>2. written \in Values /\ written.kind = meant.kind /\ (meant.kind # "int" => written = meant)
    BY LiteralFacts
<1>3. meant.kind \in {"null", "int", "double", "bool", "string"} /\ (meant = NULL <=> IsNull(meant))
    BY ValueFacts
<1>4. CASE IsNull(meant)
    <2>1. written = meant /\ meant = NULL /\ meant.kind = "null"
        BY <1>2, <1>3, <1>4 DEF IsNull
    <2>2. read = meant
        BY <1>4, <2>1 DEF Reads
    <2>3. QED
        BY <2>1, <2>2 DEF ReadBack
<1>5. CASE ~IsNull(meant)
    <2>1. ~IsNull(written) /\ written.kind = KindOf(type) /\ meant.kind = KindOf(type)
        BY <1>2, <1>5 DEF IsNull
    <2>2. /\ read.kind = KindOf(type)
          /\ type \in {"INTEGER", "DOUBLE", "BOOLEAN", "VARCHAR"} => read = written
          /\ type \in {"DATE", "TIMESTAMP"} => IsPrefix(Written(Schema[i], written), read.data)
        BY <2>1 DEF Reads
    <2>3. CASE type = "INTEGER"
        <3>1. meant.kind = "int" /\ read = written /\ read.kind = "int"
            BY <2>1, <2>2, <2>3 DEF KindOf
        <3>2. (written.data[1] - meant.data[1]) % INT32 = 0
            BY <3>1, IntLiteral
        <3>3. QED
            BY <3>1, <3>2 DEF ReadBack
    <2>4. CASE type \in {"DOUBLE", "BOOLEAN", "VARCHAR"}
        <3>1. meant.kind # "int" /\ read = meant /\ (meant.kind = "string" => type = "VARCHAR")
            BY <1>2, <2>1, <2>2, <2>4 DEF KindOf
        <3>2. QED
            BY <3>1 DEF ReadBack
    <2>5. CASE type \in {"DATE", "TIMESTAMP"}
        <3>1. meant.kind = "string" /\ written = meant /\ read.kind = "string" /\ type # "VARCHAR"
            BY <1>2, <2>1, <2>2, <2>5 DEF KindOf
        <3>2. IsPrefix(SubSeq(meant.data, 1, Min({Len(meant.data), Schema[i].length})), read.data)
            BY <2>2, <2>5, <3>1 DEF Written
        <3>3. QED
            BY <3>1, <3>2 DEF ReadBack
    <2>6. QED
        BY <1>1, <2>3, <2>4, <2>5
<1>6. QED
    BY <1>4, <1>5

\* The invariant holds in every reachable state.
THEOREM Invariance == Spec => []IInv
<1>1. Init => IInv
    BY InitInv
<1>2. IInv /\ [Next]_vars => IInv'
    BY NextInv
<1>3. QED
    BY <1>1, <1>2, PTL DEF Spec

\* Every stored row can be decoded and gives a value of its type for every
\* column, NULL only where the column may be NULL, ints in their range.
THEOREM TypeCorrect == Spec => []TypeOK
<1>1. IInv => TypeOK
    <2> SUFFICES ASSUME IInv PROVE TypeOK
        OBVIOUS
    <2>1. \A k \in Stored : rows[k] \in WrittenRows
        BY RowsFacts DEF IInv
    <2>2. ASSUME NEW k \in Stored
          PROVE  /\ CanDeserialize(rows[k])
                 /\ \A i \in ColumnIndex :
                       LET value == TableRow(k)[i]
                       IN  /\ IF value = NULL THEN Schema[i].nullable
                              ELSE value.kind = KindOf(Schema[i].type)
                           /\ value.kind = "int" =>
                                value.data[1] \in -(INT32 \div 2)..(INT32 \div 2 - 1)
        BY <2>1, WrittenRowsRead DEF TableRow
    <2>3. QED
        BY <2>2 DEF IInv, RowsInv, StatementInv, TypeOK
<1>2. QED
    BY <1>1, Invariance, PTL

\* A row that INSERT stores decodes to the values that the statement names for
\* its columns, and the rows that were there stay as they were.
THEOREM InsertIsReadBack == Spec => RowsReadBack
<1>1. ASSUME IInv, [Next]_vars, Len(rows') > Len(rows)
      PROVE  \E padding \in Paddings : InsertRow(padding)
    <2>1. Len(rows) \in Nat
        BY <1>1, RowsFacts DEF IInv
    <2>2. rows' # rows
        BY <1>1, <2>1
    <2>3. ASSUME NEW k, DeleteRow(k) PROVE FALSE
        <3>1. stmt = "delete" /\ k \in todo /\ rows' = [rows EXCEPT ![k] = <<>>]
            BY <2>2, <2>3 DEF DeleteRow, ScanRow
        <3>2. k \in 1..Len(rows) /\ rows \in Seq({<<>>} \cup WrittenRows)
            BY <1>1, <3>1, RowsFacts, MatchesFacts DEF IInv, RowsInv
        <3> DEFINE T == {<<>>} \cup WrittenRows
        <3>3. <<>> \in T /\ rows \in Seq(T)
            BY <3>2
        <3> HIDE DEF T
        <3>4. Len([rows EXCEPT ![k] = <<>>]) = Len(rows)
            BY <3>2, <3>3, ExceptSeq
        <3>5. QED
            BY <1>1, <2>1, <3>1, <3>4
    <2>4. ASSUME rows' = RowsLeft PROVE FALSE
        <3>1. RowsLeft \in Seq(WrittenRows) /\ Len(RowsLeft) <= Len(rows)
            BY <1>1, RowsLeftFacts DEF IInv, RowsInv
        <3>2. Len(RowsLeft) \in Nat
            BY <3>1, LenProperties
        <3>3. QED
            BY <1>1, <2>1, <2>4, <3>1, <3>2
    <2>5. \A names : ~StartInsert(names)
        BY <2>2 DEF StartInsert
    <2>6. \A values : ~BuildTuple(values) /\ ~RefuseTuple(values)
        BY <2>2 DEF BuildTuple, RefuseTuple
    <2>7. ~InsertRows /\ ~SerializeThrows /\ ~NoPageForRow /\ ~EndInsert
        BY <2>2 DEF InsertRows, SerializeThrows, NoPageForRow, EndInsert
    <2>8. \A kind, names, where : ~StartScan(kind, names, where)
        BY <2>2 DEF StartScan
    <2>9. \A k : ~SkipRow(k) /\ ~SelectRow(k) /\ ~ScanThrows(k)
        BY <2>2, <2>4 DEF SkipRow, SelectRow, ScanThrows
    <2>10. ~EndScan
        BY <2>4 DEF EndScan
    <2>11. ~UNCHANGED vars
        BY <2>2 DEF vars
    <2>12. QED
        BY <1>1, <2>3, <2>5, <2>6, <2>7, <2>8, <2>9, <2>10, <2>11 DEF Next
<1>2. IInv /\ [Next]_vars =>
         [Len(rows') > Len(rows) =>
            /\ SubSeq(rows', 1, Len(rows)) = rows
            /\ \A i \in ColumnIndex :
                  ReadBack(Schema[i], Meant(node.names, node.values[Min(todo)], i),
                           TableRow(Len(rows))'[i])]_vars
    <2> SUFFICES ASSUME IInv, [Next]_vars, Len(rows') > Len(rows)
                 PROVE  /\ SubSeq(rows', 1, Len(rows)) = rows
                        /\ \A i \in ColumnIndex :
                              ReadBack(Schema[i], Meant(node.names, node.values[Min(todo)], i),
                                       TableRow(Len(rows))'[i])
        OBVIOUS
    <2>1. PICK padding \in Paddings : InsertRow(padding)
        BY <1>1
    <2> DEFINE tuple == NextTuple
               data == Serialize(tuple, padding)
               values == node.values[Min(todo)]
               n == Len(rows)
    <2>2. /\ stmt = "insert" /\ todo # {} /\ CanSerialize(tuple)
          /\ ColumnIndex # {} /\ rows' = Append(rows, data)
        <3>1. Len(rows) \in Nat
            BY RowsFacts DEF IInv
        <3>2. QED
            BY <2>1, <3>1 DEF InsertRow
    <2>3. /\ values \in LiteralRows /\ RowAccepted(node.names, values)
          /\ node.names \in NameLists /\ ColumnListAccepted(node.names)
        BY <2>2, NextTupleFacts DEF AcceptedValues
    <2>4. tuple = TupleFor(node.names, values)
        BY DEF NextTuple
    <2>5. Fits(tuple)
        BY <2>2, <2>3, <2>4, AcceptedRows DEF Storable
    <2>6. data \in WrittenRows
        BY <2>2, <2>4, NextTupleFacts, WrittenRowsFacts
    <2>7. rows \in Seq(WrittenRows)
        BY <2>2 DEF IInv, RowsInv
    <2> HIDE DEF data, values, tuple
    <2>8. /\ rows' \in Seq(WrittenRows) /\ n \in Nat /\ Len(rows') = n + 1
          /\ \A k \in 1..n : rows'[k] = rows[k]
          /\ rows'[n + 1] = data
        BY <2>2, <2>6, <2>7, AppendProperties, LenProperties
    <2>9. SubSeq(rows', 1, n) = rows
        <3> DEFINE s == SubSeq(rows', 1, n)
        <3>1. \A k \in 1..n : rows'[k] \in WrittenRows
            BY <2>7, <2>8, ElementOfSeq
        <3> HIDE DEF n
        <3>2. /\ s \in Seq(WrittenRows) /\ Len(s) = n - 1 + 1
              /\ \A k \in 1..(n - 1 + 1) : s[k] = rows'[1 + k - 1]
            <4>1. 1 \in Nat /\ n \in Nat /\ 1 <= n + 1
                BY <2>8
            <4>2. QED
                BY <3>1, <4>1, SubSeqFacts
        <3> HIDE DEF s
        <3>3. n - 1 + 1 = n /\ \A k \in 1..n : 1 + k - 1 = k
            BY <2>8
        <3>4. Len(s) = n /\ \A k \in 1..n : s[k] = rows[k]
            BY <2>8, <3>2, <3>3
        <3>5. s = rows
            BY <2>7, <3>2, <3>4, SeqEqual DEF n
        <3>6. QED
            BY <3>5 DEF s
    <2>10. TableRow(Len(rows))' = Deserialize(data)
        BY <2>8 DEF TableRow
    <2>11. ASSUME NEW i \in ColumnIndex
           PROVE  ReadBack(Schema[i], Meant(node.names, values, i), Deserialize(data)[i])
        <3>1. /\ Meant(node.names, values, i) \in Values
              /\ tuple[i] = LiteralToValue(Meant(node.names, values, i))
            BY <2>3, <2>4, TupleForFacts
        <3>2. IsNull(tuple[i]) \/ tuple[i].kind = KindOf(Schema[i].type)
            BY <2>5 DEF Fits
        <3>3. Reads(Schema[i], tuple[i], Deserialize(data)[i])
            BY <2>5, RoundTrip DEF data
        <3>4. QED
            BY <3>1, <3>2, <3>3, ReadBackFacts
    <2>12. QED
        BY <2>9, <2>10, <2>11 DEF values
<1>3. QED
    BY <1>2, Invariance, PTL DEF Spec, RowsReadBack

\* As many rows of a SELECT as of the table project to t.
LEMMA SelectedCount ==
    ASSUME IInv, stmt = "select", todo = {}, NEW t
    PROVE  Cardinality({j \in DOMAIN result : result[j] = t})
             = Cardinality({k \in Satisfying : ProjectTuple(TableRow(k)) = t})
<1> DEFINE n == Len(result)
           J == {j \in DOMAIN result : result[j] = t}
           K == {k \in Satisfying : ProjectTuple(TableRow(k)) = t}
<1>1. n \in Nat /\ DOMAIN result = 1..n
    <2>1. result \in Seq(ToSet(result))
        BY DEF IInv, ScanInv
    <2>2. QED
        BY <2>1, LenProperties
<1>2. PICK f \in [1..n -> Stored] : Selected(f)
    BY DEF IInv, ScanInv
<1>3. /\ \A i, j \in 1..n : f[i] = f[j] => i = j
      /\ {f[j] : j \in 1..n} = Satisfying
      /\ \A j \in 1..n : result[j] = ProjectTuple(TableRow(f[j]))
    BY <1>2 DEF Selected
<1> HIDE DEF n
<1>4. \A j : j \in J <=> j \in 1..n /\ result[j] = t
    BY <1>1
<1>5. \A k : k \in K <=> k \in Satisfying /\ ProjectTuple(TableRow(k)) = t
    OBVIOUS
<1>6. IsFiniteSet(J)
    <2>1. IsFiniteSet(1..n)
        BY <1>1, FS_Interval
    <2>2. J \subseteq 1..n
        BY <1>4
    <2> HIDE DEF J
    <2>3. QED
        BY <2>1, <2>2, FS_Subset
<1> HIDE DEF J, K
<1> DEFINE g == [j \in J |-> f[j]]
<1>7. g \in [J -> K]
    BY <1>3, <1>4, <1>5
<1>8. \A i, j \in J : g[i] = g[j] => i = j
    BY <1>3, <1>4
<1>9. ASSUME NEW k \in K PROVE \E j \in J : g[j] = k
    <2>1. PICK j \in 1..n : f[j] = k
        BY <1>3, <1>5
    <2>2. j \in J
        BY <1>3, <1>4, <1>5, <2>1
    <2>3. QED
        BY <2>1, <2>2
<1> HIDE DEF g
<1>10. ExistsBijection(J, K)
    <2>1. g \in Bijection(J, K)
        BY <1>7, <1>8, <1>9, Fun_IsBij
    <2>2. QED
        BY <2>1 DEF ExistsBijection
<1>11. Cardinality(K) = Cardinality(J)
    BY <1>6, <1>10, FS_Bijection
<1>12. QED
    BY <1>11 DEF J, K

\* A SELECT that ends without an error returns one row for each row of the table
\* that satisfies its WHERE clause in SQL's logic; a DELETE takes no other row.
THEOREM ScansAnswer == Spec => ScanAnswersQuery
<1>1. IInv /\ [Next]_vars =>
         [/\ stmt = "select" /\ EndScan =>
                \A t \in {ProjectTuple(TableRow(k)) : k \in Stored} \cup ToSet(result) :
                    Cardinality({j \in DOMAIN result : result[j] = t})
                      = Cardinality({k \in Satisfying : ProjectTuple(TableRow(k)) = t})
          /\ stmt = "delete" /\ stmt' = "delete" =>
                \A k \in Stored : rows'[k] = <<>> => k \in Satisfying]_vars
    <2> SUFFICES ASSUME IInv, Next
                 PROVE  /\ stmt = "select" /\ EndScan =>
                              \A t \in {ProjectTuple(TableRow(k)) : k \in Stored} \cup ToSet(result) :
                                  Cardinality({j \in DOMAIN result : result[j] = t})
                                    = Cardinality({k \in Satisfying : ProjectTuple(TableRow(k)) = t})
                        /\ stmt = "delete" /\ stmt' = "delete" =>
                              \A k \in Stored : rows'[k] = <<>> => k \in Satisfying
        OBVIOUS
    <2>1. ASSUME stmt = "select", EndScan, NEW t
          PROVE  Cardinality({j \in DOMAIN result : result[j] = t})
                   = Cardinality({k \in Satisfying : ProjectTuple(TableRow(k)) = t})
        <3>1. todo = {}
            BY <2>1 DEF EndScan
        <3>2. QED
            BY <2>1, <3>1, SelectedCount
    <2>2. ASSUME stmt = "delete", stmt' = "delete", NEW k \in Stored, rows'[k] = <<>>
          PROVE  k \in Satisfying
        <3>1. rows' # rows
            BY <2>2 DEF Stored
        <3>2. PICK m : DeleteRow(m)
            <4>1. \A names : ~StartInsert(names)
                BY <2>2 DEF StartInsert
            <4>2. \A values : ~BuildTuple(values) /\ ~RefuseTuple(values)
                BY <2>2 DEF BuildTuple, RefuseTuple
            <4>3. ~InsertRows /\ ~SerializeThrows /\ ~NoPageForRow /\ ~EndInsert
                  /\ \A padding : ~InsertRow(padding)
                BY <2>2 DEF InsertRows, SerializeThrows, NoPageForRow, EndInsert, InsertRow
            <4>4. \A kind, names, where : ~StartScan(kind, names, where)
                BY <2>2 DEF StartScan
            <4>5. \A j : ~SkipRow(j) /\ ~SelectRow(j)
                BY <3>1 DEF SkipRow, SelectRow
            <4>6. ~EndScan /\ \A j : ~ScanThrows(j)
                BY <2>2 DEF EndScan, ScanThrows, EndStatement
            <4>7. QED
                BY <4>1, <4>2, <4>3, <4>4, <4>5, <4>6 DEF Next
        <3>3. m \in todo /\ Matches(m) = "true" /\ rows' = [rows EXCEPT ![m] = <<>>]
            BY <3>1, <3>2 DEF DeleteRow, ScanRow
        <3>4. m \in Satisfying
            BY <2>2, <3>3, MatchesFacts
        <3>5. k = m
            <4>1. k \in DOMAIN rows /\ rows[k] # <<>>
                BY DEF Stored
            <4>2. k # m => rows'[k] = rows[k]
                BY <3>3, <4>1
            <4>3. QED
                BY <2>2, <4>1, <4>2
        <3>6. QED
            BY <3>4, <3>5
    <2>3. QED
        BY <2>1, <2>2
<1>2. QED
    BY <1>1, Invariance, PTL DEF Spec, ScanAnswersQuery
=============================================================================
