---------------------------- MODULE CommonLemmas ----------------------------
(***************************************************************************)
(* Facts of arithmetic, induction and recursion over 0..n and over trees,  *)
(* and what the operators on sequences and on sets of numbers that the     *)
(* models use return: Append, RemoveAt, RemoveFirst, FlattenSeq, ToSet,    *)
(* Min and Max.                                                            *)
(***************************************************************************)
EXTENDS Integers, SequencesExt, FiniteSetTheorems, SequenceTheorems, TLAPS

-----------------------------------------------------------------------------
(* Numbers *)

\* Products of natural numbers.
LEMMA Products ==
    ASSUME NEW i \in Nat, NEW j \in Nat, NEW n \in Nat
    PROVE  /\ i * n \in Nat
           /\ (i + 1) * n = i * n + n
           /\ i <= j => i * n <= j * n
<1>1. i * n \in Nat /\ j * n \in Nat
    OBVIOUS
<1>2. (i + 1) * n = i * n + n
    OBVIOUS
<1>3. ASSUME i <= j PROVE i * n <= j * n
    <2>1. j - i \in Nat
        BY <1>3
    <2>2. (j - i) * n \in Nat
        BY <2>1
    <2>3. j * n = i * n + (j - i) * n
        OBVIOUS
    <2>4. QED
        BY <1>1, <2>2, <2>3
<1>4. QED
    BY <1>1, <1>2, <1>3

\* Quotient and remainder.
LEMMA Division ==
    ASSUME NEW e \in Nat, NEW n \in Nat \ {0}
    PROVE  /\ e \div n \in Nat
           /\ e % n \in 0..(n - 1)
           /\ e = (e \div n) * n + (e % n)
    OBVIOUS

\* Quotient and remainder are the only ones.
LEMMA DivisionUnique ==
    ASSUME NEW e \in Nat, NEW n \in Nat \ {0}, NEW q \in Nat, NEW r \in 0..(n - 1),
           e = q * n + r
    PROVE  e \div n = q /\ e % n = r
<1> DEFINE d == e \div n
           m == e % n
<1>1. d \in Nat /\ m \in 0..(n - 1) /\ e = d * n + m
    BY Division
<1> HIDE DEF d, m
<1>2. q * n \in Nat /\ d * n \in Nat
    BY <1>1, Products
<1>3. ~(q + 1 <= d)
    <2>1. q + 1 <= d => q * n + n <= d * n
        BY <1>1, Products
    <2>2. QED
        BY <1>1, <1>2, <2>1
<1>4. ~(d + 1 <= q)
    <2>1. d + 1 <= q => d * n + n <= q * n
        BY <1>1, Products
    <2>2. QED
        BY <1>1, <1>2, <2>1
<1>5. d = q
    BY <1>1, <1>3, <1>4
<1>6. QED
    BY <1>1, <1>2, <1>5 DEF d, m

\* Quotient and remainder of any integer.
LEMMA IntDivision ==
    ASSUME NEW e \in Int, NEW n \in Nat \ {0}
    PROVE  /\ e \div n \in Int
           /\ e % n \in 0..(n - 1)
           /\ e = (e \div n) * n + (e % n)
    OBVIOUS

\* A multiple leaves no remainder.
LEMMA MultipleFacts ==
    ASSUME NEW k \in Int, NEW n \in Nat \ {0}
    PROVE  k * n \in Int /\ (k * n) % n = 0
<1> DEFINE e == k * n
           d == e \div n
           r == e % n
<1>1. e \in Int
    OBVIOUS
<1> HIDE DEF e
<1>2. d \in Int /\ r \in 0..(n - 1) /\ e = d * n + r
    BY <1>1, IntDivision
<1> HIDE DEF d, r
<1> DEFINE j == k - d
<1>3. j \in Int /\ j * n = r
    <2>1. (k - d) * n = k * n - d * n
        BY <1>2
    <2>2. d * n \in Int
        BY <1>2
    <2> DEFINE x == d * n
    <2> HIDE DEF x
    <2>3. e = x + r /\ x \in Int /\ e - x = r
        BY <1>1, <1>2, <2>2 DEF x
    <2>4. QED
        BY <1>2, <2>1, <2>3 DEF e, x
<1> HIDE DEF j
<1>4. ~(j >= 1)
    <2> SUFFICES ASSUME j >= 1 PROVE FALSE
        OBVIOUS
    <2>1. j \in Nat /\ 1 \in Nat /\ 1 <= j
        BY <1>3
    <2>2. 1 * n <= j * n
        BY <2>1, Products
    <2>3. QED
        BY <1>2, <1>3, <2>2
<1>5. ~(j <= -1)
    <2> SUFFICES ASSUME j <= -1 PROVE FALSE
        OBVIOUS
    <2> DEFINE i == -j
    <2>1. i \in Nat /\ 1 \in Nat /\ 1 <= i
        BY <1>3
    <2>2. i * n = -(j * n)
        BY <1>3
    <2> HIDE DEF i
    <2>3. 1 * n <= i * n
        BY <2>1, Products
    <2>4. QED
        BY <1>2, <1>3, <2>2, <2>3
<1>6. j = 0
    BY <1>3, <1>4, <1>5
<1>7. r = 0
    BY <1>3, <1>6
<1>8. QED
    BY <1>1, <1>7 DEF e, r

\* A set of natural numbers has a least one: the least of the intervals that
\* end in a member of the set, by inclusion, ends in it.
LEMMA LeastNatural ==
    ASSUME NEW S \in SUBSET Nat, S # {}
    PROVE  \E m \in S : \A k \in S : m <= k
<1> DEFINE T == {0..k : k \in S}
           R == StrictSubsetOrdering(Nat)
<1>1. T \subseteq FiniteSubsetsOf(Nat)
    <2>1. ASSUME NEW k \in S PROVE 0..k \in SUBSET Nat /\ IsFiniteSet(0..k)
        BY FS_Interval
    <2>2. QED
        BY <2>1 DEF FiniteSubsetsOf
<1>2. IsWellFoundedOn(R, FiniteSubsetsOf(Nat)) /\ T # {}
    BY FS_StrictSubsetOrderingWellFounded
<1> HIDE DEF R
<1>3. \E x \in T : \A y \in T : <<y, x>> \notin R
    <2> HIDE DEF T
    <2>1. QED
        BY <1>1, <1>2, WFMin
<1>4. PICK m \in S : \A y \in T : <<y, 0..m>> \notin R
    BY <1>3
<1>5. ASSUME NEW k \in S PROVE m <= k
    <2> SUFFICES ASSUME k < m PROVE FALSE
        OBVIOUS
    <2>1. 0..k \subseteq 0..m /\ 0..k # 0..m
        OBVIOUS
    <2>2. 0..k \in SUBSET Nat /\ 0..m \in SUBSET Nat
        OBVIOUS
    <2>3. <<0..k, 0..m>> \in R
        BY <2>1, <2>2 DEF R, StrictSubsetOrdering
    <2>4. QED
        BY <1>4, <2>3
<1>6. QED
    BY <1>5

\* Min chooses it.
LEMMA MinIsLeast ==
    ASSUME NEW S \in SUBSET Nat, S # {}
    PROVE  Min(S) \in S /\ \A k \in S : Min(S) <= k
BY LeastNatural DEF Min

\* Max chooses the greatest element of a bounded set.
LEMMA MaxIsGreatest ==
    ASSUME NEW n \in Nat, NEW S \in SUBSET (0..n), S # {}
    PROVE  Max(S) \in S /\ \A k \in S : k <= Max(S)
<1> DEFINE T == {n - k : k \in S}
<1>1. T \subseteq Nat /\ T # {}
    <2>1. \A k \in S : k \in 0..n
        OBVIOUS
    <2>2. \A k \in S : n - k \in Nat
        BY <2>1
    <2>3. QED
        BY <2>2
<1> HIDE DEF T
<1>2. PICK m \in T : \A k \in T : m <= k
    BY <1>1, LeastNatural
<1>3. PICK x \in S : m = n - x
    BY <1>2 DEF T
<1>4. \A k \in S : x >= k
    <2>1. \A k \in S : n - k \in T
        BY DEF T
    <2>2. QED
        BY <1>2, <1>3, <2>1
<1>5. Max(S) \in S /\ \A k \in S : Max(S) >= k
    BY <1>4 DEF Max
<1>6. QED
    BY <1>5

\* Induction over 0..n, for a property given as the set of numbers that have it.
LEMMA Induction ==
    ASSUME NEW P, 0 \in P, NEW n \in Nat, \A m \in 0..n : m \in P /\ m < n => m + 1 \in P
    PROVE  \A m \in 0..n : m \in P
<1> DEFINE S == {m \in 0..n : m \notin P}
<1>1. ASSUME S # {} PROVE FALSE
    <2>1. S \subseteq Nat
        OBVIOUS
    <2> HIDE DEF S
    <2>2. PICK m \in S : \A k \in S : m <= k
        BY <1>1, <2>1, LeastNatural
    <2>3. m \in 0..n /\ m \notin P
        BY <2>2 DEF S
    <2>4. m - 1 \in 0..n /\ m - 1 < n
        BY <2>3
    <2>5. m - 1 \notin S
        <3>1. m \in Nat /\ ~(m <= m - 1)
            BY <2>3
        <3>2. QED
            BY <2>2, <3>1
    <2>6. m - 1 \in P
        BY <2>4, <2>5 DEF S
    <2>7. (m - 1) + 1 \in P
        BY <2>4, <2>6
    <2>8. QED
        BY <2>3, <2>7
<1>2. QED
    BY <1>1

\* Recursion over 0..n: the function that starts with `base` and continues with
\* the given steps exists.
LEMMA Recursion ==
    ASSUME NEW R, NEW base \in R, NEW n \in Nat, NEW step \in [1..n -> [R -> R]]
    PROVE  \E g \in [0..n -> R] :
              g[0] = base /\ \A i \in 1..n : g[i] = step[i][g[i - 1]]
<1> DEFINE Upto(m, g) == /\ g \in [0..m -> R]
                         /\ g[0] = base
                         /\ \A i \in 1..m : g[i] = step[i][g[i - 1]]
           P == {m \in 0..n : \E g : Upto(m, g)}
<1>1. 0 \in P
    <2>1. Upto(0, [i \in 0..0 |-> base])
        OBVIOUS
    <2> HIDE DEF Upto
    <2>2. \E g : Upto(0, g)
        BY <2>1
    <2>3. QED
        BY <2>2
<1>2. ASSUME NEW m \in 0..n, m \in P, m < n PROVE m + 1 \in P
    <2>1. PICK g : Upto(m, g)
        BY <1>2
    <2> DEFINE h == [i \in 0..(m + 1) |-> IF i <= m THEN g[i] ELSE step[m + 1][g[m]]]
    <2>2. g[m] \in R /\ m + 1 \in 1..n
        BY <1>2, <2>1
    <2>3. step[m + 1][g[m]] \in R
        BY <2>2
    <2>4. h \in [0..(m + 1) -> R] /\ h[0] = base
        BY <2>1, <2>3
    <2>5. ASSUME NEW i \in 1..(m + 1) PROVE h[i] = step[i][h[i - 1]]
        <3>1. CASE i <= m
            BY <2>1, <3>1
        <3>2. CASE i = m + 1
            BY <2>1, <3>2
        <3>3. QED
            BY <3>1, <3>2
    <2>6. Upto(m + 1, h)
        BY <2>4, <2>5
    <2> HIDE DEF Upto, h
    <2>7. m + 1 \in 0..n /\ \E f : Upto(m + 1, f)
        BY <1>2, <2>6
    <2>8. QED
        BY <2>7
<1> HIDE DEF P
<1>3. \A m \in 0..n : m \in P /\ m < n => m + 1 \in P
    BY <1>2
<1>4. \A m \in 0..n : m \in P
    BY <1>1, <1>3, Induction
<1>5. n \in P
    BY <1>4
<1>6. QED
    BY <1>5 DEF P

\* Two functions that start alike and continue alike are alike.
LEMMA SameRecursion ==
    ASSUME NEW n \in Nat, NEW f, NEW g, f[0] = g[0],
           \A i \in 1..n : f[i - 1] = g[i - 1] => f[i] = g[i]
    PROVE  \A m \in 0..n : f[m] = g[m]
<1> DEFINE P == {m \in 0..n : f[m] = g[m]}
<1>1. 0 \in P
    OBVIOUS
<1>2. ASSUME NEW m \in 0..n, m \in P, m < n PROVE m + 1 \in P
    <2>1. m + 1 \in 1..n /\ (m + 1) - 1 = m /\ m + 1 \in 0..n
        BY <1>2
    <2>2. f[m + 1] = g[m + 1]
        BY <1>2, <2>1
    <2>3. QED
        BY <2>1, <2>2
<1>3. \A m \in 0..n : m \in P /\ m < n => m + 1 \in P
    BY <1>2
<1> HIDE DEF P
<1>4. \A m \in 0..n : m \in P
    BY <1>1, <1>3, Induction
<1>5. QED
    BY <1>4 DEF P

\* What def makes of the values of the operands, for the elements of a set whose
\* every part has an element without operands in that part.
Recursive(S, R, sub, def) ==
    /\ R # {}
    /\ \A e \in S : sub[e] \subseteq S
    /\ \A T \in SUBSET S : T # {} => \E e \in T : sub[e] \cap T = {}
    /\ \A e \in S, f \in [S -> R] : def[e][f] \in R
    /\ \A e \in S : \A f, g \in [S -> R] :
          (\A y \in sub[e] : f[y] = g[y]) => def[e][f] = def[e][g]

\* Recursion over a tree: the function that def describes exists.
LEMMA TreeRecursion ==
    ASSUME NEW S, NEW R, NEW sub, NEW def, Recursive(S, R, sub, def)
    PROVE  \E f \in [S -> R] : \A e \in S : f[e] = def[e][f]
<1> SUFFICES ASSUME NEW r \in R,
                    \A e \in S : sub[e] \subseteq S,
                    \A T \in SUBSET S : T # {} => \E e \in T : sub[e] \cap T = {},
                    \A e \in S, f \in [S -> R] : def[e][f] \in R,
                    \A e \in S : \A f, g \in [S -> R] :
                       (\A y \in sub[e] : f[y] = g[y]) => def[e][f] = def[e][g]
             PROVE  \E f \in [S -> R] : \A e \in S : f[e] = def[e][f]
    BY DEF Recursive
<1> DEFINE Sol(X, f) == /\ X \in SUBSET S
                        /\ \A e \in X : sub[e] \subseteq X
                        /\ f \in [S -> R]
                        /\ \A e \in X : f[e] = def[e][f]
<1>0. ASSUME NEW e \in S, NEW f \in [S -> R], NEW g \in [S -> R], \A y \in sub[e] : f[y] = g[y]
      PROVE  def[e][f] = def[e][g]
    BY <1>0
<1>1. ASSUME NEW X, NEW Y, NEW f, NEW g, Sol(X, f), Sol(Y, g)
      PROVE  \A e \in X \cap Y : f[e] = g[e]
    <2> DEFINE T == {e \in X \cap Y : f[e] # g[e]}
    <2> SUFFICES ASSUME T # {} PROVE FALSE
        OBVIOUS
    <2>1. T \in SUBSET S
        BY <1>1
    <2>2. PICK e \in T : sub[e] \cap T = {}
        BY <2>1
    <2>3. e \in X /\ e \in Y /\ f[e] # g[e] /\ sub[e] \subseteq X \cap Y
        BY <1>1
    <2>4. \A y \in sub[e] : f[y] = g[y]
        BY <2>2, <2>3
    <2>5. def[e][f] = def[e][g]
        <3>1. e \in S /\ f \in [S -> R] /\ g \in [S -> R]
            BY <1>1, <2>3
        <3> HIDE DEF T
        <3>2. QED
            BY <1>0, <2>4, <3>1
    <2>6. QED
        BY <1>1, <2>3, <2>5
<1> DEFINE Good == {e \in S : \E X, f : Sol(X, f) /\ e \in X}
           F    == [e \in S |-> IF e \in Good
                                THEN CHOOSE v : \E X, f : Sol(X, f) /\ e \in X /\ v = f[e]
                                ELSE r]
<1>2. ASSUME NEW X, NEW f, Sol(X, f) PROVE X \subseteq Good /\ \A e \in X : F[e] = f[e]
    <2> SUFFICES ASSUME NEW e \in X PROVE e \in Good /\ F[e] = f[e]
        OBVIOUS
    <2>1. e \in Good /\ e \in S
        BY <1>2
    <2>2. \E v : \E Y, g : Sol(Y, g) /\ e \in Y /\ v = g[e]
        <3> HIDE DEF Sol
        <3>1. QED
            BY <1>2
    <2>3. PICK Y, g : Sol(Y, g) /\ e \in Y /\ F[e] = g[e]
        <3> HIDE DEF Sol, Good
        <3>1. F[e] = CHOOSE v : \E Y, g : Sol(Y, g) /\ e \in Y /\ v = g[e]
            BY <2>1
        <3>2. QED
            BY <2>2, <3>1
    <2> HIDE DEF Sol, F
    <2>4. f[e] = g[e]
        BY <1>1, <1>2, <2>3
    <2>5. QED
        BY <2>1, <2>3, <2>4
<1>3. Sol(Good, F)
    <2>1. ASSUME NEW e \in Good
          PROVE  /\ sub[e] \subseteq Good
                 /\ F[e] \in R
                 /\ \E f \in [S -> R] : /\ F[e] = def[e][f]
                                        /\ \A y \in sub[e] : F[y] = f[y]
        <3> HIDE DEF F
        <3>1. PICK X, f : Sol(X, f) /\ e \in X
            OBVIOUS
        <3> HIDE DEF Good
        <3>2. X \subseteq Good /\ \A y \in X : F[y] = f[y]
            <4> HIDE DEF Sol
            <4>1. QED
                BY <1>2, <3>1
        <3>3. sub[e] \subseteq X /\ f \in [S -> R] /\ f[e] = def[e][f] /\ e \in S
            BY <3>1
        <3>4. QED
            BY <3>1, <3>2, <3>3
    <2>2. F \in [S -> R]
        <3>1. \A e \in S : F[e] \in R
            <4> HIDE DEF Sol
            <4>1. QED
                BY <2>1
        <3>2. F = [e \in S |-> F[e]]
            OBVIOUS
        <3> HIDE DEF F
        <3>3. QED
            BY <3>1, <3>2
    <2> HIDE DEF F
    <2>3. ASSUME NEW e \in Good PROVE F[e] = def[e][F]
        <3>1. PICK f \in [S -> R] : F[e] = def[e][f] /\ \A y \in sub[e] : F[y] = f[y]
            BY <2>1
        <3>2. e \in S
            OBVIOUS
        <3> HIDE DEF Good
        <3>3. def[e][f] = def[e][F]
            BY <1>0, <2>2, <3>1, <3>2
        <3>4. QED
            BY <3>1, <3>3
    <2>4. Good \in SUBSET S
        OBVIOUS
    <2> HIDE DEF Good
    <2>5. QED
        BY <2>1, <2>2, <2>3, <2>4
<1>4. Good = S
    <2> SUFFICES ASSUME S \ Good # {} PROVE FALSE
        OBVIOUS
    <2> HIDE DEF F, Good
    <2>1. PICK e \in S \ Good : sub[e] \cap (S \ Good) = {}
        OBVIOUS
    <2> DEFINE g == [F EXCEPT ![e] = def[e][F]]
    <2>2. sub[e] \subseteq Good /\ F \in [S -> R] /\ Good \in SUBSET S /\ e \notin Good
        BY <1>3, <2>1
    <2>3. g \in [S -> R] /\ g[e] = def[e][F] /\ \A y \in Good : g[y] = F[y]
        BY <2>2
    <2> HIDE DEF g
    <2>4. def[e][g] = def[e][F]
        <3>1. \A y \in sub[e] : g[y] = F[y]
            BY <2>2, <2>3
        <3>2. QED
            BY <1>0, <2>2, <2>3, <3>1
    <2>5. ASSUME NEW y \in Good PROVE g[y] = def[y][g]
        <3>1. sub[y] \subseteq Good /\ F[y] = def[y][F]
            BY <1>3
        <3>2. \A z \in sub[y] : g[z] = F[z]
            BY <2>3, <3>1
        <3>3. y \in S
            BY <2>2
        <3>5. def[y][g] = def[y][F]
            BY <1>0, <2>2, <2>3, <3>2, <3>3
        <3>4. QED
            BY <2>3, <3>1, <3>5
    <2>6. Sol(Good \cup {e}, g)
        BY <1>3, <2>2, <2>3, <2>4, <2>5
    <2>7. e \in Good
        <3>1. e \in Good \cup {e}
            OBVIOUS
        <3> HIDE DEF Sol
        <3>2. QED
            BY <1>2, <2>6, <3>1
    <2>8. QED
        BY <2>1, <2>7
<1> HIDE DEF F, Good
<1>5. QED
    BY <1>3, <1>4

-----------------------------------------------------------------------------
(* Sequences *)

\* An element of a sequence has a position.
LEMMA ToSetFacts ==
    ASSUME NEW S, NEW s \in Seq(S)
    PROVE  /\ ToSet(s) = {s[i] : i \in 1..Len(s)}
           /\ ToSet(s) \subseteq S
           /\ Len(s) \in Nat
           /\ IsInjective(s) <=> \A i, j \in 1..Len(s) : s[i] = s[j] => i = j
<1>1. Len(s) \in Nat
    BY LenProperties
<1>2. DOMAIN s = 1..Len(s)
    BY LenProperties
<1>3. \A i \in 1..Len(s) : s[i] \in S
    BY ElementOfSeq
<1>4. ToSet(s) = {s[i] : i \in 1..Len(s)}
    BY <1>2 DEF ToSet
<1>5. IsInjective(s) <=> \A i, j \in 1..Len(s) : s[i] = s[j] => i = j
    BY <1>2 DEF IsInjective
<1>6. QED
    BY <1>1, <1>3, <1>4, <1>5

\* Append adds the element at the end.
LEMMA AppendFacts ==
    ASSUME NEW S, NEW s \in Seq(S), NEW e \in S
    PROVE  /\ Append(s, e) \in Seq(S)
           /\ Len(Append(s, e)) = Len(s) + 1
           /\ \A i \in 1..Len(s) : Append(s, e)[i] = s[i]
           /\ Append(s, e)[Len(s) + 1] = e
           /\ ToSet(Append(s, e)) = ToSet(s) \cup {e}
           /\ IsInjective(s) /\ e \notin ToSet(s) => IsInjective(Append(s, e))
<1> DEFINE r == Append(s, e)
<1>1. /\ r \in Seq(S) /\ Len(r) = Len(s) + 1 /\ Len(s) \in Nat
      /\ \A i \in 1..Len(s) : r[i] = s[i]
      /\ r[Len(s) + 1] = e
    BY AppendProperties, LenProperties
<1> HIDE DEF r
<1>2. ToSet(r) = {r[i] : i \in 1..(Len(s) + 1)} /\ ToSet(s) = {s[i] : i \in 1..Len(s)}
    BY <1>1, ToSetFacts
<1>3. \A i \in 1..(Len(s) + 1) : i \in 1..Len(s) \/ i = Len(s) + 1
    BY <1>1
<1>4. ToSet(r) = ToSet(s) \cup {e}
    <2>1. ToSet(r) \subseteq ToSet(s) \cup {e}
        BY <1>1, <1>2, <1>3
    <2>2. ASSUME NEW i \in 1..Len(s) PROVE s[i] \in ToSet(r)
        BY <1>1, <1>2
    <2>3. e \in ToSet(r)
        <3>1. Len(s) + 1 \in 1..(Len(s) + 1)
            BY <1>1
        <3>2. QED
            BY <1>1, <1>2, <3>1
    <2>4. QED
        BY <1>2, <2>1, <2>2, <2>3
<1>5. ASSUME IsInjective(s), e \notin ToSet(s) PROVE IsInjective(r)
    <2>1. \A i, j \in 1..Len(s) : s[i] = s[j] => i = j
        BY <1>5, ToSetFacts
    <2>2. \A i \in 1..Len(s) : s[i] # e
        BY <1>2, <1>5
    <2>3. \A i, j \in 1..(Len(s) + 1) : r[i] = r[j] => i = j
        BY <1>1, <1>3, <2>1, <2>2
    <2>4. QED
        BY <1>1, <2>3, ToSetFacts
<1>6. QED
    BY <1>1, <1>4, <1>5 DEF r

\* RemoveAt moves the elements behind the position one to the front.
LEMMA RemoveAtFacts ==
    ASSUME NEW S, NEW s \in Seq(S), NEW k \in 1..Len(s)
    PROVE  /\ RemoveAt(s, k) \in Seq(S)
           /\ Len(RemoveAt(s, k)) = Len(s) - 1
           /\ \A i \in 1..(Len(s) - 1) :
                 RemoveAt(s, k)[i] = IF i < k THEN s[i] ELSE s[i + 1]
<1> DEFINE left == SubSeq(s, 1, k - 1)
           right == SubSeq(s, k + 1, Len(s))
<1>1. Len(s) \in Nat /\ \A i \in 1..Len(s) : s[i] \in S
    BY LenProperties, ElementOfSeq
<1>2. /\ left \in Seq(S) /\ Len(left) = k - 1
      /\ \A i \in 1..(k - 1) : left[i] = s[i]
    BY <1>1, SubSeqProperties
<1>3. /\ right \in Seq(S) /\ Len(right) = Len(s) - k
      /\ \A i \in 1..(Len(s) - k) : right[i] = s[k + i]
    BY <1>1, SubSeqProperties
<1> HIDE DEF left, right
<1>4. RemoveAt(s, k) = left \o right
    BY DEF RemoveAt, left, right
<1>5. /\ left \o right \in Seq(S)
      /\ Len(left \o right) = Len(left) + Len(right)
      /\ \A i \in 1..(Len(left) + Len(right)) : (left \o right)[i] =
             IF i <= Len(left) THEN left[i] ELSE right[i - Len(left)]
    BY <1>2, <1>3, ConcatProperties
<1>6. ASSUME NEW i \in 1..(Len(s) - 1)
      PROVE  RemoveAt(s, k)[i] = IF i < k THEN s[i] ELSE s[i + 1]
    <2>1. CASE i < k
        BY <1>1, <1>2, <1>3, <1>4, <1>5, <2>1
    <2>2. CASE ~(i < k)
        <3>1. /\ i \in 1..(Len(left) + Len(right)) /\ ~(i <= Len(left))
              /\ i - Len(left) \in 1..(Len(s) - k)
              /\ k + (i - Len(left)) = i + 1
            <4>1. /\ Len(left) = k - 1 /\ Len(right) = Len(s) - k
                  /\ i \in Nat /\ k \in Nat /\ Len(s) \in Nat
                  /\ k <= i /\ i <= Len(s) - 1 /\ 1 <= k
                BY <1>1, <1>2, <1>3, <2>2
            <4>2. QED
                BY <4>1
        <3>2. (left \o right)[i] = right[i - Len(left)]
            BY <1>5, <3>1
        <3>3. right[i - Len(left)] = s[i + 1]
            BY <1>3, <3>1
        <3>4. QED
            BY <1>4, <2>2, <3>2, <3>3
    <2>3. QED
        BY <2>1, <2>2
<1>7. Len(RemoveAt(s, k)) = Len(s) - 1
    BY <1>1, <1>2, <1>3, <1>4, <1>5
<1>8. QED
    BY <1>4, <1>5, <1>6, <1>7

\* In a sequence without duplicates it removes the element.
LEMMA RemoveAtInjective ==
    ASSUME NEW S, NEW s \in Seq(S), NEW k \in 1..Len(s), IsInjective(s)
    PROVE  /\ ToSet(RemoveAt(s, k)) = ToSet(s) \ {s[k]}
           /\ IsInjective(RemoveAt(s, k))
<1> DEFINE r == RemoveAt(s, k)
<1>1. /\ r \in Seq(S) /\ Len(r) = Len(s) - 1 /\ Len(s) \in Nat
      /\ \A i \in 1..(Len(s) - 1) : r[i] = IF i < k THEN s[i] ELSE s[i + 1]
    BY RemoveAtFacts, LenProperties
<1> HIDE DEF r
<1>2. \A i, j \in 1..Len(s) : s[i] = s[j] => i = j
    BY ToSetFacts
<1>3. ToSet(r) = {r[i] : i \in 1..(Len(s) - 1)} /\ ToSet(s) = {s[i] : i \in 1..Len(s)}
    BY <1>1, ToSetFacts
<1>4. ASSUME NEW i \in 1..(Len(s) - 1) PROVE r[i] \in ToSet(s) \ {s[k]}
    <2>1. CASE i < k
        BY <1>1, <1>2, <1>3, <2>1
    <2>2. CASE ~(i < k)
        <3>1. i + 1 \in 1..Len(s) /\ i + 1 # k /\ r[i] = s[i + 1]
            BY <1>1, <2>2
        <3>2. QED
            BY <1>2, <1>3, <3>1
    <2>3. QED
        BY <2>1, <2>2
<1>5. ASSUME NEW i \in 1..Len(s), i # k PROVE s[i] \in ToSet(r)
    <2>1. CASE i < k
        BY <1>1, <1>3, <2>1
    <2>2. CASE i > k
        <3>1. i - 1 \in 1..(Len(s) - 1) /\ r[i - 1] = s[i]
            BY <1>1, <2>2
        <3>2. QED
            BY <1>3, <3>1
    <2>3. QED
        BY <1>5, <2>1, <2>2
<1>6. ToSet(r) = ToSet(s) \ {s[k]}
    <2>1. ToSet(r) \subseteq ToSet(s) \ {s[k]}
        BY <1>3, <1>4
    <2>2. ToSet(s) \ {s[k]} \subseteq ToSet(r)
        BY <1>3, <1>5
    <2>3. QED
        BY <2>1, <2>2
<1>7. ASSUME NEW i \in 1..(Len(s) - 1), NEW j \in 1..(Len(s) - 1), r[i] = r[j]
      PROVE  i = j
    <2> DEFINE at(n) == IF n < k THEN n ELSE n + 1
    <2>1. at(i) \in 1..Len(s) /\ at(j) \in 1..Len(s)
        BY <1>1
    <2>2. s[at(i)] = s[at(j)]
        BY <1>1, <1>7
    <2>3. at(i) = at(j)
        BY <1>2, <2>1, <2>2
    <2>4. QED
        BY <2>3
<1>8. IsInjective(r)
    BY <1>1, <1>7, ToSetFacts
<1>9. QED
    BY <1>6, <1>8 DEF r

\* erase removes the element it is given and nothing else.
LEMMA RemoveFirstFacts ==
    ASSUME NEW S, NEW s \in Seq(S), IsInjective(s), NEW e \in ToSet(s)
    PROVE  /\ RemoveFirst(s, e) \in Seq(S)
           /\ Len(RemoveFirst(s, e)) = Len(s) - 1
           /\ ToSet(RemoveFirst(s, e)) = ToSet(s) \ {e}
           /\ IsInjective(RemoveFirst(s, e))
           /\ \E k \in 1..Len(s) : s[k] = e /\ RemoveFirst(s, e) = RemoveAt(s, k)
<1>1. PICK k \in 1..Len(s) : s[k] = e
    BY ToSetFacts
<1>2. \A i \in 1..Len(s) : s[i] = e => i = k
    BY <1>1, ToSetFacts
<1>3. {i \in 1..Len(s) : s[i] = e} = {k}
    BY <1>1, <1>2
<1>4. Min({k}) = k
    BY <1>1 DEF Min
<1>5. SelectInSeq(s, LAMBDA v : v = e) = k
    BY <1>3, <1>4 DEF SelectInSeq
<1>6. RemoveFirst(s, e) = RemoveAt(s, k)
    BY <1>1, <1>5 DEF RemoveFirst
<1> DEFINE r == RemoveAt(s, k)
<1>7. r \in Seq(S) /\ Len(r) = Len(s) - 1
    BY <1>1, RemoveAtFacts
<1>8. ToSet(r) = ToSet(s) \ {e} /\ IsInjective(r)
    BY <1>1, RemoveAtInjective
<1> HIDE DEF r
<1>9. RemoveFirst(s, e) = r /\ \E n \in 1..Len(s) : s[n] = e /\ r = RemoveAt(s, n)
    BY <1>1, <1>6 DEF r
<1>10. QED
    BY <1>7, <1>8, <1>9


\* A function on 1..n is a sequence of n elements.
LEMMA FunctionIsSeq ==
    ASSUME NEW S, NEW n \in Nat, NEW f \in [1..n -> S]
    PROVE  f \in Seq(S) /\ Len(f) = n
<1> DEFINE l == Len(f)
<1>1. f \in Seq(S)
    BY SeqDef
<1>2. l \in Nat /\ 1..l = 1..n
    BY <1>1, LenProperties
<1> HIDE DEF l
<1>3. CASE l < n
    <2>1. n \in 1..n /\ n \notin 1..l
        BY <1>2, <1>3
    <2>2. QED
        BY <1>2, <2>1
<1>4. CASE n < l
    <2>1. l \in 1..l /\ l \notin 1..n
        BY <1>2, <1>4
    <2>2. QED
        BY <1>2, <2>1
<1>5. l = n
    BY <1>2, <1>3, <1>4
<1>6. QED
    BY <1>1, <1>5 DEF l

\* Each element of s and of t has its position in s \o t.
LEMMA ConcatPositions ==
    ASSUME NEW S, NEW s \in Seq(S), NEW t \in Seq(S)
    PROVE  /\ Len(s) \in Nat /\ Len(t) \in Nat
           /\ s \o t \in Seq(S)
           /\ Len(s \o t) = Len(s) + Len(t)
           /\ \A p \in 1..Len(s) : (s \o t)[p] = s[p]
           /\ \A p \in 1..Len(t) : (s \o t)[Len(s) + p] = t[p]
<1> DEFINE r == s \o t
           m == Len(s)
           n == Len(t)
<1>1. m \in Nat /\ n \in Nat
    BY LenProperties
<1>2. r \in Seq(S) /\ Len(r) = m + n
    BY ConcatProperties
<1>3. \A p \in 1..(m + n) : r[p] = IF p <= m THEN s[p] ELSE t[p - m]
    BY ConcatProperties
<1> HIDE DEF r, m, n
<1>4. ASSUME NEW p \in 1..m PROVE r[p] = s[p]
    BY <1>1, <1>3
<1>5. ASSUME NEW p \in 1..n PROVE r[m + p] = t[p]
    <2>1. m + p \in 1..(m + n) /\ ~(m + p <= m) /\ (m + p) - m = p
        BY <1>1
    <2>2. QED
        BY <1>3, <2>1
<1>6. QED
    BY <1>1, <1>2, <1>4, <1>5 DEF r, m, n

\* FlattenSeq appends the sequences one after the other.
LEMMA FlattenFacts ==
    ASSUME NEW S, NEW seqs \in Seq(Seq(S))
    PROVE  \E g \in [0..Len(seqs) -> Seq(S)] :
              /\ g[0] = <<>>
              /\ \A i \in 1..Len(seqs) : g[i] = g[i - 1] \o seqs[i]
              /\ FlattenSeq(seqs) = g[Len(seqs)]
<1> DEFINE n    == Len(seqs)
           R    == Seq(S)
           base == <<>>
           step == [i \in 1..n |-> [x \in R |-> x \o seqs[i]]]
           Body(f) == [i \in 1..n |-> IF i = 1 THEN seqs[i] ELSE f[i - 1] \o seqs[i]]
           flatten == CHOOSE f : f = Body(f)
<1>1. n \in Nat /\ \A i \in 1..n : seqs[i] \in Seq(S)
    BY LenProperties, ElementOfSeq
<1>2. base \in R
    BY EmptySeq
<1>3. step \in [1..n -> [R -> R]]
    <2>1. \A i \in 1..n, x \in R : x \o seqs[i] \in R
        BY <1>1, ConcatProperties
    <2>2. QED
        BY <2>1
<1> HIDE DEF n
<1>4. PICK g \in [0..n -> R] : g[0] = base /\ \A i \in 1..n : g[i] = step[i][g[i - 1]]
    <2> HIDE DEF step, R, base
    <2>1. n \in Nat
        BY <1>1
    <2>2. QED
        BY <1>2, <1>3, <2>1, Recursion
<1>5. \A i \in 1..n : g[i] = g[i - 1] \o seqs[i]
    <2> SUFFICES ASSUME NEW i \in 1..n PROVE g[i] = g[i - 1] \o seqs[i]
        OBVIOUS
    <2>1. i - 1 \in 0..n
        BY <1>1
    <2>2. g[i] = step[i][g[i - 1]]
        BY <1>4
    <2> HIDE DEF R
    <2>3. g[i - 1] \in R
        BY <2>1
    <2>4. QED
        BY <2>2, <2>3
<1>6. n # 0 => g[1] = seqs[1]
    <2> SUFFICES ASSUME n # 0 PROVE g[1] = seqs[1]
        OBVIOUS
    <2>1. 1 \in 1..n /\ 1 - 1 = 0
        BY <1>1
    <2>2. g[1] = g[0] \o seqs[1] /\ seqs[1] \in Seq(S)
        BY <1>1, <1>5, <2>1
    <2>3. QED
        BY <1>4, <2>2, ConcatEmptySeq
<1>7. flatten = Body(flatten)
    <2> DEFINE h == [i \in 1..n |-> g[i]]
    <2>1. ASSUME NEW i \in 1..n
          PROVE  h[i] = IF i = 1 THEN seqs[i] ELSE h[i - 1] \o seqs[i]
        <3>1. CASE i = 1
            BY <1>6, <3>1
        <3>2. CASE i # 1
            <4>1. i - 1 \in 1..n
                BY <1>1, <3>2
            <4>2. QED
                BY <1>5, <3>2, <4>1
        <3>3. QED
            BY <3>1, <3>2
    <2>2. h = Body(h)
        BY <2>1
    <2> HIDE DEF h, Body
    <2>3. QED
        BY <2>2
<1>8. \A i \in 1..n : flatten[i] = IF i = 1 THEN seqs[i] ELSE flatten[i - 1] \o seqs[i]
    <2> HIDE DEF flatten
    <2>1. QED
        BY <1>7
<1>9. FlattenSeq(seqs) = IF n = 0 THEN seqs ELSE flatten[n]
    BY DEF FlattenSeq, n
<1> HIDE DEF flatten
<1> DEFINE P == {m \in 0..n : m # 0 => flatten[m] = g[m]}
<1>10. \A m \in 0..n : m \in P /\ m < n => m + 1 \in P
    <2> SUFFICES ASSUME NEW m \in 0..n, m \in P, m < n PROVE flatten[m + 1] = g[m + 1]
        BY <1>1
    <2>1. m + 1 \in 1..n /\ (m + 1) - 1 = m /\ (m = 0 <=> m + 1 = 1)
        BY <1>1
    <2>2. g[m + 1] = g[m] \o seqs[m + 1]
        BY <1>5, <2>1
    <2>3. flatten[m + 1] = IF m + 1 = 1 THEN seqs[m + 1] ELSE flatten[m] \o seqs[m + 1]
        BY <1>8, <2>1
    <2>4. CASE m = 0
        BY <1>1, <1>6, <2>1, <2>3, <2>4
    <2>5. CASE m # 0
        BY <2>1, <2>2, <2>3, <2>5
    <2>6. QED
        BY <2>4, <2>5
<1>11. n \in P
    <2>1. 0 \in P /\ n \in 0..n
        BY <1>1
    <2> HIDE DEF P
    <2>2. \A m \in 0..n : m \in P
        BY <1>1, <1>10, <2>1, Induction
    <2>3. QED
        BY <2>1, <2>2
<1>12. FlattenSeq(seqs) = g[n]
    <2>1. CASE n = 0
        <3>1. seqs = <<>>
            BY <2>1, EmptySeq DEF n
        <3>2. QED
            BY <1>4, <1>9, <2>1, <3>1
    <2>2. CASE n # 0
        BY <1>9, <1>11, <2>2
    <2>3. QED
        BY <2>1, <2>2
<1>13. QED
    BY <1>4, <1>5, <1>12 DEF n

\* Sequence i of seqs starts behind start[i - 1] elements of flat.
PlacedAt(start, flat, seqs) ==
    /\ start[0] = 0
    /\ Len(flat) = start[Len(seqs)]
    /\ \A i \in 1..Len(seqs) :
          /\ start[i] = start[i - 1] + Len(seqs[i])
          /\ start[i] <= start[Len(seqs)]
          /\ \A p \in 1..Len(seqs[i]) : flat[start[i - 1] + p] = seqs[i][p]

\* Where each of the sequences starts.
LEMMA FlattenPositions ==
    ASSUME NEW S, NEW seqs \in Seq(Seq(S))
    PROVE  /\ FlattenSeq(seqs) \in Seq(S)
           /\ \E start \in [0..Len(seqs) -> Nat] : PlacedAt(start, FlattenSeq(seqs), seqs)
<1> DEFINE n == Len(seqs)
<1>1. PICK g \in [0..n -> Seq(S)] :
         /\ g[0] = <<>>
         /\ \A i \in 1..n : g[i] = g[i - 1] \o seqs[i]
         /\ FlattenSeq(seqs) = g[n]
    BY FlattenFacts
<1>2. n \in Nat /\ \A i \in 1..n : seqs[i] \in Seq(S) /\ Len(seqs[i]) \in Nat
    BY LenProperties, ElementOfSeq
<1> HIDE DEF n
<1> DEFINE start == [m \in 0..n |-> Len(g[m])]
<1>3. start \in [0..n -> Nat] /\ start[0] = 0 /\ \A m \in 0..n : start[m] = Len(g[m])
    <2>1. \A m \in 0..n : g[m] \in Seq(S)
        BY <1>1
    <2>2. \A m \in 0..n : Len(g[m]) \in Nat
        BY <2>1, LenProperties
    <2>3. 0 \in 0..n /\ Len(<<>>) = 0
        BY <1>2, EmptySeq
    <2>4. QED
        BY <1>1, <2>2, <2>3
<1> HIDE DEF start
<1>4. ASSUME NEW i \in 1..n
      PROVE  /\ i - 1 \in 0..n /\ i \in 0..n
             /\ start[i] = start[i - 1] + Len(seqs[i])
             /\ \A p \in 1..start[i - 1] : g[i][p] = g[i - 1][p]
             /\ \A p \in 1..Len(seqs[i]) : g[i][start[i - 1] + p] = seqs[i][p]
    <2>1. i - 1 \in 0..n /\ i \in 0..n
        BY <1>2
    <2>2. g[i - 1] \in Seq(S) /\ seqs[i] \in Seq(S) /\ g[i] = g[i - 1] \o seqs[i]
        BY <1>1, <1>2, <2>1
    <2>3. start[i] = Len(g[i]) /\ start[i - 1] = Len(g[i - 1]) /\ start[i - 1] \in Nat
        BY <1>3, <2>1
    <2> DEFINE a == g[i - 1]
               b == seqs[i]
    <2>4. a \in Seq(S) /\ b \in Seq(S) /\ g[i] = a \o b /\ start[i - 1] = Len(a)
        BY <2>2, <2>3
    <2> HIDE DEF a, b
    <2>5. /\ Len(a \o b) = Len(a) + Len(b)
          /\ \A p \in 1..Len(a) : (a \o b)[p] = a[p]
          /\ \A p \in 1..Len(b) : (a \o b)[Len(a) + p] = b[p]
        BY <2>4, ConcatPositions
    <2>6. QED
        BY <2>1, <2>3, <2>4, <2>5 DEF a, b
<1> DEFINE Placed(m) == \A i \in 1..m :
                           /\ start[i] <= start[m]
                           /\ \A p \in 1..Len(seqs[i]) : g[m][start[i - 1] + p] = seqs[i][p]
           P == {m \in 0..n : Placed(m)}
<1>5. ASSUME NEW m \in 0..n, m \in P, m < n PROVE m + 1 \in P
    <2>1. m + 1 \in 1..n /\ m + 1 \in 0..n /\ (m + 1) - 1 = m /\ m \in Nat
        BY <1>2, <1>5
    <2>2. /\ start[m + 1] = start[m] + Len(seqs[m + 1])
          /\ \A p \in 1..start[m] : g[m + 1][p] = g[m][p]
          /\ \A p \in 1..Len(seqs[m + 1]) : g[m + 1][start[m] + p] = seqs[m + 1][p]
        <3> HIDE DEF P
        <3>1. QED
            BY <1>4, <2>1
    <2>3. start[m] \in Nat /\ start[m + 1] \in Nat /\ Len(seqs[m + 1]) \in Nat
        BY <1>2, <1>3, <2>1
    <2>4. ASSUME NEW i \in 1..(m + 1)
          PROVE  /\ start[i] <= start[m + 1]
                 /\ \A p \in 1..Len(seqs[i]) : g[m + 1][start[i - 1] + p] = seqs[i][p]
        <3>1. CASE i = m + 1
            BY <2>1, <2>2, <2>3, <3>1
        <3>2. CASE i \in 1..m
            <4>1. i \in 1..n /\ i - 1 \in 0..n
                BY <1>2, <2>1, <3>2
            <4>2. Placed(m)
                BY <1>5
            <4>3. start[i] <= start[m] /\ \A p \in 1..Len(seqs[i]) : g[m][start[i - 1] + p] = seqs[i][p]
                BY <3>2, <4>2
            <4> HIDE DEF P, Placed
            <4> DEFINE a == start[i - 1]
                       b == start[i]
                       c == start[m]
                       k == Len(seqs[i])
            <4>4. b = a + k /\ b \in Nat /\ a \in Nat /\ k \in Nat /\ c \in Nat /\ b <= c
                BY <1>2, <1>3, <1>4, <2>3, <4>1, <4>3
            <4>5. b <= start[m + 1]
                <5> HIDE DEF a, b, k
                <5>1. QED
                    BY <2>2, <2>3, <4>4
            <4>6. \A p \in 1..k : a + p \in 1..c
                <5> HIDE DEF a, b, c, k
                <5>1. QED
                    BY <4>4
            <4>7. QED
                BY <2>2, <4>3, <4>5, <4>6
        <3>3. QED
            <4>1. i = m + 1 \/ i \in 1..m
                BY <2>1
            <4> HIDE DEF P, Placed
            <4>2. QED
                BY <3>1, <3>2, <4>1
    <2>5. QED
        BY <2>1, <2>4
<1>6. n \in P
    <2>1. 0 \in P /\ n \in 0..n
        BY <1>2
    <2> HIDE DEF P
    <2>2. \A m \in 0..n : m \in P
        BY <1>2, <1>5, <2>1, Induction
    <2>3. QED
        BY <2>1, <2>2
<1>7. g[n] \in Seq(S) /\ Len(g[n]) = start[n]
    BY <1>1, <1>2, <1>3
<1>8. Placed(n)
    BY <1>6
<1> HIDE DEF P
<1>9. PlacedAt(start, g[n], seqs)
    <2>1. Len(seqs) = n
        BY DEF n
    <2>2. QED
        BY <1>3, <1>4, <1>7, <1>8, <2>1 DEF PlacedAt
<1>10. start \in [0..Len(seqs) -> Nat]
    BY <1>3 DEF n
<1>11. QED
    BY <1>1, <1>7, <1>9, <1>10
=============================================================================
