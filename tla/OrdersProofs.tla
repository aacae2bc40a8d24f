---------------------------- MODULE OrdersProofs ----------------------------
(***************************************************************************)
(* Lemmas about sorting and flattening sequences.  Those by induction take *)
(* the least counterexample: a set of naturals that has an element has a   *)
(* least one.                                                              *)
(***************************************************************************)
EXTENDS Orders, SequencesExt, FiniteSetTheorems, WellFoundedInduction, TLAPS

\* R orders S strictly and totally.
StrictOrder(S, R) ==
    /\ \A i \in S : <<i, i>> \notin R
    /\ \A i, j, k \in S : <<i, j>> \in R /\ <<j, k>> \in R => <<i, k>> \in R
    /\ \A i, j \in S : i # j => <<i, j>> \in R \/ <<j, i>> \in R

Increasing(s, R) == \A j, k \in DOMAIN s : j < k => <<s[j], s[k]>> \in R

-----------------------------------------------------------------------------
(* Numbers. *)

Smaller == {ss \in Nat \X Nat : ss[1] < ss[2]}

LEMMA Least ==
    ASSUME NEW T \in SUBSET Nat, T # {}
    PROVE  \E x \in T : \A y \in T : x <= y
<1>1. OpToRel(<, Nat) = Smaller
  BY DEF OpToRel, Smaller
<1>2. IsWellFoundedOn(Smaller, Nat)
  BY <1>1, NatLessThanWellFounded, Zenon
<1>3. PICK x \in T : \A y \in T : ~(<<y, x>> \in Smaller)
  BY <1>2, WFMin, Zenon
<1>4. ASSUME NEW y \in T, y < x
      PROVE  FALSE
  <2>1. <<y, x>> \in Smaller
    BY <1>4 DEF Smaller
  <2> QED  BY <1>3, <2>1
<1>5. \A y \in T : x <= y
  BY <1>4
<1> QED  BY <1>5

-----------------------------------------------------------------------------
(* Lexical order. *)

\* Two tuples of the same length that differ do so first in one key.
LEMMA LexicalIsTotal ==
    ASSUME NEW n \in Nat, NEW u \in [1..n -> Int], NEW v \in [1..n -> Int], u # v
    PROVE  Lexical(u, v) \/ Lexical(v, u)
<1> DEFINE D == {k \in 1..n : u[k] # v[k]}
<1>1. D # {} /\ D \in SUBSET Nat
  OBVIOUS
<1>2. PICK k \in D : \A m \in D : k <= m
  <2> HIDE DEF D
  <2> QED  BY <1>1, Least
<1>3. \A m \in 1..k - 1 : u[m] = v[m]
  BY <1>2
<1>4. u[k] < v[k] \/ v[k] < u[k]
  BY <1>2
<1> QED  BY <1>2, <1>3, <1>4 DEF Lexical

LEMMA LexicalIsTransitive ==
    ASSUME NEW n \in Nat,
           NEW u \in [1..n -> Int], NEW v \in [1..n -> Int], NEW w \in [1..n -> Int],
           Lexical(u, v), Lexical(v, w)
    PROVE  Lexical(u, w)
<1>1. PICK k \in 1..n : u[k] < v[k] /\ \A m \in 1..k - 1 : u[m] = v[m]
  BY DEF Lexical
<1>2. PICK l \in 1..n : v[l] < w[l] /\ \A m \in 1..l - 1 : v[m] = w[m]
  BY DEF Lexical
<1>3. CASE k <= l
  <2>1. u[k] < w[k]
    BY <1>1, <1>2, <1>3, SMTT(30)
  <2>2. \A m \in 1..k - 1 : u[m] = w[m]
    BY <1>1, <1>2, <1>3
  <2> QED  BY <2>1, <2>2 DEF Lexical
<1>4. CASE l < k
  <2>1. u[l] < w[l]
    BY <1>1, <1>2, <1>4
  <2>2. \A m \in 1..l - 1 : u[m] = w[m]
    BY <1>1, <1>2, <1>4
  <2> QED  BY <2>1, <2>2 DEF Lexical
<1> QED  BY <1>3, <1>4

LEMMA LexicalIsIrreflexive ==
    ASSUME NEW n \in Nat, NEW u \in [1..n -> Int]
    PROVE  ~Lexical(u, u)
BY DEF Lexical

\* Keys that differ order what they are the keys of.
LEMMA LexicalOrdersKeys ==
    ASSUME NEW S, NEW n \in Nat, NEW key \in [S -> [1..n -> Int]],
           \A i, j \in S : i # j => key[i] # key[j]
    PROVE  StrictOrder(S, {r \in S \X S : Lexical(key[r[1]], key[r[2]])})
<1> DEFINE R == {r \in S \X S : Lexical(key[r[1]], key[r[2]])}
<1>1. \A i, j \in S : <<i, j>> \in R <=> Lexical(key[i], key[j])
  OBVIOUS
<1> HIDE DEF R
<1>2. \A i \in S : <<i, i>> \notin R
  BY <1>1, LexicalIsIrreflexive
<1>3. ASSUME NEW i \in S, NEW j \in S, NEW k \in S, <<i, j>> \in R, <<j, k>> \in R
      PROVE  <<i, k>> \in R
  <2>1. Lexical(key[i], key[j]) /\ Lexical(key[j], key[k])
    BY <1>1, <1>3
  <2>2. Lexical(key[i], key[k])
    BY <2>1, LexicalIsTransitive
  <2> QED  BY <1>1, <2>2
<1>4. \A i, j \in S : i # j => <<i, j>> \in R \/ <<j, i>> \in R
  BY <1>1, LexicalIsTotal
<1> QED  BY <1>2, <1>3, <1>4 DEF StrictOrder, R

-----------------------------------------------------------------------------
(* Sorting. *)

LEMMA AheadGrows ==
    ASSUME NEW S, IsFiniteSet(S), NEW R, StrictOrder(S, R),
           NEW i \in S, NEW j \in S, <<i, j>> \in R
    PROVE  Cardinality(Ahead(S, R, i)) < Cardinality(Ahead(S, R, j))
<1> DEFINE A == Ahead(S, R, i)
           B == Ahead(S, R, j)
<1>1. A \subseteq S /\ B \subseteq S
  BY DEF Ahead
<1>2. i \notin A /\ i \in B /\ A \subseteq B
  BY DEF Ahead, StrictOrder
<1>3. IsFiniteSet(A) /\ IsFiniteSet(B)
  BY <1>1, FS_Subset
<1> HIDE DEF A, B
<1>4. Cardinality(A \union {i}) = Cardinality(A) + 1
  BY <1>2, <1>3, FS_AddElement
<1>5. Cardinality(A \union {i}) <= Cardinality(B)
  <2>1. A \union {i} \in SUBSET B
    BY <1>2
  <2> QED  BY <1>3, <2>1, FS_Subset
<1>6. Cardinality(A) \in Nat /\ Cardinality(B) \in Nat
  BY <1>3, FS_CardinalityType
<1> QED  BY <1>4, <1>5, <1>6 DEF A, B

\* Sorted lists every element of S once, in the order R.
LEMMA SortedEnumerates ==
    ASSUME NEW S, IsFiniteSet(S), NEW R, StrictOrder(S, R)
    PROVE  LET s == Sorted(S, R)
           IN  /\ Cardinality(S) \in Nat
               /\ s \in [1..Cardinality(S) -> S]
               /\ s \in Seq(S) /\ Len(s) = Cardinality(S)
               /\ \A i \in S : \E k \in DOMAIN s : s[k] = i
               /\ Increasing(s, R)
<1> DEFINE s == Sorted(S, R)
           n == Cardinality(S)
           place(i) == Cardinality(Ahead(S, R, i)) + 1
           f == [i \in S |-> place(i)]
<1>1. n \in Nat
  BY FS_CardinalityType
<1>2. \A i \in S : place(i) \in 1..n
  <2> SUFFICES ASSUME NEW i \in S
               PROVE  place(i) \in 1..n
    OBVIOUS
  <2>1. Ahead(S, R, i) \in SUBSET (S \ {i})
    BY DEF Ahead, StrictOrder
  <2>2. IsFiniteSet(S \ {i}) /\ Cardinality(S \ {i}) = n - 1
    BY FS_RemoveElement
  <2>3. Cardinality(Ahead(S, R, i)) \in Nat /\ Cardinality(Ahead(S, R, i)) <= n - 1
    BY <2>1, <2>2, FS_Subset, FS_CardinalityType
  <2> QED  BY <1>1, <2>3
<1>3. \A i, j \in S : <<i, j>> \in R => place(i) < place(j)
  <2> SUFFICES ASSUME NEW i \in S, NEW j \in S, <<i, j>> \in R
               PROVE  place(i) < place(j)
    OBVIOUS
  <2>1. place(i) \in Int /\ place(j) \in Int
    BY <1>2
  <2>2. Cardinality(Ahead(S, R, i)) < Cardinality(Ahead(S, R, j))
    BY AheadGrows
  <2>3. /\ Cardinality(Ahead(S, R, i)) \in Nat
        /\ Cardinality(Ahead(S, R, j)) \in Nat
    <3>1. Ahead(S, R, i) \in SUBSET S /\ Ahead(S, R, j) \in SUBSET S
      BY DEF Ahead
    <3> QED  BY <3>1, FS_Subset, FS_CardinalityType
  <2> QED  BY <2>2, <2>3
<1> HIDE DEF place
<1>4. f \in Injection(S, 1..n)
  <2>1. ASSUME NEW i \in S, NEW j \in S, i # j
        PROVE  place(i) # place(j)
    <3>1. place(i) \in Int /\ place(j) \in Int
      BY <1>2
    <3>2. <<i, j>> \in R \/ <<j, i>> \in R
      BY <2>1 DEF StrictOrder
    <3> QED  BY <1>3, <3>1, <3>2
  <2> QED  BY <1>2, <2>1 DEF Injection, IsInjective
<1>5. f \in Surjection(S, 1..n)
  <2>1. IsFiniteSet(1..n) /\ Cardinality(1..n) = n
    BY <1>1, FS_Interval
  <2> QED  BY <1>4, <2>1, FS_Injection
<1>6. \A k \in 1..n : s[k] \in S /\ place(s[k]) = k
  <2> SUFFICES ASSUME NEW k \in 1..n
               PROVE  s[k] \in S /\ place(s[k]) = k
    OBVIOUS
  <2>1. PICK i \in S : place(i) = k
    BY <1>5 DEF Surjection
  <2>2. \A j \in S : place(j) = k <=> Cardinality(Ahead(S, R, j)) = k - 1
    <3>1. \A j \in S : Cardinality(Ahead(S, R, j)) \in Nat
      <4>1. \A j \in S : Ahead(S, R, j) \in SUBSET S
        BY DEF Ahead
      <4> QED  BY <4>1, FS_Subset, FS_CardinalityType
    <3> QED  BY <3>1 DEF place
  <2>3. s[k] = CHOOSE j \in S : Cardinality(Ahead(S, R, j)) = k - 1
    BY Zenon DEF Sorted
  <2> QED  BY <2>1, <2>2, <2>3
<1>7. s \in [1..n -> S]
  <2>1. s = [k \in 1..n |-> s[k]]
    BY DEF Sorted
  <2> HIDE DEF s
  <2> QED  BY <1>6, <2>1
<1> HIDE DEF s, n
<1>8. \A i \in S : \E k \in 1..n : s[k] = i
  <2> SUFFICES ASSUME NEW i \in S
               PROVE  s[place(i)] = i /\ place(i) \in 1..n
    OBVIOUS
  <2>1. place(i) \in 1..n
    BY <1>2
  <2>2. s[place(i)] \in S /\ place(s[place(i)]) = place(i)
    BY <1>6, <2>1
  <2> QED  BY <1>4, <2>1, <2>2 DEF Injection, IsInjective
<1>9. \A j, k \in 1..n : j < k => <<s[j], s[k]>> \in R
  <2> SUFFICES ASSUME NEW j \in 1..n, NEW k \in 1..n, j < k, <<s[j], s[k]>> \notin R
               PROVE  FALSE
    OBVIOUS
  <2>1. s[j] \in S /\ s[k] \in S /\ place(s[j]) = j /\ place(s[k]) = k
    BY <1>6
  <2>2. s[j] # s[k]
    BY <2>1
  <2>3. <<s[k], s[j]>> \in R
    BY <2>1, <2>2 DEF StrictOrder
  <2> QED  BY <1>3, <2>1, <2>3
<1>10. s \in Seq(S) /\ Len(s) = n /\ DOMAIN s = 1..n
  BY <1>1, <1>7
<1> QED  BY <1>1, <1>7, <1>8, <1>9, <1>10 DEF Increasing, s, n

\* An increasing sequence repeats nothing.
LEMMA IncreasingIsInjective ==
    ASSUME NEW S, NEW s \in Seq(S), NEW R,
           \A i \in S : <<i, i>> \notin R, Increasing(s, R)
    PROVE  IsFiniteSet(ToSet(s)) /\ Len(s) = Cardinality(ToSet(s))
<1> DEFINE n == Len(s)
           T == ToSet(s)
<1>1. n \in Nat /\ DOMAIN s = 1..n
  OBVIOUS
<1>2. T = {s[i] : i \in 1..n} /\ T \subseteq S
  BY <1>1 DEF ToSet
<1>3. \A j, k \in 1..n : s[j] = s[k] => j = k
  <2>1. \A j, k \in 1..n : j < k => s[j] # s[k]
    BY <1>1, <1>2 DEF Increasing
  <2> QED  BY <1>1, <2>1
<1>4. s \in Surjection(1..n, T) /\ s \in Injection(1..n, T)
  <2>1. s \in [1..n -> T]
    BY <1>1, <1>2
  <2> QED  BY <1>2, <1>3, <2>1 DEF Surjection, Injection, IsInjective
<1>5. IsFiniteSet(1..n) /\ Cardinality(1..n) = n
  BY <1>1, FS_Interval, SMTT(30)
<1> QED  BY <1>4, <1>5, FS_Surjection

-----------------------------------------------------------------------------
(* Flattening. *)

\* The first n sequences of ss, flattened one after another.
Flattens(f, ss, n) ==
    f = [i \in 1..n |-> IF i = 1 THEN ss[i] ELSE f[i - 1] \o ss[i]]

LEMMA FlattensUpTo ==
    ASSUME NEW ss, NEW n \in Nat \ {0}
    PROVE  \E f : Flattens(f, ss, n)
<1> DEFINE Bad == {m \in Nat \ {0} : ~\E f : Flattens(f, ss, m)}
<1>1. SUFFICES ASSUME Bad # {}
               PROVE  FALSE
  OBVIOUS
<1>2. PICK m \in Bad : \A k \in Bad : m <= k
  <2>1. Bad \in SUBSET Nat
    OBVIOUS
  <2> HIDE DEF Bad
  <2> QED  BY <1>1, <2>1, Least
<1>3. CASE m = 1
  <2> DEFINE f == [i \in 1..1 |-> ss[i]]
  <2>1. Flattens(f, ss, 1)
    BY DEF Flattens
  <2> QED  BY <1>2, <1>3, <2>1
<1>4. CASE m # 1
  <2>1. m \in Nat /\ m > 1
    BY <1>2, <1>4
  <2>2. m - 1 \notin Bad
    BY <1>2, <2>1
  <2>3. PICK g : Flattens(g, ss, m - 1)
    BY <2>1, <2>2
  <2> DEFINE f == [i \in 1..m |-> IF i = m THEN g[m - 1] \o ss[m] ELSE g[i]]
  <2>4. \A i \in 1..m - 1 : g[i] = IF i = 1 THEN ss[i] ELSE g[i - 1] \o ss[i]
    BY <2>3 DEF Flattens
  <2>5. \A i \in 1..m : f[i] = IF i = 1 THEN ss[i] ELSE f[i - 1] \o ss[i]
    BY <2>1, <2>4
  <2>6. Flattens(f, ss, m)
    <3>1. f = [i \in 1..m |-> f[i]]
      OBVIOUS
    <3> HIDE DEF f
    <3> QED  BY <2>5, <3>1 DEF Flattens
  <2> QED  BY <1>2, <2>6
<1> QED  BY <1>3, <1>4

LEMMA FlattenSeqFlattens ==
    ASSUME NEW ss, Len(ss) \in Nat \ {0}
    PROVE  \E f : Flattens(f, ss, Len(ss)) /\ FlattenSeq(ss) = f[Len(ss)]
<1> DEFINE f == CHOOSE f : Flattens(f, ss, Len(ss))
<1>1. Flattens(f, ss, Len(ss))
  BY FlattensUpTo
<1>2. FlattenSeq(ss) = f[Len(ss)]
  BY Zenon DEF FlattenSeq, Flattens
<1> QED  BY <1>1, <1>2

LEMMA ConcatIncreases ==
    ASSUME NEW T, NEW R, NEW u \in Seq(T), NEW v \in Seq(T),
           Increasing(u, R), Increasing(v, R),
           \A x \in ToSet(u), y \in ToSet(v) : <<x, y>> \in R
    PROVE  /\ u \o v \in Seq(T) /\ Increasing(u \o v, R)
           /\ ToSet(u \o v) = ToSet(u) \union ToSet(v)
<1> DEFINE w == u \o v
           a == Len(u)
           b == Len(v)
<1>1. /\ a \in Nat /\ b \in Nat /\ DOMAIN u = 1..a /\ DOMAIN v = 1..b
      /\ w \in Seq(T) /\ DOMAIN w = 1..a + b
      /\ \A k \in 1..a : w[k] = u[k]
      /\ \A k \in a + 1..a + b : w[k] = v[k - a]
  OBVIOUS
<1> HIDE DEF w, a, b
<1>2. \A k \in 1..b : a + k \in DOMAIN w /\ w[a + k] = v[k]
  BY <1>1
<1>3. ToSet(w) = ToSet(u) \union ToSet(v)
  <2>1. ToSet(u) \subseteq ToSet(w)
    BY <1>1 DEF ToSet
  <2>2. ToSet(v) \subseteq ToSet(w)
    BY <1>1, <1>2, SMTT(30) DEF ToSet
  <2>3. ToSet(w) \subseteq ToSet(u) \union ToSet(v)
    <3> SUFFICES ASSUME NEW k \in DOMAIN w
                 PROVE  w[k] \in ToSet(u) \union ToSet(v)
      BY DEF ToSet
    <3>1. CASE k <= a
      BY <1>1, <3>1 DEF ToSet
    <3>2. CASE k > a
      <4>1. k - a \in 1..b /\ w[k] = v[k - a]
        BY <1>1, <3>2
      <4> QED  BY <1>1, <4>1 DEF ToSet
    <3> QED  BY <1>1, <3>1, <3>2
  <2> QED  BY <2>1, <2>2, <2>3
<1>4. Increasing(w, R)
  <2> SUFFICES ASSUME NEW j \in DOMAIN w, NEW k \in DOMAIN w, j < k
               PROVE  <<w[j], w[k]>> \in R
    BY DEF Increasing
  <2>1. CASE k <= a
    <3>1. j \in DOMAIN u /\ k \in DOMAIN u /\ w[j] = u[j] /\ w[k] = u[k]
      BY <1>1, <2>1
    <3> QED  BY <3>1 DEF Increasing
  <2>2. CASE j <= a /\ k > a
    <3>1. k - a \in DOMAIN v /\ w[j] = u[j] /\ w[k] = v[k - a] /\ j \in DOMAIN u
      BY <1>1, <2>2
    <3> QED  BY <3>1 DEF ToSet
  <2>3. CASE j > a
    <3>1. /\ j - a \in DOMAIN v /\ k - a \in DOMAIN v /\ j - a < k - a
          /\ w[j] = v[j - a] /\ w[k] = v[k - a]
      BY <1>1, <2>3
    <3> QED  BY <3>1 DEF Increasing
  <2> QED  BY <1>1, <2>1, <2>2, <2>3
<1> QED  BY <1>1, <1>3, <1>4 DEF w

\* What the first n sequences of ss have flattened to.
FlatSoFar(f, ss, T, R, n) ==
    /\ f[n] \in Seq(T) /\ Increasing(f[n], R)
    /\ ToSet(f[n]) = UNION {ToSet(ss[p]) : p \in 1..n}

\* Increasing sequences that follow each other in the order flatten to an
\* increasing sequence of all their elements.
LEMMA FlattenIncreases ==
    ASSUME NEW T, NEW R, NEW ss \in Seq(Seq(T)),
           \A p \in DOMAIN ss : Increasing(ss[p], R),
           \A p, q \in DOMAIN ss : p < q =>
               \A x \in ToSet(ss[p]), y \in ToSet(ss[q]) : <<x, y>> \in R
    PROVE  /\ FlattenSeq(ss) \in Seq(T) /\ Increasing(FlattenSeq(ss), R)
           /\ ToSet(FlattenSeq(ss)) = UNION {ToSet(ss[p]) : p \in DOMAIN ss}
<1>1. PICK N \in Nat : /\ N = Len(ss) /\ DOMAIN ss = 1..N
                      /\ \A p \in 1..N : ss[p] \in Seq(T)
  OBVIOUS
<1>2. CASE N = 0
  <2>1. FlattenSeq(ss) = ss /\ ss = << >>
    BY <1>1, <1>2 DEF FlattenSeq
  <2> QED  BY <2>1 DEF Increasing, ToSet
<1>3. CASE N # 0
  <2>1. PICK f : Flattens(f, ss, N) /\ FlattenSeq(ss) = f[N]
    BY <1>1, <1>3, FlattenSeqFlattens
  <2>2. \A i \in 1..N : f[i] = IF i = 1 THEN ss[i] ELSE f[i - 1] \o ss[i]
    BY <2>1 DEF Flattens
  <2> DEFINE Bad == {i \in 1..N : ~FlatSoFar(f, ss, T, R, i)}
  <2>3. SUFFICES ASSUME Bad # {}
                 PROVE  FALSE
    <3>1. N \in 1..N /\ N \notin Bad => FlatSoFar(f, ss, T, R, N)
      OBVIOUS
    <3>2. N \in 1..N
      BY <1>3
    <3> HIDE DEF Bad
    <3> QED  BY <1>1, <2>1, <3>1, <3>2 DEF FlatSoFar
  <2>4. PICK i \in Bad : \A k \in Bad : i <= k
    <3>1. Bad \in SUBSET Nat
      OBVIOUS
    <3> HIDE DEF Bad
    <3> QED  BY <2>3, <3>1, Least
  <2>5. i \in 1..N /\ ~FlatSoFar(f, ss, T, R, i)
    BY <2>4
  <2>6. \A k \in 1..i - 1 : FlatSoFar(f, ss, T, R, k)
    BY <2>4
  <2> HIDE DEF Bad
  <2>7. CASE i = 1
    <3>1. f[1] = ss[1]
      BY <2>2, <2>5, <2>7
    <3>2. UNION {ToSet(ss[p]) : p \in 1..1} = ToSet(ss[1])
      BY Z3
    <3> QED  BY <1>1, <2>5, <2>7, <3>1, <3>2 DEF FlatSoFar
  <2>8. CASE i # 1
    <3>1. i - 1 \in 1..i - 1 /\ i \in DOMAIN ss
      BY <1>1, <2>5, <2>8
    <3>2. FlatSoFar(f, ss, T, R, i - 1)
      BY <2>6, <3>1
    <3>3. f[i] = f[i - 1] \o ss[i]
      BY <2>2, <2>5, <2>8
    <3>4. \A x \in ToSet(f[i - 1]), y \in ToSet(ss[i]) : <<x, y>> \in R
      <4>1. \A p \in 1..i - 1 : p \in DOMAIN ss /\ p < i
        BY <1>1, <2>5
      <4>2. \A x \in ToSet(f[i - 1]) : \E p \in 1..i - 1 : x \in ToSet(ss[p])
        BY <3>2 DEF FlatSoFar
      <4> QED  BY <3>1, <4>1, <4>2
    <3>5. ss[i] \in Seq(T) /\ Increasing(ss[i], R)
      BY <1>1, <3>1
    <3>6. f[i - 1] \in Seq(T) /\ Increasing(f[i - 1], R)
      BY <3>2 DEF FlatSoFar
    <3>7. /\ f[i] \in Seq(T) /\ Increasing(f[i], R)
          /\ ToSet(f[i]) = ToSet(f[i - 1]) \union ToSet(ss[i])
      BY <3>3, <3>4, <3>5, <3>6, ConcatIncreases
    <3>8. UNION {ToSet(ss[p]) : p \in 1..i}
            = (UNION {ToSet(ss[p]) : p \in 1..i - 1}) \union ToSet(ss[i])
      <4>1. \A p : p \in 1..i <=> p \in 1..i - 1 \/ p = i
        BY <2>5
      <4> QED  BY <4>1
    <3> QED  BY <2>5, <3>2, <3>7, <3>8 DEF FlatSoFar
  <2> QED  BY <2>7, <2>8
<1> QED  BY <1>2, <1>3
=============================================================================
