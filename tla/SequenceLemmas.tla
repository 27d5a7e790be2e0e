--------------------------- MODULE SequenceLemmas ---------------------------
(* What the proofs need of the community modules' operators on sequences.    *)
EXTENDS Integers, Sequences, SequencesExt, SequenceTheorems, FiniteSetTheorems,
        WellFoundedInduction, TLAPS

-----------------------------------------------------------------------------
(* Concatenation of sequences.                                             *)

\* Induction on 1..n: a set that has 1 and the successor of each of its members
\* has them all.
LEMMA Climb ==
    ASSUME NEW n \in Nat, NEW P, n > 0 => 1 \in P,
           \A i \in 1..n : i < n /\ i \in P => i + 1 \in P
    PROVE  1..n \subseteq P
  <1> DEFINE T == (1..n) \ P
  <1>1. SUFFICES ASSUME T # {} PROVE FALSE
    OBVIOUS
  <1>2. \E x \in T : \A y \in T : ~(<<y, x>> \in OpToRel(<, Nat))
    <2>1. T \subseteq Nat
      OBVIOUS
    <2> HIDE DEF T
    <2> QED
      BY <1>1, <2>1, NatLessThanWellFounded, WFMin
  <1>3. PICK x \in T : \A y \in T : ~(<<y, x>> \in OpToRel(<, Nat))
    BY <1>2
  <1>4. x # 1 /\ x \in 1..n
    OBVIOUS
  <1>5. x - 1 \in 1..n /\ x - 1 < n
    BY <1>4
  <1>6. x - 1 \notin T
    <2>1. <<x - 1, x>> \in OpToRel(<, Nat)
      BY <1>5 DEF OpToRel
    <2> QED
      BY <1>3, <2>1
  <1> QED
    BY <1>4, <1>5, <1>6

\* The beginnings of the concatenation of ss.
Flattens(X, ss, n) ==
    {F \in [1..n -> Seq(X)] :
       \A i \in 1..n : F[i] = IF i = 1 THEN ss[i] ELSE F[i - 1] \o ss[i]}

LEMMA FlattensExist ==
    ASSUME NEW X, NEW ss \in Seq(Seq(X))
    PROVE  Len(ss) > 0 => \E F : F \in Flattens(X, ss, Len(ss))
  <1> DEFINE n == Len(ss)
             P == {m \in 1..n : \E F : F \in Flattens(X, ss, m)}
  <1>0. n \in Nat
    OBVIOUS
  <1>1. n > 0 => 1 \in P
    <2>1. SUFFICES ASSUME n > 0 PROVE [i \in 1..1 |-> ss[i]] \in Flattens(X, ss, 1)
      OBVIOUS
    <2>2. ss[1] \in Seq(X)
      BY <2>1
    <2> QED
      BY <2>2 DEF Flattens
  <1>2. ASSUME NEW m \in 1..n, m < n, m \in P PROVE m + 1 \in P
    <2>1. PICK F : F \in Flattens(X, ss, m)
      BY <1>2
    <2>2. /\ F \in [1..m -> Seq(X)]
          /\ \A i \in 1..m : F[i] = IF i = 1 THEN ss[i] ELSE F[i - 1] \o ss[i]
      BY <2>1 DEF Flattens
    <2> DEFINE g == F[m] \o ss[m + 1]
               G == [i \in 1..(m + 1) |-> IF i <= m THEN F[i] ELSE g]
    <2>3. m \in Nat /\ m + 1 \in 1..n /\ m \in 1..m
      BY <1>0, <1>2
    <2>4. F[m] \in Seq(X) /\ ss[m + 1] \in Seq(X)
      BY <2>2, <2>3
    <2>5. g \in Seq(X)
      BY <2>4
    <2> HIDE DEF g
    <2>6. G \in [1..(m + 1) -> Seq(X)]
      BY <2>2, <2>3, <2>5
    <2>7. ASSUME NEW i \in 1..(m + 1)
          PROVE  G[i] = IF i = 1 THEN ss[i] ELSE G[i - 1] \o ss[i]
      <3>1. CASE i = m + 1
        BY <2>3, <3>1 DEF g
      <3>2. CASE i <= m
        <4>1. i \in 1..m /\ (i # 1 => i - 1 \in 1..m /\ i - 1 <= m /\ i - 1 \in 1..(m + 1))
          BY <2>3, <3>2
        <4>2. G[i] = F[i] /\ (i # 1 => G[i - 1] = F[i - 1])
          BY <4>1
        <4> HIDE DEF G
        <4>3. F[i] = IF i = 1 THEN ss[i] ELSE F[i - 1] \o ss[i]
          BY <2>2, <4>1
        <4> QED
          BY <4>2, <4>3
      <3> QED
        BY <2>3, <3>1, <3>2
    <2> HIDE DEF G
    <2>8. G \in Flattens(X, ss, m + 1)
      BY <2>6, <2>7 DEF Flattens
    <2> QED
      BY <2>3, <2>8
  <1>3. 1..n \subseteq P
    <2> HIDE DEF P, n
    <2> QED
      BY <1>0, <1>1, <1>2, Climb
  <1>4. n > 0 => n \in P
    BY <1>0, <1>3
  <1> QED
    BY <1>4

\* A function that a recursive definition chooses satisfies its equation.
LEMMA Unfold ==
    ASSUME NEW S, NEW ss, NEW f,
           f = [i \in S |-> IF i = 1 THEN ss[i] ELSE f[i - 1] \o ss[i]]
    PROVE  DOMAIN f = S /\ \A i \in S : f[i] = IF i = 1 THEN ss[i] ELSE f[i - 1] \o ss[i]
  BY Zenon

\* What FlattenSeq returns.
LEMMA FlattenFacts ==
    ASSUME NEW X, NEW ss \in Seq(Seq(X)), Len(ss) > 0
    PROVE  \E F \in Flattens(X, ss, Len(ss)) : FlattenSeq(ss) = F[Len(ss)]
  <1> DEFINE n == Len(ss)
             F == CHOOSE f : f = [i \in 1..n |-> IF i = 1 THEN ss[i] ELSE f[i - 1] \o ss[i]]
  <1>1. n \in Nat
    OBVIOUS
  <1>2. FlattenSeq(ss) = F[n]
    BY DEF FlattenSeq
  <1>3. F = [i \in 1..n |-> IF i = 1 THEN ss[i] ELSE F[i - 1] \o ss[i]]
    <2>1. PICK G : G \in Flattens(X, ss, n)
      BY FlattensExist
    <2>2. G = [i \in 1..n |-> IF i = 1 THEN ss[i] ELSE G[i - 1] \o ss[i]]
      BY <2>1 DEF Flattens
    <2> HIDE DEF n
    <2> QED
      BY <2>2, Zenon
  <1> HIDE DEF F
  <1>4. DOMAIN F = 1..n /\ \A i \in 1..n : F[i] = IF i = 1 THEN ss[i] ELSE F[i - 1] \o ss[i]
    BY <1>3, Unfold
  <1>5. F = [i \in 1..n |-> F[i]]
    BY <1>3, Zenon
  <1> DEFINE P == {i \in 1..n : F[i] \in Seq(X)}
  <1>6. 1..n \subseteq P
    <2>0. \A i \in 1..n : ss[i] \in Seq(X)
      OBVIOUS
    <2> HIDE DEF n
    <2>1. n > 0 => 1 \in P
      <3>1. n > 0 => 1 \in 1..n
        BY <1>1
      <3>2. n > 0 => F[1] = ss[1]
        BY <1>4, <3>1
      <3> QED
        BY <2>0, <3>1, <3>2
    <2>2. ASSUME NEW i \in 1..n, i < n, i \in P PROVE i + 1 \in P
      <3>1. i + 1 \in 1..n /\ i + 1 # 1 /\ (i + 1) - 1 = i
        BY <1>1, <2>2
      <3>2. F[i + 1] = F[i] \o ss[i + 1]
        BY <1>4, <3>1
      <3>3. F[i + 1] \in Seq(X)
        BY <2>0, <2>2, <3>1, <3>2
      <3> QED
        BY <3>1, <3>3
    <2> HIDE DEF P
    <2> QED
      BY <1>1, <2>1, <2>2, Climb
  <1>7. F \in [1..n -> Seq(X)]
    BY <1>5, <1>6
  <1>8. F \in Flattens(X, ss, n)
    BY <1>4, <1>7 DEF Flattens
  <1> QED
    BY <1>2, <1>8

\* g does not tell p and q apart.
Alike(g, p, q) == Len(q) = Len(p) /\ \A j \in 1..Len(p) : g[q[j]] = g[p[j]]

LEMMA ConcatAlike ==
    ASSUME NEW X, NEW p \in Seq(X), NEW q \in Seq(X), NEW r \in Seq(X), NEW s \in Seq(X),
           NEW g, Alike(g, p, q), Alike(g, r, s)
    PROVE  Alike(g, p \o r, q \o s)
  <1> DEFINE u == p \o r
             v == q \o s
  <1>1. /\ Len(p) \in Nat /\ Len(r) \in Nat /\ Len(u) = Len(p) + Len(r)
        /\ \A j \in 1..Len(p) + Len(r) : u[j] = IF j <= Len(p) THEN p[j] ELSE r[j - Len(p)]
    BY ConcatProperties
  <1>2. /\ Len(v) = Len(q) + Len(s)
        /\ \A j \in 1..Len(q) + Len(s) : v[j] = IF j <= Len(q) THEN q[j] ELSE s[j - Len(q)]
    BY ConcatProperties
  <1>3. /\ Len(q) = Len(p) /\ Len(s) = Len(r)
        /\ \A j \in 1..Len(p) : g[q[j]] = g[p[j]]
        /\ \A j \in 1..Len(r) : g[s[j]] = g[r[j]]
    BY DEF Alike
  <1> HIDE DEF u, v
  <1>4. ASSUME NEW j \in 1..Len(u) PROVE g[v[j]] = g[u[j]]
    <2>1. CASE j <= Len(p)
      <3>1. j \in 1..Len(p) /\ j \in 1..Len(p) + Len(r)
        BY <1>1, <2>1
      <3> QED
        BY <1>1, <1>2, <1>3, <2>1, <3>1
    <2>2. CASE ~(j <= Len(p))
      <3>1. j - Len(p) \in 1..Len(r) /\ j \in 1..Len(p) + Len(r)
        BY <1>1, <2>2
      <3>2. u[j] = r[j - Len(p)]
        BY <1>1, <2>2, <3>1
      <3>3. v[j] = s[j - Len(p)]
        BY <1>2, <1>3, <2>2, <3>1
      <3> QED
        BY <1>3, <3>1, <3>2, <3>3
    <2> QED
      BY <2>1, <2>2
  <1>5. Alike(g, u, v)
    BY <1>1, <1>2, <1>3, <1>4 DEF Alike
  <1> QED
    BY <1>5 DEF u, v

\* Sequences of one shape that g does not tell apart are concatenated to
\* sequences that g does not tell apart.
LEMMA FlattenAlike ==
    ASSUME NEW X, NEW d \in Seq(Seq(X)), NEW e \in Seq(Seq(X)), Len(d) > 0, Len(e) = Len(d),
           NEW g, \A i \in 1..Len(d) : Alike(g, d[i], e[i])
    PROVE  /\ FlattenSeq(d) \in Seq(X) /\ FlattenSeq(e) \in Seq(X)
           /\ Alike(g, FlattenSeq(d), FlattenSeq(e))
  <1> DEFINE n == Len(d)
  <1>1. n \in Nat /\ n > 0 /\ Len(e) = n /\ Len(e) > 0
    OBVIOUS
  <1>2. PICK F \in Flattens(X, d, n) : FlattenSeq(d) = F[n]
    BY FlattenFacts
  <1>3. \E G \in Flattens(X, e, Len(e)) : FlattenSeq(e) = G[Len(e)]
    BY <1>1, FlattenFacts
  <1>4. PICK G \in Flattens(X, e, n) : FlattenSeq(e) = G[n]
    BY <1>1, <1>3, Zenon
  <1>5. ASSUME NEW i \in 1..n
        PROVE  d[i] \in Seq(X) /\ e[i] \in Seq(X) /\ Alike(g, d[i], e[i])
    BY <1>1, ElementOfSeq
  <1> HIDE DEF n
  <1>6. \A i \in 1..n : F[i] \in Seq(X) /\ G[i] \in Seq(X)
    BY <1>2, <1>4 DEF Flattens
  <1> DEFINE P == {i \in 1..n : Alike(g, F[i], G[i])}
  <1>7. 1 \in P
    <2>1. 1 \in 1..n
      BY <1>1
    <2>2. F[1] = d[1] /\ G[1] = e[1]
      BY <1>2, <1>4, <2>1 DEF Flattens
    <2> QED
      BY <1>5, <2>1, <2>2
  <1>8. ASSUME NEW i \in 1..n, i < n, i \in P PROVE i + 1 \in P
    <2> DEFINE k == i + 1
    <2>1. k \in 1..n /\ k # 1 /\ k - 1 = i
      BY <1>1, <1>8
    <2> HIDE DEF k
    <2>2. F[k] = F[i] \o d[k] /\ G[k] = G[i] \o e[k]
      BY <1>2, <1>4, <2>1 DEF Flattens
    <2>3. Alike(g, F[i] \o d[k], G[i] \o e[k])
      BY <1>5, <1>6, <1>8, <2>1, ConcatAlike
    <2>4. k \in P
      BY <2>1, <2>2, <2>3
    <2> QED
      BY <2>4 DEF k
  <1>9. 1..n \subseteq P
    <2> HIDE DEF P
    <2> QED
      BY <1>1, <1>7, <1>8, Climb
  <1>10. n \in P /\ n \in 1..n
    BY <1>1, <1>9
  <1> QED
    BY <1>2, <1>4, <1>6, <1>10

\* The concatenation of sequences of which at most one is not empty.
LEMMA FlattenOne ==
    ASSUME NEW X, NEW ss \in Seq(Seq(X)), NEW k \in 1..Len(ss),
           \A i \in 1..Len(ss) : i # k => ss[i] = <<>>
    PROVE  FlattenSeq(ss) = ss[k]
  <1> DEFINE n == Len(ss)
  <1>1. n \in Nat /\ n > 0 /\ k \in 1..n
    OBVIOUS
  <1>2. PICK F \in Flattens(X, ss, n) : FlattenSeq(ss) = F[n]
    BY <1>1, FlattenFacts
  <1>3. \A i \in 1..n : ss[i] \in Seq(X) /\ (i # k => ss[i] = <<>>)
    BY ElementOfSeq
  <1> HIDE DEF n
  <1> DEFINE P == {i \in 1..n : F[i] = IF i < k THEN <<>> ELSE ss[k]}
  <1>4. 1 \in P
    <2>1. 1 \in 1..n
      BY <1>1
    <2>2. F[1] = ss[1]
      BY <1>2, <2>1 DEF Flattens
    <2> QED
      BY <1>1, <1>3, <2>1, <2>2
  <1>5. ASSUME NEW i \in 1..n, i < n, i \in P PROVE i + 1 \in P
    <2> DEFINE j == i + 1
    <2>1. j \in 1..n /\ j # 1 /\ j - 1 = i
      BY <1>1, <1>5
    <2>2. F[j] = F[i] \o ss[j]
      BY <1>2, <2>1 DEF Flattens
    <2>3. F[i] = IF i < k THEN <<>> ELSE ss[k]
      BY <1>5
    <2>4. ss[k] \in Seq(X) /\ ss[j] \in Seq(X)
      BY <1>1, <1>3, <2>1
    <2>5. (j = k => ~(j < k) /\ i < k) /\ (j # k => (j < k <=> i < k))
      BY <1>1, <2>1
    <2> HIDE DEF j
    <2>6. /\ <<>> \o ss[j] = ss[j] /\ ss[k] \o <<>> = ss[k]
          /\ ss[j] \o <<>> = ss[j]
      BY <2>4, ConcatEmptySeq
    <2>7. F[j] = IF j < k THEN <<>> ELSE ss[k]
      <3>1. CASE j = k
        BY <2>2, <2>3, <2>5, <2>6, <3>1
      <3>2. CASE j # k
        <4>1. ss[j] = <<>>
          BY <1>3, <2>1, <3>2
        <4> QED
          BY <2>2, <2>3, <2>5, <2>6, <3>2, <4>1
      <3> QED
        BY <3>1, <3>2
    <2>8. j \in P
      BY <2>1, <2>7
    <2> QED
      BY <2>8 DEF j
  <1>6. 1..n \subseteq P
    <2> HIDE DEF P
    <2> QED
      BY <1>1, <1>4, <1>5, Climb
  <1>7. n \in P /\ ~(n < k)
    BY <1>1, <1>6
  <1> QED
    BY <1>2, <1>7

\* The concatenation of m empty sequences and then of one sequence for each
\* element of r.
LEMMA FlattenSingles ==
    ASSUME NEW X, NEW r \in Seq(X), r # <<>>, NEW m \in Nat, NEW ss \in Seq(Seq(X)),
           Len(ss) = m + Len(r),
           \A i \in 1..m : ss[i] = <<>>,
           \A i \in 1..Len(r) : ss[m + i] = <<r[i]>>
    PROVE  FlattenSeq(ss) = r
  <1> DEFINE n == Len(ss)
             part(i) == SubSeq(r, 1, i - m)
  <1>1. n \in Nat /\ n > 0 /\ n = m + Len(r) /\ Len(r) \in Nat /\ Len(r) > 0
    <2>1. Len(r) \in Nat /\ Len(r) > 0
      BY EmptySeq
    <2> QED
      BY <2>1
  <1>2. PICK F \in Flattens(X, ss, n) : FlattenSeq(ss) = F[n]
    BY <1>1, FlattenFacts
  <1>3. ASSUME NEW i \in 1..n
        PROVE  /\ part(i) \in Seq(X) /\ Len(part(i)) = (IF i <= m THEN 0 ELSE i - m)
               /\ i <= m => part(i) = <<>>
               /\ \A j \in 1..(i - m) : part(i)[j] = r[j]
    <2>1. i - m \in Int /\ \A j \in 1..(i - m) : r[j] \in X
      BY <1>1, ElementOfSeq
    <2>2. /\ part(i) \in Seq(X)
          /\ Len(part(i)) = (IF 1 <= i - m THEN (i - m) - 1 + 1 ELSE 0)
          /\ \A j \in 1..((i - m) - 1 + 1) : part(i)[j] = r[1 + j - 1]
      BY <2>1, SubSeqProperties
    <2>3. i <= m => part(i) = <<>>
      BY <1>1, <2>1, SubSeqEmpty
    <2> HIDE DEF part
    <2>4. Len(part(i)) = (IF i <= m THEN 0 ELSE i - m)
      BY <1>1, <2>2
    <2>5. \A j \in 1..(i - m) : part(i)[j] = r[j]
      BY <1>1, <2>2
    <2> QED
      BY <2>2, <2>3, <2>4, <2>5
  <1>4. \A i \in 1..n : IF i <= m THEN ss[i] = <<>> ELSE ss[i] = <<r[i - m]>> /\ r[i - m] \in X
    <2>1. ASSUME NEW i \in 1..n, ~(i <= m) PROVE ss[i] = <<r[i - m]>> /\ r[i - m] \in X
      <3>1. i - m \in 1..Len(r) /\ m + (i - m) = i
        BY <1>1, <2>1
      <3> QED
        BY <3>1, ElementOfSeq
    <2>2. ASSUME NEW i \in 1..n, i <= m PROVE ss[i] = <<>>
      BY <1>1, <2>2
    <2> QED
      BY <2>1, <2>2
  <1> HIDE DEF n, part
  <1> DEFINE P == {i \in 1..n : F[i] = part(i)}
  <1>5. \A i \in 1..n : F[i] \in Seq(X)
    BY <1>2 DEF Flattens
  <1>6. ASSUME NEW i \in 1..n, ~(i <= m), NEW p \in Seq(X), Len(p) = i - m - 1,
               \A j \in 1..(i - m - 1) : p[j] = r[j]
        PROVE  p \o <<r[i - m]>> = part(i)
    <2> DEFINE q == p \o <<r[i - m]>>
               last == i - m
    <2>1. last \in Nat /\ last > 0 /\ Len(p) = last - 1
      BY <1>1, <1>6
    <2>2. r[last] \in X
      BY <1>4, <1>6
    <2>3. /\ q \in Seq(X) /\ Len(q) = Len(p) + 1
          /\ \A j \in 1..Len(p) + 1 : q[j] = IF j <= Len(p) THEN p[j] ELSE <<r[last]>>[j - Len(p)]
      BY <2>2, ConcatProperties
    <2>4. part(i) \in Seq(X) /\ Len(part(i)) = last /\ \A j \in 1..last : part(i)[j] = r[j]
      BY <1>3, <1>6
    <2>5. Len(q) = last
      BY <2>1, <2>3
    <2>6. ASSUME NEW j \in 1..last PROVE q[j] = part(i)[j]
      <3>1. CASE j = last
        <4>1. j - Len(p) = 1 /\ j \in 1..Len(p) + 1 /\ ~(j <= Len(p))
          BY <2>1, <3>1
        <4> HIDE DEF q, last
        <4>2. q[j] = <<r[last]>>[1]
          BY <2>3, <4>1
        <4>3. <<r[last]>>[1] = r[last]
          OBVIOUS
        <4> QED
          BY <2>4, <3>1, <4>2, <4>3
      <3>2. CASE j # last
        <4>1. j \in 1..Len(p) + 1 /\ j <= Len(p) /\ j \in 1..(i - m - 1)
          BY <2>1, <3>2
        <4> HIDE DEF q
        <4> QED
          BY <1>6, <2>3, <2>4, <4>1
      <3> QED
        BY <3>1, <3>2
    <2> HIDE DEF q, last
    <2>7. q = part(i)
      BY <2>3, <2>4, <2>5, <2>6, SeqEqual
    <2> QED
      BY <2>7 DEF q
  <1>7. 1 \in P
    <2>1. 1 \in 1..n
      BY <1>1
    <2>2. F[1] = ss[1]
      BY <1>2, <2>1 DEF Flattens
    <2>3. CASE 1 <= m
      BY <1>3, <1>4, <2>1, <2>2, <2>3
    <2>4. CASE ~(1 <= m)
      <3>1. m = 0 /\ 1 - m = 1 /\ 1 - m - 1 = 0
        BY <2>4
      <3>2. <<>> \in Seq(X) /\ Len(<<>>) = 0
        BY EmptySeq
      <3>3. <<>> \o <<r[1]>> = part(1)
        <4>1. Len(<<>>) = 1 - m - 1 /\ \A j \in 1..(1 - m - 1) : <<>>[j] = r[j]
          BY <3>1, <3>2
        <4>2. <<>> \o <<r[1 - m]>> = part(1)
          BY <1>6, <2>1, <2>4, <3>2, <4>1
        <4> QED
          BY <3>1, <4>2
      <3>4. ss[1] = <<r[1]>> /\ r[1] \in X
        BY <1>4, <2>1, <2>4, <3>1
      <3>5. <<>> \o <<r[1]>> = <<r[1]>>
        BY <3>4, ConcatEmptySeq
      <3> QED
        BY <2>1, <2>2, <3>3, <3>4, <3>5
    <2> QED
      BY <2>3, <2>4
  <1>8. ASSUME NEW i \in 1..n, i < n, i \in P PROVE i + 1 \in P
    <2> DEFINE k == i + 1
    <2>1. k \in 1..n /\ k # 1 /\ k - 1 = i
      BY <1>1, <1>8
    <2>2. F[k] = F[i] \o ss[k]
      BY <1>2, <2>1 DEF Flattens
    <2>3. F[i] = part(i)
      BY <1>8
    <2>4. CASE k <= m
      <3>1. i <= m /\ part(i) = <<>> /\ part(k) = <<>> /\ ss[k] = <<>>
        BY <1>1, <1>3, <1>4, <2>1, <2>4
      <3>2. <<>> \o <<>> = <<>>
        BY EmptySeq, ConcatEmptySeq
      <3> HIDE DEF k
      <3>3. k \in P
        BY <2>1, <2>2, <2>3, <3>1, <3>2
      <3> QED
        BY <3>3 DEF k
    <2>5. CASE ~(k <= m)
      <3>1. k - m - 1 = i - m /\ (IF i <= m THEN 0 ELSE i - m) = i - m
        BY <1>1, <2>1, <2>5
      <3>2. /\ part(i) \in Seq(X) /\ Len(part(i)) = k - m - 1
            /\ \A j \in 1..(k - m - 1) : part(i)[j] = r[j]
        BY <1>3, <3>1
      <3> HIDE DEF k
      <3>3. part(i) \o <<r[k - m]>> = part(k)
        BY <1>6, <2>1, <2>5, <3>2
      <3>4. ss[k] = <<r[k - m]>>
        BY <1>4, <2>1, <2>5
      <3>5. k \in P
        BY <2>1, <2>2, <2>3, <3>3, <3>4
      <3> QED
        BY <3>5 DEF k
    <2> QED
      BY <2>4, <2>5
  <1>9. 1..n \subseteq P
    <2> HIDE DEF P
    <2> QED
      BY <1>1, <1>7, <1>8, Climb
  <1>10. n \in P /\ n \in 1..n /\ n - m = Len(r) /\ ~(n <= m)
    <2>1. n \in 1..n /\ n - m = Len(r) /\ ~(n <= m)
      BY <1>1
    <2> HIDE DEF P
    <2> QED
      BY <1>9, <2>1
  <1>11. part(n) = r
    <2>1. /\ part(n) \in Seq(X) /\ Len(part(n)) = Len(r)
          /\ \A j \in 1..Len(r) : part(n)[j] = r[j]
      BY <1>3, <1>10
    <2> QED
      BY <2>1, SeqEqual
  <1> QED
    BY <1>2, <1>10, <1>11

-----------------------------------------------------------------------------
(* Sequences as sets.                                                      *)

Distinct(r) == \A i, j \in 1..Len(r) : r[i] = r[j] => i = j

LEMMA ToSetElements ==
    ASSUME NEW X, NEW r \in Seq(X)
    PROVE  ToSet(r) = {r[i] : i \in 1..Len(r)} /\ DOMAIN r = 1..Len(r) /\ Len(r) \in Nat
  BY DEF ToSet

LEMMA AddElement ==
    ASSUME NEW X, NEW p \in Seq(X), NEW x \in X
    PROVE  /\ p \o <<x>> \in Seq(X)
           /\ ToSet(p \o <<x>>) = ToSet(p) \cup {x}
           /\ Distinct(p) /\ x \notin ToSet(p) => Distinct(p \o <<x>>)
  <1> DEFINE q == p \o <<x>>
  <1>1. /\ q \in Seq(X) /\ Len(q) = Len(p) + 1 /\ Len(p) \in Nat
        /\ \A j \in 1..Len(p) + 1 : q[j] = IF j <= Len(p) THEN p[j] ELSE <<x>>[j - Len(p)]
    BY ConcatProperties
  <1> HIDE DEF q
  <1>2. \A j \in 1..Len(p) : j \in 1..Len(q) /\ q[j] = p[j]
    BY <1>1
  <1>3. Len(q) \in 1..Len(q) /\ q[Len(q)] = x
    <2>1. Len(q) \in 1..Len(q) /\ Len(q) \in 1..Len(p) + 1 /\ ~(Len(q) <= Len(p))
          /\ Len(q) - Len(p) = 1
      BY <1>1
    <2>2. q[Len(q)] = <<x>>[1]
      BY <1>1, <2>1
    <2> QED
      BY <2>1, <2>2
  <1>4. \A j \in 1..Len(q) : j = Len(q) \/ j \in 1..Len(p)
    BY <1>1
  <1>5. ToSet(q) = {q[i] : i \in 1..Len(q)} /\ ToSet(p) = {p[i] : i \in 1..Len(p)}
    BY <1>1, ToSetElements
  <1>6. ToSet(q) = ToSet(p) \cup {x}
    <2>1. ToSet(q) \subseteq ToSet(p) \cup {x}
      BY <1>2, <1>3, <1>4, <1>5
    <2>2. ToSet(p) \cup {x} \subseteq ToSet(q)
      BY <1>2, <1>3, <1>5
    <2> QED
      BY <2>1, <2>2
  <1>7. ASSUME Distinct(p), x \notin ToSet(p) PROVE Distinct(q)
    <2>1. SUFFICES ASSUME NEW i \in 1..Len(q), NEW j \in 1..Len(q), q[i] = q[j] PROVE i = j
      BY DEF Distinct
    <2>2. \A k \in 1..Len(p) : q[k] # x
      BY <1>2, <1>5, <1>7
    <2>3. CASE i \in 1..Len(p) /\ j \in 1..Len(p)
      BY <1>2, <1>7, <2>1, <2>3 DEF Distinct
    <2>4. CASE i = Len(q) \/ j = Len(q)
      BY <1>3, <1>4, <2>1, <2>2, <2>4
    <2> QED
      BY <1>4, <2>3, <2>4
  <1> QED
    BY <1>1, <1>6, <1>7 DEF q

\* A sequence without duplicates is as long as its set is large.
LEMMA DistinctLength ==
    ASSUME NEW X, NEW r \in Seq(X), Distinct(r)
    PROVE  Len(r) = Cardinality(ToSet(r))
  <1>1. /\ ToSet(r) = {r[i] : i \in 1..Len(r)} /\ DOMAIN r = 1..Len(r) /\ Len(r) \in Nat
        /\ r \in [1..Len(r) -> X]
    BY ToSetElements
  <1>2. r \in Bijection(1..Len(r), ToSet(r))
    <2>1. r \in [1..Len(r) -> ToSet(r)]
      BY <1>1
    <2>2. \A y \in ToSet(r) : \E i \in 1..Len(r) : r[i] = y
      BY <1>1
    <2> QED
      BY <1>1, <2>1, <2>2 DEF Distinct, Bijection, Injection, Surjection, IsInjective
  <1>3. ExistsBijection(1..Len(r), ToSet(r))
    BY <1>2 DEF ExistsBijection
  <1>4. IsFiniteSet(1..Len(r)) /\ Cardinality(1..Len(r)) = Len(r)
    BY <1>1, FS_Interval
  <1> QED
    BY <1>3, <1>4, FS_Bijection

-----------------------------------------------------------------------------
(* Selected elements.                                                      *)

\* q are the elements of v at the positions of S up to k, which are the p[i].
Picks(v, S, q, k, p) ==
    /\ p \in [1..Len(q) -> S \cap (1..k)]
    /\ \A i, j \in 1..Len(q) : i < j => p[i] < p[j]
    /\ \A i \in 1..Len(q) : q[i] = v[p[i]]
    /\ \A a \in S \cap (1..k) : \E i \in 1..Len(q) : p[i] = a

LEMMA PickNone ==
    ASSUME NEW X, NEW v, NEW S, NEW q \in Seq(X), NEW k \in Nat, NEW p,
           Picks(v, S, q, k, p), k + 1 \notin S
    PROVE  Picks(v, S, q, k + 1, p)
  <1>1. S \cap (1..(k + 1)) = S \cap (1..k)
    <2>1. 1..(k + 1) = (1..k) \cup {k + 1}
      OBVIOUS
    <2> QED
      BY <2>1
  <1> QED
    BY <1>1 DEF Picks

LEMMA PickOne ==
    ASSUME NEW X, NEW v, NEW S, NEW q \in Seq(X), NEW k \in Nat, NEW p,
           Picks(v, S, q, k, p), k + 1 \in S, v[k + 1] \in X
    PROVE  \E r : Picks(v, S, q \o <<v[k + 1]>>, k + 1, r)
  <1> DEFINE e == v[k + 1]
             t == q \o <<e>>
             m == Len(q)
             r == [i \in 1..(m + 1) |-> IF i <= m THEN p[i] ELSE k + 1]
  <1>1. /\ m \in Nat /\ t \in Seq(X) /\ Len(t) = m + 1
        /\ \A j \in 1..(m + 1) : t[j] = IF j <= m THEN q[j] ELSE e
    <2>1. /\ t \in Seq(X) /\ Len(t) = m + 1 /\ m \in Nat
          /\ \A j \in 1..m + 1 : t[j] = IF j <= m THEN q[j] ELSE <<e>>[j - m]
      BY ConcatProperties
    <2> HIDE DEF t
    <2>2. \A j \in 1..(m + 1) : ~(j <= m) => j - m = 1
      BY <2>1
    <2> QED
      BY <2>1, <2>2
  <1>2. /\ p \in [1..m -> S \cap (1..k)]
        /\ \A i, j \in 1..m : i < j => p[i] < p[j]
        /\ \A i \in 1..m : q[i] = v[p[i]]
        /\ \A a \in S \cap (1..k) : \E i \in 1..m : p[i] = a
    BY DEF Picks
  <1> HIDE DEF t, m
  <1>3. \A i \in 1..(m + 1) :
          \/ i \in 1..m /\ i <= m /\ r[i] = p[i] /\ p[i] \in S \cap (1..k)
          \/ i = m + 1 /\ ~(i <= m) /\ r[i] = k + 1
    BY <1>1, <1>2
  <1>4. \A a \in 1..k : a \in 1..(k + 1) /\ a < k + 1
    OBVIOUS
  <1>5. r \in [1..(m + 1) -> S \cap (1..(k + 1))]
    BY <1>3, <1>4
  <1>6. m + 1 \in 1..(m + 1) /\ \A i \in 1..m : i \in 1..(m + 1)
    BY <1>1
  <1> HIDE DEF r
  <1>7. ASSUME NEW i \in 1..(m + 1), NEW j \in 1..(m + 1), i < j PROVE r[i] < r[j]
    <2>1. i \in 1..m /\ r[i] = p[i] /\ p[i] \in 1..k
      BY <1>1, <1>3, <1>7
    <2>2. CASE j \in 1..m
      BY <1>1, <1>2, <1>3, <1>7, <2>1, <2>2
    <2>3. CASE j = m + 1
      <3>1. r[j] = k + 1
        BY <1>1, <1>3, <2>3
      <3> QED
        BY <1>4, <2>1, <3>1
    <2> QED
      BY <1>3, <2>2, <2>3
  <1>8. \A i \in 1..(m + 1) : t[i] = v[r[i]]
    BY <1>1, <1>2, <1>3 DEF e
  <1>9. ASSUME NEW a \in S \cap (1..(k + 1)) PROVE \E i \in 1..(m + 1) : r[i] = a
    <2>1. CASE a = k + 1
      <3>1. r[m + 1] = k + 1
        BY <1>1, <1>3, <1>6
      <3> QED
        BY <1>6, <2>1, <3>1
    <2>2. CASE a # k + 1
      <3>1. a \in S \cap (1..k)
        BY <2>2
      <3>2. PICK i \in 1..m : p[i] = a
        BY <1>2, <3>1
      <3>3. r[i] = p[i]
        BY <1>1, <1>3, <1>6
      <3> QED
        BY <1>6, <3>2, <3>3
    <2> QED
      BY <2>1, <2>2
  <1>10. Picks(v, S, t, k + 1, r)
    BY <1>1, <1>5, <1>7, <1>8, <1>9 DEF Picks
  <1> QED
    BY <1>10 DEF t, e

\* The concatenation of <<v[i]>> for the i in S and of nothing for the others.
LEMMA FlattenPicks ==
    ASSUME NEW X, NEW n \in Nat, NEW v, \A i \in 1..n : v[i] \in X, NEW S,
           NEW ss, ss = [i \in 1..n |-> IF i \in S THEN <<v[i]>> ELSE <<>>]
    PROVE  /\ FlattenSeq(ss) \in Seq(X)
           /\ \E p : Picks(v, S, FlattenSeq(ss), n, p)
  <1>1. \A i \in 1..n : ss[i] = IF i \in S THEN <<v[i]>> ELSE <<>>
    OBVIOUS
  <1>2. ss \in Seq(Seq(X)) /\ Len(ss) = n
    <2>1. \A i \in 1..n : ss[i] \in Seq(X)
      BY <1>1
    <2>2. ss \in [1..n -> Seq(X)]
      BY <2>1
    <2> QED
      BY <2>2
  <1>3. <<>> \in Seq(X) /\ Len(<<>>) = 0 /\ Picks(v, S, <<>>, 0, <<>>)
    <2>1. <<>> \in Seq(X) /\ Len(<<>>) = 0
      OBVIOUS
    <2>2. 1..0 = {} /\ <<>> \in [{} -> {}]
      OBVIOUS
    <2> QED
      BY <2>1, <2>2 DEF Picks
  <1>4. ASSUME NEW k \in Nat, k + 1 \in 1..n, NEW q \in Seq(X), \E p : Picks(v, S, q, k, p)
        PROVE  \E p : Picks(v, S, q \o ss[k + 1], k + 1, p)
    <2>1. PICK p : Picks(v, S, q, k, p)
      BY <1>4
    <2>2. CASE k + 1 \in S
      <3>1. ss[k + 1] = <<v[k + 1]>> /\ v[k + 1] \in X
        BY <1>1, <1>4, <2>2
      <3> QED
        BY <2>1, <2>2, <3>1, PickOne
    <2>3. CASE k + 1 \notin S
      <3>1. ss[k + 1] = <<>>
        BY <1>1, <1>4, <2>3
      <3>2. q \o ss[k + 1] = q
        BY <1>4, <3>1, ConcatEmptySeq
      <3>3. Picks(v, S, q, k + 1, p)
        BY <1>4, <2>1, <2>3, PickNone
      <3> QED
        BY <3>2, <3>3
    <2> QED
      BY <2>2, <2>3
  <1>5. CASE n = 0
    <2>1. ss = <<>> /\ FlattenSeq(ss) = ss
      BY <1>2, <1>5, EmptySeq DEF FlattenSeq
    <2> QED
      BY <1>3, <1>5, <2>1
  <1>6. CASE n # 0
    <2>1. n > 0 /\ Len(ss) > 0 /\ 1 \in 1..n /\ n \in 1..n
      BY <1>2, <1>6
    <2>2. PICK F \in Flattens(X, ss, n) : FlattenSeq(ss) = F[n]
      BY <1>2, <2>1, FlattenFacts
    <2>3. \A i \in 1..n : F[i] \in Seq(X) /\ F[i] = IF i = 1 THEN ss[i] ELSE F[i - 1] \o ss[i]
      BY <2>2 DEF Flattens
    <2> DEFINE P == {k \in 1..n : \E p : Picks(v, S, F[k], k, p)}
    <2>4. 1 \in P
      <3>1. F[1] = ss[1] /\ ss[1] \in Seq(X)
        BY <2>1, <2>3
      <3>2. <<>> \o ss[1] = ss[1]
        BY <3>1, ConcatEmptySeq
      <3>3. 0 + 1 = 1 /\ 0 \in Nat
        OBVIOUS
      <3>4. \E p : Picks(v, S, <<>> \o ss[0 + 1], 0 + 1, p)
        <4>1. 0 + 1 \in 1..n
          BY <2>1, <3>3
        <4>2. \E p : Picks(v, S, <<>>, 0, p)
          BY <1>3
        <4> HIDE DEF Picks
        <4> QED
          BY <1>3, <1>4, <3>3, <4>1, <4>2
      <3> QED
        BY <2>1, <3>1, <3>2, <3>3, <3>4
    <2>5. ASSUME NEW k \in 1..n, k < n, k \in P PROVE k + 1 \in P
      <3>1. k \in Nat /\ k + 1 \in 1..n /\ k + 1 # 1 /\ (k + 1) - 1 = k
        BY <2>5
      <3>2. F[k] \in Seq(X) /\ F[k + 1] = F[k] \o ss[k + 1]
        BY <2>3, <3>1
      <3>3. \E p : Picks(v, S, F[k], k, p)
        BY <2>5
      <3>4. \E p : Picks(v, S, F[k] \o ss[k + 1], k + 1, p)
        BY <1>4, <3>1, <3>2, <3>3
      <3> QED
        BY <3>1, <3>2, <3>4
    <2>6. n \in P
      <3> HIDE DEF P
      <3> QED
        BY <2>1, <2>4, <2>5, Climb
    <2> QED
      BY <2>1, <2>2, <2>3, <2>6
  <1> QED
    BY <1>5, <1>6

-----------------------------------------------------------------------------
(* The first element of a kind.                                            *)

LEMMA MinFacts ==
    ASSUME NEW S, S \subseteq Nat, S # {}
    PROVE  Min(S) \in S /\ \A y \in S : Min(S) <= y
  <1>1. \E x \in S : \A y \in S : ~(<<y, x>> \in OpToRel(<, Nat))
    BY NatLessThanWellFounded, WFMin
  <1>2. PICK x \in S : \A y \in S : ~(<<y, x>> \in OpToRel(<, Nat))
    BY <1>1
  <1>3. \A y \in S : x <= y
    <2>1. SUFFICES ASSUME NEW y \in S, y < x PROVE FALSE
      OBVIOUS
    <2>2. <<y, x>> \in OpToRel(<, Nat)
      BY <2>1 DEF OpToRel
    <2> QED
      BY <1>2, <2>2
  <1>4. \E z : z \in S /\ \A y \in S : z <= y
    BY <1>3
  <1> QED
    BY <1>4 DEF Min

\* SelectInSeq with the test of being x.
LEMMA FirstFacts ==
    ASSUME NEW X, NEW r \in Seq(X), NEW x, \E i \in 1..Len(r) : r[i] = x
    PROVE  /\ SelectInSeq(r, LAMBDA c : c = x) \in 1..Len(r)
           /\ r[SelectInSeq(r, LAMBDA c : c = x)] = x
           /\ \A j \in 1..(SelectInSeq(r, LAMBDA c : c = x) - 1) : r[j] # x
  <1> DEFINE I == {i \in 1..Len(r) : r[i] = x}
  <1>1. I # {} /\ I \subseteq Nat /\ Len(r) \in Nat
    OBVIOUS
  <1>2. SelectInSeq(r, LAMBDA c : c = x) = Min(I)
    BY <1>1 DEF SelectInSeq
  <1>3. Min(I) \in I /\ \A y \in I : Min(I) <= y
    <2> HIDE DEF I
    <2> QED
      BY <1>1, MinFacts
  <1>4. Min(I) \in 1..Len(r) /\ r[Min(I)] = x
    BY <1>3
  <1>5. ASSUME NEW j \in 1..(Min(I) - 1) PROVE r[j] # x
    <2>1. j \in 1..Len(r) /\ ~(Min(I) <= j)
      BY <1>1, <1>4
    <2> QED
      BY <1>3, <2>1
  <1> HIDE DEF I
  <1> QED
    BY <1>2, <1>4, <1>5
=============================================================================
