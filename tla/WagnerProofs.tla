---------------------------- MODULE WagnerProofs ----------------------------
(***************************************************************************)
(* Theorems about the search under every parameter set, table of hashes    *)
(* and path: what is found is a solution, and while digits are whole bytes *)
(* it never panics and, unless pairs were dropped, misses no solution.     *)
(***************************************************************************)
EXTENDS Wagner, ArithmeticLemmas, SequenceTheorems

-----------------------------------------------------------------------------
(* Powers of two.                                                          *)

\* Each power is twice the one before.
LEMMA PowersOfTwo ==
    /\ pow2[0] = 1
    /\ \A i \in Nat : /\ pow2[i] \in Nat \ {0}
                      /\ pow2[i + 1] = 2 * pow2[i]
<1> DEFINE Is(f) == f = [i \in Nat |-> IF i = 0 THEN 1 ELSE 2 * f[i - 1]]
           next == [p \in Nat \X Nat |-> 2 * p[2]]
<1>1. next \in [Nat \X Nat -> Nat]
  OBVIOUS
<1>2. PICK s \in [Nat -> Nat] : Follows(s, 1, next)
  <2> HIDE DEF next
  <2> QED
    BY <1>1, PrimitiveRecursion
<1>3. Is(s)
  <2>1. ASSUME NEW k \in Nat
        PROVE  s[k] = IF k = 0 THEN 1 ELSE 2 * s[k - 1]
    <3>1. CASE k = 0
      BY <1>2, <3>1 DEF Follows
    <3>2. CASE k # 0
      <4>1. k - 1 \in Nat /\ s[k - 1] \in Nat
        BY <1>2, <3>2
      <4>2. next[<<k, s[k - 1]>>] = 2 * s[k - 1]
        BY <4>1
      <4>3. s[k] = next[<<k, s[k - 1]>>]
        BY <1>2, <3>2 DEF Follows
      <4> QED
        BY <3>2, <4>2, <4>3
    <3> QED
      BY <3>1, <3>2
  <2>2. s = [k \in Nat |-> s[k]]
    BY <1>2
  <2> QED
    BY <2>1, <2>2
<1>4. Is(pow2)
  BY <1>3 DEF pow2
<1>5. \A k \in Nat : pow2[k] = IF k = 0 THEN 1 ELSE 2 * pow2[k - 1]
  BY <1>4
<1>6. \A k \in Nat : pow2[k] \in Nat \ {0}
  <2> DEFINE T == {i \in Nat : pow2[i] \notin Nat \ {0}}
  <2> SUFFICES ASSUME T # {} PROVE FALSE
    OBVIOUS
  <2>1. PICK i \in T : \A j \in T : i <= j
    BY LeastNatural
  <2>2. i # 0
    BY <1>5
  <2>3. i - 1 \in Nat /\ i - 1 \notin T
    BY <2>1, <2>2
  <2> QED
    BY <2>2, <2>3, <1>5
<1>7. ASSUME NEW i \in Nat PROVE pow2[i + 1] = 2 * pow2[i]
  <2>1. i + 1 \in Nat /\ i + 1 # 0 /\ (i + 1) - 1 = i
    OBVIOUS
  <2> QED
    BY <1>5, <2>1
<1> QED
  BY <1>5, <1>6, <1>7

\* A power of a sum is the product of the powers.
LEMMA PowersAdd ==
    ASSUME NEW a \in Nat, NEW b \in Nat
    PROVE  pow2[a + b] = pow2[a] * pow2[b]
<1> DEFINE T == {i \in Nat : pow2[a + i] # pow2[a] * pow2[i]}
<1> SUFFICES ASSUME T # {} PROVE FALSE
  OBVIOUS
<1>1. PICK i \in T : \A j \in T : i <= j
  BY LeastNatural
<1>2. i # 0
  BY PowersOfTwo
<1>3. PICK j \in Nat : i = j + 1
  <2>1. i - 1 \in Nat /\ i = (i - 1) + 1
    BY <1>2
  <2> QED
    BY <2>1
<1>4. pow2[a + j] = pow2[a] * pow2[j]
  BY <1>1, <1>3
<1>5. a + j \in Nat /\ a + i = (a + j) + 1
  BY <1>3
<1>6. pow2[a + i] = 2 * pow2[a + j] /\ pow2[i] = 2 * pow2[j]
  BY <1>3, <1>5, PowersOfTwo
<1>7. pow2[a] \in Nat /\ pow2[j] \in Nat
  BY PowersOfTwo
<1>8. 2 * (pow2[a] * pow2[j]) = pow2[a] * (2 * pow2[j])
  BY <1>7
<1> QED
  BY <1>4, <1>6, <1>8

-----------------------------------------------------------------------------
(* Flattening.                                                             *)

\* What flattening accumulates.
Flattens(f, ss) ==
    f = [i \in 1..Len(ss) |-> IF i = 1 THEN ss[i] ELSE f[i - 1] \o ss[i]]

\* Flattening a nonempty sequence of sequences has a solution, and ends in
\* the last of its values.
LEMMA FlattenUnfolds ==
    ASSUME NEW S, NEW ss \in Seq(Seq(S)), ss # <<>>
    PROVE  \E f \in [1..Len(ss) -> Seq(S)] :
               Flattens(f, ss) /\ FlattenSeq(ss) = f[Len(ss)]
<1> DEFINE n == Len(ss)
           next == [p \in Nat \X Seq(S) |->
                       IF p[1] \in 1..n THEN p[2] \o ss[p[1]] ELSE p[2]]
<1>1. n \in Nat /\ n # 0 /\ \A i \in 1..n : ss[i] \in Seq(S)
  OBVIOUS
<1>2. next \in [Nat \X Seq(S) -> Seq(S)]
  <2>1. ASSUME NEW p \in Nat \X Seq(S)
        PROVE  (IF p[1] \in 1..n THEN p[2] \o ss[p[1]] ELSE p[2]) \in Seq(S)
    <3>1. p[2] \in Seq(S)
      OBVIOUS
    <3>2. CASE p[1] \in 1..n
      <4>1. ss[p[1]] \in Seq(S)
        BY <1>1, <3>2
      <4>2. \A s, t \in Seq(S) : s \o t \in Seq(S)
        OBVIOUS
      <4>3. p[2] \o ss[p[1]] \in Seq(S)
        BY <3>1, <4>1, <4>2
      <4> QED
        BY <3>2, <4>3
    <3> QED
      BY <3>1, <3>2
  <2> QED
    BY <2>1
<1>3. <<>> \in Seq(S)
  OBVIOUS
<1>4. PICK s \in [Nat -> Seq(S)] : Follows(s, <<>>, next)
  <2> HIDE DEF next
  <2> QED
    BY <1>2, <1>3, PrimitiveRecursion
<1>5. ASSUME NEW k \in 1..n PROVE s[k] = s[k - 1] \o ss[k]
  <2>0. k - 1 \in Nat /\ k \in Nat \ {0}
    BY <1>1
  <2>1. k \in Nat /\ k \in Nat \ {0} /\ s[k - 1] \in Seq(S)
    BY <1>4, <2>0
  <2>2. s[k] = next[<<k, s[k - 1]>>]
    BY <1>4, <2>1 DEF Follows
  <2>3. next[<<k, s[k - 1]>>] = s[k - 1] \o ss[k]
    BY <2>1
  <2> QED
    BY <2>2, <2>3
<1>6. s[0] = <<>>
  BY <1>4 DEF Follows
<1> DEFINE g == [i \in 1..n |-> s[i]]
<1>7. Flattens(g, ss)
  <2>1. ASSUME NEW i \in 1..n
        PROVE  g[i] = IF i = 1 THEN ss[i] ELSE g[i - 1] \o ss[i]
    <3>1. CASE i = 1
      <4>1. s[1] = s[0] \o ss[1] /\ ss[1] \in Seq(S)
        <5>1. 1 \in 1..n /\ 1 - 1 = 0
          BY <1>1
        <5> QED
          BY <1>1, <1>5, <5>1
      <4>2. <<>> \o ss[1] = ss[1]
        BY <4>1, ConcatEmptySeq
      <4>3. s[1] = ss[1]
        BY <1>6, <4>1, <4>2
      <4>4. g[i] = s[1]
        BY <3>1
      <4> QED
        BY <3>1, <4>3, <4>4
    <3>2. CASE i # 1
      <4>1. i - 1 \in 1..n
        BY <1>1, <3>2
      <4> QED
        BY <1>5, <3>2, <4>1
    <3> QED
      BY <3>1, <3>2
  <2> QED
    BY <2>1 DEF Flattens
<1> DEFINE f == CHOOSE f : Flattens(f, ss)
<1>8. Flattens(f, ss)
  BY <1>7
<1>9. FlattenSeq(ss) = f[n]
  BY <1>1 DEF FlattenSeq, Flattens
<1> HIDE DEF f
<1>10. \A i \in 1..n : f[i] = IF i = 1 THEN ss[i] ELSE f[i - 1] \o ss[i]
  BY <1>8 DEF Flattens
<1> HIDE DEF n, next, g
<1>11. \A i \in 1..n : f[i] \in Seq(S)
  <2> DEFINE T == {i \in 1..n : f[i] \notin Seq(S)}
  <2> SUFFICES ASSUME T # {} PROVE FALSE
    OBVIOUS
  <2>0. T \in SUBSET Nat
    BY <1>1
  <2>1. PICK i \in T : \A j \in T : i <= j
    BY <2>0, LeastNatural
  <2>2. i # 1
    BY <1>1, <1>10
  <2>3. i - 1 \in 1..n /\ i - 1 \notin T
    BY <1>1, <2>1, <2>2
  <2>4. f[i - 1] \in Seq(S) /\ ss[i] \in Seq(S)
    BY <1>1, <2>3
  <2>5. f[i - 1] \o ss[i] \in Seq(S)
    BY <2>4
  <2> QED
    BY <2>2, <2>5, <1>10
<1>12. f \in [1..n -> Seq(S)]
  BY <1>8, <1>11 DEF Flattens, n
<1> QED
  BY <1>8, <1>9, <1>12 DEF n

\* Flattening gathers what the parts hold.
LEMMA FlattenSeqType ==
    ASSUME NEW S, NEW ss \in Seq(Seq(S))
    PROVE  FlattenSeq(ss) \in Seq(S)
<1>1. CASE ss = <<>>
  BY <1>1 DEF FlattenSeq
<1>2. CASE ss # <<>>
  <2>1. PICK f \in [1..Len(ss) -> Seq(S)] : FlattenSeq(ss) = f[Len(ss)]
    BY <1>2, FlattenUnfolds
  <2>2. Len(ss) \in 1..Len(ss)
    BY <1>2
  <2> QED
    BY <2>1, <2>2
<1> QED
  BY <1>1, <1>2

\* A sequence holds an element.
Holds(s, e) == \E j \in 1..Len(s) : s[j] = e

\* A concatenation holds what either part does.
LEMMA ConcatHolds ==
    ASSUME NEW S, NEW s \in Seq(S), NEW t \in Seq(S), NEW e,
           Holds(s, e) \/ Holds(t, e)
    PROVE  Holds(s \o t, e)
<1>1. /\ Len(s) \in Nat /\ Len(t) \in Nat /\ Len(s \o t) = Len(s) + Len(t)
      /\ \A i \in 1..(Len(s) + Len(t)) :
             (s \o t)[i] = IF i <= Len(s) THEN s[i] ELSE t[i - Len(s)]
  BY ConcatProperties
<1> DEFINE w == s \o t
           m == Len(s)
           n == Len(t)
<1> HIDE DEF w, m, n
<1>2. /\ m \in Nat /\ n \in Nat /\ Len(w) = m + n
      /\ \A i \in 1..(m + n) : w[i] = IF i <= m THEN s[i] ELSE t[i - m]
  BY <1>1 DEF w, m, n
<1>3. CASE Holds(s, e)
  <2>1. PICK j \in 1..m : s[j] = e
    BY <1>3 DEF Holds, m
  <2>2. j \in 1..Len(w) /\ w[j] = e
    BY <1>2, <2>1
  <2> QED
    BY <2>2 DEF Holds, w
<1>4. CASE Holds(t, e)
  <2>1. PICK j \in 1..n : t[j] = e
    BY <1>4 DEF Holds, n
  <2> DEFINE k == j + m
  <2>2. k \in 1..(m + n) /\ ~(k <= m) /\ k - m = j
    BY <1>2
  <2>3. k \in 1..Len(w) /\ w[k] = e
    BY <1>2, <2>1, <2>2
  <2> QED
    BY <2>3 DEF Holds, w
<1> QED
  BY <1>3, <1>4

\* Flattening holds what the parts do.
LEMMA FlattenHolds ==
    ASSUME NEW S, NEW ss \in Seq(Seq(S)), NEW k \in 1..Len(ss), NEW e,
           Holds(ss[k], e)
    PROVE  Holds(FlattenSeq(ss), e)
<1> DEFINE n == Len(ss)
<1>1. n \in Nat /\ ss # <<>> /\ \A i \in 1..n : ss[i] \in Seq(S)
  OBVIOUS
<1>2. PICK f \in [1..n -> Seq(S)] : Flattens(f, ss) /\ FlattenSeq(ss) = f[n]
  BY <1>1, FlattenUnfolds
<1>3. \A i \in 1..n : f[i] = IF i = 1 THEN ss[i] ELSE f[i - 1] \o ss[i]
  BY <1>2 DEF Flattens
<1> DEFINE T == {m \in k..n : ~Holds(f[m], e)}
<1> HIDE DEF n
<1>4. k \in 1..n
  BY DEF n
<1>5. T = {}
  <2> SUFFICES ASSUME T # {} PROVE FALSE
    OBVIOUS
  <2>1. T \in SUBSET Nat
    BY <1>1, <1>4
  <2>2. PICK m \in T : \A j \in T : m <= j
    BY <2>1, LeastNatural
  <2>3. m \in 1..n /\ k <= m /\ ~Holds(f[m], e)
    BY <1>1, <1>4
  <2> DEFINE before == f[m - 1]
  <2>4. CASE m = 1
    <3>1. m = k
      BY <1>1, <1>4, <2>3, <2>4
    <3>2. f[1] = ss[1]
      BY <1>3, <2>3, <2>4
    <3> HIDE DEF T
    <3> QED
      BY <2>3, <2>4, <3>1, <3>2
  <2>5. CASE m # 1
    <3>0. m - 1 \in 1..n
      BY <1>1, <2>3, <2>5
    <3>1. f[m] = before \o ss[m]
      BY <1>3, <2>3, <2>5
    <3>2. before \in Seq(S) /\ ss[m] \in Seq(S)
      BY <1>1, <1>2, <2>3, <3>0
    <3>3. CASE m = k
      <4>1. Holds(ss[m], e)
        BY <3>3
      <4> HIDE DEF before, T
      <4>2. Holds(before \o ss[m], e)
        BY <3>2, <4>1, ConcatHolds
      <4> QED
        BY <2>3, <3>1, <4>2
    <3>4. CASE m # k
      <4>1. m - 1 \in k..n /\ m - 1 \notin T
        BY <1>1, <1>4, <2>2, <2>3, <3>4
      <4>2. Holds(before, e)
        BY <4>1
      <4> HIDE DEF before, T
      <4>3. Holds(before \o ss[m], e)
        BY <3>2, <4>2, ConcatHolds
      <4> QED
        BY <2>3, <3>1, <4>3
    <3> QED
      BY <3>3, <3>4
  <2> QED
    BY <2>4, <2>5
<1>6. n \in k..n
  BY <1>1, <1>4
<1> QED
  BY <1>2, <1>5, <1>6

-----------------------------------------------------------------------------
(* Parity.                                                                 *)

\* The places that a parity counts.
Ones(indices, from, to, bit) ==
    {p \in from..to : leaf[indices[p]][bit] = 1}

\* They are finitely many, and their parity is a bit.
LEMMA ParityType ==
    ASSUME NEW indices, NEW from \in Int, NEW to \in Int, NEW bit
    PROVE  /\ IsFiniteSet(Ones(indices, from, to, bit))
           /\ Cardinality(Ones(indices, from, to, bit)) \in Nat
           /\ Parity(indices, from, to, bit)
                  = Cardinality(Ones(indices, from, to, bit)) % 2
           /\ Parity(indices, from, to, bit) \in 0..1
<1> DEFINE S == Ones(indices, from, to, bit)
<1>1. S \in SUBSET (from..to)
  BY DEF Ones
<1>2. IsFiniteSet(S) /\ Cardinality(S) \in Nat
  BY <1>1, FS_Interval, FS_Subset, FS_CardinalityType
<1>3. Parity(indices, from, to, bit) = Cardinality(S) % 2
  BY DEF Parity, Ones
<1> HIDE DEF S
<1>4. Cardinality(S) % 2 \in 0..1
  BY <1>2
<1> QED
  BY <1>2, <1>3, <1>4 DEF S

\* A stretch of leaves of one sequence is in the other, d places on.
Placed(a, b, from, to, d) == \A p \in from..to : b[p + d] = a[p]

\* It keeps its parity.
LEMMA ParityPlaced ==
    ASSUME NEW a, NEW b, NEW from \in Int, NEW to \in Int, NEW d \in Int,
           Placed(a, b, from, to, d),
           NEW from2, from2 = from + d, NEW to2, to2 = to + d,
           NEW bit
    PROVE  Parity(b, from2, to2, bit) = Parity(a, from, to, bit)
<1> DEFINE A == Ones(a, from, to, bit)
           B == Ones(b, from + d, to + d, bit)
           f == [p \in A |-> p + d]
<1>1. A \subseteq from..to /\ B \subseteq (from + d)..(to + d)
  BY DEF Ones
<1>2. \A p \in A : p + d \in B
  BY DEF Ones, Placed
<1>3. ASSUME NEW q \in B PROVE q - d \in A /\ (q - d) + d = q
  <2>1. q - d \in from..to /\ (q - d) + d = q
    BY <1>1
  <2>2. b[(q - d) + d] = a[q - d]
    BY <2>1 DEF Placed
  <2>3. leaf[b[q]][bit] = 1
    BY DEF Ones
  <2> QED
    BY <2>1, <2>2, <2>3 DEF Ones
<1>4. A \subseteq Int
  BY <1>1
<1>5. IsFiniteSet(A) /\ Parity(a, from, to, bit) = Cardinality(A) % 2
  BY ParityType
<1>6. Parity(b, from2, to2, bit) = Cardinality(B) % 2
  <2>1. from2 \in Int /\ to2 \in Int
    OBVIOUS
  <2>2. B = Ones(b, from2, to2, bit)
    OBVIOUS
  <2> QED
    BY <2>1, <2>2, ParityType
<1> HIDE DEF A, B
<1>7. f \in Bijection(A, B)
  <2>1. f \in [A -> B]
    BY <1>2
  <2>2. \A p, q \in A : f[p] = f[q] => p = q
    BY <1>4
  <2>3. \A q \in B : \E p \in A : f[p] = q
    BY <1>3
  <2> QED
    BY <2>1, <2>2, <2>3
       DEF Bijection, Injection, Surjection, IsInjective
<1>8. Cardinality(B) = Cardinality(A)
  BY <1>5, <1>7, FS_Bijection DEF ExistsBijection
<1> QED
  BY <1>5, <1>6, <1>8

\* Two adjoining stretches add up.
LEMMA ParitySplit ==
    ASSUME NEW a, NEW from \in Int, NEW mid \in Int, NEW to \in Int,
           NEW next, next = mid + 1, from <= next, mid <= to, NEW bit
    PROVE  Parity(a, from, to, bit)
               = (Parity(a, from, mid, bit) + Parity(a, next, to, bit)) % 2
<1> DEFINE A == Ones(a, from, mid, bit)
           B == Ones(a, next, to, bit)
           C == Ones(a, from, to, bit)
<1>1. C = A \cup B /\ A \cap B = {}
  BY DEF Ones
<1>2. next \in Int
  OBVIOUS
<1>3. /\ IsFiniteSet(A) /\ Cardinality(A) \in Nat
      /\ Parity(a, from, mid, bit) = Cardinality(A) % 2
  BY ParityType
<1>4. /\ IsFiniteSet(B) /\ Cardinality(B) \in Nat
      /\ Parity(a, next, to, bit) = Cardinality(B) % 2
  BY <1>2, ParityType
<1>5. Parity(a, from, to, bit) = Cardinality(C) % 2
  BY ParityType
<1> HIDE DEF A, B, C
<1>6. Cardinality(C) = Cardinality(A) + Cardinality(B)
  <2>1. Cardinality(A \cap B) = 0
    BY <1>1, FS_EmptySet
  <2>2. Cardinality(A \cup B)
            = Cardinality(A) + Cardinality(B) - Cardinality(A \cap B)
    BY <1>3, <1>4, FS_Union
  <2> QED
    BY <1>1, <1>3, <1>4, <2>1, <2>2
<1>7. \A x, y \in Nat : (x + y) % 2 = ((x % 2) + (y % 2)) % 2
  OBVIOUS
<1> QED
  BY <1>3, <1>4, <1>5, <1>6, <1>7

\* One leaf's parity is its bit.
LEMMA ParityOne ==
    ASSUME NEW a, NEW p \in Int, NEW bit, leaf[a[p]][bit] \in 0..1
    PROVE  Parity(a, p, p, bit) = leaf[a[p]][bit]
<1>1. p..p = {p}
  OBVIOUS
<1>2. CASE leaf[a[p]][bit] = 1
  <2>1. Ones(a, p, p, bit) = {p}
    BY <1>1, <1>2 DEF Ones
  <2>2. Cardinality({p}) = 1
    BY FS_Singleton
  <2> QED
    BY <1>2, <2>1, <2>2, ParityType
<1>3. CASE leaf[a[p]][bit] = 0
  <2>1. Ones(a, p, p, bit) = {}
    BY <1>1, <1>3 DEF Ones
  <2>2. Cardinality({}) = 0
    BY FS_EmptySet
  <2> QED
    BY <1>3, <2>1, <2>2, ParityType
<1> QED
  BY <1>2, <1>3

-----------------------------------------------------------------------------
(* The parameters.                                                         *)

\* What stays as it was when the search began.
Setting ==
    /\ path \in Paths
    /\ base \in Instances
    /\ path # "generic" => WholeBytes
    /\ leaf \in [Leaves -> base.leaf_hashes]

\* K + 1 digits of cbits bits make a hash, and a round drops at least one of
\* them, or exactly one when it is whole bytes.
LEMMA Parameters ==
    ASSUME Setting
    PROVE  /\ N \in Nat \ {0} /\ K \in Nat \ {0} /\ cbits \in Nat \ {0}
           /\ N = (K + 1) * cbits
           /\ TrimmedBits \in Nat
           /\ WholeBytes => TrimmedBits = cbits
           /\ n_init \in Nat \ {0}
           /\ leaf \in [Leaves -> [1..N -> 0..1]]
<1>1. /\ N \in Nat \ {0} /\ K \in Nat \ {0} /\ byte_bits \in Nat \ {0}
      /\ N % (K + 1) = 0
      /\ base.leaf_hashes \subseteq [1..N -> 0..1]
  BY WagnerAssumption DEF Setting, ParamsAccepted, N, K, byte_bits
<1>2. K + 1 \in Nat \ {0}
  BY <1>1
<1>3. cbits \in Nat /\ N = (K + 1) * cbits + (N % (K + 1))
  BY <1>1, <1>2, DivMod DEF cbits
<1>4. N = (K + 1) * cbits
  BY <1>1, <1>2, <1>3
<1>5. cbits # 0
  BY <1>1, <1>2, <1>4
<1>6. cbytes \in Nat
  <2>1. cbits + byte_bits - 1 \in Nat
    BY <1>1, <1>3
  <2> QED
    BY <2>1, <1>1, DivMod DEF cbytes
<1>7. TrimmedBits \in Nat
  BY <1>1, <1>3, <1>6 DEF TrimmedBits
<1>8. ASSUME WholeBytes PROVE TrimmedBits = cbits
  <2> DEFINE q == cbits \div byte_bits
  <2>1. q \in Nat /\ cbits = byte_bits * q + (cbits % byte_bits)
    BY <1>1, <1>3, DivMod
  <2>2. cbits % byte_bits = 0
    BY <1>8 DEF WholeBytes
  <2>3. cbits = byte_bits * q
    BY <1>1, <2>1, <2>2
  <2>4. /\ byte_bits - 1 \in 0..(byte_bits - 1)
        /\ cbits + byte_bits - 1 = byte_bits * q + (byte_bits - 1)
        /\ cbits + byte_bits - 1 \in Nat
    BY <1>1, <1>3, <2>1, <2>3
  <2> HIDE DEF q
  <2>5. cbytes = q
    BY <1>1, <2>1, <2>4, DivUnique DEF cbytes
  <2>6. cbytes * byte_bits = cbits
    BY <1>1, <2>1, <2>3, <2>5
  <2> QED
    BY <2>6 DEF TrimmedBits
<1>9. n_init \in Nat \ {0}
  BY <1>3, PowersOfTwo DEF n_init
<1>10. leaf \in [Leaves -> [1..N -> 0..1]]
  BY <1>1 DEF Setting
<1> QED
  BY <1>1, <1>3, <1>4, <1>5, <1>7, <1>8, <1>9, <1>10

-----------------------------------------------------------------------------
(* Rows.                                                                   *)

\* The rows of a generation.
RowType(r) ==
    [hash : [1..(N - r * TrimmedBits) -> 0..1],
     indices : [1..pow2[r] -> Leaves]]

\* A row whose leaves form a subtree and whose hash is the rest of their XOR.
IsNode(row, r) ==
    /\ IsSubtree(row.indices, r)
    /\ \A bit \in (r * cbits + 1)..N :
           row.hash[bit - r * cbits]
               = Parity(row.indices, 1, Len(row.indices), bit)

GoodRows(r) == {row \in RowType(r) : WholeBytes => IsNode(row, r)}

\* Joining sequences, place by place.
LEMMA Joined ==
    ASSUME NEW S, NEW s \in Nat, NEW u \in [1..s -> S], NEW v \in [1..s -> S]
    PROVE  /\ u \o v \in [1..(2 * s) -> S]
           /\ Len(u \o v) = 2 * s
           /\ \A p \in 1..s : (u \o v)[p] = u[p] /\ (u \o v)[p + s] = v[p]
<1>1. u \in Seq(S) /\ Len(u) = s /\ v \in Seq(S) /\ Len(v) = s
  OBVIOUS
<1> DEFINE w == u \o v
<1>2. /\ w \in Seq(S) /\ Len(w) = s + s
      /\ \A i \in 1..(s + s) : w[i] = IF i <= s THEN u[i] ELSE v[i - s]
  <2>1. /\ u \o v \in Seq(S) /\ Len(u \o v) = Len(u) + Len(v)
        /\ \A i \in 1..Len(u) + Len(v) :
               (u \o v)[i] = IF i <= Len(u) THEN u[i] ELSE v[i - Len(u)]
    BY <1>1, ConcatProperties
  <2> HIDE DEF w
  <2> QED
    BY <1>1, <2>1 DEF w
<1> HIDE DEF w
<1>3. w \in [1..(2 * s) -> S] /\ Len(w) = 2 * s
  <2>1. s + s = 2 * s
    OBVIOUS
  <2> QED
    BY <1>2, <2>1
<1>4. ASSUME NEW p \in 1..s PROVE w[p] = u[p] /\ w[p + s] = v[p]
  <2>1. /\ p \in 1..(s + s) /\ p <= s
        /\ p + s \in 1..(s + s) /\ ~(p + s <= s) /\ (p + s) - s = p
    OBVIOUS
  <2> QED
    BY <1>2, <2>1
<1> QED
  BY <1>3, <1>4 DEF w

\* Its parity is the sum of theirs.
LEMMA JoinedParity ==
    ASSUME NEW s \in Nat,
           NEW u \in [1..s -> Leaves], NEW v \in [1..s -> Leaves],
           NEW t, t = 2 * s, NEW bit
    PROVE  Parity(u \o v, 1, t, bit)
               = (Parity(u, 1, s, bit) + Parity(v, 1, s, bit)) % 2
<1> DEFINE w == u \o v
<1>1. Placed(u, w, 1, s, 0) /\ Placed(v, w, 1, s, s)
  BY Joined DEF Placed
<1> HIDE DEF w
<1>2. /\ 1 = 1 + 0 /\ s = s + 0 /\ s + 1 = 1 + s /\ t = s + s
      /\ 1 <= s + 1 /\ s <= t /\ t \in Int
  OBVIOUS
<1>3. Parity(w, 1, s, bit) = Parity(u, 1, s, bit)
  BY <1>1, <1>2, ParityPlaced
<1>4. Parity(w, s + 1, t, bit) = Parity(v, 1, s, bit)
  BY <1>1, <1>2, ParityPlaced
<1>5. Parity(w, 1, t, bit)
          = (Parity(w, 1, s, bit) + Parity(w, s + 1, t, bit)) % 2
  BY <1>2, ParitySplit
<1> QED
  BY <1>3, <1>4, <1>5 DEF w

\* Two subtrees join to one: nothing shared, the smaller first leaf to the
\* left, every further digit cancelled.
LEMMA JoinIsSubtree ==
    ASSUME Setting, NEW r \in Nat,
           NEW u \in [1..pow2[r] -> Leaves], NEW v \in [1..pow2[r] -> Leaves],
           IsSubtree(u, r), IsSubtree(v, r),
           \A p, q \in 1..pow2[r] : u[p] # v[q],
           u[1] < v[1],
           \A bit \in 1..((r + 1) * cbits) :
               Parity(u, 1, pow2[r], bit) = Parity(v, 1, pow2[r], bit)
    PROVE  IsSubtree(u \o v, r + 1)
<1> DEFINE s == pow2[r]
           w == u \o v
<1>1. s \in Nat \ {0} /\ pow2[r + 1] = 2 * s
  BY PowersOfTwo
<1>2. /\ Len(w) = 2 * s
      /\ \A p \in 1..s : w[p] = u[p] /\ w[p + s] = v[p]
  <2>1. u \in [1..s -> Leaves] /\ v \in [1..s -> Leaves]
    OBVIOUS
  <2> HIDE DEF s
  <2> QED
    BY <1>1, <2>1, Joined
<1>3. cbits \in Nat
  BY Parameters
<1> HIDE DEF w
<1>4. ASSUME NEW p \in 1..(2 * s), NEW q \in 1..(2 * s), p # q
      PROVE  w[p] # w[q]
  <2>1. Len(u) = s /\ Len(v) = s
    BY <1>1
  <2>2. \A i, j \in 1..s : i # j => u[i] # u[j] /\ v[i] # v[j]
    BY <2>1 DEF IsSubtree
  <2>3. ASSUME NEW i \in 1..(2 * s)
        PROVE  \/ i \in 1..s /\ w[i] = u[i]
               \/ i - s \in 1..s /\ w[i] = v[i - s]
    <3>1. CASE i <= s
      BY <1>2, <3>1
    <3>2. CASE i > s
      <4>1. i - s \in 1..s /\ (i - s) + s = i
        BY <1>1, <3>2
      <4>2. w[(i - s) + s] = v[i - s]
        BY <1>2, <4>1
      <4> QED
        BY <4>1, <4>2
    <3> QED
      BY <1>1, <3>1, <3>2
  <2>4. p - s # q - s
    BY <1>1, <1>4
  <2> HIDE DEF s
  <2> QED
    BY <1>4, <2>2, <2>3, <2>4 DEF s
<1>5. ASSUME NEW h \in 1..(r + 1), NEW node \in 0..(pow2[(r + 1) - h] - 1)
      PROVE  /\ w[node * pow2[h] + 1] < w[node * pow2[h] + pow2[h - 1] + 1]
             /\ \A bit \in 1..(h * cbits) :
                    Parity(w, node * pow2[h] + 1, node * pow2[h] + pow2[h], bit)
                        = 0
  <2> DEFINE size == pow2[h]
             half == pow2[h - 1]
  <2>1. h \in Nat /\ h - 1 \in Nat /\ (h - 1) + 1 = h
    OBVIOUS
  <2>2. half \in Nat \ {0} /\ size \in Nat \ {0} /\ size = 2 * half
    BY <2>1, PowersOfTwo
  <2>3. CASE h = r + 1
    <3>1. size = 2 * s /\ half = s
      BY <1>1, <2>1, <2>2, <2>3
    <3>2. node = 0
      <4>1. (r + 1) - h = 0
        BY <2>3
      <4>2. pow2[(r + 1) - h] = 1
        BY <4>1, PowersOfTwo
      <4> QED
        BY <4>2
    <3>3. node * size = 0
      BY <2>2, <3>2
    <3>4. w[1] = u[1] /\ w[s + 1] = v[1]
      <4>1. 1 \in 1..s /\ 1 + s = s + 1
        BY <1>1
      <4> QED
        BY <1>2, <4>1
    <3>5. ASSUME NEW bit \in 1..(h * cbits)
          PROVE  Parity(w, 1, size, bit) = 0
      <4>1. Parity(w, 1, size, bit)
                = (Parity(u, 1, s, bit) + Parity(v, 1, s, bit)) % 2
        <5>1. u \in [1..s -> Leaves] /\ v \in [1..s -> Leaves] /\ s \in Nat
          BY <1>1
        <5> HIDE DEF s, size
        <5> QED
          BY <3>1, <5>1, JoinedParity DEF w
      <4>2. Parity(u, 1, s, bit) = Parity(v, 1, s, bit)
        BY <2>3
      <4>3. Parity(u, 1, s, bit) \in 0..1
        BY <1>1, ParityType
      <4> QED
        BY <3>1, <4>1, <4>2, <4>3
    <3> HIDE DEF size, half
    <3>6. /\ node * size + 1 = 1 /\ node * size + half + 1 = s + 1
          /\ node * size + size = size
      BY <1>1, <2>2, <3>1, <3>3
    <3>7. /\ w[node * size + 1] < w[node * size + half + 1]
          /\ \A bit \in 1..(h * cbits) :
                 Parity(w, node * size + 1, node * size + size, bit) = 0
      BY <3>4, <3>5, <3>6
    <3> QED
      BY <3>7 DEF size, half
  <2>4. CASE h # r + 1
    <3> DEFINE m == pow2[r - h]
    <3>1. r - h \in Nat /\ (r + 1) - h = (r - h) + 1 /\ (r - h) + h = r
      BY <2>1, <2>4
    <3>2. m \in Nat \ {0} /\ pow2[(r + 1) - h] = 2 * m /\ m * size = s
      <4>1. m \in Nat \ {0} /\ pow2[(r - h) + 1] = 2 * m
        BY <3>1, PowersOfTwo
      <4>2. pow2[(r - h) + h] = m * size
        BY <2>1, <3>1, PowersAdd
      <4> HIDE DEF m, size
      <4> QED
        BY <3>1, <4>1, <4>2
    <3>3. node \in 0..(2 * m - 1)
      BY <3>2
    <3>4. ASSUME NEW x \in [1..s -> Leaves], IsSubtree(x, r), NEW d \in Nat,
                 \A p \in 1..s : w[p + d] = x[p],
                 NEW k \in 0..(m - 1), node * size = k * size + d
          PROVE  /\ w[node * size + 1] < w[node * size + half + 1]
                 /\ \A bit \in 1..(h * cbits) :
                        Parity(w, node * size + 1, node * size + size, bit) = 0
      <4> DEFINE left == k * size
      <4>1. left \in Nat /\ left + size <= s
        <5> HIDE DEF m, s, size
        <5>1. left \in Nat
          <6>1. \A i, j \in Nat : i * j \in Nat
            OBVIOUS
          <6>2. k \in Nat /\ size \in Nat
            BY <2>2, <3>2
          <6> QED
            BY <6>1, <6>2, Zenon
        <5>2. (k + 1) * size <= m * size
          BY <2>2, <3>2
        <5>3. (k + 1) * size = left + size
          <6>1. \A i, j \in Nat : (i + 1) * j = i * j + j
            OBVIOUS
          <6>2. k \in Nat /\ size \in Nat
            BY <2>2, <3>2
          <6>3. (k + 1) * size = k * size + size
            BY <6>1, <6>2, Zenon
          <6> QED
            BY <6>3
        <5> QED
          BY <3>2, <5>1, <5>2, <5>3
      <4>2. /\ x[left + 1] < x[left + half + 1]
            /\ \A bit \in 1..(h * cbits) :
                   Parity(x, left + 1, left + size, bit) = 0
        <5>1. h \in 1..r
          BY <2>1, <2>4
        <5> QED
          BY <3>4, <5>1 DEF IsSubtree
      <4> HIDE DEF left, m, s, size, half
      <4>3. left + 1 \in 1..s /\ left + half + 1 \in 1..s
        BY <1>1, <2>2, <4>1
      <4>4. /\ node * size + 1 = (left + 1) + d
            /\ node * size + half + 1 = (left + half + 1) + d
            /\ node * size + size = (left + size) + d
        BY <2>2, <3>4, <4>1 DEF left
      <4>5. ASSUME NEW bit \in 1..(h * cbits)
            PROVE  Parity(w, node * size + 1, node * size + size, bit) = 0
        <5>1. Placed(x, w, left + 1, left + size, d)
          BY <1>1, <2>2, <3>4, <4>1 DEF Placed
        <5>2. left + 1 \in Int /\ left + size \in Int /\ d \in Int
          BY <2>2, <4>1
        <5>3. Parity(w, (left + 1) + d, (left + size) + d, bit)
                  = Parity(x, left + 1, left + size, bit)
          BY <5>1, <5>2, ParityPlaced
        <5> QED
          BY <4>2, <4>4, <5>3
      <4> QED
        BY <3>4, <4>2, <4>3, <4>4, <4>5
    <3>5. CASE node < m
      <4>1. node \in 0..(m - 1)
        BY <3>2, <3>5
      <4>3. node * size = node * size + 0
        <5>1. node * size \in Nat
          BY <2>2, <3>2
        <5> QED
          BY <5>1
      <4>2. \A p \in 1..s : w[p + 0] = u[p]
        BY <1>2
      <4> QED
        BY <3>4, <4>1, <4>2, <4>3
    <3>6. CASE ~(node < m)
      <4> DEFINE k == node - m
      <4>1. k \in 0..(m - 1)
        BY <3>2, <3>3, <3>6
      <4>2. node * size = k * size + s
        <5> HIDE DEF m, s, size
        <5>1. node * size = (node - m) * size + m * size
          BY <2>2, <3>2
        <5> QED
          BY <3>2, <5>1
      <4> HIDE DEF k
      <4> QED
        BY <1>1, <1>2, <3>4, <4>1, <4>2
    <3> QED
      BY <3>5, <3>6
  <2> QED
    BY <2>3, <2>4
<1>6. Len(w) = pow2[r + 1]
  BY <1>1, <1>2
<1>7. \A p, q \in 1..Len(w) : p # q => w[p] # w[q]
  BY <1>1, <1>2, <1>4
<1> QED
  BY <1>5, <1>6, <1>7 DEF IsSubtree, w

\* The hash that a merge leaves.
LEMMA XorTrimType ==
    ASSUME NEW m \in Int, TrimmedBits \in Nat,
           NEW x \in [1..m -> 0..1], NEW y \in [1..m -> 0..1]
    PROVE  /\ xor_trim(x, y) \in [1..(m - TrimmedBits) -> 0..1]
           /\ \A bit \in 1..(m - TrimmedBits) :
                  xor_trim(x, y)[bit]
                      = (x[bit + TrimmedBits] + y[bit + TrimmedBits]) % 2
<1> DEFINE T == TrimmedBits
           l == IF m < 0 THEN 0 ELSE m
<1>1. l \in Nat /\ 1..m = 1..l /\ 1..(l - T) = 1..(m - T)
  OBVIOUS
<1>2. Len(x) = l
  <2>1. x \in [1..l -> 0..1]
    BY <1>1
  <2> HIDE DEF l
  <2> QED
    BY <1>1, <2>1
<1> HIDE DEF T, l
<1>3. xor_trim(x, y) = [bit \in 1..(m - T) |-> (x[bit + T] + y[bit + T]) % 2]
  BY <1>1, <1>2 DEF xor_trim, T
<1>4. ASSUME NEW bit \in 1..(m - T)
      PROVE  (x[bit + T] + y[bit + T]) % 2 \in 0..1
  <2>1. bit + T \in 1..m
    BY DEF T
  <2>2. x[bit + T] \in 0..1 /\ y[bit + T] \in 0..1
    BY <2>1
  <2>3. \A i, j \in 0..1 : (i + j) % 2 \in 0..1
    OBVIOUS
  <2> QED
    BY <2>2, <2>3
<1> QED
  BY <1>3, <1>4 DEF T

\* A merge is a row of the next generation.
LEMMA MergeType ==
    ASSUME Setting, NEW r \in Nat, NEW a \in RowType(r), NEW b \in RowType(r)
    PROVE  merge(a, b) \in RowType(r + 1)
<1> DEFINE m == N - r * TrimmedBits
           s == pow2[r]
<1>1. TrimmedBits \in Nat /\ N \in Nat
  BY Parameters
<1>2. m \in Int /\ N - (r + 1) * TrimmedBits = m - TrimmedBits
  BY <1>1
<1>3. s \in Nat /\ pow2[r + 1] = 2 * s
  BY PowersOfTwo
<1>4. /\ a.hash \in [1..m -> 0..1] /\ b.hash \in [1..m -> 0..1]
      /\ a.indices \in [1..s -> Leaves] /\ b.indices \in [1..s -> Leaves]
  BY DEF RowType
<1> HIDE DEF m, s
<1>5. xor_trim(a.hash, b.hash) \in [1..(m - TrimmedBits) -> 0..1]
  BY <1>1, <1>2, <1>4, XorTrimType
<1>6. concat_canonical(a.indices, b.indices) \in [1..(2 * s) -> Leaves]
  <2>1. /\ a.indices \o b.indices \in [1..(2 * s) -> Leaves]
        /\ b.indices \o a.indices \in [1..(2 * s) -> Leaves]
    BY <1>3, <1>4, Joined
  <2> QED
    BY <2>1 DEF concat_canonical
<1> QED
  BY <1>2, <1>3, <1>5, <1>6 DEF merge, RowType

\* A node's leaves cancel every digit below its height, and those beyond are
\* in its hash.
LEMMA NodeParity ==
    ASSUME Setting, WholeBytes, NEW r \in Nat,
           NEW row \in RowType(r), IsNode(row, r)
    PROVE  /\ \A bit \in 1..(r * cbits) :
                  Parity(row.indices, 1, pow2[r], bit) = 0
           /\ \A bit \in 1..(N - r * cbits) :
                  /\ row.hash[bit]
                         = Parity(row.indices, 1, pow2[r], bit + r * cbits)
                  /\ row.hash[bit] \in 0..1
<1> DEFINE s == pow2[r]
           u == row.indices
<1>1. s \in Nat \ {0} /\ cbits \in Nat /\ TrimmedBits = cbits
  BY PowersOfTwo, Parameters
<1>2. Len(u) = s
  BY DEF IsNode, IsSubtree
<1>3. ASSUME NEW bit \in 1..(r * cbits)
      PROVE  Parity(u, 1, s, bit) = 0
  <2>1. r # 0
    BY <1>1, <1>3
  <2>2. r \in 1..r /\ r - r = 0
    BY <2>1
  <2>3. 0 \in 0..(pow2[r - r] - 1)
    BY <2>2, PowersOfTwo
  <2>4. Parity(u, 0 * s + 1, 0 * s + s, bit) = 0
    BY <2>2, <2>3 DEF IsNode, IsSubtree
  <2>5. 0 * s + 1 = 1 /\ 0 * s + s = s
    BY <1>1
  <2> QED
    BY <2>4, <2>5
<1>4. ASSUME NEW bit \in 1..(N - r * cbits)
      PROVE  /\ row.hash[bit] = Parity(u, 1, s, bit + r * cbits)
             /\ row.hash[bit] \in 0..1
  <2>1. row.hash[bit] = Parity(u, 1, Len(u), bit + r * cbits)
    <3> DEFINE at == bit + r * cbits
    <3>1. at \in (r * cbits + 1)..N /\ at - r * cbits = bit
      <4>1. r * cbits \in Nat /\ N \in Nat
        BY <1>1, Parameters
      <4> QED
        BY <4>1
    <3> HIDE DEF at
    <3>2. row.hash[at - r * cbits] = Parity(u, 1, Len(u), at)
      BY <3>1 DEF IsNode
    <3> QED
      BY <3>1, <3>2 DEF at
  <2>2. row.hash[bit] \in 0..1
    BY <1>1 DEF RowType
  <2> QED
    BY <1>2, <2>1, <2>2
<1> QED
  BY <1>3, <1>4

\* Two rows agree on the digit that the round compares.
SameDigit(a, b) == \A bit \in 1..cbits : a.hash[bit] = b.hash[bit]

\* Merging two nodes of a height that agree on their next digit and share no
\* leaf gives a node of the next height.
LEMMA MergeGood ==
    ASSUME Setting, NEW r \in Nat, r < K,
           NEW a \in GoodRows(r), NEW b \in GoodRows(r),
           distinct_indices(a.indices, b.indices),
           WholeBytes => SameDigit(a, b)
    PROVE  merge(a, b) \in GoodRows(r + 1)
<1> DEFINE s == pow2[r]
           u == a.indices
           v == b.indices
           w == concat_canonical(u, v)
           t == 2 * s
<1>1. a \in RowType(r) /\ b \in RowType(r)
  BY DEF GoodRows
<1>2. merge(a, b) \in RowType(r + 1)
  BY <1>1, MergeType
<1> SUFFICES ASSUME WholeBytes PROVE IsNode(merge(a, b), r + 1)
  BY <1>2 DEF GoodRows
<1>3. IsNode(a, r) /\ IsNode(b, r) /\ SameDigit(a, b)
  BY DEF GoodRows
<1>4. /\ N \in Nat /\ K \in Nat /\ cbits \in Nat /\ N = (K + 1) * cbits
      /\ TrimmedBits = cbits
  BY Parameters
<1>5. /\ r * cbits \in Nat /\ (r + 1) * cbits = r * cbits + cbits
      /\ (r + 1) * cbits <= N
  <2>1. (r + 1) * cbits <= (K + 1) * cbits
    BY <1>4
  <2> QED
    BY <1>4, <2>1
<1>6. /\ s \in Nat \ {0} /\ pow2[r + 1] = 2 * s
      /\ u \in [1..s -> Leaves] /\ v \in [1..s -> Leaves]
  BY <1>1, PowersOfTwo DEF RowType
<1>7. /\ \A bit \in 1..(r * cbits) :
             Parity(u, 1, s, bit) = 0 /\ Parity(v, 1, s, bit) = 0
      /\ \A bit \in 1..(N - r * cbits) :
             /\ a.hash[bit] = Parity(u, 1, s, bit + r * cbits)
             /\ b.hash[bit] = Parity(v, 1, s, bit + r * cbits)
  BY <1>1, <1>3, NodeParity
<1> HIDE DEF u, v, s, t
<1>8. ASSUME NEW bit \in 1..((r + 1) * cbits)
      PROVE  Parity(u, 1, s, bit) = Parity(v, 1, s, bit)
  <2>1. CASE bit <= r * cbits
    BY <1>5, <1>7, <2>1
  <2>2. CASE ~(bit <= r * cbits)
    <3> DEFINE c == bit - r * cbits
    <3>1. /\ c \in 1..cbits /\ c \in 1..(N - r * cbits)
          /\ c + r * cbits = bit
      BY <1>4, <1>5, <2>2
    <3>2. a.hash[c] = b.hash[c]
      BY <1>3, <3>1 DEF SameDigit
    <3> HIDE DEF c
    <3> QED
      BY <1>7, <3>1, <3>2
  <2> QED
    BY <2>1, <2>2
<1>9. \A p, q \in 1..s : u[p] # v[q] /\ v[p] # u[q]
  <2>1. DOMAIN u = 1..s /\ DOMAIN v = 1..s
    BY <1>6
  <2> QED
    BY <2>1 DEF distinct_indices, u, v
<1>10. IsSubtree(u, r) /\ IsSubtree(v, r)
  BY <1>3 DEF IsNode, u, v
<1>11. u[1] \in Nat /\ v[1] \in Nat /\ u[1] # v[1]
  <2>1. 1 \in 1..s
    BY <1>6
  <2> QED
    BY <1>6, <1>9, <2>1 DEF Leaves
<1>12. /\ IsSubtree(w, r + 1)
       /\ \A bit : Parity(w, 1, t, bit)
                      = (Parity(u, 1, s, bit) + Parity(v, 1, s, bit)) % 2
  <2>1. /\ \A bit : Parity(u \o v, 1, t, bit)
                       = (Parity(u, 1, s, bit) + Parity(v, 1, s, bit)) % 2
        /\ \A bit : Parity(v \o u, 1, t, bit)
                       = (Parity(v, 1, s, bit) + Parity(u, 1, s, bit)) % 2
    BY <1>6, JoinedParity DEF t
  <2>2. CASE u[1] < v[1]
    <3>1. w = u \o v
      BY <2>2 DEF concat_canonical
    <3>2. IsSubtree(u \o v, r + 1)
      BY <1>6, <1>8, <1>9, <1>10, <2>2, JoinIsSubtree DEF s
    <3> QED
      BY <2>1, <3>1, <3>2
  <2>3. CASE ~(u[1] < v[1])
    <3>1. w = v \o u /\ v[1] < u[1]
      BY <1>11, <2>3 DEF concat_canonical
    <3>2. IsSubtree(v \o u, r + 1)
      BY <1>6, <1>8, <1>9, <1>10, <3>1, JoinIsSubtree DEF s
    <3>3. ASSUME NEW bit
          PROVE  Parity(w, 1, t, bit)
                     = (Parity(u, 1, s, bit) + Parity(v, 1, s, bit)) % 2
      <4>1. Parity(u, 1, s, bit) \in 0..1 /\ Parity(v, 1, s, bit) \in 0..1
        BY <1>6, ParityType
      <4>2. Parity(w, 1, t, bit)
                = (Parity(v, 1, s, bit) + Parity(u, 1, s, bit)) % 2
        BY <2>1, <3>1
      <4> QED
        BY <4>1, <4>2
    <3> QED
      BY <3>1, <3>2, <3>3
  <2> QED
    BY <2>2, <2>3
<1> HIDE DEF w
<1>13. Len(w) = t
  BY <1>6, <1>12 DEF IsSubtree, t
<1> DEFINE m == N - (r + 1) * cbits
           hash == xor_trim(a.hash, b.hash)
<1>14. /\ hash \in [1..m -> 0..1]
       /\ \A bit \in 1..m :
              hash[bit] = (a.hash[bit + cbits] + b.hash[bit + cbits]) % 2
  <2>1. m = (N - r * cbits) - cbits /\ N - r * cbits \in Int
    BY <1>4, <1>5
  <2>2. /\ a.hash \in [1..(N - r * cbits) -> 0..1]
        /\ b.hash \in [1..(N - r * cbits) -> 0..1]
    BY <1>1, <1>4 DEF RowType
  <2> QED
    BY <1>4, <2>1, <2>2, XorTrimType
<1>15. ASSUME NEW bit \in ((r + 1) * cbits + 1)..N
       PROVE  hash[bit - (r + 1) * cbits] = Parity(w, 1, Len(w), bit)
  <2> DEFINE c == bit - (r + 1) * cbits
             d == c + cbits
  <2>1. /\ c \in 1..m /\ d \in 1..(N - r * cbits)
        /\ d + r * cbits = bit
    BY <1>4, <1>5
  <2>2. hash[c] = (a.hash[d] + b.hash[d]) % 2
    BY <1>14, <2>1
  <2> HIDE DEF hash, m, c, d
  <2>3. /\ a.hash[d] = Parity(u, 1, s, bit)
        /\ b.hash[d] = Parity(v, 1, s, bit)
    BY <1>7, <2>1
  <2>4. hash[c] = Parity(w, 1, Len(w), bit)
    BY <1>12, <1>13, <2>2, <2>3
  <2> QED
    BY <2>4 DEF c
<1> HIDE DEF hash, m
<1>16. merge(a, b).indices = w /\ merge(a, b).hash = hash
  BY DEF merge, w, hash, u, v
<1> QED
  BY <1>12, <1>15, <1>16 DEF IsNode

-----------------------------------------------------------------------------
(* A round.                                                                *)

\* Halving divisor and dividend.
LEMMA DivHalf ==
    ASSUME NEW x \in Nat, NEW b \in 0..1, NEW m \in Nat \ {0}
    PROVE  (2 * x + b) \div (2 * m) = x \div m
<1> DEFINE q == x \div m
           c == x % m
<1>1. q \in Nat /\ c \in 0..(m - 1) /\ x = m * q + c
  BY DivMod
<1> HIDE DEF q, c
<1>2. /\ 2 * x + b \in Nat /\ 2 * m \in Nat \ {0}
      /\ 2 * c + b \in 0..((2 * m) - 1)
  BY <1>1
<1>3. (2 * m) * q = 2 * (m * q)
  BY <1>1
<1>4. 2 * x + b = (2 * m) * q + (2 * c + b)
  BY <1>1, <1>3
<1> QED
  BY <1>1, <1>2, <1>4, DivUnique DEF q

\* Every string of bits is the digit of some bucket.
LEMMA BitStringOnto ==
    ASSUME NEW length \in Nat, NEW d \in [1..length -> 0..1]
    PROVE  \E x \in 0..(pow2[length] - 1) : BitString(x, length) = d
<1> DEFINE P(l) == \A s \in [1..l -> 0..1] :
                       \E x \in 0..(pow2[l] - 1) : BitString(x, l) = s
           T == {l \in Nat : ~P(l)}
<1> SUFFICES ASSUME T # {} PROVE FALSE
  OBVIOUS
<1>1. PICK n \in T : \A j \in T : n <= j
  BY LeastNatural
<1>2. n # 0
  <2>1. \A s \in [1..0 -> 0..1] : BitString(0, 0) = s
    BY DEF BitString
  <2>2. 0 \in 0..(pow2[0] - 1)
    BY PowersOfTwo
  <2> QED
    BY <2>1, <2>2
<1>3. PICK l \in Nat : n = l + 1
  <2>1. n - 1 \in Nat /\ n = (n - 1) + 1
    BY <1>2
  <2> QED
    BY <2>1
<1>4. P(l)
  BY <1>1, <1>3
<1>5. pow2[l] \in Nat \ {0} /\ pow2[n] = 2 * pow2[l]
  BY <1>3, PowersOfTwo
<1>6. ASSUME NEW s \in [1..n -> 0..1]
      PROVE  \E x \in 0..(pow2[n] - 1) : BitString(x, n) = s
  <2> DEFINE front == [bit \in 1..l |-> s[bit]]
  <2>1. front \in [1..l -> 0..1]
    BY <1>3
  <2>2. PICK x \in 0..(pow2[l] - 1) : BitString(x, l) = front
    BY <1>4, <2>1
  <2> DEFINE b == s[n]
             y == 2 * x + b
  <2>3. b \in 0..1 /\ x \in Nat
    BY <1>3, <1>5
  <2>4. y \in Nat /\ y \in 0..(pow2[n] - 1)
    BY <1>5, <2>3
  <2>5. ASSUME NEW bit \in 1..n
        PROVE  (y \div pow2[n - bit]) % 2 = s[bit]
    <3>1. CASE bit = n
      <4>1. pow2[n - bit] = 1
        BY <3>1, PowersOfTwo
      <4>2. y \div 1 = y /\ y % 2 = b
        <5>1. y \div 1 = y
          BY <2>4
        <5>2. \A i \in Nat, j \in 0..1 : (2 * i + j) % 2 = j
          OBVIOUS
        <5> HIDE DEF b
        <5>3. (2 * x + b) % 2 = b
          BY <2>3, <5>2
        <5> QED
          BY <5>1, <5>3
      <4> QED
        BY <3>1, <4>1, <4>2
    <3>2. CASE bit # n
      <4>1. bit \in 1..l /\ l - bit \in Nat /\ n - bit = (l - bit) + 1
        BY <1>3, <3>2
      <4>2. /\ pow2[n - bit] = 2 * pow2[l - bit]
            /\ pow2[l - bit] \in Nat \ {0}
        BY <4>1, PowersOfTwo
      <4>3. y \div pow2[n - bit] = x \div pow2[l - bit]
        <5> DEFINE m == pow2[l - bit]
        <5> HIDE DEF b, m
        <5>1. (2 * x + b) \div (2 * m) = x \div m
          BY <2>3, <4>2, DivHalf DEF m
        <5> QED
          BY <4>2, <5>1 DEF m
      <4>4. (x \div pow2[l - bit]) % 2 = front[bit]
        BY <2>2, <4>1 DEF BitString
      <4> QED
        BY <4>1, <4>3, <4>4
    <3> QED
      BY <3>1, <3>2
  <2>6. BitString(y, n) = s
    <3> HIDE DEF y
    <3> QED
      BY <2>5 DEF BitString
  <2> QED
    BY <2>4, <2>6
<1> QED
  BY <1>1, <1>6

\* Every front is the digit of some bucket.
LEMMA FrontHasBucket ==
    ASSUME NEW m \in Nat, NEW hash \in [1..m -> 0..1], NEW bits \in 0..m
    PROVE  \E x \in 1..pow2[bits] :
               SubSeq(hash, 1, bits) = BitString(x - 1, bits)
<1>1. bits \in Nat /\ 1 \in Int /\ bits \in Int /\ bits - 1 + 1 = bits
  OBVIOUS
<1> DEFINE front == SubSeq(hash, 1, bits)
<1>2. front \in [1..bits -> 0..1]
  <2>1. \A i \in 1..bits : hash[i] \in 0..1
    OBVIOUS
  <2>2. /\ front \in Seq(0..1)
        /\ Len(front) = IF 1 <= bits THEN bits - 1 + 1 ELSE 0
    BY <1>1, <2>1, SubSeqProperties
  <2>3. Len(front) = bits
    BY <1>1, <2>2
  <2> HIDE DEF front
  <2> QED
    BY <2>2, <2>3, LenProperties
<1> HIDE DEF front
<1>3. PICK x \in 0..(pow2[bits] - 1) : BitString(x, bits) = front
  BY <1>1, <1>2, BitStringOnto
<1>4. pow2[bits] \in Nat
  BY <1>1, PowersOfTwo
<1> DEFINE y == x + 1
<1>5. y \in 1..pow2[bits] /\ y - 1 = x
  BY <1>4
<1> HIDE DEF y
<1>6. front = BitString(y - 1, bits)
  BY <1>3, <1>5
<1> QED
  BY <1>5, <1>6 DEF front

\* The rows of a bucket.
RowsOfDigit(R, bits, x) ==
    {row \in R : SubSeq(row.hash, 1, bits) = BitString(x - 1, bits)}

\* A bucket gathers rows of one digit.
LEMMA BucketsType ==
    ASSUME NEW R, NEW some_rows \in Seq(R), NEW bits \in Nat,
           NEW x \in 1..pow2[bits]
    PROVE  /\ Buckets(some_rows, bits)[x] \in Seq(RowsOfDigit(R, bits, x))
           /\ \A row \in RowsOfDigit(R, bits, x) :
                  Holds(some_rows, row)
                      => Holds(Buckets(some_rows, bits)[x], row)
<1> DEFINE digit == BitString(x - 1, bits)
           D == RowsOfDigit(R, bits, x)
           pick(i) == IF SubSeq(some_rows[i].hash, 1, bits) = digit
                      THEN <<some_rows[i]>> ELSE <<>>
           ss == [i \in 1..Len(some_rows) |-> pick(i)]
<1>1. Len(some_rows) \in Nat /\ \A i \in 1..Len(some_rows) : some_rows[i] \in R
  OBVIOUS
<1>2. ASSUME NEW i \in 1..Len(some_rows)
      PROVE  /\ pick(i) \in Seq(D)
             /\ some_rows[i] \in D => Holds(pick(i), some_rows[i])
  <2> DEFINE row == some_rows[i]
  <2>1. row \in D <=> SubSeq(row.hash, 1, bits) = digit
    BY <1>1 DEF RowsOfDigit
  <2>2. pick(i) = IF row \in D THEN <<row>> ELSE <<>>
    BY <2>1
  <2> HIDE DEF D, row, pick
  <2>3. <<>> \in Seq(D)
    OBVIOUS
  <2>4. row \in D => <<row>> \in Seq(D)
    OBVIOUS
  <2>5. Holds(<<row>>, row)
    <3>1. Len(<<row>>) = 1 /\ <<row>>[1] = row /\ 1 \in 1..1
      OBVIOUS
    <3> QED
      BY <3>1 DEF Holds
  <2> QED
    BY <2>2, <2>3, <2>4, <2>5 DEF row
<1>3. Buckets(some_rows, bits)[x] = FlattenSeq(ss)
  BY DEF Buckets
<1> HIDE DEF D, pick
<1>4. /\ ss \in Seq(Seq(D)) /\ Len(ss) = Len(some_rows)
      /\ \A i \in 1..Len(some_rows) : ss[i] = pick(i)
  BY <1>1, <1>2
<1> HIDE DEF ss
<1>5. FlattenSeq(ss) \in Seq(D)
  BY <1>4, FlattenSeqType
<1>6. ASSUME NEW row \in D, Holds(some_rows, row)
      PROVE  Holds(FlattenSeq(ss), row)
  <2>1. PICK i \in 1..Len(some_rows) : some_rows[i] = row
    BY <1>6 DEF Holds
  <2>2. i \in 1..Len(ss) /\ Holds(ss[i], row)
    BY <1>2, <1>4, <2>1
  <2> QED
    BY <1>4, <2>2, FlattenHolds
<1> QED
  BY <1>3, <1>5, <1>6 DEF D

\* There is one for every digit.
LEMMA BucketsDomain ==
    ASSUME NEW some_rows, NEW bits \in Nat
    PROVE  DOMAIN Buckets(some_rows, bits) = 1..pow2[bits]
BY DEF Buckets

\* The buckets together hold what the rows do.
LEMMA BucketsFlattened ==
    ASSUME NEW R, NEW some_rows \in Seq(R), NEW bits \in Nat
    PROVE  /\ FlattenSeq(Buckets(some_rows, bits)) \in Seq(R)
           /\ \A m \in Nat, row \in R :
                  row.hash \in [1..m -> 0..1] /\ bits <= m
                  /\ Holds(some_rows, row)
                      => Holds(FlattenSeq(Buckets(some_rows, bits)), row)
<1> DEFINE ss == Buckets(some_rows, bits)
           n == pow2[bits]
<1>1. n \in Nat
  BY PowersOfTwo
<1>2. ASSUME NEW x \in 1..n PROVE ss[x] \in Seq(R)
  <2> DEFINE D == RowsOfDigit(R, bits, x)
  <2>1. ss[x] \in Seq(D)
    BY BucketsType
  <2>2. D \subseteq R
    BY DEF RowsOfDigit
  <2> HIDE DEF D, ss
  <2> QED
    BY <2>1, <2>2, SeqMonotonic
<1>3. ss = [x \in 1..n |-> ss[x]]
  BY DEF Buckets
<1>4. ASSUME NEW m \in Nat, NEW row \in R, row.hash \in [1..m -> 0..1],
             bits <= m, Holds(some_rows, row)
      PROVE  \E x \in 1..n : Holds(ss[x], row)
  <2>1. bits \in 0..m
    BY <1>4
  <2>2. PICK x \in 1..n : SubSeq(row.hash, 1, bits) = BitString(x - 1, bits)
    BY <1>4, <2>1, FrontHasBucket
  <2>3. row \in RowsOfDigit(R, bits, x)
    BY <2>2 DEF RowsOfDigit
  <2> QED
    BY <1>4, <2>3, BucketsType
<1> HIDE DEF ss, n
<1>5. ss \in Seq(Seq(R)) /\ Len(ss) = n
  <2>1. ss \in [1..n -> Seq(R)]
    BY <1>2, <1>3
  <2> QED
    BY <1>1, <2>1
<1>6. FlattenSeq(ss) \in Seq(R)
  BY <1>5, FlattenSeqType
<1>7. ASSUME NEW m \in Nat, NEW row \in R, row.hash \in [1..m -> 0..1],
             bits <= m, Holds(some_rows, row)
      PROVE  Holds(FlattenSeq(ss), row)
  BY <1>4, <1>5, <1>7, FlattenHolds
<1> QED
  BY <1>6, <1>7 DEF ss

\* Pairing a bucket's rows merges every two that share no leaf, in the order
\* they are found.
LEMMA PairsType ==
    ASSUME NEW D, NEW R, NEW bucket \in Seq(D),
           \A a, b \in D : distinct_indices(a.indices, b.indices)
                               => merge(a, b) \in R
    PROVE  /\ Pairs(bucket) \in Seq(R)
           /\ \A i, j \in 1..Len(bucket) :
                  i < j /\ distinct_indices(bucket[i].indices, bucket[j].indices)
                      => Holds(Pairs(bucket), merge(bucket[i], bucket[j]))
<1> DEFINE joins(i, j) ==
               i < j /\ distinct_indices(bucket[i].indices, bucket[j].indices)
           joined(i, j) == merge(bucket[i], bucket[j])
           join(i, j) == IF joins(i, j) THEN <<joined(i, j)>> ELSE <<>>
           with(i) == [j \in 1..Len(bucket) |-> join(i, j)]
           ss == [i \in 1..Len(bucket) |-> FlattenSeq(with(i))]
<1>1. Len(bucket) \in Nat /\ \A i \in 1..Len(bucket) : bucket[i] \in D
  OBVIOUS
<1>2. Pairs(bucket) = FlattenSeq(ss)
  BY DEF Pairs
<1>3. ASSUME NEW i \in 1..Len(bucket), NEW j \in 1..Len(bucket)
      PROVE  /\ join(i, j) \in Seq(R)
             /\ joins(i, j) => Holds(join(i, j), joined(i, j))
  <2>1. joins(i, j) => joined(i, j) \in R
    BY <1>1
  <2> DEFINE e == joined(i, j)
  <2>2. join(i, j) = IF joins(i, j) THEN <<e>> ELSE <<>>
    OBVIOUS
  <2> HIDE DEF joins, joined, join, e
  <2>3. <<>> \in Seq(R) /\ (e \in R => <<e>> \in Seq(R))
    OBVIOUS
  <2>4. Holds(<<e>>, e)
    <3>1. Len(<<e>>) = 1 /\ <<e>>[1] = e /\ 1 \in 1..1
      OBVIOUS
    <3> QED
      BY <3>1 DEF Holds
  <2> QED
    BY <2>1, <2>2, <2>3, <2>4 DEF e
<1> HIDE DEF joins, joined, join
<1>4. ASSUME NEW i \in 1..Len(bucket)
      PROVE  /\ with(i) \in Seq(Seq(R)) /\ Len(with(i)) = Len(bucket)
             /\ \A j \in 1..Len(bucket) : with(i)[j] = join(i, j)
  BY <1>1, <1>3
<1> HIDE DEF with
<1>5. ASSUME NEW i \in 1..Len(bucket)
      PROVE  /\ FlattenSeq(with(i)) \in Seq(R)
             /\ \A j \in 1..Len(bucket) :
                    joins(i, j) => Holds(FlattenSeq(with(i)), joined(i, j))
  <2>1. FlattenSeq(with(i)) \in Seq(R)
    BY <1>4, FlattenSeqType
  <2>2. ASSUME NEW j \in 1..Len(bucket), joins(i, j)
        PROVE  Holds(FlattenSeq(with(i)), joined(i, j))
    <3>1. j \in 1..Len(with(i)) /\ Holds(with(i)[j], joined(i, j))
      BY <1>3, <1>4, <2>2
    <3> QED
      BY <1>4, <3>1, FlattenHolds
  <2> QED
    BY <2>1, <2>2
<1>6. /\ ss \in Seq(Seq(R)) /\ Len(ss) = Len(bucket)
      /\ \A i \in 1..Len(bucket) : ss[i] = FlattenSeq(with(i))
  BY <1>1, <1>5
<1> HIDE DEF ss
<1>7. FlattenSeq(ss) \in Seq(R)
  BY <1>6, FlattenSeqType
<1>8. ASSUME NEW i \in 1..Len(bucket), NEW j \in 1..Len(bucket), joins(i, j)
      PROVE  Holds(FlattenSeq(ss), joined(i, j))
  <2>1. i \in 1..Len(ss) /\ Holds(ss[i], joined(i, j))
    BY <1>5, <1>6, <1>8
  <2> QED
    BY <1>6, <2>1, FlattenHolds
<1> QED
  BY <1>2, <1>7, <1>8 DEF joins, joined

\* Rows of a generation have the same front when they agree on the digit.
LEMMA FrontIsDigit ==
    ASSUME Setting, WholeBytes, NEW r \in Nat, r < K,
           NEW a \in GoodRows(r), NEW b \in GoodRows(r)
    PROVE  /\ SubSeq(a.hash, 1, cbits) = SubSeq(b.hash, 1, cbits)
                  <=> SameDigit(a, b)
           /\ N - r * cbits \in Nat /\ cbits <= N - r * cbits
           /\ a.hash \in [1..(N - r * cbits) -> 0..1]
<1>1. /\ N \in Nat /\ K \in Nat /\ cbits \in Nat /\ N = (K + 1) * cbits
      /\ TrimmedBits = cbits
  BY Parameters
<1>2. r * cbits \in Nat /\ cbits <= N - r * cbits /\ N - r * cbits \in Nat
  <2>1. (r + 1) * cbits <= (K + 1) * cbits
    BY <1>1
  <2>2. (r + 1) * cbits = r * cbits + cbits
    BY <1>1
  <2> QED
    BY <1>1, <2>1, <2>2
<1>3. ASSUME NEW c \in GoodRows(r)
      PROVE  /\ SubSeq(c.hash, 1, cbits) \in Seq(0..1)
             /\ Len(SubSeq(c.hash, 1, cbits)) = cbits
             /\ \A bit \in 1..cbits :
                    SubSeq(c.hash, 1, cbits)[bit] = c.hash[bit]
             /\ c.hash \in [1..(N - r * cbits) -> 0..1]
  <2>1. c.hash \in [1..(N - r * cbits) -> 0..1]
    BY <1>1 DEF GoodRows, RowType
  <2>2. \A i \in 1..cbits : c.hash[i] \in 0..1
    <3> DEFINE m == N - r * cbits
    <3> HIDE DEF m
    <3>1. m \in Nat /\ cbits <= m /\ c.hash \in [1..m -> 0..1]
      BY <1>2, <2>1 DEF m
    <3> QED
      BY <1>1, <3>1
  <2>3. 1 \in Int /\ cbits \in Int
    BY <1>1
  <2>4. /\ SubSeq(c.hash, 1, cbits) \in Seq(0..1)
        /\ Len(SubSeq(c.hash, 1, cbits))
               = IF 1 <= cbits THEN cbits - 1 + 1 ELSE 0
        /\ \A i \in 1..cbits - 1 + 1 :
               SubSeq(c.hash, 1, cbits)[i] = c.hash[1 + i - 1]
    BY <2>2, <2>3, SubSeqProperties
  <2>5. /\ cbits - 1 + 1 = cbits /\ \A i \in 1..cbits : 1 + i - 1 = i
        /\ (IF 1 <= cbits THEN cbits - 1 + 1 ELSE 0) = cbits
    BY <1>1
  <2> QED
    BY <2>1, <2>4, <2>5
<1> DEFINE x == SubSeq(a.hash, 1, cbits)
           y == SubSeq(b.hash, 1, cbits)
<1>4. /\ x \in Seq(0..1) /\ y \in Seq(0..1)
      /\ Len(x) = cbits /\ Len(y) = cbits
      /\ \A bit \in 1..cbits : x[bit] = a.hash[bit] /\ y[bit] = b.hash[bit]
  BY <1>3
<1> HIDE DEF x, y
<1>5. x = y <=> SameDigit(a, b)
  <2>1. ASSUME x = y PROVE SameDigit(a, b)
    BY <1>4, <2>1 DEF SameDigit
  <2>2. ASSUME SameDigit(a, b) PROVE x = y
    <3>1. \A i \in 1..Len(x) : x[i] = y[i]
      BY <1>4, <2>2 DEF SameDigit
    <3> QED
      BY <1>4, <3>1, SeqEqual
  <2> QED
    BY <2>1, <2>2
<1> QED
  BY <1>2, <1>3, <1>5 DEF x, y

\* What a round pairs: the rows of its buckets.
DigitBuckets == Buckets(SortedRows, cbits)
PairsOfBuckets == [x \in DOMAIN DigitBuckets |-> Pairs(DigitBuckets[x])]

\* Sorting keeps the rows, a bucket's rows merge into the next generation, and
\* the round gathers what the buckets give.
LEMMA RoundParts ==
    ASSUME Setting, NEW r \in Nat, r < K, rows \in Seq(GoodRows(r))
    PROVE  /\ SortedRows \in Seq(GoodRows(r))
           /\ \A x \in 1..pow2[cbits] :
                  /\ DigitBuckets[x] \in Seq(RowsOfDigit(GoodRows(r), cbits, x))
                  /\ \A a, b \in RowsOfDigit(GoodRows(r), cbits, x) :
                         distinct_indices(a.indices, b.indices)
                             => merge(a, b) \in GoodRows(r + 1)
                  /\ PairsOfBuckets[x] = Pairs(DigitBuckets[x])
           /\ PairsOfBuckets \in Seq(Seq(GoodRows(r + 1)))
           /\ Len(PairsOfBuckets) = pow2[cbits]
           /\ AllPairs = FlattenSeq(PairsOfBuckets)
<1> DEFINE R == GoodRows(r)
           R2 == GoodRows(r + 1)
           buckets == DigitBuckets
           ss == PairsOfBuckets
           n == pow2[cbits]
<1>1. cbits \in Nat
  BY Parameters
<1>2. SortedRows \in Seq(R)
  <2>1. CASE rows = <<>>
    BY <2>1 DEF SortedRows
  <2>2. CASE rows # <<>>
    <3>1. rows[1] \in R
      BY <2>2
    <3>2. rows[1].hash \in [1..(N - r * TrimmedBits) -> 0..1]
      BY <3>1 DEF GoodRows, RowType
    <3>3. Len(rows[1].hash) \in Nat
      <4>1. N - r * TrimmedBits \in Int
        BY Parameters
      <4> HIDE DEF R
      <4>2. CASE N - r * TrimmedBits \in Nat
        BY <3>2, <4>2
      <4>3. CASE N - r * TrimmedBits \notin Nat
        <5>1. 1..(N - r * TrimmedBits) = 1..0
          BY <4>1, <4>3
        <5>2. rows[1].hash \in [1..0 -> 0..1]
          BY <3>2, <5>1
        <5> QED
          BY <5>2
      <4> QED
        BY <4>2, <4>3
    <3> HIDE DEF R
    <3>4. FlattenSeq(Buckets(rows, Len(rows[1].hash))) \in Seq(R)
      BY <3>3, BucketsFlattened DEF R
    <3> QED
      BY <3>4 DEF SortedRows, R
  <2> QED
    BY <2>1, <2>2
<1>3. DOMAIN buckets = 1..n /\ n \in Nat
  BY <1>1, BucketsDomain, PowersOfTwo DEF DigitBuckets
<1>4. ASSUME NEW x \in 1..n
      PROVE  /\ buckets[x] \in Seq(RowsOfDigit(R, cbits, x))
             /\ \A a, b \in RowsOfDigit(R, cbits, x) :
                    distinct_indices(a.indices, b.indices) => merge(a, b) \in R2
             /\ Pairs(buckets[x]) \in Seq(R2)
  <2> DEFINE D == RowsOfDigit(R, cbits, x)
  <2>1. buckets[x] \in Seq(D)
    <3> HIDE DEF R
    <3> QED
      BY <1>1, <1>2, BucketsType DEF DigitBuckets
  <2>2. ASSUME NEW a \in D, NEW b \in D,
               distinct_indices(a.indices, b.indices)
        PROVE  merge(a, b) \in R2
    <3>1. a \in R /\ b \in R
      BY DEF RowsOfDigit
    <3>2. SubSeq(a.hash, 1, cbits) = SubSeq(b.hash, 1, cbits)
      BY DEF RowsOfDigit
    <3>3. WholeBytes => SameDigit(a, b)
      BY <3>1, <3>2, FrontIsDigit
    <3> QED
      BY <2>2, <3>1, <3>3, MergeGood
  <2> HIDE DEF D, R2
  <2>3. Pairs(buckets[x]) \in Seq(R2)
    BY <2>1, <2>2, PairsType
  <2> QED
    BY <2>1, <2>2, <2>3 DEF D
<1>5. AllPairs = FlattenSeq(ss)
  BY DEF AllPairs, PairsOfBuckets, DigitBuckets
<1>6. ss = [x \in 1..n |-> Pairs(buckets[x])]
  BY <1>3 DEF PairsOfBuckets
<1>7. ss \in Seq(Seq(R2)) /\ Len(ss) = n
  <2> HIDE DEF n, R2, ss, buckets
  <2> QED
    BY <1>3, <1>4, <1>6
<1> QED
  BY <1>2, <1>4, <1>5, <1>6, <1>7

\* A round turns good rows into good rows.
LEMMA RoundGood ==
    ASSUME Setting, NEW r \in Nat, r < K, rows \in Seq(GoodRows(r))
    PROVE  AllPairs \in Seq(GoodRows(r + 1))
<1> DEFINE R2 == GoodRows(r + 1)
<1>1. PairsOfBuckets \in Seq(Seq(R2)) /\ AllPairs = FlattenSeq(PairsOfBuckets)
  BY RoundParts
<1> HIDE DEF R2
<1>2. AllPairs \in Seq(R2)
  BY <1>1, FlattenSeqType
<1> QED
  BY <1>2 DEF R2

-----------------------------------------------------------------------------
(* What a search keeps.                                                    *)

\* The operators depend on no variable that a step changes.
LEMMA SameParity ==
    ASSUME leaf' = leaf, NEW indices, NEW from, NEW to, NEW bit
    PROVE  Parity(indices, from, to, bit)' = Parity(indices, from, to, bit)
BY DEF Parity

\* What a subtree is depends only on the parameters and the leaves' hashes.
LEMMA SameSubtree ==
    ASSUME UNCHANGED <<base, leaf>>, NEW indices, NEW height
    PROVE  IsSubtree(indices, height)' = IsSubtree(indices, height)
<1>1. cbits' = cbits
  BY DEF cbits, N, K
<1> QED
  BY <1>1, SameParity DEF IsSubtree

\* So do the rows of a generation.
LEMMA SameRows ==
    ASSUME UNCHANGED <<path, base, leaf>>, NEW r
    PROVE  GoodRows(r)' = GoodRows(r)
<1>1. /\ cbits' = cbits /\ WholeBytes' = WholeBytes /\ N' = N /\ K' = K
      /\ TrimmedBits' = TrimmedBits /\ Leaves' = Leaves
  BY DEF cbits, WholeBytes, N, K, TrimmedBits, Leaves, n_init, cbytes,
         byte_bits
<1>2. RowType(r)' = RowType(r)
  BY <1>1 DEF RowType
<1>3. ASSUME NEW row PROVE IsNode(row, r)' = IsNode(row, r)
  BY <1>1, SameParity, SameSubtree DEF IsNode
<1> QED
  BY <1>1, <1>2, <1>3 DEF GoodRows

\* And so do the solutions.
LEMMA SameSolution ==
    ASSUME UNCHANGED <<base, leaf>>, NEW indices
    PROVE  is_valid_solution(indices)' = is_valid_solution(indices)
<1>1. N' = N /\ K' = K
  BY DEF N, K
<1> QED
  BY <1>1, SameParity, SameSubtree DEF is_valid_solution

\* The inductive invariant: the rows are nodes of their generation, and what
\* was found is a solution.
WagnerInvariant ==
    /\ Setting
    /\ \E r \in 0..K : round = r /\ rows \in Seq(GoodRows(r))
    /\ capped \in BOOLEAN
    /\ status \in {"searching", "none", "found", "panicked"}
    /\ \E found : /\ solution = found
                  /\ found \in {<<>>} \cup [1..pow2[K] -> Leaves]
                  /\ status = "found" => is_valid_solution(found)

\* The leaves are nodes of height zero.
LEMMA LeavesGood ==
    ASSUME Setting
    PROVE  generate_leaves(leaf) \in Seq(GoodRows(0))
<1>1. /\ N \in Nat /\ n_init \in Nat /\ TrimmedBits \in Nat /\ cbits \in Nat
      /\ leaf \in [Leaves -> [1..N -> 0..1]]
  BY Parameters
<1>2. 0 * TrimmedBits = 0 /\ 0 * cbits = 0 /\ N - 0 = N
  BY <1>1
<1>3. pow2[0] = 1
  BY PowersOfTwo
<1>4. ASSUME NEW i \in 1..n_init
      PROVE  [hash |-> leaf[i - 1], indices |-> <<i - 1>>] \in GoodRows(0)
  <2> DEFINE row == [hash |-> leaf[i - 1], indices |-> <<i - 1>>]
  <2>1. i - 1 \in Leaves /\ leaf[i - 1] \in [1..N -> 0..1]
    BY <1>1 DEF Leaves
  <2>2. <<i - 1>> \in [1..1 -> Leaves] /\ Len(<<i - 1>>) = 1
    BY <2>1
  <2>3. row \in RowType(0)
    BY <1>2, <1>3, <2>1, <2>2 DEF RowType
  <2>4. IsSubtree(<<i - 1>>, 0)
    BY <1>3, <2>2 DEF IsSubtree
  <2>5. ASSUME NEW bit \in 1..N
        PROVE  Parity(<<i - 1>>, 1, 1, bit) = leaf[i - 1][bit]
    <3> DEFINE a == <<i - 1>>
    <3>1. a[1] = i - 1 /\ leaf[i - 1][bit] \in 0..1
      BY <2>1
    <3> HIDE DEF a
    <3>2. Parity(a, 1, 1, bit) = leaf[a[1]][bit]
      BY <3>1, ParityOne
    <3> QED
      BY <3>1, <3>2 DEF a
  <2>6. 0 * cbits + 1 = 1 /\ \A bit \in 1..N : bit - 0 * cbits = bit
    BY <1>2
  <2>7. ASSUME NEW bit \in (0 * cbits + 1)..N
        PROVE  row.hash[bit - 0 * cbits]
                   = Parity(row.indices, 1, Len(row.indices), bit)
    BY <2>2, <2>5, <2>6
  <2>8. IsNode(row, 0)
    BY <2>4, <2>7 DEF IsNode
  <2> QED
    BY <2>3, <2>8 DEF GoodRows
<1> QED
  BY <1>1, <1>4 DEF generate_leaves

\* A search begins in the invariant.
LEMMA InitInvariant == ASSUME Init PROVE WagnerInvariant
<1>1. Setting
  BY DEF Init, Setting
<1>2. 0 \in 0..K
  BY <1>1, Parameters
<1> QED
  BY <1>1, <1>2, LeavesGood DEF Init, WagnerInvariant

\* Giving back the indices they were packed from.
LEMMA CompressKeeps ==
    ASSUME Setting, NEW s \in Nat, NEW indices \in [1..s -> Leaves]
    PROVE  compress_indices(indices) = indices
<1>1. pow2[cbits + 1] \in Nat \ {0} /\ Leaves = 0..(pow2[cbits + 1] - 1)
  BY Parameters, PowersOfTwo DEF Leaves, n_init
<1>2. ASSUME NEW p \in 1..s PROVE indices[p] % pow2[cbits + 1] = indices[p]
  <2> DEFINE m == pow2[cbits + 1]
  <2>1. indices[p] \in Nat /\ indices[p] \in 0..(m - 1)
    BY <1>1
  <2>2. indices[p] = m * 0 + indices[p]
    BY <1>1, <2>1
  <2> HIDE DEF m
  <2> QED
    BY <1>1, <2>1, <2>2, DivUnique DEF m
<1> QED
  BY <1>2 DEF compress_indices

\* A node of full height with nothing left of its hash is a solution.
LEMMA ZeroNodeSolves ==
    ASSUME Setting, WholeBytes, NEW row \in GoodRows(K), ZeroHash(row)
    PROVE  is_valid_solution(row.indices)
<1>1. /\ N \in Nat /\ K \in Nat /\ cbits \in Nat /\ TrimmedBits = cbits
  BY Parameters
<1>2. row \in RowType(K) /\ IsNode(row, K)
  BY DEF GoodRows
<1>3. IsSubtree(row.indices, K) /\ Len(row.indices) = pow2[K]
  BY <1>2 DEF IsNode, IsSubtree
<1>4. ASSUME NEW bit \in 1..N
      PROVE  Parity(row.indices, 1, pow2[K], bit) = 0
  <2>1. CASE bit \in 1..(K * cbits)
    BY <1>1, <1>2, <2>1, NodeParity
  <2>2. CASE bit \notin 1..(K * cbits)
    <3> DEFINE c == bit - K * cbits
    <3>1. K * cbits \in Nat
      BY <1>1
    <3>2. c \in 1..(N - K * cbits) /\ c + K * cbits = bit
      BY <1>1, <2>2, <3>1
    <3> HIDE DEF c
    <3>3. row.hash[c] = Parity(row.indices, 1, pow2[K], c + K * cbits)
      BY <1>1, <1>2, <3>2, NodeParity
    <3>4. row.hash[c] = 0
      <4>1. row.hash \in [1..(N - K * cbits) -> 0..1]
        BY <1>1, <1>2 DEF RowType
      <4> QED
        BY <3>2, <4>1 DEF ZeroHash
    <3> QED
      BY <3>2, <3>3, <3>4
  <2> QED
    BY <2>1, <2>2
<1> QED
  BY <1>3, <1>4 DEF is_valid_solution

\* Every step keeps the invariant.
LEMMA StepInvariant ==
    ASSUME WagnerInvariant, [Next]_vars
    PROVE  WagnerInvariant'
<1>1. Setting /\ K \in Nat /\ n_init \in Nat
  BY Parameters DEF WagnerInvariant
<1>2. PICK r \in 0..K : round = r /\ rows \in Seq(GoodRows(r))
  BY DEF WagnerInvariant
<1>3. UNCHANGED <<path, base, leaf>>
  BY DEF Next, WagnerRound, Panic, Scan, vars
<1>4. Setting' /\ K' = K /\ Leaves' = Leaves
  BY <1>1, <1>3
     DEF Setting, WholeBytes, Leaves, n_init, cbits, byte_bits, N, K
<1>5. \A k : GoodRows(k)' = GoodRows(k)
  BY <1>3, SameRows
<1>6. \A x : is_valid_solution(x)' = is_valid_solution(x)
  BY <1>3, SameSolution
<1>7. CASE WagnerRound
  <2>1. round < K /\ round = r /\ r \in Nat
    BY <1>1, <1>2, <1>7 DEF WagnerRound
  <2>2. AllPairs \in Seq(GoodRows(r + 1))
    BY <1>1, <1>2, <2>1, RoundGood
  <2>3. rows' = InRoom(AllPairs) /\ round' = r + 1
    BY <1>2, <1>7 DEF WagnerRound
  <2>4. InRoom(AllPairs) \in Seq(GoodRows(r + 1))
    <3> DEFINE R == GoodRows(r + 1)
               pairs == AllPairs
    <3>1. pairs \in Seq(R)
      BY <2>2
    <3> HIDE DEF R, pairs
    <3>2. Len(pairs) > n_init => SubSeq(pairs, 1, n_init) \in Seq(R)
      BY <1>1, <3>1
    <3>3. InRoom(pairs) \in Seq(R)
      BY <3>1, <3>2 DEF InRoom
    <3> QED
      BY <3>3 DEF R, pairs
  <2>5. PICK k \in 0..K : k = r + 1
    BY <1>1, <2>1
  <2>6. k \in 0..K' /\ round' = k /\ rows' \in Seq(GoodRows(k)')
    BY <1>4, <1>5, <2>3, <2>4, <2>5
  <2>7. capped' \in BOOLEAN /\ status' \in {"searching", "none"}
        /\ solution' = solution
    BY <1>7 DEF WagnerRound, WagnerInvariant
  <2> QED
    BY <1>4, <2>6, <2>7 DEF WagnerInvariant
<1>8. CASE Panic
  BY <1>2, <1>4, <1>5, <1>8 DEF Panic, WagnerInvariant
<1>9. CASE Scan
  <2> DEFINE accepted == {i \in DOMAIN rows : Accepts(rows[i])}
  <2>1. /\ round' = r /\ rows' \in Seq(GoodRows(r)') /\ capped' \in BOOLEAN
        /\ r = K
    BY <1>2, <1>5, <1>9 DEF Scan, WagnerInvariant
  <2>2. CASE accepted = {}
    <3>1. status' = "none" /\ solution' = solution
      BY <1>9, <2>2 DEF Scan
    <3> QED
      BY <1>4, <2>1, <3>1 DEF WagnerInvariant
  <2>3. CASE accepted # {}
    <3> DEFINE row == rows[Min(accepted)]
    <3>1. status' = "found" /\ solution' = compress_indices(row.indices)
      BY <1>9, <2>3 DEF Scan
    <3>2. Min(accepted) \in accepted
      <4>1. accepted \in SUBSET Nat
        BY <1>2
      <4> HIDE DEF accepted
      <4>2. \E x \in accepted : \A y \in accepted : x <= y
        BY <2>3, <4>1, LeastNatural
      <4> QED
        BY <4>2 DEF Min
    <3>3. row \in GoodRows(K) /\ Accepts(row)
      BY <1>2, <2>1, <3>2
    <3> HIDE DEF accepted, row
    <3>4. row.indices \in [1..pow2[K] -> Leaves] /\ pow2[K] \in Nat
      BY <1>1, <3>3, PowersOfTwo DEF GoodRows, RowType
    <3>5. compress_indices(row.indices) = row.indices
      BY <1>1, <3>4, CompressKeeps
    <3>6. is_valid_solution(row.indices)
      <4>1. CASE path = "kernel"
        <5>1. WholeBytes /\ ZeroHash(row)
          BY <1>1, <3>3, <4>1 DEF Setting, Accepts
        <5> QED
          BY <1>1, <3>3, <5>1, ZeroNodeSolves
      <4>2. CASE path # "kernel"
        BY <3>3, <3>5, <4>2 DEF Accepts
      <4> QED
        BY <4>1, <4>2
    <3>7. PICK found : found = row.indices
      OBVIOUS
    <3>8. /\ solution' = found
          /\ found \in [1..pow2[K'] -> Leaves']
          /\ is_valid_solution(found)'
      BY <1>4, <1>6, <3>1, <3>4, <3>5, <3>6, <3>7
    <3> QED
      BY <1>4, <2>1, <3>1, <3>8 DEF WagnerInvariant
  <2> QED
    BY <2>2, <2>3
<1>10. CASE UNCHANGED vars
  BY <1>2, <1>4, <1>5, <1>6, <1>10 DEF vars, WagnerInvariant
<1> QED
  BY <1>7, <1>8, <1>9, <1>10 DEF Next

\* In every state of every search the rows are nodes of the round's height and
\* a solution that was found is one.
THEOREM WagnerInvariantHolds == Spec => []WagnerInvariant
<1>1. Init => WagnerInvariant
  BY InitInvariant
<1>2. WagnerInvariant /\ [Next]_vars => WagnerInvariant'
  BY StepInvariant
<1> QED
  BY <1>1, <1>2, PTL DEF Spec

\* The rows have as many hash bits as the rounds have left and as many leaves
\* as they have joined: WagnerRound and Scan keep every variable's type.
THEOREM TypeCorrect == Spec => []TypeOK
<1>1. WagnerInvariant => TypeOK
  <2> SUFFICES ASSUME WagnerInvariant PROVE TypeOK
    OBVIOUS
  <2>1. PICK r \in 0..K : round = r /\ rows \in Seq(GoodRows(r))
    BY DEF WagnerInvariant
  <2>2. ASSUME NEW i \in DOMAIN rows
        PROVE  /\ rows[i].hash \in [1..(N - round * TrimmedBits) -> 0..1]
               /\ rows[i].indices \in [1..pow2[round] -> Leaves]
    <3>1. rows[i] \in GoodRows(r)
      BY <2>1
    <3> QED
      BY <2>1, <3>1 DEF GoodRows, RowType
  <2> QED
    BY <2>1, <2>2 DEF WagnerInvariant, Setting, TypeOK
<1> QED
  BY <1>1, WagnerInvariantHolds, PTL

\* With digits of whole bytes every row that merge builds is a correct subtree:
\* the check at each merge keeps all its leaves distinct, and its trimmed hash
\* is what is left of their XOR.
THEOREM RowsAlwaysSubtrees == Spec => []RowsAreSubtrees
<1>1. WagnerInvariant => RowsAreSubtrees
  <2> SUFFICES ASSUME WagnerInvariant, WholeBytes, NEW i \in DOMAIN rows
               PROVE  /\ IsSubtree(rows[i].indices, round)
                      /\ rows[i].hash =
                             [bit \in 1..(N - round * cbits) |->
                                 Parity(rows[i].indices, 1,
                                        Len(rows[i].indices),
                                        bit + round * cbits)]
    BY DEF RowsAreSubtrees
  <2>1. PICK r \in 0..K : round = r /\ rows \in Seq(GoodRows(r))
    BY DEF WagnerInvariant
  <2> DEFINE row == rows[i]
  <2>2. row \in GoodRows(r)
    BY <2>1
  <2> HIDE DEF row
  <2>3. Setting /\ r \in Nat /\ TrimmedBits = cbits
    BY <2>1, Parameters DEF WagnerInvariant
  <2>4. row \in RowType(r) /\ IsNode(row, r)
    BY <2>2 DEF GoodRows
  <2>5. row.hash \in [1..(N - r * cbits) -> 0..1]
    BY <2>3, <2>4 DEF RowType
  <2>6. IsSubtree(row.indices, r) /\ Len(row.indices) = pow2[r]
    BY <2>4 DEF IsNode, IsSubtree
  <2>7. \A bit \in 1..(N - r * cbits) :
            row.hash[bit]
                = Parity(row.indices, 1, Len(row.indices), bit + r * cbits)
    BY <2>3, <2>4, <2>6, NodeParity
  <2>8. row.hash = [bit \in 1..(N - r * cbits) |->
                       Parity(row.indices, 1, Len(row.indices),
                              bit + r * cbits)]
    BY <2>5, <2>7
  <2> QED
    BY <2>1, <2>6, <2>8 DEF row
<1> QED
  BY <1>1, WagnerInvariantHolds, PTL

\* What Scan accepts is a solution on every path, also on the kernel's, which
\* leaves the verifier to its host.
THEOREM FoundAlwaysSolves == Spec => []FoundIsSolution
<1>1. WagnerInvariant => FoundIsSolution
  BY DEF WagnerInvariant, FoundIsSolution
<1> QED
  BY <1>1, WagnerInvariantHolds, PTL

\* The comparison of the generic path stays within the hashes as long as digits
\* are whole bytes, and so do the fixed parameters of the other paths: the
\* panic takes parameters whose digit ends within a byte.
THEOREM PanicsOnlyOnPartBytes == Spec => [](WholeBytes => NeverPanics)
<1>1. ASSUME WagnerInvariant, WholeBytes, round < K
      PROVE  ~ComparisonPanics
  <2>1. Setting
    BY <1>1 DEF WagnerInvariant
  <2>2. PICK r \in 0..K : round = r /\ rows \in Seq(GoodRows(r))
    BY <1>1 DEF WagnerInvariant
  <2>3. r \in Nat /\ r < K /\ byte_bits \in Nat \ {0} /\ cbits \in Nat
    BY <1>1, <2>1, <2>2, Parameters, WagnerAssumption
       DEF Setting, byte_bits
  <2> DEFINE R == GoodRows(r)
             m == N - r * cbits
             bytes == m \div byte_bits
             full == cbits \div byte_bits
  <2>4. ASSUME Len(rows) >= 2 PROVE Len(rows[1].hash) = m
    <3>1. rows[1] \in R
      <4>1. rows \in Seq(R)
        BY <2>2
      <4> HIDE DEF R
      <4> QED
        BY <2>4, <4>1
    <3>2. m \in Nat /\ rows[1].hash \in [1..m -> 0..1]
      BY <1>1, <2>1, <2>3, <3>1, FrontIsDigit
    <3> HIDE DEF m
    <3> QED
      BY <3>2
  <2>5. m \in Nat /\ cbits <= m
    <3>1. /\ N \in Nat /\ K \in Nat /\ N = (K + 1) * cbits
      BY <2>1, Parameters
    <3>2. (K + 1) * cbits = (K - r) * cbits + cbits + r * cbits
      BY <2>3, <3>1
    <3>3. (K - r) * cbits \in Nat
      BY <2>3, <3>1
    <3> QED
      BY <2>3, <3>1, <3>2, <3>3
  <2> HIDE DEF R, m
  <2>6. /\ full \in Nat /\ cbits % byte_bits \in Nat
        /\ cbits = byte_bits * full + (cbits % byte_bits)
    <3>1. PICK h \in Nat, n \in Nat \ {0} : h = cbits /\ n = byte_bits
      BY <2>3
    <3>2. /\ h \div n \in Nat /\ h % n \in 0..(n - 1)
          /\ h = n * (h \div n) + (h % n)
      BY DivMod
    <3>3. h % n \in Nat
      BY <3>2
    <3> QED
      BY <3>1, <3>2, <3>3
  <2> HIDE DEF full
  <2>7. byte_bits * full <= m
    <3>1. byte_bits * full \in Nat
      BY <2>3, <2>6
    <3> QED
      BY <2>3, <2>5, <2>6, <3>1
  <2>8. full <= bytes /\ bytes \in Nat
    BY <2>3, <2>5, <2>6, <2>7, DivAtLeast, DivMod
  <2>9. ~(bytes < full)
    <3> HIDE DEF bytes
    <3> QED
      BY <2>6, <2>8
  <2> QED
    BY <1>1, <2>4, <2>9 DEF ComparisonPanics, full
<1>2. WagnerInvariant /\ (WholeBytes => NeverPanics) /\ [Next]_vars
          => (WholeBytes => NeverPanics)'
  <2> SUFFICES ASSUME WagnerInvariant, WholeBytes => NeverPanics, [Next]_vars,
                      WholeBytes'
               PROVE  status' # "panicked"
    BY DEF NeverPanics
  <2>1. WholeBytes
    BY DEF Next, WagnerRound, Panic, Scan, vars, WholeBytes, cbits, N, K,
           byte_bits
  <2>2. ~Panic
    BY <1>1, <2>1 DEF Panic
  <2> QED
    BY <2>1, <2>2 DEF NeverPanics, Next, WagnerRound, Scan, vars
<1>3. Init => (WholeBytes => NeverPanics)
  BY DEF Init, NeverPanics
<1> QED
  BY <1>2, <1>3, WagnerInvariantHolds, PTL DEF Spec

-----------------------------------------------------------------------------
(* Nothing is missed.                                                      *)

\* Sorting drops no row, when digits are whole bytes.
LEMMA SortedHolds ==
    ASSUME Setting, WholeBytes, NEW r \in Nat, r < K,
           rows \in Seq(GoodRows(r)),
           NEW row \in GoodRows(r), Holds(rows, row)
    PROVE  Holds(SortedRows, row)
<1> DEFINE R == GoodRows(r)
           m == N - r * cbits
<1>1. CASE ~(path = "generic" /\ rows # <<>>)
  BY <1>1 DEF SortedRows
<1>2. CASE path = "generic" /\ rows # <<>>
  <2>1. rows[1] \in R
    BY <1>2
  <2>2. /\ rows[1].hash \in [1..m -> 0..1] /\ row.hash \in [1..m -> 0..1]
        /\ m \in Nat
    BY <2>1, FrontIsDigit
  <2> HIDE DEF m, R
  <2>3. Len(rows[1].hash) = m
    BY <2>2
  <2>4. m <= m
    BY <2>2
  <2>5. rows \in Seq(R) /\ row \in R
    BY DEF R
  <2>6. Holds(FlattenSeq(Buckets(rows, m)), row)
    BY <2>2, <2>4, <2>5, BucketsFlattened
  <2> QED
    BY <1>2, <2>3, <2>6 DEF SortedRows
<1> QED
  BY <1>1, <1>2

\* A round joins every two rows that the search may join.
LEMMA RoundHolds ==
    ASSUME Setting, WholeBytes, NEW r \in Nat, r < K,
           rows \in Seq(GoodRows(r)),
           NEW a \in GoodRows(r), NEW b \in GoodRows(r),
           Holds(rows, a), Holds(rows, b), SameDigit(a, b),
           distinct_indices(a.indices, b.indices),
           distinct_indices(b.indices, a.indices),
           a.indices[1] < b.indices[1]
    PROVE  \E row \in GoodRows(r + 1) :
               /\ Holds(AllPairs, row)
               /\ row.indices = a.indices \o b.indices
<1> DEFINE R == GoodRows(r)
           R2 == GoodRows(r + 1)
           m == N - r * cbits
<1>1. cbits \in Nat
  BY Parameters
<1>2. /\ SubSeq(a.hash, 1, cbits) = SubSeq(b.hash, 1, cbits)
      /\ m \in Nat /\ cbits <= m /\ a.hash \in [1..m -> 0..1]
  BY FrontIsDigit
<1>3. cbits \in 0..m
  BY <1>1, <1>2
<1> HIDE DEF m
<1>4. PICK x \in 1..pow2[cbits] :
          SubSeq(a.hash, 1, cbits) = BitString(x - 1, cbits)
  BY <1>2, <1>3, FrontHasBucket
<1> DEFINE D == RowsOfDigit(R, cbits, x)
           bucket == DigitBuckets[x]
<1>5. a \in D /\ b \in D
  BY <1>2, <1>4 DEF RowsOfDigit
<1>6. Holds(SortedRows, a) /\ Holds(SortedRows, b) /\ SortedRows \in Seq(R)
  BY SortedHolds, RoundParts
<1> HIDE DEF R, R2
<1>7. Holds(bucket, a) /\ Holds(bucket, b)
  BY <1>1, <1>5, <1>6, BucketsType DEF DigitBuckets
<1>8. /\ bucket \in Seq(D)
      /\ \A p, q \in D : distinct_indices(p.indices, q.indices)
                             => merge(p, q) \in R2
      /\ PairsOfBuckets[x] = Pairs(bucket)
      /\ PairsOfBuckets \in Seq(Seq(R2)) /\ x \in 1..Len(PairsOfBuckets)
      /\ AllPairs = FlattenSeq(PairsOfBuckets)
  BY RoundParts DEF R, R2
<1> HIDE DEF D, bucket
<1>9. PICK i \in 1..Len(bucket) : bucket[i] = a
  BY <1>7 DEF Holds
<1>10. PICK j \in 1..Len(bucket) : bucket[j] = b
  BY <1>7 DEF Holds
<1>11. a.indices[1] \in Int /\ b.indices[1] \in Int
  <2>1. pow2[r] \in Nat \ {0}
    BY PowersOfTwo
  <2>2. 1 \in 1..pow2[r]
    BY <2>1
  <2>3. a.indices[1] \in Leaves /\ b.indices[1] \in Leaves
    BY <2>2 DEF GoodRows, RowType
  <2> QED
    BY <2>3 DEF Leaves
<1>12. i # j
  BY <1>9, <1>10, <1>11
<1>13. i \in Int /\ j \in Int
  OBVIOUS
<1>14. ASSUME NEW row \in R2, Holds(Pairs(bucket), row),
              row.indices = a.indices \o b.indices
       PROVE  \E found \in R2 : /\ Holds(AllPairs, found)
                                /\ found.indices = a.indices \o b.indices
  <2>1. Holds(PairsOfBuckets[x], row)
    BY <1>8, <1>14
  <2>2. Holds(AllPairs, row)
    BY <1>8, <2>1, FlattenHolds
  <2> QED
    BY <1>14, <2>2
<1>15. CASE i < j
  <2>1. Holds(Pairs(bucket), merge(a, b))
    BY <1>8, <1>9, <1>10, <1>15, PairsType
  <2>2. merge(a, b) \in R2
    BY <1>5, <1>8
  <2>3. merge(a, b).indices = a.indices \o b.indices
    BY DEF merge, concat_canonical
  <2> QED
    BY <1>14, <2>1, <2>2, <2>3 DEF R2
<1>16. CASE j < i
  <2>1. Holds(Pairs(bucket), merge(b, a))
    BY <1>8, <1>9, <1>10, <1>16, PairsType
  <2>2. merge(b, a) \in R2
    BY <1>5, <1>8
  <2>3. merge(b, a).indices = a.indices \o b.indices
    <3>1. ~(b.indices[1] < a.indices[1])
      BY <1>11
    <3> QED
      BY <3>1 DEF merge, concat_canonical
  <2> QED
    BY <1>14, <2>1, <2>2, <2>3 DEF R2
<1>17. i < j \/ j < i
  BY <1>12, <1>13
<1> QED
  BY <1>15, <1>16, <1>17

\* The leaves of a node of a tree.
NodeOf(tree, r, node) ==
    [p \in 1..pow2[r] |-> tree[node * pow2[r] + p]]

\* Two sequences are the halves of a stretch of t, on whose whole a bit's
\* parity is even.
Halves(a, b, t, s, left) ==
    Placed(a, t, 1, s, left) /\ Placed(b, t, 1, s, left + s)
EvenOver(t, s, left, bit) == Parity(t, left + 1, (left + s) + s, bit) = 0

\* Then the halves have the same parity.
LEMMA HalvesParity ==
    ASSUME NEW a, NEW b, NEW t, NEW s \in Int, s >= 1, NEW left \in Int,
           Halves(a, b, t, s, left), NEW bit, EvenOver(t, s, left, bit)
    PROVE  Parity(a, 1, s, bit) = Parity(b, 1, s, bit)
<1> DEFINE mid == left + s
           end == mid + s
           from == left + 1
<1>0. /\ Placed(a, t, 1, s, left) /\ Placed(b, t, 1, s, mid)
      /\ Parity(t, from, end, bit) = 0
  BY DEF Halves, EvenOver
<1>1. /\ from = 1 + left /\ mid = s + left
      /\ mid + 1 = 1 + mid /\ end = s + mid
      /\ from \in Int /\ mid \in Int /\ end \in Int /\ 1 \in Int
      /\ from <= mid + 1 /\ mid <= end
  OBVIOUS
<1> HIDE DEF mid, end, from
<1>2. Parity(t, from, mid, bit) = Parity(a, 1, s, bit)
  BY <1>0, <1>1, ParityPlaced
<1>3. Parity(t, mid + 1, end, bit) = Parity(b, 1, s, bit)
  BY <1>0, <1>1, ParityPlaced
<1>4. Parity(t, from, end, bit)
          = (Parity(t, from, mid, bit) + Parity(t, mid + 1, end, bit)) % 2
  <2>1. ASSUME NEW x \in Int, NEW y \in Int, NEW z \in Int,
               x <= y + 1, y <= z
        PROVE  Parity(t, x, z, bit)
                   = (Parity(t, x, y, bit) + Parity(t, y + 1, z, bit)) % 2
    BY <2>1, ParitySplit
  <2> QED
    BY <1>1, <2>1
<1>5. Parity(a, 1, s, bit) \in 0..1 /\ Parity(b, 1, s, bit) \in 0..1
  BY <1>1, ParityType
<1> QED
  BY <1>0, <1>2, <1>3, <1>4, <1>5

\* A node above the leaves joins two that share no leaf, agree on every digit
\* up to their parent's height, and stand in order.
LEMMA NodeSplits ==
    ASSUME Setting, NEW tree \in [1..pow2[K] -> Leaves], IsSubtree(tree, K),
           NEW r \in Nat, r < K, NEW node \in 0..(pow2[K - (r + 1)] - 1),
           NEW a, a = NodeOf(tree, r, 2 * node),
           NEW b, b = NodeOf(tree, r, 2 * node + 1)
    PROVE  /\ 2 * node \in 0..(pow2[K - r] - 1)
           /\ 2 * node + 1 \in 0..(pow2[K - r] - 1)
           /\ a \in [1..pow2[r] -> Leaves] /\ b \in [1..pow2[r] -> Leaves]
           /\ NodeOf(tree, r + 1, node) = a \o b
           /\ distinct_indices(a, b) /\ distinct_indices(b, a)
           /\ a[1] < b[1]
           /\ \A bit \in 1..((r + 1) * cbits) :
                  Parity(a, 1, pow2[r], bit) = Parity(b, 1, pow2[r], bit)
<1> DEFINE s == pow2[r]
           size == pow2[r + 1]
           m == pow2[K - (r + 1)]
           left == node * size
<1>0. K \in Nat /\ cbits \in Nat
  BY Parameters
<1>1. s \in Nat \ {0} /\ size = 2 * s /\ m \in Nat \ {0}
  <2>1. K - (r + 1) \in Nat
    BY <1>0
  <2> QED
    BY <2>1, PowersOfTwo
<1>2. pow2[K - r] = 2 * m /\ pow2[K] = m * size
  <2>1. /\ K - (r + 1) \in Nat /\ (K - (r + 1)) + 1 = K - r
        /\ (K - (r + 1)) + (r + 1) = K
    BY <1>0
  <2>2. pow2[(K - (r + 1)) + 1] = 2 * m
    BY <2>1, PowersOfTwo
  <2>3. pow2[(K - (r + 1)) + (r + 1)] = m * size
    <3> DEFINE c == K - (r + 1)
               d == r + 1
    <3>1. c \in Nat /\ d \in Nat
      BY <2>1
    <3> HIDE DEF c, d
    <3>2. pow2[c + d] = pow2[c] * pow2[d]
      BY <3>1, PowersAdd
    <3> QED
      BY <3>2 DEF c, d
  <2> HIDE DEF m, size
  <2> QED
    BY <2>1, <2>2, <2>3
<1> HIDE DEF s, size, m, left
<1>3. node \in 0..(m - 1)
  BY DEF m
<1>4. /\ 2 * node \in 0..(pow2[K - r] - 1)
      /\ 2 * node + 1 \in 0..(pow2[K - r] - 1)
  BY <1>1, <1>2, <1>3
<1>5. /\ left \in Nat /\ left + size <= pow2[K]
      /\ (2 * node) * s = left /\ (2 * node + 1) * s = left + s
  <2>1. left \in Nat
    BY <1>1, <1>3 DEF left
  <2>2. (node + 1) * size <= m * size
    BY <1>1, <1>3
  <2>3. (node + 1) * size = left + size
    BY <1>1, <1>3 DEF left
  <2>4. (2 * node) * s = node * (2 * s)
    BY <1>1, <1>3
  <2>5. (2 * node + 1) * s = (2 * node) * s + s
    BY <1>1, <1>3
  <2> QED
    BY <1>1, <1>2, <2>1, <2>2, <2>3, <2>4, <2>5 DEF left
<1>6. ASSUME NEW p \in 1..s
      PROVE  /\ a[p] = tree[left + p] /\ b[p] = tree[(left + s) + p]
             /\ left + p \in 1..pow2[K] /\ (left + s) + p \in 1..pow2[K]
             /\ a[p] \in Leaves /\ b[p] \in Leaves
  <2>1. /\ a[p] = tree[(2 * node) * s + p]
        /\ b[p] = tree[(2 * node + 1) * s + p]
    BY DEF NodeOf, s
  <2>2. left + p \in 1..pow2[K] /\ (left + s) + p \in 1..pow2[K]
    <3>1. pow2[K] \in Nat
      BY <1>0, PowersOfTwo
    <3> QED
      BY <1>1, <1>5, <3>1
  <2> QED
    BY <1>5, <2>1, <2>2
<1>7. a \in [1..s -> Leaves] /\ b \in [1..s -> Leaves]
  <2>1. a = [p \in 1..s |-> a[p]] /\ b = [p \in 1..s |-> b[p]]
    BY DEF NodeOf, s
  <2> QED
    BY <1>6, <2>1
<1>8. NodeOf(tree, r + 1, node) = a \o b
  <2>1. /\ a \o b \in [1..size -> Leaves]
        /\ \A p \in 1..s : (a \o b)[p] = a[p] /\ (a \o b)[p + s] = b[p]
    <3>1. a \o b \in [1..(2 * s) -> Leaves]
      BY <1>1, <1>7, Joined
    <3>2. \A p \in 1..s : (a \o b)[p] = a[p] /\ (a \o b)[p + s] = b[p]
      BY <1>1, <1>7, Joined
    <3> QED
      BY <1>1, <3>1, <3>2
  <2> DEFINE w == a \o b
  <2> HIDE DEF w
  <2>2. ASSUME NEW p \in 1..size PROVE w[p] = tree[left + p]
    <3>1. CASE p <= s
      <4>1. p \in 1..s
        BY <1>1, <3>1
      <4> QED
        BY <1>6, <2>1, <4>1 DEF w
    <3>2. CASE ~(p <= s)
      <4>1. p - s \in 1..s /\ (p - s) + s = p
            /\ (left + s) + (p - s) = left + p
        BY <1>1, <1>5, <3>2
      <4>2. w[(p - s) + s] = b[p - s]
        BY <2>1, <4>1 DEF w
      <4>3. b[p - s] = tree[(left + s) + (p - s)]
        BY <1>6, <4>1
      <4> QED
        BY <4>1, <4>2, <4>3
    <3> QED
      BY <3>1, <3>2
  <2>3. NodeOf(tree, r + 1, node) = [p \in 1..size |-> tree[left + p]]
    BY DEF NodeOf, left, size
  <2>4. w = [p \in 1..size |-> w[p]]
    BY <2>1 DEF w
  <2> QED
    BY <2>2, <2>3, <2>4 DEF w
<1>9. \A p, q \in 1..s : a[p] # b[q]
  <2>1. ASSUME NEW p \in 1..s, NEW q \in 1..s PROVE a[p] # b[q]
    <3>1. left + p # (left + s) + q
      BY <1>1, <1>5
    <3>2. Len(tree) = pow2[K]
      BY DEF IsSubtree
    <3> QED
      BY <1>6, <3>1, <3>2 DEF IsSubtree
  <2> QED
    BY <2>1
<1>10. distinct_indices(a, b) /\ distinct_indices(b, a)
  BY <1>7, <1>9 DEF distinct_indices
<1>11. /\ tree[left + 1] < tree[left + s + 1]
       /\ \A bit \in 1..((r + 1) * cbits) :
              Parity(tree, left + 1, left + size, bit) = 0
  <2>1. PICK h \in 1..K : h = r + 1
    BY <1>0
  <2>2. pow2[h] = size /\ pow2[h - 1] = s /\ node \in 0..(pow2[K - h] - 1)
    <3>1. h - 1 = r
      BY <2>1
    <3> QED
      BY <2>1, <3>1 DEF size, s
  <2>3. /\ tree[node * pow2[h] + 1] < tree[node * pow2[h] + pow2[h - 1] + 1]
        /\ \A bit \in 1..(h * cbits) :
               Parity(tree, node * pow2[h] + 1, node * pow2[h] + pow2[h], bit)
                   = 0
    BY <2>2 DEF IsSubtree
  <2> QED
    BY <2>1, <2>2, <2>3 DEF left
<1>12. a[1] < b[1]
  <2>1. 1 \in 1..s /\ (left + s) + 1 = left + s + 1
    BY <1>1, <1>5
  <2> QED
    BY <1>6, <1>11, <2>1
<1>13. ASSUME NEW bit \in 1..((r + 1) * cbits)
       PROVE  Parity(a, 1, s, bit) = Parity(b, 1, s, bit)
  <2>1. Placed(a, tree, 1, s, left) /\ Placed(b, tree, 1, s, left + s)
    BY <1>1, <1>5, <1>6 DEF Placed
  <2>2. left \in Int /\ s \in Int /\ s >= 1
    BY <1>1, <1>5
  <2>3. EvenOver(tree, s, left, bit)
    BY <1>1, <1>5, <1>11 DEF EvenOver
  <2>4. Halves(a, b, tree, s, left)
    BY <2>1 DEF Halves
  <2> QED
    BY <2>2, <2>3, <2>4, HalvesParity
<1> QED
  BY <1>4, <1>7, <1>8, <1>10, <1>12, <1>13 DEF s

\* The search holds a tree at a height: for each of its nodes there, a row.
InRows(some_rows, tree, r) ==
    \A node \in 0..(pow2[K - r] - 1) :
        \E row \in GoodRows(r) :
            /\ Holds(some_rows, row)
            /\ row.indices = NodeOf(tree, r, node)

\* The leaves hold every tree.
LEMMA LeavesHold ==
    ASSUME Setting, NEW tree \in [1..pow2[K] -> Leaves]
    PROVE  InRows(generate_leaves(leaf), tree, 0)
<1> DEFINE all == generate_leaves(leaf)
<1>1. K \in Nat /\ n_init \in Nat /\ pow2[0] = 1 /\ pow2[K] \in Nat
  BY Parameters, PowersOfTwo
<1>2. all \in Seq(GoodRows(0))
  BY LeavesGood
<1>3. ASSUME NEW node \in 0..(pow2[K] - 1)
      PROVE  \E row \in GoodRows(0) :
                 Holds(all, row) /\ row.indices = NodeOf(tree, 0, node)
  <2> DEFINE index == tree[node + 1]
             i == index + 1
             row == [hash |-> leaf[i - 1], indices |-> <<i - 1>>]
  <2>1. node + 1 \in 1..pow2[K]
    BY <1>1
  <2>2. index \in Leaves
    BY <2>1
  <2>3. i \in 1..n_init /\ i - 1 = index
    BY <1>1, <2>2 DEF Leaves
  <2>4. all[i] = row /\ Len(all) = n_init
    BY <1>1, <2>3 DEF generate_leaves
  <2>5. row \in GoodRows(0) /\ Holds(all, row)
    <3> HIDE DEF i, row, all
    <3> QED
      BY <1>2, <2>3, <2>4 DEF Holds
  <2>6. row.indices = NodeOf(tree, 0, node)
    <3>1. NodeOf(tree, 0, node) = [p \in 1..1 |-> tree[node * 1 + p]]
      BY <1>1 DEF NodeOf
    <3>2. node * 1 + 1 = node + 1
      OBVIOUS
    <3>3. [p \in 1..1 |-> tree[node * 1 + p]] = <<tree[node * 1 + 1]>>
      OBVIOUS
    <3> QED
      BY <2>3, <3>1, <3>2, <3>3
  <2> QED
    BY <2>5, <2>6
<1>4. K - 0 = K
  BY <1>1
<1> QED
  BY <1>3, <1>4 DEF InRows

\* A round keeps a tree: the rows of a node's halves agree on the next digit.
LEMMA RoundKeepsTree ==
    ASSUME Setting, WholeBytes, NEW r \in Nat, r < K,
           rows \in Seq(GoodRows(r)),
           NEW tree \in [1..pow2[K] -> Leaves], IsSubtree(tree, K),
           InRows(rows, tree, r)
    PROVE  InRows(AllPairs, tree, r + 1)
<1>1. ASSUME NEW node \in 0..(pow2[K - (r + 1)] - 1)
      PROVE  \E row \in GoodRows(r + 1) :
                 /\ Holds(AllPairs, row)
                 /\ row.indices = NodeOf(tree, r + 1, node)
  <2> DEFINE u == NodeOf(tree, r, 2 * node)
             v == NodeOf(tree, r, 2 * node + 1)
  <2>1. /\ 2 * node \in 0..(pow2[K - r] - 1)
        /\ 2 * node + 1 \in 0..(pow2[K - r] - 1)
        /\ NodeOf(tree, r + 1, node) = u \o v
        /\ distinct_indices(u, v) /\ distinct_indices(v, u)
        /\ u[1] < v[1]
        /\ \A bit \in 1..((r + 1) * cbits) :
               Parity(u, 1, pow2[r], bit) = Parity(v, 1, pow2[r], bit)
    BY NodeSplits
  <2>2. PICK a \in GoodRows(r) : Holds(rows, a) /\ a.indices = u
    BY <2>1 DEF InRows
  <2>3. PICK b \in GoodRows(r) : Holds(rows, b) /\ b.indices = v
    BY <2>1 DEF InRows
  <2> HIDE DEF u, v
  <2>4. SameDigit(a, b)
    <3>1. /\ N \in Nat /\ K \in Nat /\ cbits \in Nat
          /\ N = (K + 1) * cbits
      BY Parameters
    <3>2. ASSUME NEW bit \in 1..cbits PROVE a.hash[bit] = b.hash[bit]
      <4> DEFINE at == bit + r * cbits
                 m == N - r * cbits
      <4>1. at \in 1..((r + 1) * cbits)
        <5>1. r * cbits \in Nat /\ (r + 1) * cbits = r * cbits + cbits
          BY <3>1
        <5> QED
          BY <3>1, <5>1
      <4>2. bit \in 1..m
        <5>1. cbits <= m
          BY FrontIsDigit
        <5> QED
          BY <3>1, <5>1
      <4>3. a.hash[bit] = Parity(u, 1, pow2[r], at)
        BY <2>2, <4>2, NodeParity DEF GoodRows
      <4>4. b.hash[bit] = Parity(v, 1, pow2[r], at)
        BY <2>3, <4>2, NodeParity DEF GoodRows
      <4> HIDE DEF at
      <4> QED
        BY <2>1, <4>1, <4>3, <4>4
    <3> QED
      BY <3>2 DEF SameDigit
  <2> QED
    BY <2>1, <2>2, <2>3, <2>4, RoundHolds
<1> QED
  BY <1>1 DEF InRows

\* The scan accepts the row of a solution that the rows hold.
LEMMA ScanAccepts ==
    ASSUME Setting, WholeBytes, rows \in Seq(GoodRows(K)),
           NEW tree \in [1..pow2[K] -> Leaves], is_valid_solution(tree),
           InRows(rows, tree, K)
    PROVE  \E i \in DOMAIN rows : Accepts(rows[i])
<1>1. /\ N \in Nat /\ K \in Nat /\ cbits \in Nat /\ N = (K + 1) * cbits
      /\ TrimmedBits = cbits /\ pow2[K] \in Nat /\ pow2[0] = 1
  BY Parameters, PowersOfTwo
<1>2. PICK row \in GoodRows(K) :
          Holds(rows, row) /\ row.indices = NodeOf(tree, K, 0)
  <2>1. K - K = 0 /\ 0 \in 0..(1 - 1)
    BY <1>1
  <2> QED
    BY <1>1, <2>1 DEF InRows
<1>3. row.indices = tree
  <2>1. NodeOf(tree, K, 0) = [p \in 1..pow2[K] |-> tree[0 * pow2[K] + p]]
    BY DEF NodeOf
  <2>2. \A p \in 1..pow2[K] : 0 * pow2[K] + p = p
    BY <1>1
  <2>3. NodeOf(tree, K, 0) = [p \in 1..pow2[K] |-> tree[p]]
    BY <2>1, <2>2
  <2> QED
    BY <1>2, <2>3
<1>4. Len(tree) = pow2[K] /\ IsSubtree(tree, K)
      /\ \A bit \in 1..N : Parity(tree, 1, pow2[K], bit) = 0
  BY <1>1 DEF is_valid_solution
<1>5. ZeroHash(row)
  <2>1. DOMAIN row.hash = 1..(N - K * cbits)
    BY <1>1 DEF GoodRows, RowType
  <2>2. ASSUME NEW bit \in 1..(N - K * cbits) PROVE row.hash[bit] = 0
    <3> DEFINE at == bit + K * cbits
    <3>1. at \in 1..N
      <4>1. K * cbits \in Nat
        BY <1>1
      <4> QED
        BY <1>1, <4>1
    <3>2. row.hash[bit] = Parity(tree, 1, pow2[K], at)
      BY <1>1, <1>3, NodeParity DEF GoodRows
    <3> HIDE DEF at
    <3> QED
      BY <1>4, <3>1, <3>2
  <2> QED
    BY <2>1, <2>2 DEF ZeroHash
<1>6. globally_distinct(tree)
  <2>1. \A p, q \in 1..Len(tree) : p # q => tree[p] # tree[q]
    BY <1>4 DEF IsSubtree
  <2> QED
    BY <1>1, <1>4, <2>1 DEF globally_distinct
<1>7. compress_indices(tree) = tree
  BY <1>1, CompressKeeps
<1>8. Accepts(row)
  BY <1>3, <1>5, <1>6, <1>7 DEF Accepts
<1>9. PICK i \in 1..Len(rows) : rows[i] = row
  BY <1>2 DEF Holds
<1>10. i \in DOMAIN rows
  OBVIOUS
<1> QED
  BY <1>8, <1>9, <1>10

\* The inductive invariant: until pairs are dropped, no solution is given up,
\* and the search still holds each one.
NothingMissed ==
    (WholeBytes /\ ~capped) =>
        \A tree \in [1..pow2[K] -> Leaves] :
            is_valid_solution(tree) =>
                /\ status # "none"
                /\ status = "searching" =>
                       \E r \in 0..K : round = r /\ InRows(rows, tree, r)

\* Every step keeps it: WagnerRound and Scan pass no solution over.
LEMMA StepMissesNothing ==
    ASSUME WagnerInvariant, NothingMissed, [Next]_vars
    PROVE  NothingMissed'
<1>1. Setting /\ K \in Nat /\ n_init \in Nat
  BY Parameters DEF WagnerInvariant
<1>2. PICK r \in 0..K : round = r /\ rows \in Seq(GoodRows(r))
  BY DEF WagnerInvariant
<1>3. UNCHANGED <<path, base, leaf>>
  BY DEF Next, WagnerRound, Panic, Scan, vars
<1>4. K' = K /\ Leaves' = Leaves /\ WholeBytes' = WholeBytes
  BY <1>3 DEF WholeBytes, Leaves, n_init, cbits, byte_bits, N, K
<1>5. \A k : GoodRows(k)' = GoodRows(k)
  BY <1>3, SameRows
<1>6. \A x : is_valid_solution(x)' = is_valid_solution(x)
  BY <1>3, SameSolution
<1>7. SUFFICES ASSUME WholeBytes, ~capped',
                      NEW tree \in [1..pow2[K] -> Leaves],
                      is_valid_solution(tree)
               PROVE  /\ status' # "none"
                      /\ status' = "searching" =>
                             \E k \in 0..K :
                                 round' = k /\ InRows(rows', tree, k)
  <2>1. ASSUME NEW some_tree, NEW k
        PROVE  InRows(rows', some_tree, k) <=> InRows(rows, some_tree, k)'
    <3>1. K' = K /\ GoodRows(k)' = GoodRows(k)
      BY <1>4, <1>5
    <3> QED
      BY <3>1 DEF InRows, NodeOf, Holds
  <2> QED
    BY <1>4, <1>6, <2>1 DEF NothingMissed
<1>8. ~capped
  BY <1>7 DEF Next, WagnerRound, Panic, Scan, vars, WagnerInvariant
<1>9. /\ status # "none"
      /\ status = "searching" => InRows(rows, tree, r)
  BY <1>2, <1>7, <1>8 DEF NothingMissed
<1>10. CASE WagnerRound
  <2>1. /\ round < K /\ round = r /\ r \in Nat
        /\ InRows(rows, tree, r) /\ IsSubtree(tree, K)
    BY <1>1, <1>2, <1>7, <1>9, <1>10 DEF WagnerRound, is_valid_solution
  <2>2. InRows(AllPairs, tree, r + 1) /\ AllPairs \in Seq(GoodRows(r + 1))
    BY <1>1, <1>2, <1>7, <2>1, RoundKeepsTree, RoundGood
  <2>3. rows' = AllPairs
    <3> DEFINE R == GoodRows(r + 1)
               pairs == AllPairs
    <3>1. pairs \in Seq(R) /\ rows' = InRoom(pairs)
          /\ ~(Len(pairs) > Len(rows'))
      BY <1>7, <1>10, <2>2 DEF WagnerRound
    <3> HIDE DEF R, pairs
    <3>2. Len(pairs) > n_init => Len(SubSeq(pairs, 1, n_init)) = n_init
      BY <1>1, <3>1
    <3>3. rows' = pairs
      BY <1>1, <3>1, <3>2 DEF InRoom
    <3> QED
      BY <3>3 DEF pairs
  <2>4. AllPairs # <<>>
    <3>1. K - (r + 1) \in Nat
      BY <1>1, <2>1
    <3>2. 0 \in 0..(pow2[K - (r + 1)] - 1)
      <4>1. pow2[K - (r + 1)] \in Nat \ {0}
        BY <3>1, PowersOfTwo
      <4> QED
        BY <4>1
    <3>3. \E row : Holds(AllPairs, row)
      BY <2>2, <3>2 DEF InRows
    <3>4. \E j : j \in 1..Len(AllPairs)
      BY <3>3 DEF Holds
    <3> DEFINE pairs == AllPairs
    <3> HIDE DEF pairs
    <3>5. (\E j : j \in 1..Len(pairs)) => pairs # <<>>
      OBVIOUS
    <3> QED
      BY <3>4, <3>5 DEF pairs
  <2>5. status' = "searching" /\ round' = r + 1
    BY <1>2, <1>10, <2>3, <2>4 DEF WagnerRound
  <2>6. PICK k \in 0..K : k = r + 1
    BY <1>1, <2>1
  <2> QED
    BY <2>2, <2>3, <2>5, <2>6
<1>11. CASE Panic
  BY <1>11 DEF Panic
<1>12. CASE Scan
  <2>1. r = K /\ InRows(rows, tree, K) /\ rows \in Seq(GoodRows(K))
    BY <1>2, <1>9, <1>12 DEF Scan
  <2>2. \E i \in DOMAIN rows : Accepts(rows[i])
    BY <1>1, <1>7, <2>1, ScanAccepts
  <2>3. {i \in DOMAIN rows : Accepts(rows[i])} # {}
    BY <2>2
  <2>4. status' = "found"
    BY <1>12, <2>3 DEF Scan
  <2> QED
    BY <2>4
<1>13. CASE UNCHANGED vars
  BY <1>2, <1>9, <1>13 DEF vars
<1> QED
  BY <1>10, <1>11, <1>12, <1>13 DEF Next

\* A search over digits of whole bytes that gives up has missed no solution,
\* unless the kernel dropped pairs for want of room: the buckets, the order of
\* joining and the distinctness check of WagnerRound lose none, and Scan
\* passes none over.
THEOREM NothingEverMissed == Spec => []MissesOnlyWhenCapped
<1>1. Init => NothingMissed
  <2> SUFFICES ASSUME Init, NEW tree \in [1..pow2[K] -> Leaves]
               PROVE  /\ status # "none"
                      /\ \E r \in 0..K : round = r /\ InRows(rows, tree, r)
    BY DEF NothingMissed
  <2>1. Setting
    BY DEF Init, Setting
  <2>2. InRows(rows, tree, 0)
    BY <2>1, LeavesHold DEF Init
  <2>3. 0 \in 0..K
    BY <2>1, Parameters
  <2> QED
    BY <2>2, <2>3 DEF Init
<1>2. WagnerInvariant /\ NothingMissed /\ [Next]_vars => NothingMissed'
  BY StepMissesNothing
<1>3. NothingMissed => MissesOnlyWhenCapped
  <2> SUFFICES ASSUME NothingMissed, WholeBytes, status = "none", ~capped,
                      NEW chosen \in kSubset(pow2[K], Leaves),
                      NEW indices \in [1..pow2[K] -> chosen]
               PROVE  ~is_valid_solution(indices)
    BY DEF MissesOnlyWhenCapped
  <2>1. chosen \subseteq Leaves
    BY DEF kSubset
  <2>2. indices \in [1..pow2[K] -> Leaves]
    BY <2>1
  <2> QED
    BY <2>2 DEF NothingMissed
<1> QED
  BY <1>1, <1>2, <1>3, WagnerInvariantHolds, PTL DEF Spec
=============================================================================
