-------------------------- MODULE ArithmeticLemmas --------------------------
(***************************************************************************)
(* Facts about numbers that the proofs about several components share: the *)
(* division of naturals, the least-element principles that stand in for    *)
(* induction, recursion, and sums of a function over a finite set.         *)
(***************************************************************************)
EXTENDS Integers, FiniteSets, Functions, FiniteSetTheorems,
        WellFoundedInduction, TLAPS

-----------------------------------------------------------------------------
(* Division.                                                               *)

\* Quotient and remainder of the division the code's `/` and `%` compute.
LEMMA DivMod ==
    ASSUME NEW h \in Nat, NEW n \in Nat \ {0}
    PROVE  /\ h \div n \in Nat /\ h % n \in 0..(n - 1)
           /\ h = n * (h \div n) + (h % n)
OBVIOUS

\* They are the only ones.
LEMMA DivUnique ==
    ASSUME NEW h \in Nat, NEW n \in Nat \ {0}, NEW q \in Nat,
           NEW r \in 0..(n - 1), h = n * q + r
    PROVE  h \div n = q /\ h % n = r
<1> DEFINE d == h \div n
<1>1. d \in Nat /\ h % n \in 0..(n - 1) /\ h = n * d + (h % n)
  BY DivMod
<1> HIDE DEF d
<1>2. ~(d < q)
  <2> SUFFICES ASSUME d + 1 <= q PROVE FALSE
    BY <1>1
  <2>1. n * (d + 1) <= n * q
    BY <1>1
  <2>2. n * (d + 1) = n * d + n
    BY <1>1
  <2> QED
    BY <2>1, <2>2, <1>1
<1>3. ~(d > q)
  <2> SUFFICES ASSUME q + 1 <= d PROVE FALSE
    BY <1>1
  <2>1. n * (q + 1) <= n * d
    BY <1>1
  <2>2. n * (q + 1) = n * q + n
    BY <1>1
  <2> QED
    BY <2>1, <2>2, <1>1
<1>4. d = q
  BY <1>1, <1>2, <1>3
<1> QED
  BY <1>1, <1>4 DEF d

\* A quotient stays below any bound that the dividend keeps times the divisor.
LEMMA DivBelow ==
    ASSUME NEW h \in Nat, NEW n \in Nat \ {0}, NEW b \in Nat, h < n * b
    PROVE  h \div n < b
<1> DEFINE d == h \div n
<1>1. d \in Nat /\ h % n \in 0..(n - 1) /\ h = n * d + (h % n)
  BY DivMod
<1> HIDE DEF d
<1>2. ~(b <= d)
  <2> SUFFICES ASSUME b <= d PROVE FALSE
    OBVIOUS
  <2>1. n * b <= n * d
    BY <1>1
  <2> QED
    BY <2>1, <1>1
<1> QED
  BY <1>1, <1>2 DEF d

\* A quotient reaches any bound that the dividend reaches times the divisor.
LEMMA DivAtLeast ==
    ASSUME NEW h \in Nat, NEW n \in Nat \ {0}, NEW b \in Nat, n * b <= h
    PROVE  b <= h \div n
<1> DEFINE d == h \div n
<1>1. d \in Nat /\ h % n \in 0..(n - 1) /\ h = n * d + (h % n)
  BY DivMod
<1> HIDE DEF d
<1>2. ~(d + 1 <= b)
  <2> SUFFICES ASSUME d + 1 <= b PROVE FALSE
    OBVIOUS
  <2>1. n * (d + 1) <= n * b
    BY <1>1
  <2>2. n * (d + 1) = n * d + n
    BY <1>1
  <2> QED
    BY <2>1, <2>2, <1>1
<1> QED
  BY <1>1, <1>2 DEF d

-----------------------------------------------------------------------------
(* Least elements.  A claim about every natural, or about every subset of  *)
(* a finite set, follows from the set of its counterexamples having no     *)
(* least element.                                                          *)

\* Every nonempty set of naturals has a least element.
LEMMA LeastNatural ==
    ASSUME NEW T \in SUBSET Nat, T # {}
    PROVE  \E n \in T : \A k \in T : n <= k
<1>1. PICK n \in T : \A k \in T : ~(<<k, n>> \in OpToRel(<, Nat))
  BY WFMin, NatLessThanWellFounded
<1>2. \A k \in T : ~(k < n)
  BY <1>1 DEF OpToRel
<1> QED
  BY <1>2

\* A nonempty family of subsets of a finite set has a minimal member.
LEMMA MinimalSubset ==
    ASSUME NEW S, IsFiniteSet(S), NEW T \in SUBSET SUBSET S, T # {}
    PROVE  \E s \in T : \A r \in T : ~(r \subseteq s /\ r # s)
<1>1. T \subseteq FiniteSubsetsOf(S)
  BY FS_Subset DEF FiniteSubsetsOf
<1>2. PICK s \in T : \A r \in T : ~(<<r, s>> \in StrictSubsetOrdering(S))
  BY <1>1, WFMin, FS_StrictSubsetOrderingWellFounded
<1> QED
  BY <1>2 DEF StrictSubsetOrdering

-----------------------------------------------------------------------------
(* Recursion.  A recursive function is an arbitrary solution of its        *)
(* defining equation, so that what it computes is known only once there is *)
(* a solution.                                                             *)

\* f starts at x and takes each value from the one before.
Follows(f, x, next) ==
    /\ f[0] = x
    /\ \A k \in Nat \ {0} : f[k] = next[<<k, f[k - 1]>>]

\* The first n + 1 values of a recursion: x, then each from the one before.
Starts(S, x, next, n) == {g \in [0..n -> S] :
    /\ g[0] = x
    /\ \A k \in 1..n : g[k] = next[<<k, g[k - 1]>>]}

\* They exist.
LEMMA StartsExist ==
    ASSUME NEW S, NEW x \in S, NEW next \in [Nat \X S -> S], NEW n \in Nat
    PROVE  Starts(S, x, next, n) # {}
<1> DEFINE P(m) == Starts(S, x, next, m)
           T == {m \in Nat : P(m) = {}}
<1> SUFFICES ASSUME T # {} PROVE FALSE
  OBVIOUS
<1>1. PICK m \in T : \A k \in T : m <= k
  BY LeastNatural
<1>2. m # 0
  <2>1. [i \in 0..0 |-> x] \in P(0)
    BY DEF Starts
  <2> QED
    BY <2>1
<1>3. m - 1 \in Nat /\ m - 1 \notin T /\ m \in Nat
  BY <1>1, <1>2
<1>4. PICK g : g \in P(m - 1)
  BY <1>3
<1>5. g \in [0..(m - 1) -> S] /\ g[0] = x
      /\ \A k \in 1..(m - 1) : g[k] = next[<<k, g[k - 1]>>]
  BY <1>4 DEF Starts
<1> DEFINE h == [i \in 0..m |-> IF i = m THEN next[<<m, g[m - 1]>>] ELSE g[i]]
<1>6. h \in [0..m -> S]
  BY <1>3, <1>5
<1>7. h[0] = x
  BY <1>2, <1>3, <1>5
<1>8. ASSUME NEW k \in 1..m PROVE h[k] = next[<<k, h[k - 1]>>]
  <2>1. k \in 0..m /\ k - 1 \in 0..m /\ k - 1 # m
    BY <1>3
  <2>2. h[k - 1] = g[k - 1]
    BY <2>1
  <2>3. CASE k = m
    <3>1. h[k] = next[<<m, g[m - 1]>>]
      BY <2>1, <2>3
    <3> QED
      BY <2>2, <2>3, <3>1
  <2>4. CASE k # m
    <3>1. h[k] = g[k]
      BY <2>1, <2>4
    <3>2. k \in 1..(m - 1)
      BY <1>3, <2>4
    <3> QED
      BY <1>5, <2>2, <3>1, <3>2
  <2> QED
    BY <2>3, <2>4
<1>9. h \in P(m)
  <2> HIDE DEF h
  <2> QED
    BY <1>6, <1>7, <1>8 DEF Starts
<1> QED
  BY <1>9

\* Two of them agree as far as both go.
LEMMA StartsAgree ==
    ASSUME NEW S, NEW x, NEW next, NEW n \in Nat, NEW m \in Nat,
           NEW g \in Starts(S, x, next, n), NEW h \in Starts(S, x, next, m),
           NEW k \in Nat, k <= n, k <= m
    PROVE  g[k] = h[k]
<1> DEFINE T == {i \in Nat : i <= n /\ i <= m /\ g[i] # h[i]}
<1> SUFFICES ASSUME T # {} PROVE FALSE
  OBVIOUS
<1>1. PICK i \in T : \A j \in T : i <= j
  BY LeastNatural
<1>2. i # 0
  BY DEF Starts
<1>3. i - 1 \in Nat /\ i - 1 \notin T
  BY <1>1, <1>2
<1>4. g[i - 1] = h[i - 1]
  BY <1>3
<1>5. i \in 1..n /\ i \in 1..m
  BY <1>2
<1>6. g[i] = next[<<i, g[i - 1]>>] /\ h[i] = next[<<i, h[i - 1]>>]
  BY <1>5 DEF Starts
<1> QED
  BY <1>4, <1>6

\* So a recursion on the naturals defines a function.
LEMMA PrimitiveRecursion ==
    ASSUME NEW S, NEW x \in S, NEW next \in [Nat \X S -> S]
    PROVE  \E f \in [Nat -> S] : Follows(f, x, next)
<1> DEFINE P(k) == Starts(S, x, next, k)
           f == [k \in Nat |-> (CHOOSE g : g \in P(k))[k]]
<1>1. \A k \in Nat : (CHOOSE g : g \in P(k)) \in P(k)
  BY StartsExist
<1>2. ASSUME NEW k \in Nat
      PROVE  /\ f[k] \in S
             /\ f[k] = IF k = 0 THEN x ELSE next[<<k, f[k - 1]>>]
  <2> DEFINE g == CHOOSE g : g \in P(k)
             h == CHOOSE h : h \in P(k - 1)
  <2>1. g \in P(k) /\ f[k] = g[k]
    BY <1>1
  <2>2. CASE k = 0
    BY <2>1, <2>2 DEF Starts
  <2>3. CASE k # 0
    <3>1. k - 1 \in Nat
      BY <2>3
    <3>2. h \in P(k - 1) /\ f[k - 1] = h[k - 1]
      BY <1>1, <3>1
    <3> HIDE DEF f, g, h
    <3>3. g[k - 1] = h[k - 1]
      BY <2>1, <3>1, <3>2, StartsAgree
    <3>4. g[k] \in S /\ g[k] = next[<<k, g[k - 1]>>]
      BY <2>1, <2>3 DEF Starts
    <3> QED
      BY <2>1, <2>3, <3>2, <3>3, <3>4
  <2> QED
    BY <2>2, <2>3
<1>3. f \in [Nat -> S]
  <2>1. \A k \in Nat : f[k] \in S
    BY <1>2
  <2> QED
    BY <2>1
<1> HIDE DEF f
<1>4. Follows(f, x, next)
  BY <1>2 DEF Follows
<1> QED
  BY <1>3, <1>4

-----------------------------------------------------------------------------
(* Sums.  SumFunctionOnSet is defined by recursion over the subsets of its *)
(* second argument; counting units gives it without the recursion.         *)

\* One element for each unit that a function adds up to over a set.
Units(g, S) == {u \in S \X Nat : u[2] \in 1..g[u[1]]}

\* One more index adds its value in units.
LEMMA UnitsAdd ==
    ASSUME NEW g, NEW S, NEW x, x \notin S, g[x] \in Nat,
           IsFiniteSet(Units(g, S))
    PROVE  /\ IsFiniteSet(Units(g, S \cup {x}))
           /\ Cardinality(Units(g, S \cup {x}))
                  = g[x] + Cardinality(Units(g, S))
<1> DEFINE own == {x} \X (1..g[x])
<1>1. IsFiniteSet(1..g[x]) /\ Cardinality(1..g[x]) = g[x]
  <2>1. 1 \in Int /\ g[x] \in Int
    OBVIOUS
  <2>2. /\ IsFiniteSet(1..g[x])
        /\ Cardinality(1..g[x]) = IF 1 > g[x] THEN 0 ELSE g[x] - 1 + 1
    BY ONLY <2>1, FS_Interval
  <2> QED
    BY <2>2
<1>2. IsFiniteSet({x}) /\ Cardinality({x}) = 1
  BY FS_Singleton
<1>3. IsFiniteSet(own) /\ Cardinality(own) = g[x]
  <2> DEFINE A == {x}
             B == 1..g[x]
  <2>1. IsFiniteSet(A) /\ Cardinality(A) = 1
    BY <1>2
  <2>2. IsFiniteSet(B) /\ Cardinality(B) = g[x]
    BY <1>1
  <2> HIDE DEF A, B
  <2>3. /\ IsFiniteSet(A \X B)
        /\ Cardinality(A \X B) = Cardinality(A) * Cardinality(B)
    BY <2>1, <2>2, FS_Product
  <2>4. Cardinality(A \X B) = g[x]
    BY <2>1, <2>2, <2>3
  <2> QED
    BY <2>3, <2>4 DEF A, B
<1>4. Units(g, S \cup {x}) = Units(g, S) \cup own
  BY DEF Units
<1>5. Units(g, S) \cap own = {}
  BY DEF Units
<1>6. Cardinality(Units(g, S)) \in Nat
  BY FS_CardinalityType
<1>7. Cardinality({}) = 0
  BY FS_EmptySet
<1>8. /\ IsFiniteSet(Units(g, S) \cup own)
      /\ Cardinality(Units(g, S) \cup own)
             = Cardinality(Units(g, S)) + Cardinality(own)
                   - Cardinality(Units(g, S) \cap own)
  <2> HIDE DEF own
  <2> QED
    BY <1>3, FS_Union
<1>9. Cardinality(Units(g, S) \cup own)
          = Cardinality(Units(g, S)) + g[x] - 0
  BY <1>3, <1>5, <1>7, <1>8
<1>10. g[x] \in Nat
  OBVIOUS
<1>11. IsFiniteSet(Units(g, S \cup {x}))
  BY <1>4, <1>8
<1>12. Cardinality(Units(g, S \cup {x})) = Cardinality(Units(g, S)) + g[x] - 0
  BY <1>4, <1>9
<1> QED
  BY <1>6, <1>10, <1>11, <1>12

\* The units of naturals over a finite set are finitely many.
LEMMA UnitsFinite ==
    ASSUME NEW g, NEW S, IsFiniteSet(S), \A x \in S : g[x] \in Nat
    PROVE  IsFiniteSet(Units(g, S))
<1> DEFINE T == {s \in SUBSET S : ~IsFiniteSet(Units(g, s))}
<1> SUFFICES ASSUME T # {} PROVE FALSE
  OBVIOUS
<1>1. PICK s \in T : \A r \in T : ~(r \subseteq s /\ r # s)
  <2>1. T \in SUBSET SUBSET S
    OBVIOUS
  <2> HIDE DEF T
  <2> QED
    BY <2>1, MinimalSubset
<1>2. s # {}
  <2>1. Units(g, {}) = {}
    BY DEF Units
  <2> QED
    BY <2>1, FS_EmptySet
<1>3. PICK x \in s : TRUE
  BY <1>2
<1>4. IsFiniteSet(Units(g, s \ {x}))
  BY <1>1, <1>3
<1>5. (s \ {x}) \cup {x} = s /\ x \notin s \ {x} /\ g[x] \in Nat
  BY <1>3
<1>6. IsFiniteSet(Units(g, (s \ {x}) \cup {x}))
  BY <1>4, <1>5, UnitsAdd
<1> QED
  BY <1>5, <1>6

\* What the definition of the sum over a set unfolds to.
Choice(s) == CHOOSE x \in s : TRUE
Sums(it, g, S) == it = [s \in SUBSET S |->
    IF s = {} THEN 0 ELSE g[Choice(s)] + it[s \ {Choice(s)}]]

\* The community module's fold is the function so chosen, at the whole set.
LEMMA SumUnfolds ==
    ASSUME NEW g, NEW S
    PROVE  SumFunctionOnSet(g, S) = (CHOOSE it : Sums(it, g, S))[S]
BY DEF SumFunctionOnSet, FoldFunctionOnSet, MapThenFoldSet, Sums, Choice

\* The sum of a function over a set is the number of its units there.
LEMMA SumCountsUnits ==
    ASSUME NEW g, NEW S, IsFiniteSet(S), \A x \in S : g[x] \in Nat
    PROVE  SumFunctionOnSet(g, S) = Cardinality(Units(g, S))
<1> DEFINE N(s) == Cardinality(Units(g, s))
           w == [s \in SUBSET S |-> N(s)]
<1>1. ASSUME NEW s \in SUBSET S, s # {}
      PROVE  /\ Choice(s) \in s
             /\ N(s) = g[Choice(s)] + N(s \ {Choice(s)})
  <2> DEFINE x == Choice(s)
  <2>1. x \in s
    BY <1>1 DEF Choice
  <2> HIDE DEF x
  <2>2. IsFiniteSet(s \ {x})
    BY <2>1, FS_Subset
  <2>3. IsFiniteSet(Units(g, s \ {x})) /\ g[x] \in Nat
    BY <2>1, <2>2, UnitsFinite
  <2>4. (s \ {x}) \cup {x} = s /\ x \notin s \ {x}
    BY <2>1
  <2>5. Cardinality(Units(g, (s \ {x}) \cup {x})) = g[x] + N(s \ {x})
    BY <2>3, <2>4, UnitsAdd
  <2> QED
    BY <2>1, <2>4, <2>5 DEF x
<1>2. N({}) = 0
  <2>1. Units(g, {}) = {}
    BY DEF Units
  <2> QED
    BY <2>1, FS_EmptySet
<1>3. Sums(w, g, S)
  <2>1. w = [s \in SUBSET S |-> w[s]]
    OBVIOUS
  <2>2. ASSUME NEW s \in SUBSET S
        PROVE  w[s] = IF s = {} THEN 0
                      ELSE g[Choice(s)] + w[s \ {Choice(s)}]
    <3> HIDE DEF N
    <3>1. CASE s = {}
      BY <3>1, <1>2
    <3>2. CASE s # {}
      BY <3>2, <1>1
    <3> QED
      BY <3>1, <3>2
  <2> HIDE DEF w
  <2> QED
    BY <2>1, <2>2 DEF Sums
<1> DEFINE it == CHOOSE it : Sums(it, g, S)
<1>4. Sums(it, g, S)
  BY <1>3
<1> HIDE DEF it, N
<1>5. \A s \in SUBSET S :
          it[s] = IF s = {} THEN 0 ELSE g[Choice(s)] + it[s \ {Choice(s)}]
  BY <1>4 DEF Sums
<1> DEFINE T == {s \in SUBSET S : it[s] # N(s)}
<1>6. T = {}
  <2> SUFFICES ASSUME T # {} PROVE FALSE
    OBVIOUS
  <2>1. PICK s \in T : \A r \in T : ~(r \subseteq s /\ r # s)
    <3>1. T \in SUBSET SUBSET S
      OBVIOUS
    <3> HIDE DEF T
    <3> QED
      BY <3>1, MinimalSubset
  <2>2. s # {}
    BY <1>2, <1>5
  <2>3. Choice(s) \in s
    BY <1>1, <2>2
  <2>4. s \ {Choice(s)} \in SUBSET S /\ s \ {Choice(s)} \notin T
    BY <2>1, <2>3
  <2> QED
    BY <1>1, <1>5, <2>2, <2>4
<1>7. it[S] = N(S)
  BY <1>6
<1> QED
  BY <1>7, SumUnfolds DEF it, N

\* A sum over nothing is zero.
LEMMA SumEmpty == ASSUME NEW g PROVE SumFunctionOnSet(g, {}) = 0
<1>1. IsFiniteSet({}) /\ Cardinality({}) = 0
  BY FS_EmptySet
<1>2. Units(g, {}) = {}
  BY DEF Units
<1> QED
  BY <1>1, <1>2, SumCountsUnits

\* A sum of naturals is a natural.
LEMMA SumType ==
    ASSUME NEW g, NEW S, IsFiniteSet(S), \A x \in S : g[x] \in Nat
    PROVE  SumFunctionOnSet(g, S) \in Nat
BY SumCountsUnits, UnitsFinite, FS_CardinalityType

\* An index adds its value to a sum.
LEMMA SumAdd ==
    ASSUME NEW g, NEW S, IsFiniteSet(S), \A y \in S : g[y] \in Nat,
           NEW x, x \notin S, g[x] \in Nat
    PROVE  SumFunctionOnSet(g, S \cup {x}) = g[x] + SumFunctionOnSet(g, S)
<1>1. IsFiniteSet(S \cup {x}) /\ \A y \in S \cup {x} : g[y] \in Nat
  BY FS_AddElement
<1>2. SumFunctionOnSet(g, S \cup {x}) = Cardinality(Units(g, S \cup {x}))
  BY <1>1, SumCountsUnits
<1>3. SumFunctionOnSet(g, S) = Cardinality(Units(g, S))
  BY SumCountsUnits
<1>4. IsFiniteSet(Units(g, S))
  BY UnitsFinite
<1>5. Cardinality(Units(g, S \cup {x})) = g[x] + Cardinality(Units(g, S))
  BY <1>4, UnitsAdd
<1> QED
  BY <1>2, <1>3, <1>5

\* Functions that agree on a set have the same sum over it.
LEMMA SumSame ==
    ASSUME NEW g, NEW h, NEW S, IsFiniteSet(S), \A x \in S : g[x] \in Nat,
           \A x \in S : h[x] = g[x]
    PROVE  SumFunctionOnSet(h, S) = SumFunctionOnSet(g, S)
<1>1. Units(h, S) = Units(g, S)
  BY DEF Units
<1> QED
  BY <1>1, SumCountsUnits

\* Changing one value changes the sum by as much.
LEMMA SumChange ==
    ASSUME NEW g, NEW h, NEW S, IsFiniteSet(S), \A x \in S : g[x] \in Nat,
           NEW x \in S, h[x] \in Nat, \A y \in S \ {x} : h[y] = g[y]
    PROVE  SumFunctionOnSet(h, S) = SumFunctionOnSet(g, S) - g[x] + h[x]
<1> DEFINE R == S \ {x}
<1>1. IsFiniteSet(R) /\ R \cup {x} = S /\ x \notin R
  BY FS_Subset
<1> HIDE DEF R
<1>2. SumFunctionOnSet(g, R \cup {x}) = g[x] + SumFunctionOnSet(g, R)
  BY <1>1, SumAdd
<1>3. \A y \in R : h[y] = g[y]
  BY DEF R
<1>4. SumFunctionOnSet(h, R \cup {x}) = h[x] + SumFunctionOnSet(h, R)
  BY <1>1, <1>3, SumAdd
<1>5. SumFunctionOnSet(h, R) = SumFunctionOnSet(g, R)
  BY <1>1, <1>3, SumSame
<1>6. SumFunctionOnSet(g, R) \in Nat
  BY <1>1, SumType
<1>7. /\ SumFunctionOnSet(g, S) = g[x] + SumFunctionOnSet(g, R)
      /\ SumFunctionOnSet(h, S) = h[x] + SumFunctionOnSet(g, R)
  BY <1>1, <1>2, <1>4, <1>5
<1>8. g[x] \in Nat /\ h[x] \in Nat
  OBVIOUS
<1> QED
  BY <1>6, <1>7, <1>8

\* Removing an index takes its value out of a sum.
LEMMA SumSplit ==
    ASSUME NEW g, NEW S, IsFiniteSet(S), \A y \in S : g[y] \in Nat,
           NEW x \in S
    PROVE  /\ SumFunctionOnSet(g, S) = g[x] + SumFunctionOnSet(g, S \ {x})
           /\ SumFunctionOnSet(g, S \ {x}) \in Nat /\ g[x] \in Nat
<1> DEFINE R == S \ {x}
<1>1. IsFiniteSet(R) /\ R \cup {x} = S /\ x \notin R
      /\ \A y \in R : g[y] \in Nat
  BY FS_Subset
<1> HIDE DEF R
<1>2. SumFunctionOnSet(g, R \cup {x}) = g[x] + SumFunctionOnSet(g, R)
  BY <1>1, SumAdd
<1>3. SumFunctionOnSet(g, R) \in Nat
  BY <1>1, SumType
<1> QED
  BY <1>1, <1>2, <1>3 DEF R

\* A function that exceeds another by at most k, and only on F, exceeds its sum
\* by at most k for every element of F.
LEMMA SumExceeds ==
    ASSUME NEW g, NEW h, NEW S, IsFiniteSet(S), NEW F, NEW k \in Nat,
           \A x \in S : g[x] \in Nat /\ h[x] \in Nat,
           \A x \in S : h[x] <= g[x] + (IF x \in F THEN k ELSE 0)
    PROVE  SumFunctionOnSet(h, S)
               <= SumFunctionOnSet(g, S) + Cardinality(S \cap F) * k
<1> DEFINE N(s) == Cardinality(s \cap F)
           T == {s \in SUBSET S : ~(SumFunctionOnSet(h, s)
                                        <= SumFunctionOnSet(g, s) + N(s) * k)}
<1> SUFFICES ASSUME T # {} PROVE FALSE
  OBVIOUS
<1>1. PICK s \in T : \A r \in T : ~(r \subseteq s /\ r # s)
  <2>1. T \in SUBSET SUBSET S
    OBVIOUS
  <2> HIDE DEF T
  <2> QED
    BY <2>1, MinimalSubset
<1>2. s # {}
  <2>1. Cardinality({}) = 0 /\ {} \cap F = {}
    BY FS_EmptySet
  <2>2. SumFunctionOnSet(h, {}) = 0 /\ SumFunctionOnSet(g, {}) = 0
    BY SumEmpty
  <2>3. 0 <= 0 + 0 * k
    OBVIOUS
  <2> QED
    BY <2>1, <2>2, <2>3
<1>3. PICK x \in s : TRUE
  BY <1>2
<1> DEFINE r == s \ {x}
<1>4. IsFiniteSet(s) /\ IsFiniteSet(r) /\ IsFiniteSet(r \cap F)
  <2>1. IsFiniteSet(s) /\ IsFiniteSet(r)
    BY FS_Subset
  <2> QED
    BY <2>1, FS_Subset
<1>5. SumFunctionOnSet(h, r) <= SumFunctionOnSet(g, r) + N(r) * k
  <2>1. r \in SUBSET S /\ r \notin T
    BY <1>1, <1>3
  <2> QED
    BY <2>1
<1>6. /\ SumFunctionOnSet(g, s) = g[x] + SumFunctionOnSet(g, r)
      /\ SumFunctionOnSet(g, r) \in Nat /\ g[x] \in Nat
  BY <1>3, <1>4, SumSplit
<1>7. /\ SumFunctionOnSet(h, s) = h[x] + SumFunctionOnSet(h, r)
      /\ SumFunctionOnSet(h, r) \in Nat /\ h[x] \in Nat
  BY <1>3, <1>4, SumSplit
<1>8. N(r) \in Nat /\ N(s) = N(r) + (IF x \in F THEN 1 ELSE 0)
  <2>1. N(r) \in Nat
    BY <1>4, FS_CardinalityType
  <2>2. CASE x \in F
    <3>1. s \cap F = (r \cap F) \cup {x} /\ x \notin r \cap F
      BY <1>3, <2>2
    <3>2. Cardinality((r \cap F) \cup {x}) = Cardinality(r \cap F) + 1
      BY <1>4, <3>1, FS_AddElement
    <3> QED
      BY <2>1, <2>2, <3>1, <3>2
  <2>3. CASE x \notin F
    <3>1. s \cap F = r \cap F
      BY <2>3
    <3> QED
      BY <2>1, <2>3, <3>1
  <2> QED
    BY <2>1, <2>2, <2>3
<1>9. h[x] <= g[x] + (IF x \in F THEN k ELSE 0)
  BY <1>3
<1>10. ~(SumFunctionOnSet(h, s) <= SumFunctionOnSet(g, s) + N(s) * k)
  BY <1>1
<1> HIDE DEF N, T, r
<1>11. CASE x \in F
  <2>1. N(s) * k = N(r) * k + k /\ N(r) * k \in Nat
    <3>1. \A n \in Nat : (n + 1) * k = n * k + k /\ n * k \in Nat
      OBVIOUS
    <3>2. N(r) \in Nat /\ N(s) = N(r) + 1
      BY <1>8, <1>11
    <3> QED
      BY <3>1, <3>2
  <2> QED
    BY <1>5, <1>6, <1>7, <1>9, <1>10, <1>11, <2>1
<1>12. CASE x \notin F
  <2>1. N(s) * k = N(r) * k /\ N(r) * k \in Nat
    BY <1>8, <1>12
  <2> QED
    BY <1>5, <1>6, <1>7, <1>9, <1>10, <1>12, <2>1
<1> QED
  BY <1>11, <1>12

\* A function that is nowhere above another has no greater sum.
LEMMA SumMonotone ==
    ASSUME NEW g, NEW h, NEW S, IsFiniteSet(S),
           \A x \in S : g[x] \in Nat /\ h[x] \in Nat /\ h[x] <= g[x]
    PROVE  SumFunctionOnSet(h, S) <= SumFunctionOnSet(g, S)
<1>1. SumFunctionOnSet(h, S)
          <= SumFunctionOnSet(g, S) + Cardinality(S \cap {}) * 0
  <2>1. \A x \in S : h[x] <= g[x] + (IF x \in {} THEN 0 ELSE 0)
    OBVIOUS
  <2> QED
    BY <2>1, SumExceeds
<1>2. Cardinality(S \cap {}) = 0
  <2>1. S \cap {} = {}
    OBVIOUS
  <2> QED
    BY <2>1, FS_EmptySet
<1>3. SumFunctionOnSet(g, S) \in Nat /\ SumFunctionOnSet(h, S) \in Nat
  BY SumType
<1> QED
  BY <1>1, <1>2, <1>3

\* The sum of a constant is the constant for every index.
LEMMA SumConstant ==
    ASSUME NEW g, NEW S, IsFiniteSet(S), NEW k \in Nat,
           \A x \in S : g[x] = k
    PROVE  SumFunctionOnSet(g, S) = k * Cardinality(S)
<1> DEFINE T == {s \in SUBSET S :
                    SumFunctionOnSet(g, s) # k * Cardinality(s)}
<1> SUFFICES ASSUME T # {} PROVE FALSE
  OBVIOUS
<1>1. PICK s \in T : \A r \in T : ~(r \subseteq s /\ r # s)
  <2>1. T \in SUBSET SUBSET S
    OBVIOUS
  <2> HIDE DEF T
  <2> QED
    BY <2>1, MinimalSubset
<1>2. s # {}
  <2>1. Cardinality({}) = 0 /\ SumFunctionOnSet(g, {}) = 0 /\ k * 0 = 0
    BY FS_EmptySet, SumEmpty
  <2> QED
    BY <2>1
<1>3. PICK x \in s : TRUE
  BY <1>2
<1> DEFINE r == s \ {x}
<1>4. IsFiniteSet(s) /\ IsFiniteSet(r)
  BY FS_Subset
<1>5. SumFunctionOnSet(g, r) = k * Cardinality(r)
  <2>1. r \in SUBSET S /\ r \notin T
    BY <1>1, <1>3
  <2> QED
    BY <2>1
<1>6. SumFunctionOnSet(g, s) = k + SumFunctionOnSet(g, r)
  <2>1. SumFunctionOnSet(g, s) = g[x] + SumFunctionOnSet(g, r)
    BY <1>3, <1>4, SumSplit
  <2> QED
    BY <1>3, <2>1
<1>7. Cardinality(r) \in Nat /\ Cardinality(s) = Cardinality(r) + 1
  <2>1. s = r \cup {x} /\ x \notin r
    BY <1>3
  <2>2. Cardinality(r \cup {x}) = Cardinality(r) + 1
    BY <1>4, <2>1, FS_AddElement
  <2> QED
    BY <1>4, <2>1, <2>2, FS_CardinalityType
<1>8. SumFunctionOnSet(g, s) # k * Cardinality(s)
  BY <1>1
<1> DEFINE n == Cardinality(r)
<1>9. n \in Nat /\ Cardinality(s) = n + 1 /\ SumFunctionOnSet(g, r) = k * n
  BY <1>5, <1>7
<1> HIDE DEF T, r, n
<1>10. k * (n + 1) = k * n + k /\ k * n \in Nat
  BY <1>9
<1> QED
  BY <1>6, <1>8, <1>9, <1>10
=============================================================================
