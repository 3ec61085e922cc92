--------------------------- MODULE NaturalsLemmas ---------------------------
(***************************************************************************)
(* Facts about numbers that the proofs share.                              *)
(***************************************************************************)
EXTENDS Integers, Functions, FiniteSetTheorems, WellFoundedInduction, TLAPS

\* A set of numbers that is not empty has a least element: its initial
\* segments are finite, so one of them contains no other.
LEMMA LeastElement ==
    ASSUME NEW S \in SUBSET Nat, S # {}
    PROVE  \E m \in S : \A k \in S : m <= k
<1> DEFINE R == StrictSubsetOrdering(Nat)
           Below == {1..i : i \in S}
<1>1. IsWellFoundedOn(R, FiniteSubsetsOf(Nat))
  BY FS_StrictSubsetOrderingWellFounded
<1>2. Below \subseteq FiniteSubsetsOf(Nat)
  <2> SUFFICES ASSUME NEW i \in S PROVE 1..i \in FiniteSubsetsOf(Nat)
    OBVIOUS
  <2>1. IsFiniteSet(1..i)
    BY FS_Interval
  <2> QED
    BY <2>1 DEF FiniteSubsetsOf
<1>3. Below # {}
  OBVIOUS
<1>4. \E x \in Below : \A y \in Below : ~ (<<y, x>> \in R)
  <2> HIDE DEF R, Below
  <2> QED
    BY <1>1, <1>2, <1>3, WFMin
<1>5. PICK m \in S : \A k \in S : ~ (<<1..k, 1..m>> \in R)
  BY <1>4
<1>6. ASSUME NEW k \in S, k < m PROVE FALSE
  <2>1. 1..k \subseteq 1..m /\ m \in 1..m /\ m \notin 1..k
    BY <1>6
  <2>2. 1..k \in SUBSET Nat /\ 1..m \in SUBSET Nat /\ 1..k # 1..m
    BY <2>1
  <2> QED
    BY <1>5, <2>1, <2>2 DEF StrictSubsetOrdering
<1> QED
  BY <1>6
-----------------------------------------------------------------------------
(***************************************************************************)
(* Counting the members of a set of numbers: each has a rank of its own,   *)
(* and every number up to the size of the set is the rank of one.          *)
(***************************************************************************)
Smaller(S, i) == {j \in S : j < i}

Standing(S) == [i \in S |-> Cardinality(Smaller(S, i)) + 1]

\* The numbers from 1 to n are n numbers.
LEMMA InitialSegment ==
    ASSUME NEW n \in Nat
    PROVE  IsFiniteSet(1..n) /\ Cardinality(1..n) = n
<1>1. 1 \in Int /\ n \in Int
  OBVIOUS
<1>2. IsFiniteSet(1..n) /\ Cardinality(1..n) = IF 1 > n THEN 0 ELSE n - 1 + 1
  BY <1>1, FS_Interval
<1>3. (IF 1 > n THEN 0 ELSE n - 1 + 1) = n
  OBVIOUS
<1> QED
  BY <1>2, <1>3

\* A set of numbers from 1 to n is finite.
LEMMA InitialSegmentSubset ==
    ASSUME NEW n \in Nat, NEW S \in SUBSET (1..n)
    PROVE  IsFiniteSet(S) /\ Cardinality(S) \in Nat /\ S \in SUBSET Nat
<1>1. IsFiniteSet(S)
  BY InitialSegment, FS_Subset
<1>2. \A i \in S : i \in Nat
  OBVIOUS
<1> QED
  BY <1>1, <1>2, FS_CardinalityType

\* The members below one are a finite set, smaller than the whole.
LEMMA SmallerSet ==
    ASSUME NEW S \in SUBSET Nat, IsFiniteSet(S), NEW i \in S
    PROVE  /\ IsFiniteSet(Smaller(S, i))
           /\ Cardinality(Smaller(S, i)) \in Nat
           /\ Cardinality(Smaller(S, i)) < Cardinality(S)
<1>1. IsFiniteSet(S)
  OBVIOUS
<1>2. Smaller(S, i) \in SUBSET S /\ Smaller(S, i) # S
  BY DEF Smaller
<1>3. Cardinality(S) \in Nat
  BY <1>1, FS_CardinalityType
<1>4. IsFiniteSet(Smaller(S, i)) /\ Cardinality(Smaller(S, i)) <= Cardinality(S)
  BY <1>1, <1>2, FS_Subset
<1>5. Cardinality(S) # Cardinality(Smaller(S, i))
  BY <1>1, <1>2, FS_Subset
<1>6. Cardinality(Smaller(S, i)) \in Nat
  BY <1>4, FS_CardinalityType
<1> QED
  BY <1>3, <1>4, <1>5, <1>6

\* Two members have different ranks.
LEMMA RankInjective ==
    ASSUME NEW S \in SUBSET Nat, IsFiniteSet(S)
    PROVE  Standing(S) \in Injection(S, 1..Cardinality(S))
<1>1. IsFiniteSet(S) /\ Cardinality(S) \in Nat
  BY FS_CardinalityType
<1>2. Standing(S) \in [S -> 1..Cardinality(S)]
  <2>1. ASSUME NEW i \in S PROVE Cardinality(Smaller(S, i)) + 1 \in 1..Cardinality(S)
    <3>1. Cardinality(Smaller(S, i)) \in Nat /\ Cardinality(Smaller(S, i)) < Cardinality(S)
      BY SmallerSet
    <3> QED
      BY <1>1, <3>1
  <2> QED
    BY <2>1 DEF Standing
<1>3. ASSUME NEW i \in S, NEW j \in S, i < j
      PROVE  Cardinality(Smaller(S, i)) # Cardinality(Smaller(S, j))
  <2>1. \A x \in S : x \in Int
    OBVIOUS
  <2>2. Smaller(S, i) \in SUBSET Smaller(S, j)
    <3> SUFFICES ASSUME NEW x \in S, x < i PROVE x < j
      BY DEF Smaller
    <3> QED
      BY <1>3, <2>1
  <2>3. i \in Smaller(S, j) /\ i \notin Smaller(S, i)
    BY <1>3, <2>1 DEF Smaller
  <2>4. IsFiniteSet(Smaller(S, j))
    BY SmallerSet
  <2> QED
    BY <2>2, <2>3, <2>4, FS_Subset
<1>4. ASSUME NEW i \in S, NEW j \in S, Standing(S)[i] = Standing(S)[j]
      PROVE  i = j
  <2>1. i \in Int /\ j \in Int
    OBVIOUS
  <2>2. Cardinality(Smaller(S, i)) \in Nat /\ Cardinality(Smaller(S, j)) \in Nat
    BY SmallerSet
  <2>3. Cardinality(Smaller(S, i)) = Cardinality(Smaller(S, j))
    BY <1>4, <2>2 DEF Standing
  <2> QED
    BY <1>3, <2>1, <2>3
<1> QED
  BY <1>2, <1>4 DEF Injection, IsInjective

\* Every number up to the size of the set is the rank of a member.
LEMMA RankSurjective ==
    ASSUME NEW S \in SUBSET Nat, IsFiniteSet(S), NEW k \in 1..Cardinality(S)
    PROVE  \E i \in S : Standing(S)[i] = k
<1>1. Cardinality(S) \in Nat
  BY FS_CardinalityType
<1>2. IsFiniteSet(1..Cardinality(S)) /\ Cardinality(1..Cardinality(S)) = Cardinality(S)
  BY <1>1, InitialSegment
<1>3. Standing(S) \in Surjection(S, 1..Cardinality(S))
  BY <1>2, RankInjective, FS_Injection
<1> QED
  BY <1>3 DEF Surjection

\* A finite set of numbers has a greatest element, the one of highest rank.
LEMMA GreatestElement ==
    ASSUME NEW S \in SUBSET Nat, IsFiniteSet(S), S # {}
    PROVE  \E m \in S : \A k \in S : k <= m
<1> DEFINE n == Cardinality(S)
<1>1. n \in Nat
  BY FS_CardinalityType
<1>2. n \in 1..n
  <2>1. n # 0
    BY FS_EmptySet
  <2> QED
    BY <1>1, <2>1
<1>3. PICK m \in S : Standing(S)[m] = n
  BY <1>2, RankSurjective
<1>4. ASSUME NEW k \in S, m < k PROVE FALSE
  <2>1. /\ Cardinality(Smaller(S, m)) \in Nat /\ Cardinality(Smaller(S, m)) + 1 = n
        /\ Cardinality(Smaller(S, k)) \in Nat /\ Cardinality(Smaller(S, k)) < n
    BY <1>3, SmallerSet DEF Standing
  <2>2. Smaller(S, m) \in SUBSET Smaller(S, k)
    <3> SUFFICES ASSUME NEW x \in S, x < m PROVE x < k
      BY DEF Smaller
    <3>1. x \in Nat /\ m \in Nat /\ k \in Nat
      OBVIOUS
    <3> QED
      BY <1>4, <3>1
  <2>3. m \in Smaller(S, k) /\ m \notin Smaller(S, m)
    BY <1>4 DEF Smaller
  <2>4. IsFiniteSet(Smaller(S, k))
    BY SmallerSet
  <2>5. /\ Cardinality(Smaller(S, m)) <= Cardinality(Smaller(S, k))
        /\ Cardinality(Smaller(S, m)) # Cardinality(Smaller(S, k))
    BY <2>2, <2>3, <2>4, FS_Subset
  <2> QED
    BY <1>1, <2>1, <2>5
<1> QED
  BY <1>4

-----------------------------------------------------------------------------
(***************************************************************************)
(* Sums over finite sets, as the fold of the community modules adds them.  *)
(***************************************************************************)
Pick(s) == CHOOSE x \in s : TRUE
SumBody(f, g, s) == IF s = {} THEN 0 ELSE f[Pick(s)] + g[s \ {Pick(s)}]
Total(f) == FoldFunction(+, 0, f)
Sums(f) == CHOOSE g : g = [s \in SUBSET DOMAIN f |-> SumBody(f, g, s)]

\* The sum of a function is that over all of its domain.
LEMMA TotalIsSums == ASSUME NEW f PROVE Total(f) = Sums(f)[DOMAIN f]
  BY Zenon DEF Total, FoldFunction, FoldFunctionOnSet, MapThenFoldSet, Sums, SumBody, Pick

\* What is left of a finite set is smaller by one.
LEMMA PickSmaller ==
    ASSUME NEW D, IsFiniteSet(D), NEW s \in SUBSET D, s # {}
    PROVE  /\ Pick(s) \in s /\ s \ {Pick(s)} \in SUBSET D
           /\ Cardinality(s \ {Pick(s)}) = Cardinality(s) - 1
           /\ Cardinality(s) \in Nat \ {0}
  <1>1. Pick(s) \in s
    BY Zenon DEF Pick
  <1>2. IsFiniteSet(s)
    BY FS_Subset
  <1>3. Cardinality(s) \in Nat /\ Cardinality(s) # 0
    BY <1>2, FS_CardinalityType, FS_EmptySet
  <1>4. Cardinality(s \ {Pick(s)}) = Cardinality(s) - 1
    BY <1>1, <1>2, FS_RemoveElement
  <1> QED BY <1>1, <1>3, <1>4

\* The recursion of the fold has a solution on every finite domain: there is one for the
\* subsets of each size, as the first size without one would follow one with it.
LEMMA SumsUnfold ==
    ASSUME NEW f, IsFiniteSet(DOMAIN f)
    PROVE  \A s \in SUBSET DOMAIN f : Sums(f)[s] = SumBody(f, Sums(f), s)
  <1> DEFINE D == DOMAIN f
             Sub(n) == {s \in SUBSET D : Cardinality(s) <= n}
             P(n) == \E g : g = [s \in Sub(n) |-> SumBody(f, g, s)]
  <1> HIDE DEF D
  <1>1. IsFiniteSet(D)
    BY DEF D
  <1>2. \A s \in SUBSET D : Cardinality(s) \in Nat /\ (Cardinality(s) = 0 => s = {})
    BY <1>1, FS_Subset, FS_CardinalityType, FS_EmptySet
  <1>3. P(0)
    <2> DEFINE g == [s \in Sub(0) |-> 0]
    <2>1. \A s \in Sub(0) : s = {}
      BY <1>2
    <2>2. \A s \in Sub(0) : SumBody(f, g, s) = 0
      BY <2>1 DEF SumBody
    <2>3. g = [s \in Sub(0) |-> SumBody(f, g, s)]
      BY <2>2
    <2> HIDE DEF g
    <2> QED BY <2>3
  <1>4. ASSUME NEW n \in Nat, P(n) PROVE P(n + 1)
    <2>1. PICK g : g = [s \in Sub(n) |-> SumBody(f, g, s)]
      BY <1>4
    <2> DEFINE h == [s \in Sub(n + 1) |-> SumBody(f, g, s)]
    <2>2. ASSUME NEW s \in Sub(n + 1) PROVE SumBody(f, g, s) = SumBody(f, h, s)
      <3>1. CASE s = {}
        BY <3>1 DEF SumBody
      <3>2. CASE s # {}
        <4> DEFINE t == s \ {Pick(s)}
        <4>1. t \in SUBSET D /\ Cardinality(t) <= n /\ Cardinality(t) <= n + 1
          BY <1>1, <3>2, PickSmaller
        <4> HIDE DEF t
        <4>2. h[t] = SumBody(f, g, t)
          BY <4>1
        <4>3. g[t] = SumBody(f, g, t)
          BY <2>1, <4>1
        <4>4. g[s \ {Pick(s)}] = h[s \ {Pick(s)}]
          BY <4>2, <4>3 DEF t
        <4> QED BY <4>4 DEF SumBody
      <3> QED BY <3>1, <3>2
    <2>3. h = [s \in Sub(n + 1) |-> SumBody(f, h, s)]
      BY <2>2
    <2> HIDE DEF h
    <2> QED BY <2>3
  <1> HIDE DEF P
  <1>5. \A n \in Nat : P(n)
    <2> DEFINE Bad == {n \in Nat : ~P(n)}
    <2> SUFFICES ASSUME Bad # {} PROVE FALSE
      OBVIOUS
    <2>1. PICK m \in Bad : \A k \in Bad : m <= k
      BY LeastElement
    <2>2. m # 0
      BY <1>3
    <2>3. m - 1 \in Nat /\ P(m - 1)
      BY <2>1, <2>2
    <2> QED BY <1>4, <2>3
  <1>6. Cardinality(D) \in Nat
    BY <1>1, FS_CardinalityType
  <1>7. Sub(Cardinality(D)) = SUBSET D
    BY <1>1, FS_Subset
  <1>8. \E g : g = [s \in SUBSET D |-> SumBody(f, g, s)]
    BY <1>5, <1>6, <1>7, Zenon DEF P
  <1>9. Sums(f) = [s \in SUBSET D |-> SumBody(f, Sums(f), s)]
    BY <1>8, Zenon DEF Sums, D
  <1> QED BY <1>9 DEF D

\* Nothing adds up to nothing.
LEMMA TotalOfNothing == ASSUME NEW f, DOMAIN f = {} PROVE Total(f) = 0
  <1>1. IsFiniteSet(DOMAIN f)
    BY FS_EmptySet
  <1>2. {} \in SUBSET DOMAIN f
    OBVIOUS
  <1>3. Sums(f)[{}] = SumBody(f, Sums(f), {})
    BY <1>1, <1>2, SumsUnfold
  <1> QED BY <1>3, TotalIsSums DEF SumBody

\* Sums of integers are integers, and grow with them.
LEMMA TotalGrows ==
    ASSUME NEW D, IsFiniteSet(D), NEW f \in [D -> Int], NEW h \in [D -> Int],
           \A i \in D : f[i] <= h[i]
    PROVE  /\ Total(f) \in Int /\ Total(h) \in Int
           /\ Total(f) <= Total(h)
           /\ (\A i \in D : f[i] >= 0) => Total(f) >= 0
  <1> DEFINE F == Sums(f)
             H == Sums(h)
             Good(s) == /\ F[s] \in Int /\ H[s] \in Int /\ F[s] <= H[s]
                        /\ (\A i \in D : f[i] >= 0) => F[s] >= 0
             Bad == {n \in Nat : \E s \in SUBSET D : Cardinality(s) = n /\ ~Good(s)}
  <1>1. DOMAIN f = D /\ DOMAIN h = D
    OBVIOUS
  <1>2. \A s \in SUBSET D : F[s] = SumBody(f, F, s) /\ H[s] = SumBody(h, H, s)
    BY <1>1, SumsUnfold
  <1> HIDE DEF F, H
  <1>3. Bad = {}
    <2> SUFFICES ASSUME Bad # {} PROVE FALSE
      OBVIOUS
    <2>1. PICK m \in Bad : \A k \in Bad : m <= k
      BY LeastElement
    <2>2. PICK s \in SUBSET D : Cardinality(s) = m /\ ~Good(s)
      BY <2>1
    <2>3. s # {}
      <3>1. SumBody(f, F, {}) = 0 /\ SumBody(h, H, {}) = 0
        BY DEF SumBody
      <3>2. F[{}] = 0 /\ H[{}] = 0
        BY <1>2, <3>1
      <3>3. Good({})
        BY <3>2
      <3> HIDE DEF Good
      <3> QED
        BY <2>2, <3>3
    <2> DEFINE x == Pick(s)
               t == s \ {x}
    <2>4. x \in s /\ t \in SUBSET D /\ Cardinality(t) = m - 1 /\ m - 1 \in Nat
      BY <2>2, <2>3, PickSmaller
    <2>5. F[s] = f[x] + F[t] /\ H[s] = h[x] + H[t]
      BY <1>2, <2>3 DEF SumBody
    <2> HIDE DEF x, t
    <2>6. Good(t)
      <3>1. m - 1 \notin Bad
        BY <2>1
      <3> HIDE DEF Good
      <3> QED
        BY <2>4, <3>1
    <2>7. f[x] \in Int /\ h[x] \in Int /\ f[x] <= h[x]
      BY <2>4
    <2>8. F[s] \in Int /\ H[s] \in Int /\ F[s] <= H[s]
      BY <2>5, <2>6, <2>7
    <2>9. (\A i \in D : f[i] >= 0) => F[s] >= 0
      BY <2>4, <2>5, <2>6, <2>7
    <2> QED BY <2>2, <2>8, <2>9
  <1>4. Cardinality(D) \in Nat
    BY FS_CardinalityType
  <1>5. Good(D)
    BY <1>3, <1>4
  <1>6. Total(f) = F[D] /\ Total(h) = H[D]
    BY <1>1, TotalIsSums DEF F, H
  <1> QED BY <1>5, <1>6

\* A sum of natural numbers is one.
LEMMA TotalNatural ==
    ASSUME NEW D, IsFiniteSet(D), NEW f \in [D -> Nat]
    PROVE  Total(f) \in Nat
  <1>1. f \in [D -> Int] /\ \A i \in D : f[i] <= f[i] /\ f[i] >= 0
    OBVIOUS
  <1>2. Total(f) \in Int /\ Total(f) >= 0
    BY <1>1, TotalGrows
  <1> QED BY <1>2

\* A function of the subsets that grows by an element's value with the element is the sum.
AddsUp(g, f) ==
    g[{}] = 0 /\ \A s \in SUBSET DOMAIN f : \A x \in s : g[s] = f[x] + g[s \ {x}]

\* There is only one.
LEMMA TotalIs ==
    ASSUME NEW f, IsFiniteSet(DOMAIN f), NEW g, AddsUp(g, f)
    PROVE  Total(f) = g[DOMAIN f]
  <1> DEFINE D == DOMAIN f
             F == Sums(f)
             Bad == {n \in Nat : \E s \in SUBSET D : Cardinality(s) = n /\ F[s] # g[s]}
  <1>1. \A s \in SUBSET D : F[s] = SumBody(f, F, s)
    BY SumsUnfold
  <1> HIDE DEF F
  <1>2. Bad = {}
    <2> SUFFICES ASSUME Bad # {} PROVE FALSE
      OBVIOUS
    <2>1. PICK m \in Bad : \A k \in Bad : m <= k
      BY LeastElement
    <2>2. PICK s \in SUBSET D : Cardinality(s) = m /\ F[s] # g[s]
      BY <2>1
    <2>3. s # {}
      <3>1. F[{}] = 0 /\ g[{}] = 0
        BY <1>1 DEF SumBody, AddsUp
      <3> QED BY <2>2, <3>1
    <2> DEFINE x == Pick(s)
               t == s \ {x}
    <2>4. x \in s /\ t \in SUBSET D /\ Cardinality(t) = m - 1 /\ m - 1 \in Nat
      BY <2>2, <2>3, PickSmaller
    <2>5. F[s] = f[x] + F[t]
      BY <1>1, <2>3 DEF SumBody
    <2>6. g[s] = f[x] + g[t]
      BY <2>4 DEF AddsUp
    <2> HIDE DEF x, t
    <2>7. F[t] = g[t]
      <3>1. m - 1 \notin Bad
        BY <2>1
      <3> QED BY <2>4, <3>1
    <2> QED BY <2>2, <2>5, <2>6, <2>7
  <1>3. Cardinality(D) \in Nat
    BY FS_CardinalityType
  <1>4. F[D] = g[D]
    BY <1>2, <1>3
  <1> QED BY <1>4, TotalIsSums DEF F

\* Taking an element away takes it from its class.
LEMMA ClassSize ==
    ASSUME NEW s, IsFiniteSet(s), NEW x \in s, NEW A
    PROVE  /\ Cardinality(s \cap A) \in Nat
           /\ Cardinality((s \ {x}) \cap A)
                = IF x \in A THEN Cardinality(s \cap A) - 1 ELSE Cardinality(s \cap A)
  <1>1. IsFiniteSet(s \cap A)
    BY FS_Subset
  <1>2. Cardinality((s \cap A) \ {x})
          = IF x \in s \cap A THEN Cardinality(s \cap A) - 1 ELSE Cardinality(s \cap A)
    BY <1>1, FS_RemoveElement
  <1>3. (s \ {x}) \cap A = (s \cap A) \ {x}
    OBVIOUS
  <1> QED BY <1>1, <1>2, <1>3, FS_CardinalityType

\* A value that only depends on the class, of four, an element is in.
Classified(f, A, B, C, E, a, b, c, e) ==
    /\ A \cap B = {} /\ A \cap C = {} /\ A \cap E = {}
    /\ B \cap C = {} /\ B \cap E = {} /\ C \cap E = {}
    /\ IsFiniteSet(DOMAIN f) /\ DOMAIN f = A \cup B \cup C \cup E
    /\ a \in Nat /\ b \in Nat /\ c \in Nat /\ e \in Nat
    /\ \A x \in A : f[x] = a
    /\ \A x \in B : f[x] = b
    /\ \A x \in C : f[x] = c
    /\ \A x \in E : f[x] = e

\* The sum of such values.
LEMMA TotalOfClasses ==
    ASSUME NEW f, NEW A, NEW B, NEW C, NEW E, NEW a, NEW b, NEW c, NEW e,
           Classified(f, A, B, C, E, a, b, c, e)
    PROVE  Total(f) = a * Cardinality(A) + b * Cardinality(B)
                        + c * Cardinality(C) + e * Cardinality(E)
  <1> DEFINE D == A \cup B \cup C \cup E
             of(s, X) == Cardinality(s \cap X)
             part(v, s, X) == v * of(s, X)
             sum(s) == part(a, s, A) + part(b, s, B) + part(c, s, C) + part(e, s, E)
             g == [s \in SUBSET D |-> sum(s)]
  <1>c1. /\ A \cap B = {} /\ A \cap C = {} /\ A \cap E = {}
         /\ B \cap C = {} /\ B \cap E = {} /\ C \cap E = {}
         /\ IsFiniteSet(D) /\ DOMAIN f = D
         /\ a \in Nat /\ b \in Nat /\ c \in Nat /\ e \in Nat
    BY DEF Classified
  <1>c2. /\ \A x \in A : f[x] = a
         /\ \A x \in B : f[x] = b
         /\ \A x \in C : f[x] = c
         /\ \A x \in E : f[x] = e
    BY DEF Classified
  <1> USE <1>c1, <1>c2
  <1> HIDE DEF of
  <1>1. sum({}) = 0
    <2>1. \A X : of({}, X) = 0
      <3>1. \A X : {} \cap X = {}
        OBVIOUS
      <3> QED BY <3>1, FS_EmptySet DEF of
    <2> QED BY <2>1
  <1>2. ASSUME NEW s \in SUBSET D, NEW x \in s PROVE sum(s) = f[x] + sum(s \ {x})
    <2>1. IsFiniteSet(s)
      BY FS_Subset
    <2>2. ASSUME NEW v \in Nat, NEW X
          PROVE  /\ part(v, s, X) \in Int
                 /\ x \in X => part(v, s \ {x}, X) = part(v, s, X) - v
                 /\ x \notin X => part(v, s \ {x}, X) = part(v, s, X)
      <3>1. /\ of(s, X) \in Nat
            /\ of(s \ {x}, X) = IF x \in X THEN of(s, X) - 1 ELSE of(s, X)
        BY <2>1, ClassSize DEF of
      <3>2. v * (of(s, X) - 1) = v * of(s, X) - v /\ v * of(s, X) \in Int
        BY <3>1
      <3> QED BY <3>1, <3>2
    <2> HIDE DEF part
    <2>7. /\ part(a, s, A) \in Int /\ part(b, s, B) \in Int
          /\ part(c, s, C) \in Int /\ part(e, s, E) \in Int
      BY <2>2
    <2>3. CASE x \in A
      <3>1. f[x] = a /\ x \notin B /\ x \notin C /\ x \notin E
        BY <2>3
      <3>2. /\ part(a, s \ {x}, A) = part(a, s, A) - a
            /\ part(b, s \ {x}, B) = part(b, s, B)
            /\ part(c, s \ {x}, C) = part(c, s, C)
            /\ part(e, s \ {x}, E) = part(e, s, E)
        BY <2>2, <2>3, <3>1
      <3> QED BY <2>7, <3>1, <3>2
    <2>4. CASE x \in B
      <3>1. f[x] = b /\ x \notin A /\ x \notin C /\ x \notin E
        BY <2>4
      <3>2. /\ part(b, s \ {x}, B) = part(b, s, B) - b
            /\ part(a, s \ {x}, A) = part(a, s, A)
            /\ part(c, s \ {x}, C) = part(c, s, C)
            /\ part(e, s \ {x}, E) = part(e, s, E)
        BY <2>2, <2>4, <3>1
      <3> QED BY <2>7, <3>1, <3>2
    <2>5. CASE x \in C
      <3>1. f[x] = c /\ x \notin A /\ x \notin B /\ x \notin E
        BY <2>5
      <3>2. /\ part(c, s \ {x}, C) = part(c, s, C) - c
            /\ part(a, s \ {x}, A) = part(a, s, A)
            /\ part(b, s \ {x}, B) = part(b, s, B)
            /\ part(e, s \ {x}, E) = part(e, s, E)
        BY <2>2, <2>5, <3>1
      <3> QED BY <2>7, <3>1, <3>2
    <2>6. CASE x \in E
      <3>1. f[x] = e /\ x \notin A /\ x \notin B /\ x \notin C
        BY <2>6
      <3>2. /\ part(e, s \ {x}, E) = part(e, s, E) - e
            /\ part(a, s \ {x}, A) = part(a, s, A)
            /\ part(b, s \ {x}, B) = part(b, s, B)
            /\ part(c, s \ {x}, C) = part(c, s, C)
        BY <2>2, <2>6, <3>1
      <3> QED BY <2>7, <3>1, <3>2
    <2> QED BY <2>3, <2>4, <2>5, <2>6
  <1> HIDE DEF sum
  <1>3. \A s \in SUBSET D : \A x \in s : g[s] = f[x] + g[s \ {x}]
    BY <1>2
  <1>4. AddsUp(g, f)
    BY <1>1, <1>3 DEF AddsUp
  <1>5. g[D] = sum(D)
    OBVIOUS
  <1> HIDE DEF g
  <1>6. Total(f) = g[D]
    <2>1. IsFiniteSet(D) /\ DOMAIN f = D
      OBVIOUS
    <2> HIDE DEF D
    <2> QED BY <1>4, <2>1, TotalIs
  <1>7. D \cap A = A /\ D \cap B = B /\ D \cap C = C /\ D \cap E = E
    OBVIOUS
  <1> QED BY <1>5, <1>6, <1>7 DEF sum, of

\* A family that never repeats itself has as many members as indices.
LEMMA FamilySize ==
    ASSUME NEW n \in Nat, NEW S, NEW f \in [1 .. n -> S],
           \A i, j \in 1 .. n : f[i] = f[j] => i = j
    PROVE  IsFiniteSet(Range(f)) /\ Cardinality(Range(f)) = n
  <1>1. f \in Bijection(1 .. n, Range(f))
    BY DEF Bijection, Injection, Surjection, IsInjective, Range
  <1>2. ExistsBijection(1 .. n, Range(f))
    BY <1>1 DEF ExistsBijection
  <1>3. IsFiniteSet(1 .. n) /\ Cardinality(1 .. n) = n
    BY FS_Interval
  <1> QED BY <1>2, <1>3, FS_Bijection

\* A product of natural numbers is one.
LEMMA ProductOfNaturals == ASSUME NEW a \in Nat, NEW b \in Nat PROVE a * b \in Nat
  OBVIOUS

\* The sums over the subsets of a finite domain are integers and add up in any order.
LEMMA SumsAddUp ==
    ASSUME NEW f, IsFiniteSet(DOMAIN f), \A i \in DOMAIN f : f[i] \in Int
    PROVE  AddsUp(Sums(f), f) /\ \A s \in SUBSET DOMAIN f : Sums(f)[s] \in Int
  <1> DEFINE D == DOMAIN f
             F == Sums(f)
             Good(s) == F[s] \in Int /\ \A x \in s : F[s] = f[x] + F[s \ {x}]
             Bad == {n \in Nat : \E s \in SUBSET D : Cardinality(s) = n /\ ~ Good(s)}
  <1>1. \A s \in SUBSET D : F[s] = SumBody(f, F, s)
    BY SumsUnfold
  <1> HIDE DEF F
  <1>2. F[{}] = 0
    BY <1>1 DEF SumBody
  <1>3. Bad = {}
    <2> SUFFICES ASSUME Bad # {} PROVE FALSE
      OBVIOUS
    <2>1. PICK m \in Bad : \A k \in Bad : m <= k
      BY LeastElement
    <2>2. PICK s \in SUBSET D : Cardinality(s) = m /\ ~ Good(s)
      BY <2>1
    <2>3. s # {}
      BY <1>2, <2>2
    <2> DEFINE p == Pick(s)
               t == s \ {p}
    <2>4. p \in s /\ t \in SUBSET D /\ Cardinality(t) = m - 1 /\ m - 1 \in Nat /\ p \in D
      BY <2>2, <2>3, PickSmaller
    <2>5. F[s] = f[p] + F[t]
      BY <1>1, <2>3 DEF SumBody
    <2>6. \A r \in SUBSET D : Cardinality(r) = m - 1 => Good(r)
      <3>1. m - 1 \notin Bad
        BY <2>1
      <3> QED BY <2>4, <3>1
    <2>7. t = s \ {p}
      OBVIOUS
    <2> HIDE DEF p, t
    <2>8. F[t] \in Int /\ f[p] \in Int /\ F[s] \in Int
      BY <2>4, <2>5, <2>6
    <2>9. ASSUME NEW x \in s PROVE F[s] = f[x] + F[s \ {x}]
      <3>1. CASE x = p
        BY <2>5, <2>7, <3>1
      <3>2. CASE x # p
        <4>1. s \ {x} \in SUBSET D /\ Cardinality(s \ {x}) = m - 1
          <5>1. IsFiniteSet(s)
            BY FS_Subset
          <5> QED BY <2>2, <5>1, FS_RemoveElement
        <4>2. p \in s \ {x} /\ x \in t /\ (s \ {x}) \ {p} = t \ {x}
          BY <2>4, <2>7, <3>2
        <4>3. F[s \ {x}] = f[p] + F[t \ {x}] /\ F[s \ {x}] \in Int
          <5>1. Good(s \ {x})
            BY <2>6, <4>1
          <5> QED BY <4>2, <5>1
        <4>4. F[t] = f[x] + F[t \ {x}]
          BY <2>4, <2>6, <4>2
        <4>5. f[x] \in Int /\ F[t \ {x}] \in Int
          <5>1. t \ {x} \in SUBSET D /\ Cardinality(t \ {x}) \in Nat /\ Cardinality(t \ {x}) < m
            <6>1. IsFiniteSet(t)
              BY <2>4, FS_Subset
            <6>2. Cardinality(t \ {x}) = m - 1 - 1 /\ IsFiniteSet(t \ {x})
              BY <2>4, <4>2, <6>1, FS_RemoveElement
            <6>3. Cardinality(t \ {x}) \in Nat
              BY <6>2, FS_CardinalityType
            <6> QED BY <2>4, <6>2, <6>3
          <5>2. Cardinality(t \ {x}) \notin Bad
            <6>1. \A k \in Nat : k < m => k \notin Bad
              BY <2>1
            <6> HIDE DEF Bad
            <6> QED BY <5>1, <6>1
          <5>3. Good(t \ {x})
            BY <5>1, <5>2
          <5> QED BY <5>3
        <4> QED BY <2>5, <2>8, <4>3, <4>4, <4>5
      <3> QED BY <3>1, <3>2
    <2> QED BY <2>2, <2>8, <2>9
  <1>4. \A s \in SUBSET D : Good(s)
    <2> SUFFICES ASSUME NEW s \in SUBSET D PROVE Good(s)
      OBVIOUS
    <2>1. Cardinality(s) \in Nat
      BY FS_Subset, FS_CardinalityType
    <2> QED BY <1>3, <2>1
  <1>5. AddsUp(F, f)
    BY <1>2, <1>4 DEF AddsUp
  <1> QED BY <1>4, <1>5 DEF F

\* So the sum over part of a domain is that of the function on the part.
LEMMA TotalOfPart ==
    ASSUME NEW f, IsFiniteSet(DOMAIN f), \A i \in DOMAIN f : f[i] \in Int,
           NEW S \in SUBSET DOMAIN f
    PROVE  Total([i \in S |-> f[i]]) = Sums(f)[S]
  <1> DEFINE h == [i \in S |-> f[i]]
             g == Sums(f)
  <1>1. IsFiniteSet(S)
    BY FS_Subset
  <1>2. AddsUp(g, f)
    BY SumsAddUp
  <1> HIDE DEF g
  <1>3. AddsUp(g, h)
    BY <1>2 DEF AddsUp
  <1>4. DOMAIN h = S /\ IsFiniteSet(DOMAIN h)
    BY <1>1
  <1> HIDE DEF h
  <1>5. Total(h) = g[DOMAIN h]
    BY <1>3, <1>4, TotalIs
  <1> QED BY <1>4, <1>5 DEF h, g

\* A sum of natural numbers is one, and grows with the set it is over.
LEMMA SumsGrow ==
    ASSUME NEW f, IsFiniteSet(DOMAIN f), \A i \in DOMAIN f : f[i] \in Nat
    PROVE  /\ \A s \in SUBSET DOMAIN f : Sums(f)[s] \in Nat
           /\ \A s, t \in SUBSET DOMAIN f : s \subseteq t => Sums(f)[s] <= Sums(f)[t]
  <1> DEFINE D == DOMAIN f
             F == Sums(f)
  <1>1. AddsUp(F, f) /\ \A s \in SUBSET D : F[s] \in Int
    BY SumsAddUp
  <1> HIDE DEF F
  <1>2. ASSUME NEW s \in SUBSET D PROVE F[s] \in Nat
    <2> DEFINE h == [i \in s |-> f[i]]
    <2>1. h \in [s -> Nat] /\ IsFiniteSet(s)
      BY FS_Subset
    <2>2. Total(h) \in Nat
      BY <2>1, TotalNatural
    <2>3. Total(h) = F[s]
      BY TotalOfPart DEF F
    <2> QED BY <2>2, <2>3
  <1>3. ASSUME NEW s \in SUBSET D
        PROVE  \A t \in SUBSET D : s \subseteq t => F[s] <= F[t]
    <2> DEFINE Bad == {n \in Nat : \E t \in SUBSET D :
                          Cardinality(t) = n /\ s \subseteq t /\ ~ F[s] <= F[t]}
    <2>1. Bad = {}
      <3> SUFFICES ASSUME Bad # {} PROVE FALSE
        OBVIOUS
      <3>1. PICK m \in Bad : \A k \in Bad : m <= k
        BY LeastElement
      <3>2. PICK t \in SUBSET D : Cardinality(t) = m /\ s \subseteq t /\ ~ F[s] <= F[t]
        BY <3>1
      <3>3. PICK x \in t : x \notin s
        <4>1. s # t
          BY <1>2, <3>2
        <4> QED BY <3>2, <4>1
      <3>4. /\ t \ {x} \in SUBSET D /\ s \subseteq t \ {x}
            /\ Cardinality(t \ {x}) \in Nat /\ Cardinality(t \ {x}) < m
        <4>1. IsFiniteSet(t)
          BY FS_Subset
        <4>2. Cardinality(t \ {x}) = m - 1 /\ IsFiniteSet(t \ {x})
          BY <3>2, <4>1, FS_RemoveElement
        <4>3. Cardinality(t \ {x}) \in Nat
          BY <4>2, FS_CardinalityType
        <4> QED BY <3>2, <3>3, <4>2, <4>3
      <3>5. F[s] <= F[t \ {x}]
        <4>1. Cardinality(t \ {x}) \notin Bad
          <5>1. \A k \in Nat : k < m => k \notin Bad
            BY <3>1
          <5> HIDE DEF Bad
          <5> QED BY <3>4, <5>1
        <4> QED BY <3>4, <4>1
      <3>6. F[t] = f[x] + F[t \ {x}]
        BY <1>1 DEF AddsUp
      <3>7. f[x] \in Nat /\ F[t \ {x}] \in Nat /\ F[s] \in Nat
        BY <1>2, <3>4
      <3> QED BY <3>2, <3>5, <3>6, <3>7
    <2> SUFFICES ASSUME NEW t \in SUBSET D, s \subseteq t PROVE F[s] <= F[t]
      OBVIOUS
    <2>2. Cardinality(t) \in Nat
      BY FS_Subset, FS_CardinalityType
    <2> QED BY <2>1, <2>2
  <1> QED BY <1>2, <1>3 DEF F

\* A power of two counts the subsets of a set.
LEMMA PowerNatural == ASSUME NEW n \in Nat PROVE 2 ^ n \in Nat
  <1>1. IsFiniteSet(1 .. n) /\ Cardinality(1 .. n) = n
    BY FS_Interval
  <1>2. IsFiniteSet(SUBSET (1 .. n)) /\ Cardinality(SUBSET (1 .. n)) = 2 ^ n
    BY <1>1, FS_SUBSET
  <1> QED BY <1>2, FS_CardinalityType

\* A quotient and its rest.
LEMMA Division ==
    ASSUME NEW n \in Nat, NEW d \in Nat \ {0}
    PROVE  /\ n \div d \in Nat
           /\ d * (n \div d) <= n
           /\ n < d * (n \div d) + d
  <1> DEFINE q == n \div d
             m == n % d
  <1>1. q \in Int /\ m \in 0 .. d - 1 /\ n = d * q + m
    OBVIOUS
  <1> HIDE DEF q, m
  <1>2. q >= 0
    <2>1. q < 0 => d * q + d <= 0
      BY <1>1
    <2> QED BY <1>1, <2>1
  <1>3. d * q \in Int
    BY <1>1
  <1>4. q \in Nat /\ d * q <= n /\ n < d * q + d
    BY <1>1, <1>2, <1>3
  <1> QED BY <1>4 DEF q

\* A product of positive numbers is one.
LEMMA PositiveProduct == ASSUME NEW a \in Nat \ {0}, NEW b \in Nat \ {0} PROVE a * b \in Nat \ {0}
  OBVIOUS

\* Quotients grow with what is divided.
LEMMA DivGrows ==
    ASSUME NEW a \in Nat, NEW b \in Nat, NEW d \in Nat \ {0}, a <= b
    PROVE  a \div d <= b \div d
  <1> DEFINE p == a \div d
             q == b \div d
  <1>1. p \in Nat /\ d * p <= a
    BY Division
  <1>2. q \in Nat /\ b < d * q + d
    BY Division
  <1> HIDE DEF p, q
  <1>3. \A x, y \in Nat : x < y => d * x + d <= d * y
    OBVIOUS
  <1>4. d * p \in Nat /\ d * q \in Nat
    BY <1>1, <1>2
  <1>5. p <= q
    BY <1>1, <1>2, <1>3, <1>4
  <1> QED BY <1>5 DEF p, q

\* A positive factor does not make smaller.
LEMMA PositiveFactor == \A x, y \in Nat : y # 0 => x <= y * x
  <1> SUFFICES ASSUME NEW x \in Nat, NEW y \in Nat, y # 0 PROVE x <= y * x
    OBVIOUS
  <1>1. y - 1 \in Nat /\ y * x = x + (y - 1) * x
    OBVIOUS
  <1>2. (y - 1) * x \in Nat
    BY <1>1, ProductOfNaturals
  <1> QED BY <1>1, <1>2

\* Of a number in the n-th block of b, n is the quotient.
LEMMA BlockOf ==
    ASSUME NEW b \in Nat \ {0}, NEW n \in Nat, NEW i \in 0 .. b - 1
    PROVE  (n * b + i) \div b = n /\ (n * b + i) % b = i
  <1> DEFINE q == n * b + i
             d == q \div b
             m == q % b
  <1>1. n * b \in Nat /\ q \in Nat
    OBVIOUS
  <1>2. d \in Int /\ m \in 0 .. b - 1 /\ q = b * d + m
    BY <1>1
  <1> HIDE DEF d, m
  <1>3. \A x, y \in Int : x < y => b * x + b <= b * y
    OBVIOUS
  <1>4. d = n
    BY <1>2, <1>3
  <1> QED BY <1>2, <1>4 DEF d, m

\* The requests before another grow with it, one by one.
LEMMA SmallerGrows ==
    ASSUME NEW S \in SUBSET Nat, NEW r \in S
    PROVE  /\ Smaller(S, r) \in SUBSET S /\ r \notin Smaller(S, r) /\ Smaller(S, r) \cup {r} \in SUBSET S
           /\ \A q \in S : r < q => Smaller(S, r) \cup {r} \subseteq Smaller(S, q)
           /\ \A q \in S : r < q /\ (\A p \in S : p < q => p <= r) => Smaller(S, q) = Smaller(S, r) \cup {r}
           /\ (\A p \in S : p <= r) => S = Smaller(S, r) \cup {r}
           /\ (\A p \in S : r <= p) => Smaller(S, r) = {}
  <1>1. \A x \in S : x \in Nat
    OBVIOUS
  <1>2. \A q, x : x \in Smaller(S, q) <=> x \in S /\ x < q
    BY Zenon DEF Smaller
  <1>3. Smaller(S, r) \in SUBSET S /\ r \notin Smaller(S, r) /\ Smaller(S, r) \cup {r} \in SUBSET S
    BY <1>1, <1>2
  <1>4. ASSUME NEW q \in S, r < q, NEW x \in Smaller(S, r) \cup {r} PROVE x \in Smaller(S, q)
    <2>1. x = r \/ (x \in S /\ x < r)
      BY <1>2
    <2>2. x \in S
      BY <2>1
    <2>3. x \in Nat /\ r \in Nat /\ q \in Nat
      BY <1>1, <2>2
    <2>4. x < q
      BY <1>4, <2>1, <2>3
    <2> QED BY <1>2, <2>2, <2>4
  <1>5. ASSUME NEW q \in S, \A p \in S : p < q => p <= r, NEW x \in Smaller(S, q)
        PROVE  x \in Smaller(S, r) \cup {r}
    <2>1. x \in S /\ x \in Nat /\ r \in Nat /\ x <= r
      BY <1>1, <1>2, <1>5
    <2> QED BY <1>2, <2>1
  <1>6. ASSUME \A p \in S : p <= r, NEW x \in S PROVE x \in Smaller(S, r) \cup {r}
    <2>1. x \in Nat /\ r \in Nat /\ x <= r
      BY <1>1, <1>6
    <2> QED BY <1>2, <2>1
  <1>7. ASSUME \A p \in S : r <= p, NEW x \in Smaller(S, r) PROVE FALSE
    <2>1. x \in S /\ x \in Nat /\ r \in Nat /\ r <= x /\ x < r
      BY <1>1, <1>2, <1>7
    <2> QED BY <2>1
  <1>8. \A q \in S : r < q => Smaller(S, r) \cup {r} \subseteq Smaller(S, q)
    BY <1>4
  <1>9. ASSUME NEW q \in S, r < q, \A p \in S : p < q => p <= r
        PROVE  Smaller(S, q) = Smaller(S, r) \cup {r}
    <2>1. Smaller(S, q) \subseteq Smaller(S, r) \cup {r}
      BY <1>5, <1>9
    <2>2. Smaller(S, r) \cup {r} \subseteq Smaller(S, q)
      BY <1>8, <1>9
    <2> QED BY <2>1, <2>2
  <1>10. (\A p \in S : p <= r) => S = Smaller(S, r) \cup {r}
    BY <1>3, <1>6
  <1>11. (\A p \in S : r <= p) => Smaller(S, r) = {}
    BY <1>7
  <1> QED BY <1>3, <1>8, <1>9, <1>10, <1>11

\* Those before a request, and it, are before the next.
LEMMA SmallerInside ==
    ASSUME NEW S \in SUBSET Nat, NEW r \in S, NEW q \in S, r < q
    PROVE  Smaller(S, r) \cup {r} \subseteq Smaller(S, q)
  BY SmallerGrows
=============================================================================
