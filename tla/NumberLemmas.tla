---------------------------- MODULE NumberLemmas ---------------------------
(***************************************************************************)
(* Facts about natural numbers that the proofs of this project share: a    *)
(* set of them that is not empty has a least element, the form of          *)
(* induction the proofs use; the members of a finite set can be told by    *)
(* how many are below or above them; a function that is defined step by    *)
(* step over an interval exists, and there is only one.                    *)
(***************************************************************************)
EXTENDS Integers, FiniteSetTheorems, WellFoundedInduction, TLAPS

\* Among the intervals 0..n, n in S, one is minimal for strict inclusion, which
\* is well founded on finite sets; it belongs to the least n.
LEMMA LeastExists ==
    ASSUME NEW S \in SUBSET Nat, S # {}
    PROVE  \E x \in S : \A y \in S : x <= y
<1> DEFINE Below == StrictSubsetOrdering(Nat)
           Intervals == {0..n : n \in S}
<1>1. Intervals \subseteq FiniteSubsetsOf(Nat)
  <2>1. \A n \in S : 0..n \in SUBSET Nat /\ IsFiniteSet(0..n)
    BY FS_Interval
  <2>2. QED
    BY <2>1 DEF FiniteSubsetsOf
<1>2. Intervals # {}
  OBVIOUS
<1>3. IsWellFoundedOn(Below, FiniteSubsetsOf(Nat))
  BY FS_StrictSubsetOrderingWellFounded
<1>4. PICK U \in Intervals : \A V \in Intervals : <<V, U>> \notin Below
  <2> HIDE DEF Below, Intervals
  <2>1. QED
    BY <1>1, <1>2, <1>3, WFMin
<1>5. PICK x \in S : U = 0..x
  OBVIOUS
<1>6. ASSUME NEW y \in S, y < x PROVE FALSE
  <2>1. 0..y \subseteq 0..x /\ 0..y # 0..x
    BY <1>6
  <2>2. 0..x \in SUBSET Nat /\ 0..y \in SUBSET Nat
    OBVIOUS
  <2>3. <<0..y, 0..x>> \in Below
    BY <2>1, <2>2 DEF StrictSubsetOrdering
  <2>4. QED
    BY <2>3, <1>4, <1>5
<1>7. QED
  BY <1>6

\* A set of numbers up to n that holds the least and, with each number below n,
\* the next one, holds them all.
LEMMA IntervalInduction ==
    ASSUME NEW a \in Nat, NEW n \in Nat, NEW S, a \in S,
           \A k \in a..n : k \in S /\ k < n => k + 1 \in S
    PROVE  a..n \subseteq S
<1> DEFINE Out == {k \in a..n : k \notin S}
<1>1. SUFFICES ASSUME Out # {} PROVE FALSE
  OBVIOUS
<1>2. Out \in SUBSET Nat
  OBVIOUS
<1>3. PICK k \in Out : \A m \in Out : k <= m
  BY <1>1, <1>2, LeastExists
<1>4. k - 1 \in a..n /\ k - 1 \notin Out
  BY <1>3
<1>5. QED
  BY <1>3, <1>4

\* A set of numbers up to m is finite.
LEMMA BoundedIsFinite ==
    ASSUME NEW m \in Nat, NEW K \in SUBSET (1..m)
    PROVE  IsFiniteSet(K) /\ Cardinality(K) \in Nat
<1>1. IsFiniteSet(1..m)
  BY FS_Interval
<1>2. IsFiniteSet(K)
  BY <1>1, FS_Subset
<1>3. QED
  BY <1>2, FS_CardinalityType

\* When the members of K have different numbers up to the size of K, every such
\* number is used.
LEMMA AllRanksUsed ==
    ASSUME NEW K, IsFiniteSet(K),
           NEW f \in [K -> 1..Cardinality(K)],
           \A k, l \in K : f[k] = f[l] => k = l
    PROVE  \A i \in 1..Cardinality(K) : \E k \in K : f[k] = i
<1> DEFINE c == Cardinality(K)
<1>1. c \in Nat
  BY FS_CardinalityType
<1>2. IsFiniteSet(1..c) /\ Cardinality(1..c) = c
  <2> HIDE DEF c
  <2>1. QED
    BY <1>1, FS_Interval
<1>3. f \in Injection(K, 1..c)
  BY DEF Injection, IsInjective
<1>4. f \in Surjection(K, 1..c)
  <2>1. Cardinality(K) = Cardinality(1..c)
    BY <1>2
  <2>2. QED
    BY <1>2, <1>3, <2>1, FS_Injection
<1>5. QED
  BY <1>4 DEF Surjection

\* The i-th number of K from above is the one that has i members of K at or
\* above it.
LEMMA RankFromAbove ==
    ASSUME NEW m \in Nat, NEW K \in SUBSET (1..m)
    PROVE  /\ \A k \in K : Cardinality({j \in K : j >= k}) \in 1..Cardinality(K)
           /\ \A i \in 1..Cardinality(K) : \E k \in K : Cardinality({j \in K : j >= k}) = i
<1> DEFINE Up(k) == {j \in K : j >= k}
           c == Cardinality(K)
           f == [k \in K |-> Cardinality(Up(k))]
<1>1. IsFiniteSet(K) /\ c \in Nat /\ \A k \in K : k \in Int
  <2>1. IsFiniteSet(K) /\ Cardinality(K) \in Nat
    BY BoundedIsFinite
  <2>2. \A k \in K : k \in 1..m
    OBVIOUS
  <2>3. QED
    BY <2>1, <2>2
<1>2. ASSUME NEW k \in K
      PROVE  /\ IsFiniteSet(Up(k)) /\ Cardinality(Up(k)) \in Nat
             /\ Cardinality(Up(k)) <= c /\ Cardinality(Up(k)) # 0
  <2>1. Up(k) \in SUBSET K /\ k \in Up(k)
    BY <1>1
  <2> HIDE DEF Up
  <2>2. IsFiniteSet(Up(k)) /\ Cardinality(Up(k)) <= c
    BY <1>1, <2>1, FS_Subset
  <2>3. Cardinality(Up(k)) \in Nat
    BY <2>2, FS_CardinalityType
  <2>4. Cardinality(Up(k)) # 0
    BY <2>1, <2>2, FS_EmptySet
  <2>5. QED
    BY <2>2, <2>3, <2>4
<1>3. ASSUME NEW k \in K, NEW l \in K, k < l
      PROVE  Cardinality(Up(k)) # Cardinality(Up(l))
  <2>1. Up(l) \in SUBSET Up(k) /\ k \in Up(k) /\ k \notin Up(l)
    <3>1. k \in Int /\ l \in Int
      BY <1>1
    <3>2. ASSUME NEW j \in Up(l) PROVE j \in Up(k)
      <4>1. j \in K /\ j \in Int /\ j >= l
        BY <1>1
      <4>2. QED
        BY <1>3, <3>1, <4>1
    <3>3. k \in Up(k)
      BY <3>1
    <3>4. k \notin Up(l)
      BY <1>3, <3>1
    <3>5. QED
      BY <3>2, <3>3, <3>4
  <2>2. IsFiniteSet(Up(k))
    BY <1>2
  <2> HIDE DEF Up
  <2>3. QED
    BY <2>1, <2>2, FS_Subset
<1>4. \A k \in K : Cardinality(Up(k)) \in 1..c
  BY <1>1, <1>2
<1> HIDE DEF Up
<1>5. f \in [K -> 1..c]
  BY <1>4
<1>6. ASSUME NEW k \in K, NEW l \in K, f[k] = f[l] PROVE k = l
  <2>1. ~(k < l) /\ ~(l < k)
    BY <1>3, <1>6
  <2>2. QED
    BY <1>1, <2>1
<1>7. \A i \in 1..c : \E k \in K : f[k] = i
  <2> HIDE DEF f
  <2>1. QED
    BY <1>1, <1>5, <1>6, AllRanksUsed
<1>8. \A i \in 1..c : \E k \in K : Cardinality(Up(k)) = i
  BY <1>7
<1>9. QED
  BY <1>4, <1>8 DEF Up

\* The i-th number of K from below is the one that has i members of K at or
\* below it; different numbers have different ranks.
LEMMA RankFromBelow ==
    ASSUME NEW m \in Nat, NEW K \in SUBSET (1..m)
    PROVE  /\ \A k \in K : Cardinality({j \in K : j <= k}) \in 1..Cardinality(K)
           /\ \A k, l \in K : Cardinality({j \in K : j <= k}) = Cardinality({j \in K : j <= l}) => k = l
           /\ \A i \in 1..Cardinality(K) : \E k \in K : Cardinality({j \in K : j <= k}) = i
<1> DEFINE Down(k) == {j \in K : j <= k}
           c == Cardinality(K)
           f == [k \in K |-> Cardinality(Down(k))]
<1>1. IsFiniteSet(K) /\ c \in Nat /\ \A k \in K : k \in Int
  <2>1. IsFiniteSet(K) /\ Cardinality(K) \in Nat
    BY BoundedIsFinite
  <2>2. \A k \in K : k \in 1..m
    OBVIOUS
  <2>3. QED
    BY <2>1, <2>2
<1>2. ASSUME NEW k \in K
      PROVE  /\ IsFiniteSet(Down(k)) /\ Cardinality(Down(k)) \in Nat
             /\ Cardinality(Down(k)) <= c /\ Cardinality(Down(k)) # 0
  <2>1. Down(k) \in SUBSET K /\ k \in Down(k)
    BY <1>1
  <2> HIDE DEF Down
  <2>2. IsFiniteSet(Down(k)) /\ Cardinality(Down(k)) <= c
    BY <1>1, <2>1, FS_Subset
  <2>3. Cardinality(Down(k)) \in Nat
    BY <2>2, FS_CardinalityType
  <2>4. Cardinality(Down(k)) # 0
    BY <2>1, <2>2, FS_EmptySet
  <2>5. QED
    BY <2>2, <2>3, <2>4
<1>3. ASSUME NEW k \in K, NEW l \in K, l < k
      PROVE  Cardinality(Down(k)) # Cardinality(Down(l))
  <2>1. Down(l) \in SUBSET Down(k) /\ k \in Down(k) /\ k \notin Down(l)
    <3>1. k \in Int /\ l \in Int
      BY <1>1
    <3>2. ASSUME NEW j \in Down(l) PROVE j \in Down(k)
      <4>1. j \in K /\ j \in Int /\ j <= l
        BY <1>1
      <4>2. QED
        BY <1>3, <3>1, <4>1
    <3>3. k \in Down(k)
      BY <3>1
    <3>4. k \notin Down(l)
      BY <1>3, <3>1
    <3>5. QED
      BY <3>2, <3>3, <3>4
  <2>2. IsFiniteSet(Down(k))
    BY <1>2
  <2> HIDE DEF Down
  <2>3. QED
    BY <2>1, <2>2, FS_Subset
<1>4. \A k \in K : Cardinality(Down(k)) \in 1..c
  BY <1>1, <1>2
<1> HIDE DEF Down
<1>5. f \in [K -> 1..c]
  BY <1>4
<1>6. ASSUME NEW k \in K, NEW l \in K, f[k] = f[l] PROVE k = l
  <2>1. ~(k < l) /\ ~(l < k)
    BY <1>3, <1>6
  <2>2. QED
    BY <1>1, <2>1
<1>7. \A i \in 1..c : \E k \in K : f[k] = i
  <2> HIDE DEF f
  <2>1. QED
    BY <1>1, <1>5, <1>6, AllRanksUsed
<1>8. \A i \in 1..c : \E k \in K : Cardinality(Down(k)) = i
  BY <1>7
<1>9. \A k, l \in K : Cardinality(Down(k)) = Cardinality(Down(l)) => k = l
  BY <1>6
<1>10. QED
  BY <1>4, <1>8, <1>9 DEF Down

\* The functions on 0..n with first value a whose further values come from the
\* ones before by the steps G.
Recursion(V, a, n, G) ==
    {f \in [0..n -> V] : f[0] = a /\ \A i \in 1..n : f[i] = G[i][f[i - 1]]}

\* There is one, so that a recursive definition of this form defines something.
LEMMA RecursionExists ==
    ASSUME NEW V, NEW a \in V, NEW n \in Nat, NEW G \in [1..n -> [V -> V]]
    PROVE  \E f : f \in Recursion(V, a, n, G)
<1> DEFINE Defines(f, m) == f[0] = a /\ \A i \in 1..m : f[i] = G[i][f[i - 1]]
           S == {m \in 0..n : \E f \in [0..m -> V] : Defines(f, m)}
<1>1. 0 \in S
  <2>1. [i \in 0..0 |-> a] \in [0..0 -> V] /\ Defines([i \in 0..0 |-> a], 0)
    OBVIOUS
  <2> HIDE DEF Defines
  <2>2. QED
    BY <2>1
<1>2. \A m \in 0..n : m \in S /\ m < n => m + 1 \in S
  <2> SUFFICES ASSUME NEW m \in 0..n, m \in S, m < n
               PROVE  \E g \in [0..m + 1 -> V] : Defines(g, m + 1)
    <3> HIDE DEF Defines
    <3> QED
      OBVIOUS
  <2>1. PICK f \in [0..m -> V] : Defines(f, m)
    <3> HIDE DEF Defines
    <3> QED
      OBVIOUS
  <2> DEFINE g == [i \in 0..m + 1 |-> IF i <= m THEN f[i] ELSE G[m + 1][f[m]]]
  <2>2. m + 1 \in 1..n /\ m \in 0..m /\ f[m] \in V
    OBVIOUS
  <2>3. G[m + 1][f[m]] \in V
    BY <2>2
  <2>4. g \in [0..m + 1 -> V]
    BY <2>3
  <2>5. g[0] = a
    BY <2>1
  <2>6. ASSUME NEW i \in 1..m + 1 PROVE g[i] = G[i][g[i - 1]]
    <3>1. CASE i <= m
      BY <2>1, <3>1
    <3>2. CASE i = m + 1
      BY <3>2
    <3>3. QED
      BY <3>1, <3>2
  <2>7. QED
    BY <2>4, <2>5, <2>6
<1> HIDE DEF S
<1>3. 0..n \subseteq S
  BY <1>1, <1>2, IntervalInduction
<1>4. n \in S
  BY <1>3
<1>5. QED
  BY <1>4 DEF S, Recursion

\* Two functions with the same first value and the same step are equal.
SameSteps(n, f, g) ==
    f[0] = g[0] /\ \A i \in 1..n : f[i - 1] = g[i - 1] => f[i] = g[i]

LEMMA RecursionUnique ==
    ASSUME NEW n \in Nat, NEW f, NEW g, SameSteps(n, f, g)
    PROVE  \A i \in 0..n : f[i] = g[i]
<1> USE DEF SameSteps
<1> DEFINE S == {i \in 0..n : f[i] = g[i]}
<1>1. 0 \in S
  OBVIOUS
<1>2. \A m \in 0..n : m \in S /\ m < n => m + 1 \in S
  <2> SUFFICES ASSUME NEW m \in 0..n, m \in S, m < n
               PROVE  f[m + 1] = g[m + 1]
    OBVIOUS
  <2>1. m + 1 \in 1..n /\ (m + 1) - 1 = m
    OBVIOUS
  <2>2. QED
    BY <2>1
<1> HIDE DEF S
<1>3. 0..n \subseteq S
  BY <1>1, <1>2, IntervalInduction
<1>4. QED
  BY <1>3 DEF S
=============================================================================
