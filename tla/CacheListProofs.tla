-------------------------- MODULE CacheListProofs --------------------------
(***************************************************************************)
(* Proofs about CacheList: whatever is put, moved, expired or trimmed, the *)
(* pointers make one doubly linked list of all allocated nodes.            *)
(*                                                                         *)
(* The invariant speaks of the list as a sequence s of nodes that next and *)
(* last run through; every action changes s by one of three operations.    *)
(*                                                                         *)
(* The second part proves that the list implements Cache: a put is a put,  *)
(* the timer's lock is the refresh of the whole cache, and the walk that   *)
(* follows it only brings about what the lock has promised.                *)
(***************************************************************************)
EXTENDS CacheList, NumberLemmas, FiniteSetTheorems, SequenceTheorems

Entry == [rr : RRs, ttl : Nat, expire : Nat]
Ends == Nodes \cup {Dummy}

\* The assumptions, as the proofs cite them.
LEMMA Constants ==
    /\ Dummy \notin Nodes /\ NULL \notin Nodes /\ Dummy # NULL
    /\ IsFiniteSet(Nodes) /\ TTLs \subseteq Nat /\ TTLs # {}
    /\ CacheSizeMax \in Nat \ {0} /\ NULL \notin Entry
BY ListAssumption DEF ListAssumption, Entry

-----------------------------------------------------------------------------
(* Lists as sequences of nodes *)

\* The i-th node, the dummy being the 0-th; NULL behind the last one.
At(s, i) == IF i = 0 THEN Dummy ELSE IF i <= Len(s) THEN s[i] ELSE NULL

Distinct(s) == s \in Seq(Nodes) /\ \A i, j \in 1..Len(s) : s[i] = s[j] => i = j

\* The pointers nx and la run through s.  Only the node before cut may have lost
\* its way: RemoveSurplus ends the list there before it frees what follows.
Links(nx, la, s, cut) ==
    /\ nx \in [Ends -> Nodes \cup {NULL}] /\ la \in [Ends -> Ends \cup {NULL}]
    /\ \A i \in 1..Len(s) : la[s[i]] = At(s, i - 1)
    /\ \A i \in 0..Len(s) :
         \/ nx[At(s, i)] = At(s, i + 1)
         \/ nx[At(s, i)] = NULL /\ At(s, i + 1) = cut

\* What the operations do to the sequence.
Without(s, k) == [i \in 1..Len(s) - 1 |-> IF i < k THEN s[i] ELSE s[i + 1]]
Before(n, s) == [i \in 1..Len(s) + 1 |-> IF i = 1 THEN n ELSE s[i - 1]]

\* A function on 1..n into S is a sequence over S of length n.
LEMMA FunctionIsSeq ==
    ASSUME NEW S, NEW n \in Nat, NEW f \in [1..n -> S]
    PROVE  f \in Seq(S) /\ Len(f) = n
OBVIOUS

\* The nodes at different places are different, and none is the dummy or NULL.
LEMMA Places ==
    ASSUME NEW s, Distinct(s)
    PROVE  /\ Len(s) \in Nat
           /\ \A i \in 1..Len(s) : s[i] \in Nodes /\ s[i] # Dummy /\ s[i] # NULL
           /\ \A i \in 1..Len(s) : At(s, i) = s[i]
           /\ At(s, 0) = Dummy /\ At(s, Len(s) + 1) = NULL
           /\ \A i, j \in 0..Len(s) : At(s, i) = At(s, j) => i = j
           /\ \A i \in 0..Len(s) : At(s, i) \in Ends /\ At(s, i) # NULL
<1>1. Len(s) \in Nat /\ \A i \in 1..Len(s) : s[i] \in Nodes
  BY LenProperties, ElementOfSeq DEF Distinct
<1>2. \A i \in 1..Len(s) : s[i] # Dummy /\ s[i] # NULL
  BY <1>1, Constants
<1>3. \A i \in 1..Len(s) : At(s, i) = s[i]
  BY <1>1 DEF At
<1>4. At(s, 0) = Dummy /\ At(s, Len(s) + 1) = NULL
  BY <1>1 DEF At
<1>5. \A i \in 0..Len(s) : i = 0 \/ i \in 1..Len(s)
  BY <1>1
<1>6. \A i, j \in 0..Len(s) : At(s, i) = At(s, j) => i = j
  BY <1>1, <1>2, <1>3, <1>4, <1>5 DEF Distinct
<1>7. \A i \in 0..Len(s) : At(s, i) \in Ends /\ At(s, i) # NULL
  BY <1>1, <1>2, <1>3, <1>4, <1>5, Constants DEF Ends
<1>8. QED
  BY <1>1, <1>2, <1>3, <1>4, <1>6, <1>7

\* Taking out the k-th node.
LEMMA WithoutFacts ==
    ASSUME NEW s, Distinct(s), NEW k \in 1..Len(s)
    PROVE  /\ Distinct(Without(s, k)) /\ Len(Without(s, k)) = Len(s) - 1
           /\ \A i \in 0..Len(s) : At(Without(s, k), i) = IF i < k THEN At(s, i) ELSE At(s, i + 1)
           /\ \A n : (\E i \in 1..Len(Without(s, k)) : Without(s, k)[i] = n)
                     <=> (n # s[k] /\ \E i \in 1..Len(s) : s[i] = n)
<1> DEFINE t == Without(s, k)
<1>1. Len(s) \in Nat /\ Len(s) - 1 \in Nat /\ \A i \in 1..Len(s) : s[i] \in Nodes
  BY Places
<1>2. t \in [1..Len(s) - 1 -> Nodes]
  BY <1>1 DEF Without
<1>3. t \in Seq(Nodes) /\ Len(t) = Len(s) - 1
  BY <1>1, <1>2, FunctionIsSeq
<1>4. \A i \in 1..Len(s) - 1 : t[i] = IF i < k THEN s[i] ELSE s[i + 1]
  BY <1>1 DEF Without
<1> HIDE DEF t
<1>5. Distinct(t)
  BY <1>1, <1>3, <1>4 DEF Distinct
<1>6. \A i \in 0..Len(s) : At(t, i) = IF i < k THEN At(s, i) ELSE At(s, i + 1)
  BY <1>1, <1>3, <1>4 DEF At
<1>7. ASSUME NEW n
      PROVE  (\E i \in 1..Len(t) : t[i] = n) <=> (n # s[k] /\ \E i \in 1..Len(s) : s[i] = n)
  <2>1. ASSUME NEW i \in 1..Len(t), t[i] = n
        PROVE  n # s[k] /\ \E j \in 1..Len(s) : s[j] = n
    <3>1. i \in 1..Len(s) /\ i + 1 \in 1..Len(s) /\ i + 1 # i
      BY <1>1, <1>3
    <3>2. CASE i < k
      BY <1>1, <1>3, <1>4, <2>1, <3>1, <3>2 DEF Distinct
    <3>3. CASE ~(i < k)
      BY <1>1, <1>3, <1>4, <2>1, <3>1, <3>3 DEF Distinct
    <3>4. QED
      BY <3>2, <3>3
  <2>2. ASSUME NEW j \in 1..Len(s), s[j] = n, n # s[k]
        PROVE  \E i \in 1..Len(t) : t[i] = n
    <3>1. CASE j < k
      BY <1>1, <1>3, <1>4, <2>2, <3>1
    <3>2. CASE j > k
      <4>1. j - 1 \in 1..Len(t) /\ t[j - 1] = s[j]
        BY <1>1, <1>3, <1>4, <3>2
      <4>2. QED
        BY <2>2, <4>1
    <3>3. QED
      BY <1>1, <2>2, <3>1, <3>2
  <2>3. QED
    BY <2>1, <2>2
<1>8. QED
  BY <1>3, <1>5, <1>6, <1>7 DEF t

\* Putting a new node in front.
LEMMA BeforeFacts ==
    ASSUME NEW s, Distinct(s), NEW n \in Nodes, \A i \in 1..Len(s) : s[i] # n
    PROVE  /\ Distinct(Before(n, s)) /\ Len(Before(n, s)) = Len(s) + 1
           /\ \A i \in 1..Len(s) + 2 : At(Before(n, s), i) = IF i = 1 THEN n ELSE At(s, i - 1)
           /\ \A m : (\E i \in 1..Len(Before(n, s)) : Before(n, s)[i] = m)
                     <=> (m = n \/ \E i \in 1..Len(s) : s[i] = m)
<1> DEFINE t == Before(n, s)
<1>1. Len(s) \in Nat /\ \A i \in 1..Len(s) : s[i] \in Nodes
  BY Places
<1>2. t \in [1..Len(s) + 1 -> Nodes]
  BY <1>1 DEF Before
<1>3. t \in Seq(Nodes) /\ Len(t) = Len(s) + 1
  BY <1>1, <1>2, FunctionIsSeq
<1>4. t[1] = n /\ \A i \in 2..Len(s) + 1 : t[i] = s[i - 1] /\ i - 1 \in 1..Len(s)
  BY <1>1 DEF Before
<1> HIDE DEF t
<1>5. \A i \in 1..Len(t) : i = 1 \/ i \in 2..Len(s) + 1
  BY <1>1, <1>3
<1>6. Distinct(t)
  <2>1. ASSUME NEW i \in 1..Len(t), NEW j \in 1..Len(t), t[i] = t[j]
        PROVE  i = j
    <3>1. CASE i = 1 \/ j = 1
      BY <1>4, <1>5, <2>1, <3>1
    <3>2. CASE i # 1 /\ j # 1
      <4>1. i - 1 = j - 1
        BY <1>4, <1>5, <2>1, <3>2 DEF Distinct
      <4>2. QED
        BY <1>1, <1>3, <4>1
    <3>3. QED
      BY <3>1, <3>2
  <2>2. QED
    BY <1>3, <2>1 DEF Distinct
<1>7. \A i \in 1..Len(s) + 2 : At(t, i) = IF i = 1 THEN n ELSE At(s, i - 1)
  BY <1>1, <1>3, <1>4 DEF At
<1>8. ASSUME NEW m
      PROVE  (\E i \in 1..Len(t) : t[i] = m) <=> (m = n \/ \E i \in 1..Len(s) : s[i] = m)
  <2>1. ASSUME NEW i \in 1..Len(s)
        PROVE  i + 1 \in 1..Len(t) /\ t[i + 1] = s[i]
    BY <1>1, <1>3, <1>4
  <2>2. 1 \in 1..Len(t)
    BY <1>1, <1>3
  <2>3. ASSUME NEW i \in 1..Len(t), t[i] = m, m # n
        PROVE  \E j \in 1..Len(s) : s[j] = m
    <3>1. i \in 2..Len(s) + 1
      BY <1>4, <1>5, <2>3
    <3>2. i - 1 \in 1..Len(s) /\ s[i - 1] = m
      BY <1>4, <2>3, <3>1
    <3>3. QED
      BY <3>2
  <2>4. ASSUME m = n \/ \E i \in 1..Len(s) : s[i] = m
        PROVE  \E i \in 1..Len(t) : t[i] = m
    <3>1. CASE m = n
      BY <1>4, <2>2, <3>1
    <3>2. CASE \E i \in 1..Len(s) : s[i] = m
      BY <2>1, <3>2
    <3>3. QED
      BY <2>4, <3>1, <3>2
  <2>5. QED
    BY <2>3, <2>4
<1>9. QED
  BY <1>3, <1>6, <1>7, <1>8 DEF t

\* The k-th node is taken out: its neighbours point at each other, or the list
\* ends before it.
LEMMA Unlink ==
    ASSUME NEW s, Distinct(s), NEW k \in 1..Len(s), NEW cut \in {s[k], NULL},
           Links(next, last, s, cut)
    PROVE  /\ cut = NULL =>
                Links(NextWithout(s[k]), LastWithout(s[k]), Without(s, k), NULL)
           /\ Links(TrimNext(s[k]), LastWithout(s[k]), Without(s, k), next[s[k]])
           /\ next[s[k]] = At(s, k + 1)
<1> DEFINE n == s[k]
           t == Without(s, k)
           la == LastWithout(n)
<1>1. /\ next \in [Ends -> Nodes \cup {NULL}] /\ last \in [Ends -> Ends \cup {NULL}]
      /\ \A i \in 1..Len(s) : last[s[i]] = At(s, i - 1)
  BY DEF Links
<1>2. /\ Len(s) \in Nat /\ \A i \in 1..Len(s) : s[i] \in Nodes /\ At(s, i) = s[i]
      /\ At(s, Len(s) + 1) = NULL
      /\ \A i, j \in 0..Len(s) : At(s, i) = At(s, j) => i = j
      /\ \A i \in 0..Len(s) : At(s, i) \in Ends /\ At(s, i) # NULL
  BY Places
<1>3. /\ Len(t) = Len(s) - 1
      /\ \A i \in 0..Len(s) : At(t, i) = IF i < k THEN At(s, i) ELSE At(s, i + 1)
      /\ Distinct(t)
  BY WithoutFacts
<1>4. last[n] = At(s, k - 1) /\ n = At(s, k) /\ k - 1 \in 0..Len(s) /\ n \in Ends
  BY <1>1, <1>2
<1>5. \A i \in 0..Len(s) : i # k - 1 => next[At(s, i)] = At(s, i + 1)
  <2> SUFFICES ASSUME NEW i \in 0..Len(s), i # k - 1
               PROVE  next[At(s, i)] = At(s, i + 1)
    OBVIOUS
  <2>1. At(s, i + 1) # n
    <3>1. CASE i = Len(s)
      BY <1>2, <1>4, <3>1
    <3>2. CASE i # Len(s)
      <4>1. i + 1 \in 0..Len(s) /\ k \in 0..Len(s) /\ i + 1 # k
        BY <1>2, <3>2
      <4>2. QED
        BY <1>2, <1>4, <4>1
    <3>3. QED
      BY <3>1, <3>2
  <2>2. QED
    BY <2>1 DEF Links
<1>6. next[n] = At(s, k + 1)
  BY <1>2, <1>4, <1>5
<1>7. At(s, k + 1) \in Nodes \cup {NULL}
  BY <1>2, <1>4, <1>6, <1>1
<1>8. \A i \in 1..Len(t) : t[i] = At(t, i) /\ i \in 0..Len(s) /\ i - 1 \in 0..Len(s)
  BY <1>2, <1>3, Places
<1> HIDE DEF n, t
<1>9. /\ la \in [Ends -> Ends \cup {NULL}]
      /\ \A x \in Ends : la[x] = IF x = At(s, k + 1) THEN At(s, k - 1) ELSE last[x]
  <2>1. At(s, k - 1) \in Ends
    BY <1>2, <1>4
  <2>2. CASE next[n] = NULL
    BY <1>1, <1>6, <2>2, Constants DEF LastWithout, Ends
  <2>3. CASE next[n] # NULL
    BY <1>1, <1>4, <1>6, <1>7, <2>1, <2>3 DEF LastWithout
  <2>4. QED
    BY <2>2, <2>3
<1> HIDE DEF la
<1>10. \A i \in 1..Len(t) : la[t[i]] = At(t, i - 1)
  <2> SUFFICES ASSUME NEW i \in 1..Len(t)
               PROVE  la[t[i]] = At(t, i - 1)
    OBVIOUS
  <2>1. i \in 1..Len(s) /\ i + 1 \in 1..Len(s) /\ i <= Len(s) - 1
    BY <1>2, <1>3
  <2>2. CASE i < k
    <3>1. t[i] = At(s, i) /\ At(t, i - 1) = At(s, i - 1)
      BY <1>2, <1>3, <1>8, <2>1, <2>2
    <3>2. At(s, i) # At(s, k + 1)
      <4>1. CASE k = Len(s)
        BY <1>2, <2>1, <4>1
      <4>2. CASE k # Len(s)
        BY <1>2, <2>1, <2>2, <4>2
      <4>3. QED
        BY <4>1, <4>2
    <3>3. QED
      BY <1>1, <1>2, <1>9, <2>1, <3>1, <3>2 DEF Ends
  <2>3. CASE i = k
    <3>1. t[i] = At(s, k + 1) /\ At(t, i - 1) = At(s, k - 1) /\ At(s, k + 1) \in Ends
      BY <1>2, <1>3, <1>8, <2>1, <2>3
    <3>2. QED
      BY <1>9, <3>1
  <2>4. CASE i > k
    <3>1. t[i] = At(s, i + 1) /\ At(t, i - 1) = At(s, i)
      BY <1>2, <1>3, <1>8, <2>1, <2>4
    <3>2. At(s, i + 1) # At(s, k + 1)
      BY <1>2, <2>1, <2>4
    <3>3. QED
      BY <1>1, <1>2, <1>9, <2>1, <3>1, <3>2, SMTT(30) DEF Ends
  <2>5. QED
    BY <1>2, <2>1, <2>2, <2>3, <2>4
<1>11. \A x \in Ends : /\ NextWithout(n)[x] = IF x = At(s, k - 1) THEN At(s, k + 1) ELSE next[x]
                       /\ TrimNext(n)[x] = IF x = At(s, k - 1) THEN NULL ELSE next[x]
  BY <1>1, <1>4, <1>6 DEF NextWithout, TrimNext
<1>12. /\ NextWithout(n) \in [Ends -> Nodes \cup {NULL}]
       /\ TrimNext(n) \in [Ends -> Nodes \cup {NULL}]
  BY <1>1, <1>4, <1>6, <1>7 DEF NextWithout, TrimNext
<1>13. \A i \in 0..Len(t) :
         IF i = k - 1 THEN At(t, i) = At(s, k - 1) /\ At(t, i + 1) = At(s, k + 1)
         ELSE /\ At(t, i) # At(s, k - 1) /\ At(t, i) \in Ends
              /\ next[At(t, i)] = At(t, i + 1)
  <2> SUFFICES ASSUME NEW i \in 0..Len(t)
               PROVE  IF i = k - 1 THEN At(t, i) = At(s, k - 1) /\ At(t, i + 1) = At(s, k + 1)
                      ELSE /\ At(t, i) # At(s, k - 1) /\ At(t, i) \in Ends
                           /\ next[At(t, i)] = At(t, i + 1)
    OBVIOUS
  <2>1. i \in 0..Len(s) /\ i + 1 \in 0..Len(s) /\ k - 1 \in 0..Len(s)
    BY <1>2, <1>3
  <2>2. CASE i = k - 1
    BY <1>2, <1>3, <2>1, <2>2
  <2>3. CASE i < k - 1
    <3>1. At(t, i) = At(s, i) /\ At(t, i + 1) = At(s, i + 1) /\ i # k - 1
      BY <1>2, <1>3, <2>1, <2>3
    <3>2. QED
      BY <1>2, <1>5, <2>1, <3>1
  <2>4. CASE i > k - 1
    <3>1. At(t, i) = At(s, i + 1) /\ At(t, i + 1) = At(s, i + 2)
          /\ i + 1 # k - 1 /\ (i + 1) + 1 = i + 2
      BY <1>2, <1>3, <2>1, <2>4
    <3>2. QED
      BY <1>2, <1>5, <2>1, <2>4, <3>1
  <2>5. QED
    BY <1>2, <2>1, <2>2, <2>3, <2>4
<1>14. At(s, k - 1) \in Ends
  BY <1>2, <1>4
<1>15. /\ Links(NextWithout(n), la, t, NULL)
       /\ Links(TrimNext(n), la, t, next[n])
  BY <1>6, <1>9, <1>10, <1>11, <1>12, <1>13, <1>14 DEF Links
<1>16. QED
  BY <1>6, <1>15 DEF n, t, la

\* A node that is in no list is put in front of one.
LEMMA Relink ==
    ASSUME NEW s, Distinct(s), NEW n \in Nodes, \A i \in 1..Len(s) : s[i] # n,
           NEW nx, NEW la, Links(nx, la, s, NULL), LinkFirst(n, nx, la)
    PROVE  Links(next', last', Before(n, s), NULL)
<1> DEFINE t == Before(n, s)
<1>1. /\ nx \in [Ends -> Nodes \cup {NULL}] /\ la \in [Ends -> Ends \cup {NULL}]
      /\ \A i \in 1..Len(s) : la[s[i]] = At(s, i - 1)
      /\ \A i \in 0..Len(s) : nx[At(s, i)] = At(s, i + 1)
  BY DEF Links
<1>2. /\ Len(s) \in Nat /\ \A i \in 1..Len(s) : s[i] \in Nodes /\ At(s, i) = s[i]
      /\ At(s, 0) = Dummy /\ At(s, Len(s) + 1) = NULL
      /\ \A i, j \in 0..Len(s) : At(s, i) = At(s, j) => i = j
      /\ \A i \in 0..Len(s) : At(s, i) \in Ends /\ At(s, i) # NULL
  BY Places
<1>3. /\ Len(t) = Len(s) + 1 /\ At(t, 0) = Dummy
      /\ \A i \in 1..Len(s) + 2 : At(t, i) = IF i = 1 THEN n ELSE At(s, i - 1)
      /\ \A i \in 1..Len(t) : At(t, i) = t[i]
  BY BeforeFacts, Places
<1>4. nx[Dummy] = At(s, 1) /\ Dummy \in Ends /\ n \in Ends /\ n # Dummy
  BY <1>1, <1>2, Constants DEF Ends
<1> HIDE DEF t
<1>5. /\ next' \in [Ends -> Nodes \cup {NULL}]
      /\ next'[Dummy] = n /\ next'[n] = At(s, 1)
      /\ \A x \in Ends \ {Dummy, n} : next'[x] = nx[x]
  BY <1>1, <1>4 DEF LinkFirst
<1>6. /\ last' \in [Ends -> Ends \cup {NULL}]
      /\ last'[n] = Dummy
      /\ \A x \in Ends \ {n} : last'[x] = IF x = At(s, 1) THEN n ELSE la[x]
  BY <1>1, <1>4 DEF LinkFirst
<1>7. ASSUME NEW i \in 0..Len(t)
      PROVE  next'[At(t, i)] = At(t, i + 1)
  <2>1. CASE i = 0
    BY <1>2, <1>3, <1>5, <2>1
  <2>2. CASE i = 1
    BY <1>2, <1>3, <1>5, <2>2
  <2>3. CASE i > 1
    <3>1. i - 1 \in 1..Len(s) /\ i \in 1..Len(s) + 2 /\ i + 1 \in 1..Len(s) + 2
          /\ (i - 1) + 1 = i /\ (i + 1) - 1 = i /\ i # 1 /\ i + 1 # 1
          /\ i - 1 \in 0..Len(s) /\ i - 1 # 0 /\ 0 \in 0..Len(s)
      BY <1>2, <1>3, <2>3
    <3>2. At(t, i) = At(s, i - 1) /\ At(t, i + 1) = At(s, i)
      BY <1>3, <3>1
    <3>3. At(s, i - 1) \in Ends \ {Dummy, n}
      BY <1>2, <3>1
    <3>4. QED
      BY <1>1, <1>5, <3>1, <3>2, <3>3
  <2>4. QED
    BY <1>2, <1>3, <2>1, <2>2, <2>3
<1>8. ASSUME NEW i \in 1..Len(t)
      PROVE  last'[t[i]] = At(t, i - 1)
  <2>1. CASE i = 1
    BY <1>2, <1>3, <1>6, <2>1
  <2>2. CASE i > 1
    <3>1. i - 1 \in 1..Len(s) /\ i \in 1..Len(s) + 2 /\ i - 1 \in 1..Len(s) + 2 /\ i # 1
          /\ i - 1 \in 0..Len(s)
      BY <1>2, <1>3, <2>2
    <3>2. t[i] = s[i - 1] /\ t[i] = At(s, i - 1) /\ At(s, i - 1) \in Ends \ {n}
      BY <1>2, <1>3, <3>1
    <3>3. CASE i = 2
      BY <1>3, <1>6, <3>1, <3>2, <3>3
    <3>4. CASE i # 2
      <4>1. 1 \in 0..Len(s) /\ i - 1 # 1 /\ At(t, i - 1) = At(s, (i - 1) - 1)
        BY <1>2, <1>3, <3>1, <3>4
      <4>2. At(s, i - 1) # At(s, 1)
        BY <1>2, <3>1, <4>1
      <4>3. QED
        BY <1>1, <1>6, <3>1, <3>2, <4>1, <4>2
    <3>5. QED
      BY <3>3, <3>4
  <2>3. QED
    BY <1>2, <1>3, <2>1, <2>2
<1>9. QED
  BY <1>5, <1>6, <1>7, <1>8 DEF Links, t

\* free(n) does not touch a list that n is not in.
LEMMA BlankElsewhere ==
    ASSUME NEW s, Distinct(s), NEW n \in Nodes, \A i \in 1..Len(s) : s[i] # n,
           NEW nx, NEW la, NEW cut, Links(nx, la, s, cut)
    PROVE  Links(Blank(nx, n), Blank(la, n), s, cut)
<1>1. /\ nx \in [Ends -> Nodes \cup {NULL}] /\ la \in [Ends -> Ends \cup {NULL}]
      /\ \A i \in 1..Len(s) : la[s[i]] = At(s, i - 1)
  BY DEF Links
<1>2. \A i \in 0..Len(s) : At(s, i) \in Ends /\ At(s, i) # n
  BY Places, Constants DEF At, Ends
<1>3. \A i \in 1..Len(s) : s[i] \in Ends
  BY Places DEF Ends
<1>4. /\ Blank(nx, n) \in [Ends -> Nodes \cup {NULL}]
      /\ Blank(la, n) \in [Ends -> Ends \cup {NULL}]
      /\ \A x \in Ends : x # n => Blank(nx, n)[x] = nx[x] /\ Blank(la, n)[x] = la[x]
  BY <1>1 DEF Blank
<1>5. QED
  BY <1>1, <1>2, <1>3, <1>4 DEF Links

-----------------------------------------------------------------------------
(* Chain, which follows the next pointers, is that sequence *)

\* The n-th node of a list that ends in NULL.
LEMMA NthIsAt ==
    ASSUME NEW s, Distinct(s), Links(next, last, s, NULL)
    PROVE  \A k \in 0..Cardinality(Nodes) : Nth[k] = IF k <= Len(s) THEN At(s, k) ELSE NULL
<1> DEFINE N == Cardinality(Nodes)
           f == [k \in 0..N |-> IF k <= Len(s) THEN At(s, k) ELSE NULL]
           Step(g) == [k \in 0..N |-> IF k = 0 THEN Dummy
                                      ELSE IF g[k - 1] = NULL THEN NULL ELSE next[g[k - 1]]]
<1>1. N \in Nat
  BY Constants, FS_CardinalityType
<1>2. /\ Len(s) \in Nat /\ At(s, 0) = Dummy /\ At(s, Len(s) + 1) = NULL
      /\ \A i \in 0..Len(s) : At(s, i) # NULL /\ next[At(s, i)] = At(s, i + 1)
  BY Places DEF Links
<1> HIDE DEF N
<1>3. f = Step(f)
  <2>1. ASSUME NEW k \in 0..N
        PROVE  f[k] = Step(f)[k]
    <3>1. CASE k = 0
      BY <1>2, <2>1, <3>1
    <3>2. CASE k # 0
      <4>1. k - 1 \in 0..N /\ (k - 1) + 1 = k
        BY <1>1, <3>2
      <4>2. CASE k - 1 <= Len(s)
        <5>1. k - 1 \in 0..Len(s) /\ (k <= Len(s) \/ k = Len(s) + 1)
          BY <1>1, <1>2, <3>2, <4>2
        <5>2. QED
          BY <1>2, <3>2, <4>1, <4>2, <5>1
      <4>3. CASE ~(k - 1 <= Len(s))
        BY <1>1, <1>2, <3>2, <4>1, <4>3
      <4>4. QED
        BY <4>2, <4>3
    <3>3. QED
      BY <3>1, <3>2
  <2>2. QED
    BY <2>1
<1>4. Nth = CHOOSE g : g = Step(g)
  BY DEF Nth, N
<1>5. Nth = Step(Nth)
  BY <1>3, <1>4
<1>6. \A k \in 0..N : Nth[k] = IF k = 0 THEN Dummy
                            ELSE IF Nth[k - 1] = NULL THEN NULL ELSE next[Nth[k - 1]]
  BY <1>5
<1>7. \A k \in 0..N : f[k] = IF k = 0 THEN Dummy
                            ELSE IF f[k - 1] = NULL THEN NULL ELSE next[f[k - 1]]
  BY <1>3
<1> DEFINE Agree == {k \in 0..N : Nth[k] = f[k]}
<1> HIDE DEF f, Step
<1>8. 0 \in Agree
  BY <1>1, <1>6, <1>7
<1>9. \A k \in 0..N : k \in Agree /\ k < N => k + 1 \in Agree
  <2> SUFFICES ASSUME NEW k \in 0..N, k \in Agree, k < N
               PROVE  k + 1 \in Agree
    OBVIOUS
  <2>1. k + 1 \in 0..N /\ k + 1 # 0 /\ (k + 1) - 1 = k
    BY <1>1
  <2>2. QED
    BY <1>6, <1>7, <2>1
<1>10. 0..N \subseteq Agree
  <2> HIDE DEF Agree
  <2>1. QED
    BY <1>1, <1>8, <1>9, IntervalInduction
<1>11. QED
  BY <1>10 DEF f, N

\* Chain gives the sequence that the pointers run through.
LEMMA ChainIs ==
    ASSUME NEW s, Distinct(s), Links(next, last, s, NULL)
    PROVE  Chain = s /\ Len(s) <= Cardinality(Nodes)
<1> DEFINE N == Cardinality(Nodes)
           Reached == {k \in 1..N : Nth[k] \in Nodes}
           f == [i \in 1..Len(s) |-> s[i]]
<1>1. N \in Nat
  BY Constants, FS_CardinalityType
<1>2. /\ Len(s) \in Nat /\ s \in Seq(Nodes)
      /\ \A i \in 1..Len(s) : s[i] \in Nodes /\ At(s, i) = s[i]
  BY Places DEF Distinct
<1>3. Len(s) <= N
  <2>1. f \in Injection(1..Len(s), Nodes)
    BY <1>2 DEF Injection, IsInjective, Distinct
  <2>2. Cardinality(1..Len(s)) <= N
    BY <2>1, Constants, FS_Injection
  <2>3. Cardinality(1..Len(s)) = Len(s)
    BY <1>2, FS_Interval
  <2>4. QED
    BY <2>2, <2>3
<1>4. \A k \in 1..N : Nth[k] = IF k <= Len(s) THEN s[k] ELSE NULL
  BY <1>1, <1>2, NthIsAt
<1> HIDE DEF N
<1>5. Reached = 1..Len(s)
  <2>1. ASSUME NEW k
        PROVE  k \in Reached <=> k \in 1..Len(s)
    <3>1. k \in 1..Len(s) => k \in 1..N /\ k <= Len(s)
      BY <1>1, <1>2, <1>3
    <3>2. k \in 1..N /\ k <= Len(s) => k \in 1..Len(s)
      BY <1>1, <1>2
    <3>3. QED
      BY <1>2, <1>4, <3>1, <3>2, Constants
  <2> HIDE DEF Reached
  <2>2. QED
    BY <2>1
<1>6. Cardinality(Reached) = Len(s)
  <2>1. Cardinality(1..Len(s)) = Len(s)
    BY <1>2, FS_Interval
  <2> HIDE DEF Reached
  <2>2. QED
    BY <1>5, <2>1
<1>7. Chain = [i \in 1..Len(s) |-> Nth[i]]
  BY <1>6 DEF Chain, N
<1>8. \A i \in 1..Len(s) : Nth[i] = s[i]
  BY <1>1, <1>2, <1>3, <1>4
<1>9. Chain = [i \in 1..Len(s) |-> s[i]]
  BY <1>7, <1>8
<1>10. s = [i \in 1..Len(s) |-> s[i]]
  BY <1>2
<1>11. QED
  BY <1>3, <1>9, <1>10 DEF N

-----------------------------------------------------------------------------
(* The inductive invariant *)

\* The allocated nodes are those of s, in the order of the pointers; the timer
\* stands on one of them, and only where it trims may the list end too early.
Cut == IF timer = "trim" THEN node ELSE NULL

Listed(s) ==
    /\ Distinct(s) /\ Links(next, last, s, Cut)
    /\ \A n \in Nodes : element[n] # NULL <=> \E i \in 1..Len(s) : s[i] = n
    /\ size = Len(s)
    /\ node # NULL => \E i \in 1..Len(s) : s[i] = node

Inv == /\ TypeOK
       /\ timer = "sleep" => node = NULL
       /\ \E s \in Seq(Nodes) : Listed(s)

\* While nothing is cut, the invariant's sequence is what Chain computes.
LEMMA WholeList ==
    ASSUME Inv, timer # "trim"
    PROVE  /\ Listed(Chain) /\ Chain \in Seq(Nodes) /\ Links(next, last, Chain, NULL)
           /\ \A s : Listed(s) => s = Chain
<1>1. PICK s \in Seq(Nodes) : Listed(s)
  BY DEF Inv
<1>2. \A t : Listed(t) => Distinct(t) /\ Links(next, last, t, NULL)
  BY DEF Listed, Cut
<1>3. \A t : Listed(t) => t = Chain
  BY <1>2, ChainIs
<1>4. QED
  BY <1>1, <1>2, <1>3

\* A timer that stands on a node, or on NULL, of a list that is whole.
LEMMA NotCut ==
    ASSUME NEW s, Distinct(s), NEW nx, NEW la, Links(nx, la, s, NULL), NEW cut
    PROVE  Links(nx, la, s, cut)
BY Places DEF Links, At

-----------------------------------------------------------------------------
(* One lemma for each action *)

\* The record's node moves to the front.
LEMMA PutOldStep ==
    ASSUME Inv, NEW r \in RRs, PutOld(r)
    PROVE  /\ Inv'
           /\ \E s \in Seq(Nodes) : \E k \in 1..Len(s) :
                /\ Listed(s) /\ Listed(Before(s[k], Without(s, k)))'
                /\ C!rr_cmp(element[s[k]].rr, r)
                /\ \A i \in 1..k - 1 : ~C!rr_cmp(element[s[i]].rr, r)
<1>1. /\ timer = "sleep" /\ node = NULL
      /\ UNCHANGED <<element, size, now, timer, node, cnt, tnow>>
  BY DEF Inv, PutOld, LockFree, timerVars
<1>0. PICK s \in Seq(Nodes) : s = Chain /\ Listed(s)
  BY <1>1, WholeList
<1>2. Links(next, last, s, NULL) /\ Distinct(s)
  BY <1>0, <1>1, WholeList DEF Listed
<1>3. Len(s) \in Nat /\ DOMAIN s = 1..Len(s)
  BY <1>2, LenProperties
<1>4. PICK k \in 1..Len(s) :
        /\ C!rr_cmp(element[s[k]].rr, r)
        /\ \A i \in 1..k - 1 : ~C!rr_cmp(element[s[i]].rr, r)
        /\ LinkFirst(s[k], NextWithout(s[k]), LastWithout(s[k]))
  BY <1>0, <1>3 DEF PutOld
<1> DEFINE n == s[k]
           u == Without(s, k)
           t == Before(n, u)
<1>5. Links(NextWithout(n), LastWithout(n), u, NULL)
  BY <1>2, Unlink
<1>6. /\ Distinct(u) /\ Len(u) = Len(s) - 1
      /\ \A m : (\E i \in 1..Len(u) : u[i] = m) <=> (m # n /\ \E i \in 1..Len(s) : s[i] = m)
  BY <1>2, WithoutFacts
<1>7. n \in Nodes /\ \A i \in 1..Len(u) : u[i] # n
  BY <1>2, <1>6, Places
<1> HIDE DEF n, u
<1>8. /\ Distinct(t) /\ Len(t) = Len(u) + 1
      /\ \A m : (\E i \in 1..Len(t) : t[i] = m) <=> (m = n \/ \E i \in 1..Len(u) : u[i] = m)
  BY <1>6, <1>7, BeforeFacts
<1>9. LinkFirst(n, NextWithout(n), LastWithout(n))
  BY <1>4 DEF n
<1>10. Links(next', last', t, NULL)
  BY <1>5, <1>6, <1>7, <1>9, Relink
<1> HIDE DEF t
<1>11. \A m : (\E i \in 1..Len(t) : t[i] = m) <=> (\E i \in 1..Len(s) : s[i] = m)
  BY <1>6, <1>8 DEF n
<1>12. Listed(t)'
  BY <1>0, <1>1, <1>3, <1>6, <1>8, <1>10, <1>11 DEF Listed, Cut
<1>13. TypeOK'
  BY <1>1, <1>10 DEF Inv, TypeOK, Links, Ends
<1>14. t \in Seq(Nodes)
  BY <1>8 DEF Distinct
<1>15. Listed(Before(s[k], Without(s, k)))'
  BY <1>12 DEF t, u, n
<1>16. QED
  BY <1>0, <1>1, <1>4, <1>12, <1>13, <1>14, <1>15 DEF Inv

\* A new node is linked in front.
LEMMA PutNewStep ==
    ASSUME Inv, NEW r \in RRs, NEW ttl \in TTLs, PutNew(r, ttl)
    PROVE  /\ Inv'
           /\ \E s \in Seq(Nodes) : \E n \in Nodes :
                /\ Listed(s) /\ Listed(Before(n, s))'
                /\ \A i \in 1..Len(s) : ~C!rr_cmp(element[s[i]].rr, r) /\ s[i] # n
                /\ element' = [element EXCEPT ![n] = C!create_cache_node(r, ttl)]
<1> DEFINE e == C!create_cache_node(r, ttl)
<1>1. /\ timer = "sleep" /\ node = NULL /\ size' = size + 1
      /\ UNCHANGED <<now, timer, node, cnt, tnow>>
  BY DEF Inv, PutNew, LockFree, timerVars
<1>2. PICK n \in Free : element' = [element EXCEPT ![n] = e] /\ LinkFirst(n, next, last)
  BY DEF PutNew
<1>0. PICK s \in Seq(Nodes) : s = Chain /\ Listed(s)
  BY <1>1, WholeList
<1>3. Links(next, last, s, NULL) /\ Distinct(s)
  BY <1>0, <1>1, WholeList DEF Listed
<1>4. n \in Nodes /\ element[n] = NULL /\ \A i \in 1..Len(s) : s[i] # n
  BY <1>0 DEF Free, Listed
<1>5. e \in Entry /\ e # NULL
  BY Constants DEF C!create_cache_node, Entry, Inv, TypeOK
<1> HIDE DEF e
<1> DEFINE t == Before(n, s)
<1>6. /\ Distinct(t) /\ Len(t) = Len(s) + 1
      /\ \A m : (\E i \in 1..Len(t) : t[i] = m) <=> (m = n \/ \E i \in 1..Len(s) : s[i] = m)
  BY <1>3, <1>4, BeforeFacts
<1>7. Links(next', last', t, NULL)
  BY <1>2, <1>3, <1>4, Relink
<1> HIDE DEF t
<1>8. element \in [Nodes -> Entry \cup {NULL}]
  BY DEF Inv, TypeOK, Entry
<1>9. \A m \in Nodes : element'[m] # NULL <=> (m = n \/ element[m] # NULL)
  BY <1>2, <1>4, <1>5, <1>8
<1>10. Listed(t)'
  BY <1>0, <1>1, <1>6, <1>7, <1>9 DEF Listed, Cut
<1>11. TypeOK'
  <2>1. element' \in [Nodes -> Entry \cup {NULL}]
    BY <1>2, <1>5, <1>8
  <2>2. QED
    BY <1>1, <1>7, <2>1 DEF Inv, TypeOK, Links, Ends, Entry
<1>12. t \in Seq(Nodes)
  BY <1>6 DEF Distinct
<1>13. \A i \in 1..Len(s) : ~C!rr_cmp(element[s[i]].rr, r)
  BY <1>0, LenProperties DEF PutNew
<1>14. Listed(Before(n, s))'
  BY <1>10 DEF t
<1>15. QED
  BY <1>0, <1>1, <1>2, <1>4, <1>10, <1>11, <1>12, <1>13, <1>14 DEF Inv, e

\* The walk starts at the first node.
LEMMA RefreshLockStep ==
    ASSUME Inv, RefreshLock, NEW s \in Seq(Nodes), Listed(s)
    PROVE  Inv' /\ Listed(s)' /\ node' = At(s, 1)
<1>1. /\ timer = "sleep" /\ timer' = "walk" /\ tnow' = now /\ node' = next[Dummy]
      /\ cnt' = 0 /\ UNCHANGED <<next, last, element, size, now>>
  BY DEF RefreshLock, listVars
<1>3. Distinct(s) /\ Links(next, last, s, NULL) /\ Len(s) \in Nat
  BY <1>1, Places DEF Listed, Cut
<1>4. next[Dummy] = At(s, 1)
  BY <1>3, Places DEF Links
<1>5. next[Dummy] # NULL => 1 \in 1..Len(s) /\ s[1] = next[Dummy]
  BY <1>3, <1>4 DEF At
<1>6. Listed(s)'
  BY <1>1, <1>3, <1>5 DEF Listed, Cut
<1>7. TypeOK'
  BY <1>1, Constants DEF Inv, TypeOK
<1>8. QED
  BY <1>1, <1>4, <1>6, <1>7 DEF Inv

\* What freeing the timer's node leaves: the list without it, and the timer on
\* the node behind.
LEMMA NodeFreed ==
    ASSUME Inv, node # NULL, NEW s \in Seq(Nodes), Listed(s), NEW k \in 1..Len(s),
           s[k] = node, FreeNode(node), node' = next[node], timer # "sleep",
           timer' \in {"walk", "trim"}, UNCHANGED <<now, cnt, tnow>>,
           Links(next', last', Without(s, k), Cut')
    PROVE  Inv' /\ Listed(Without(s, k))' /\ node' = At(s, k + 1)
<1> DEFINE t == Without(s, k)
<1>1. element' = [element EXCEPT ![node] = NULL] /\ size' = size - 1
  BY DEF FreeNode
<1>2. /\ Distinct(s) /\ size = Len(s) /\ node \in Nodes /\ Len(s) \in Nat
      /\ \A n \in Nodes : element[n] # NULL <=> \E i \in 1..Len(s) : s[i] = n
  BY Places DEF Listed
<1>3. /\ Distinct(t) /\ Len(t) = Len(s) - 1
      /\ \A i \in 0..Len(s) : At(t, i) = IF i < k THEN At(s, i) ELSE At(s, i + 1)
      /\ \A n : (\E i \in 1..Len(t) : t[i] = n)
                <=> (n # s[k] /\ \E i \in 1..Len(s) : s[i] = n)
  BY <1>2, WithoutFacts
<1>4. node' = At(s, k + 1)
  <2>1. Cut \in {s[k], NULL}
    BY DEF Cut
  <2>2. QED
    BY <1>2, <2>1, Unlink DEF Listed
<1>5. node' # NULL => \E i \in 1..Len(t) : t[i] = node'
  <2> SUFFICES ASSUME node' # NULL
               PROVE  \E i \in 1..Len(s) : s[i] = node' /\ node' # s[k]
    BY <1>3
  <2>1. k + 1 \in 1..Len(s) /\ s[k + 1] = node'
    BY <1>2, <1>4 DEF At
  <2>2. QED
    BY <1>2, <2>1 DEF Distinct
<1>6. \A n \in Nodes : element'[n] # NULL <=> (n # s[k] /\ element[n] # NULL)
  BY <1>1, <1>2 DEF Inv, TypeOK
<1> HIDE DEF t
<1>7. Listed(t)'
  <2>1. Links(next', last', t, Cut')
    BY DEF t
  <2>2. QED
    BY <1>1, <1>2, <1>3, <1>5, <1>6, <2>1 DEF Listed
<1>8. TypeOK'
  <2>1. next' \in [Ends -> Nodes \cup {NULL}] /\ last' \in [Ends -> Ends \cup {NULL}]
    BY DEF Links
  <2>2. size' \in Nat
    BY <1>1, <1>2
  <2>3. element' \in [Nodes -> Entry \cup {NULL}]
    BY <1>1, <1>2 DEF Inv, TypeOK, Entry
  <2>4. node' \in Nodes \cup {NULL}
    BY DEF Inv, TypeOK
  <2>5. QED
    BY <2>1, <2>2, <2>3, <2>4 DEF Inv, TypeOK, Ends, Entry
<1>9. t \in Seq(Nodes) /\ timer' # "sleep"
  BY <1>3 DEF Distinct
<1>10. Listed(Without(s, k))'
  BY <1>7 DEF t
<1>11. QED
  BY <1>4, <1>7, <1>8, <1>9, <1>10 DEF Inv

\* Where the timer stands.
LEMMA TimerStands ==
    ASSUME Inv, node # NULL
    PROVE  \E s \in Seq(Nodes) : Listed(s) /\ \E k \in 1..Len(s) : s[k] = node
BY DEF Inv, Listed

\* A node whose time has run out is unlinked and freed.
LEMMA RemoveExpiredStep ==
    ASSUME Inv, RemoveExpired, NEW s \in Seq(Nodes), Listed(s), NEW k \in 1..Len(s), s[k] = node
    PROVE  Inv' /\ Listed(Without(s, k))' /\ node' = At(s, k + 1)
<1>1. /\ timer = "walk" /\ node # NULL /\ FreeNode(node) /\ node' = next[node]
      /\ next' = Blank(NextWithout(node), node) /\ last' = Blank(LastWithout(node), node)
      /\ timer' \in {"walk", "trim"} /\ UNCHANGED <<now, cnt, tnow>>
  BY DEF RemoveExpired, AfterNode
<1>4. Distinct(s) /\ Links(next, last, s, NULL) /\ node \in Nodes
  BY <1>1, Places DEF Listed, Cut
<1>5. Links(NextWithout(node), LastWithout(node), Without(s, k), NULL)
  BY <1>4, Unlink
<1>6. Distinct(Without(s, k)) /\ \A i \in 1..Len(Without(s, k)) : Without(s, k)[i] # node
  <2>1. \A n : (\E i \in 1..Len(Without(s, k)) : Without(s, k)[i] = n) => n # s[k]
    BY <1>4, WithoutFacts, ZenonT(30)
  <2>2. QED
    BY <1>4, <2>1, WithoutFacts
<1>7. Links(next', last', Without(s, k), NULL)
  BY <1>1, <1>4, <1>5, <1>6, BlankElsewhere
<1>8. Links(next', last', Without(s, k), Cut')
  BY <1>6, <1>7, NotCut
<1>9. QED
  BY <1>1, <1>8, NodeFreed

\* A node too many is freed; the list ends before it.
LEMMA RemoveSurplusStep ==
    ASSUME Inv, RemoveSurplus, NEW s \in Seq(Nodes), Listed(s), NEW k \in 1..Len(s), s[k] = node
    PROVE  Inv' /\ Listed(Without(s, k))' /\ node' = At(s, k + 1)
<1>1. /\ timer = "trim" /\ node # NULL /\ FreeNode(node) /\ node' = next[node]
      /\ next' = Blank(TrimNext(node), node) /\ last' = Blank(LastWithout(node), node)
      /\ UNCHANGED <<now, timer, cnt, tnow>>
  BY DEF RemoveSurplus
<1>4. Distinct(s) /\ Links(next, last, s, node) /\ node \in Nodes
  BY <1>1, Places DEF Listed, Cut
<1>5. Links(TrimNext(node), LastWithout(node), Without(s, k), next[node])
  BY <1>4, Unlink
<1>6. Distinct(Without(s, k)) /\ \A i \in 1..Len(Without(s, k)) : Without(s, k)[i] # node
  <2>1. \A n : (\E i \in 1..Len(Without(s, k)) : Without(s, k)[i] = n) => n # s[k]
    BY <1>4, WithoutFacts, ZenonT(30)
  <2>2. QED
    BY <1>4, <2>1, WithoutFacts
<1>7. Links(next', last', Without(s, k), next[node])
  BY <1>1, <1>4, <1>5, <1>6, BlankElsewhere
<1>8. Links(next', last', Without(s, k), Cut')
  BY <1>1, <1>7 DEF Cut
<1>9. QED
  BY <1>1, <1>8, NodeFreed

\* A live node gets its new ttl, and the walk goes on.
LEMMA UpdateTtlStep ==
    ASSUME Inv, UpdateTtl, NEW s \in Seq(Nodes), Listed(s), NEW k \in 1..Len(s), s[k] = node
    PROVE  /\ Inv' /\ Listed(s)' /\ node' = At(s, k + 1)
           /\ element[node] \in Entry
           /\ element' = [element EXCEPT ![node] =
                            [element[node] EXCEPT !.ttl = element[node].expire - tnow]]
<1> DEFINE left == element[node].expire - tnow
<1>1. /\ timer = "walk" /\ node # NULL /\ element[node].expire > tnow
      /\ element' = [element EXCEPT ![node].ttl = left]
      /\ node' = next[node] /\ cnt' = cnt + 1 /\ timer' \in {"walk", "trim"}
      /\ UNCHANGED <<next, last, size, now, tnow>>
  BY DEF UpdateTtl, AfterNode
<1>4. Distinct(s) /\ Links(next, last, s, NULL) /\ node \in Nodes /\ Len(s) \in Nat
  BY <1>1, Places DEF Listed, Cut
<1>5. element[node] \in Entry /\ element \in [Nodes -> Entry \cup {NULL}]
  BY <1>4 DEF Inv, TypeOK, Listed, Entry
<1>6. left \in Nat
  BY <1>1, <1>5 DEF Entry, Inv, TypeOK
<1>7. [element[node] EXCEPT !.ttl = left] \in Entry
  BY <1>5, <1>6 DEF Entry
<1>8. element' = [element EXCEPT ![node] = [element[node] EXCEPT !.ttl = left]]
  BY <1>1
<1>9. /\ element' \in [Nodes -> Entry \cup {NULL}]
      /\ \A n \in Nodes : element'[n] # NULL <=> element[n] # NULL
  <2> DEFINE e == [element[node] EXCEPT !.ttl = left]
  <2>1. e \in Entry /\ e # NULL /\ element[node] # NULL
    BY <1>5, <1>7, Constants
  <2>2. element' = [element EXCEPT ![node] = e]
    BY <1>8
  <2> HIDE DEF e
  <2>3. QED
    BY <1>4, <1>5, <2>1, <2>2
<1> HIDE DEF left
<1>10. next[node] = At(s, k + 1)
  BY <1>4, Unlink
<1>11. node' # NULL => \E i \in 1..Len(s) : s[i] = node'
  BY <1>1, <1>4, <1>10 DEF At
<1>12. Links(next, last, s, Cut')
  BY <1>4, NotCut
<1>13. Listed(s)'
  BY <1>1, <1>9, <1>11, <1>12 DEF Listed
<1>14. TypeOK'
  BY <1>1, <1>9 DEF Inv, TypeOK, Entry
<1>15. QED
  BY <1>1, <1>5, <1>8, <1>10, <1>13, <1>14 DEF Inv, left

\* The walk is over, and nothing is cut off any more.
LEMMA RefreshUnlockStep ==
    ASSUME Inv, RefreshUnlock
    PROVE  Inv' /\ \A s : Listed(s) => Listed(s)'
<1>1. /\ node = NULL /\ timer' = "sleep"
      /\ UNCHANGED <<next, last, element, size, now, node, cnt, tnow>>
  BY DEF RefreshUnlock, listVars
<1>2. Cut = NULL /\ Cut' = NULL
  BY <1>1 DEF Cut
<1>3. \A s : Listed(s) => Listed(s)'
  BY <1>1, <1>2 DEF Listed
<1>4. QED
  BY <1>1, <1>3 DEF Inv, TypeOK

\* The clock is no part of the list.
LEMMA TickStep ==
    ASSUME Inv, Tick \/ UNCHANGED vars
    PROVE  Inv' /\ \A s : Listed(s) => Listed(s)'
<1>1. /\ now' \in {now, now + 1}
      /\ UNCHANGED <<next, last, element, size, timer, node, cnt, tnow>>
  BY DEF Tick, vars, listVars, timerVars
<1>2. \A s : Listed(s) => Listed(s)'
  BY <1>1 DEF Listed, Cut
<1>3. TypeOK'
  BY <1>1 DEF Inv, TypeOK
<1>4. QED
  BY <1>1, <1>2, <1>3 DEF Inv

-----------------------------------------------------------------------------
(* The theorems *)

\* The invariant holds at the start,
LEMMA InitInv == Init => Inv
<1> SUFFICES ASSUME Init PROVE Inv
  OBVIOUS
<1> DEFINE s == <<>>
<1>1. s \in Seq(Nodes) /\ Len(s) = 0
  OBVIOUS
<1>2. TypeOK
  BY Constants DEF Init, init_cache, TypeOK
<1>3. Distinct(s)
  BY <1>1 DEF Distinct
<1>4. At(s, 0) = Dummy /\ At(s, 1) = NULL
  BY <1>1 DEF At
<1>5. Links(next, last, s, NULL)
  BY <1>1, <1>4 DEF Links, Init, init_cache, Ends
<1>6. Listed(s)
  BY <1>1, <1>3, <1>5 DEF Listed, Cut, Init, init_cache
<1> HIDE DEF s
<1>7. QED
  BY <1>1, <1>2, <1>6 DEF Inv, Init

\* and every step keeps it,
LEMMA NextInv == Inv /\ [Next]_vars => Inv'
<1> SUFFICES ASSUME Inv, [Next]_vars PROVE Inv'
  OBVIOUS
<1>1. CASE RefreshLock
  BY <1>1, RefreshLockStep DEF Inv
<1>2. CASE RemoveExpired
  <2>1. node # NULL
    BY <1>2 DEF RemoveExpired
  <2>2. QED
    BY <1>2, <2>1, TimerStands, RemoveExpiredStep
<1>3. CASE UpdateTtl
  <2>1. node # NULL
    BY <1>3 DEF UpdateTtl
  <2>2. QED
    BY <1>3, <2>1, TimerStands, UpdateTtlStep
<1>4. CASE RemoveSurplus
  <2>1. node # NULL
    BY <1>4 DEF RemoveSurplus
  <2>2. QED
    BY <1>4, <2>1, TimerStands, RemoveSurplusStep
<1>5. QED
  BY <1>1, <1>2, <1>3, <1>4, PutOldStep, PutNewStep, RefreshUnlockStep, TickStep DEF Next

\* so it always holds.
LEMMA Invariance == Spec => []Inv
BY InitInv, NextInv, PTL DEF Spec

\* Pointers only ever lead to nodes, and size never falls below zero.
THEOREM TypeCorrect == Spec => []TypeOK
BY Invariance, PTL DEF Inv

\* refresh_cache reads the node it stands on, and takes its next pointer, only
\* while that node is allocated, although it frees nodes as it walks.
THEOREM TimerNeverOnFreedNode == Spec => []NoUseAfterFree
<1>1. Inv => NoUseAfterFree
  BY DEF Inv, Listed, TypeOK, NoUseAfterFree, Free
<1>2. QED
  BY <1>1, Invariance, PTL

\* Whenever the lock is free, next and last make one doubly linked list of all
\* allocated nodes and of no other, and cache.size is its length: no node is
\* lost, linked twice or left behind, for any number of nodes and any limit.
THEOREM ListStaysWellFormed == Spec => []ListWellFormed
<1>1. Inv => ListWellFormed
  <2> SUFFICES ASSUME Inv, LockFree
               PROVE  /\ {Chain[i] : i \in DOMAIN Chain} = Nodes \ Free
                      /\ Len(Chain) = Cardinality(Nodes \ Free)
                      /\ \A i \in DOMAIN Chain :
                           last[Chain[i]] = IF i = 1 THEN Dummy ELSE Chain[i - 1]
                      /\ size = Len(Chain)
    BY DEF ListWellFormed
  <2> DEFINE s == Chain
  <2>1. Listed(s) /\ s \in Seq(Nodes) /\ Distinct(s) /\ Links(next, last, s, NULL)
    BY WholeList DEF LockFree, Listed
  <2>2. Len(s) \in Nat /\ DOMAIN s = 1..Len(s) /\ \A i \in 1..Len(s) : s[i] \in Nodes
    BY <2>1, LenProperties, Places
  <2> HIDE DEF s
  <2>3. {s[i] : i \in DOMAIN s} = Nodes \ Free
    BY <2>1, <2>2 DEF Listed, Free
  <2>4. Len(s) = Cardinality(Nodes \ Free)
    <3> DEFINE f == [i \in 1..Len(s) |-> s[i]]
    <3>1. f \in Bijection(1..Len(s), Nodes \ Free)
      BY <2>1, <2>2, <2>3 DEF Bijection, Injection, Surjection, IsInjective, Distinct
    <3>2. IsFiniteSet(1..Len(s)) /\ Cardinality(1..Len(s)) = Len(s)
      BY <2>2, FS_Interval
    <3> HIDE DEF f
    <3>3. Cardinality(Nodes \ Free) = Cardinality(1..Len(s))
      <4>1. ExistsBijection(1..Len(s), Nodes \ Free)
        BY <3>1 DEF ExistsBijection
      <4>2. QED
        BY <3>2, <4>1, FS_Bijection
    <3>4. QED
      BY <3>2, <3>3
  <2>5. \A i \in 1..Len(s) : last[s[i]] = IF i = 1 THEN Dummy ELSE s[i - 1]
    BY <2>1, <2>2 DEF Links, At
  <2>6. QED
    BY <2>1, <2>2, <2>3, <2>4, <2>5 DEF s, Listed
<1>2. QED
  BY <1>1, Invariance, PTL

-----------------------------------------------------------------------------
(* The list implements Cache *)

\* The cardinality that Cache uses is the one of this module.
LEMMA SameCardinality == \A S : Impl!Cardinality(S) = Cardinality(S)
BY DEF Impl!Cardinality, Cardinality

-----------------------------------------------------------------------------
(* Selections from a list of nodes *)

\* The nodes of s from x on.
From(s, x) == {n \in NodesOf(s) : x \in Upto(s, n)}

\* Upto is the order of the places.
LEMMA UptoIs ==
    ASSUME NEW s, Distinct(s)
    PROVE  /\ \A i, j \in 1..Len(s) : s[j] \in Upto(s, s[i]) <=> j <= i
           /\ \A n : Upto(s, n) \subseteq NodesOf(s)
           /\ \A i \in 1..Len(s) : s[i] \in NodesOf(s)
           /\ \A n \in NodesOf(s) : \E i \in 1..Len(s) : n = s[i]
<1>1. Len(s) \in Nat /\ \A i, j \in 1..Len(s) : s[i] = s[j] => i = j
  BY Places DEF Distinct
<1>2. \A n : Upto(s, n) = {s[i] : i \in {i \in 1..Len(s) : \E k \in i..Len(s) : s[k] = n}}
  BY DEF Upto
<1>3. ASSUME NEW i \in 1..Len(s), NEW j \in 1..Len(s)
      PROVE  s[j] \in Upto(s, s[i]) <=> j <= i
  <2>1. s[j] \in Upto(s, s[i])
        <=> \E m \in 1..Len(s) : s[j] = s[m] /\ \E k \in m..Len(s) : s[k] = s[i]
    BY <1>2
  <2>2. \A m \in 1..Len(s) : \A k \in m..Len(s) : k \in 1..Len(s)
    BY <1>1
  <2>3. s[j] \in Upto(s, s[i]) => i \in j..Len(s)
    BY <1>1, <2>1, <2>2
  <2>4. i \in j..Len(s) => s[j] \in Upto(s, s[i])
    BY <2>1
  <2>5. QED
    BY <1>1, <2>3, <2>4
<1>4. QED
  BY <1>2, <1>3 DEF NodesOf

\* As many nodes as places.
LEMMA NodesAt ==
    ASSUME NEW s, Distinct(s), NEW I \in SUBSET (1..Len(s))
    PROVE  LET N == {s[i] : i \in I} IN IsFiniteSet(N) /\ Cardinality(N) = Cardinality(I)
<1> DEFINE N == {s[i] : i \in I}
           f == [i \in I |-> s[i]]
<1>1. Len(s) \in Nat
  BY Places
<1>2. IsFiniteSet(I)
  BY <1>1, BoundedIsFinite
<1>3. \A i \in I : i \in 1..Len(s)
  OBVIOUS
<1>4. f \in Injection(I, N)
  BY <1>3 DEF Injection, IsInjective, Distinct
<1>5. f \in Surjection(I, N)
  BY DEF Surjection
<1> HIDE DEF f
<1>6. IsFiniteSet(N) /\ Cardinality(N) = Cardinality(I)
  BY <1>2, <1>4, <1>5, FS_Surjection
<1>7. QED
  BY <1>6

\* Nodes of a list are finitely many.
LEMMA NodesFinite ==
    ASSUME NEW s, Distinct(s), NEW K \in SUBSET NodesOf(s)
    PROVE  IsFiniteSet(K) /\ Cardinality(K) \in Nat
<1>1. NodesOf(s) \subseteq Nodes
  BY Places DEF NodesOf
<1>2. QED
  BY <1>1, Constants, FS_Subset, FS_CardinalityType

\* The members of K have the ranks from 1 to the size of K, each its own, and a
\* node further down has the greater one.
LEMMA PickedIs ==
    ASSUME NEW s, Distinct(s), NEW K \in SUBSET NodesOf(s)
    PROVE  /\ \A i, j \in 1..Len(s) : s[i] \in K /\ s[j] \in K /\ i < j =>
                Cardinality(Upto(s, s[i]) \cap K) < Cardinality(Upto(s, s[j]) \cap K)
           /\ \A n \in K : Cardinality(Upto(s, n) \cap K) \in 1..Cardinality(K)
           /\ \A m, n \in K : Cardinality(Upto(s, m) \cap K) = Cardinality(Upto(s, n) \cap K)
                              => m = n
           /\ \A c \in 1..Cardinality(K) :
                /\ Picked(s, K, c) \in K
                /\ Cardinality(Upto(s, Picked(s, K, c)) \cap K) = c
<1> DEFINE R(n) == Upto(s, n) \cap K
           f == [n \in K |-> Cardinality(R(n))]
<1>1. /\ Len(s) \in Nat /\ IsFiniteSet(K) /\ Cardinality(K) \in Nat
      /\ \A n \in K : \E i \in 1..Len(s) : n = s[i]
  BY Places, NodesFinite, UptoIs
<1>2. \A n : IsFiniteSet(R(n)) /\ Cardinality(R(n)) \in Nat /\ Cardinality(R(n)) <= Cardinality(K)
  <2> SUFFICES ASSUME NEW n
               PROVE  IsFiniteSet(R(n)) /\ Cardinality(R(n)) \in Nat
                      /\ Cardinality(R(n)) <= Cardinality(K)
    OBVIOUS
  <2>1. R(n) \subseteq K
    OBVIOUS
  <2> HIDE DEF R
  <2>2. QED
    BY <1>1, <2>1, FS_Subset, FS_CardinalityType
<1>3. ASSUME NEW i \in 1..Len(s), NEW j \in 1..Len(s), s[i] \in K, s[j] \in K, i < j
      PROVE  Cardinality(R(s[i])) < Cardinality(R(s[j]))
  <2>1. R(s[i]) \subseteq R(s[j])
    <3> SUFFICES ASSUME NEW n \in R(s[i]) PROVE n \in R(s[j])
      OBVIOUS
    <3>1. PICK m \in 1..Len(s) : n = s[m]
      BY <1>1
    <3>2. m <= i
      BY <3>1, UptoIs
    <3>3. m <= j
      BY <1>1, <1>3, <3>2
    <3>4. QED
      BY <3>1, <3>3, UptoIs
  <2>2. s[j] \in R(s[j]) /\ s[j] \notin R(s[i])
    <3>1. ~(j <= i) /\ j <= j
      BY <1>1, <1>3
    <3>2. QED
      BY <1>3, <3>1, UptoIs
  <2>3. R(s[i]) # R(s[j])
    BY <2>2
  <2> HIDE DEF R
  <2>4. Cardinality(R(s[i])) <= Cardinality(R(s[j]))
        /\ Cardinality(R(s[i])) # Cardinality(R(s[j]))
    BY <1>2, <2>1, <2>3, FS_Subset
  <2>5. QED
    BY <1>2, <2>4
<1>4. ASSUME NEW n \in K PROVE Cardinality(R(n)) \in 1..Cardinality(K)
  <2>1. n \in R(n)
    <3>1. PICK i \in 1..Len(s) : n = s[i]
      BY <1>1
    <3>2. i <= i
      BY <1>1
    <3>3. QED
      BY <3>1, <3>2, UptoIs
  <2> HIDE DEF R
  <2>2. Cardinality(R(n)) # 0
    BY <1>2, <2>1, FS_EmptySet
  <2>3. QED
    BY <1>1, <1>2, <2>2
<1>5. ASSUME NEW m \in K, NEW n \in K, Cardinality(R(m)) = Cardinality(R(n))
      PROVE  m = n
  <2>1. PICK i \in 1..Len(s) : m = s[i]
    BY <1>1
  <2>2. PICK j \in 1..Len(s) : n = s[j]
    BY <1>1
  <2> HIDE DEF R
  <2>3. ~(i < j) /\ ~(j < i)
    BY <1>2, <1>3, <1>5, <2>1, <2>2
  <2>4. QED
    BY <1>1, <2>1, <2>2, <2>3
<1> HIDE DEF R
<1>6. f \in [K -> 1..Cardinality(K)] /\ \A m, n \in K : f[m] = f[n] => m = n
  BY <1>4, <1>5
<1>7. \A c \in 1..Cardinality(K) : \E n \in K : f[n] = c
  <2> HIDE DEF f
  <2>1. QED
    BY <1>1, <1>6, AllRanksUsed
<1>8. \A c \in 1..Cardinality(K) : \E n \in K : Cardinality(R(n)) = c
  BY <1>7
<1>9. \A c \in 1..Cardinality(K) :
        /\ Picked(s, K, c) \in K
        /\ Cardinality(Upto(s, Picked(s, K, c)) \cap K) = c
  BY <1>8 DEF R, Picked
<1>10. QED
  BY <1>3, <1>4, <1>5, <1>9 DEF R

\* Two lists that put K into the same order give the same selection.
LEMMA SelectionSame ==
    ASSUME NEW s, NEW t, NEW K, NEW v,
           \A n \in K : Upto(s, n) \cap K = Upto(t, n) \cap K
    PROVE  Selection(s, K, v) = Selection(t, K, v)
<1>1. \A i : Picked(s, K, i) = Picked(t, K, i)
  BY DEF Picked
<1>2. QED
  BY <1>1 DEF Selection

\* The selection of all nodes is the list.
LEMMA SelectionAll ==
    ASSUME NEW s, Distinct(s), NEW v
    PROVE  Selection(s, NodesOf(s), v) = [i \in 1..Len(s) |-> v[s[i]]]
<1> DEFINE K == NodesOf(s)
<1>1. Len(s) \in Nat /\ \A i \in 1..Len(s) : s[i] \in K
  BY Places, UptoIs
<1>2. Cardinality(K) = Len(s)
  <2>1. Cardinality({s[i] : i \in 1..Len(s)}) = Cardinality(1..Len(s))
    BY NodesAt
  <2>2. Cardinality(1..Len(s)) = Len(s)
    <3>1. Len(s) = IF 1 > Len(s) THEN 0 ELSE Len(s) - 1 + 1
      BY <1>1
    <3>2. Cardinality(1..Len(s)) = IF 1 > Len(s) THEN 0 ELSE Len(s) - 1 + 1
      BY <1>1, FS_Interval
    <3>3. QED
      BY <3>1, <3>2
  <2>3. QED
    BY <2>1, <2>2 DEF NodesOf
<1>3. ASSUME NEW i \in 1..Len(s) PROVE Cardinality(Upto(s, s[i]) \cap K) = i
  <2>1. Upto(s, s[i]) \cap K = {s[j] : j \in 1..i}
    <3>1. \A j \in 1..i : j \in 1..Len(s) /\ j <= i
      BY <1>1
    <3>2. \A j \in 1..Len(s) : j <= i => j \in 1..i
      BY <1>1
    <3>3. ASSUME NEW n PROVE n \in Upto(s, s[i]) \cap K <=> \E j \in 1..i : n = s[j]
      BY <3>1, <3>2, UptoIs
    <3>4. QED
      BY <3>3
  <2>2. 1..i \in SUBSET (1..Len(s)) /\ i \in Nat
    BY <1>1
  <2>3. Cardinality({s[j] : j \in 1..i}) = Cardinality(1..i)
    BY <2>2, NodesAt
  <2>4. Cardinality(1..i) = i
    <3>1. ~(1 > i) /\ i - 1 + 1 = i
      BY <1>1
    <3>2. QED
      BY <2>2, <3>1, FS_Interval
  <2>5. QED
    BY <2>1, <2>3, <2>4
<1>4. \A i \in 1..Len(s) : Picked(s, K, i) = s[i]
  <2> SUFFICES ASSUME NEW i \in 1..Len(s) PROVE Picked(s, K, i) = s[i]
    OBVIOUS
  <2>1. Picked(s, K, i) \in K /\ Cardinality(Upto(s, Picked(s, K, i)) \cap K) = i
    <3>1. i \in 1..Cardinality(K)
      BY <1>2
    <3> HIDE DEF K
    <3>2. K \in SUBSET NodesOf(s)
      BY DEF K
    <3>3. QED
      BY <3>1, <3>2, PickedIs
  <2>2. \A m, n \in K : Cardinality(Upto(s, m) \cap K) = Cardinality(Upto(s, n) \cap K)
                        => m = n
    <3> HIDE DEF K
    <3>1. K \in SUBSET NodesOf(s)
      BY DEF K
    <3>2. QED
      BY <3>1, PickedIs
  <2> HIDE DEF K
  <2>3. QED
    BY <1>1, <1>3, <2>1, <2>2
<1>5. QED
  BY <1>2, <1>4 DEF Selection

\* Taking out the k-th node leaves the order of the others, and the place of the
\* timer that goes on to the next one.
LEMMA WithoutOrder ==
    ASSUME NEW s, Distinct(s), NEW k \in 1..Len(s)
    PROVE  LET t == Without(s, k) IN
           /\ Distinct(t)
           /\ NodesOf(t) = NodesOf(s) \ {s[k]}
           /\ \A n \in NodesOf(t) : Upto(t, n) = Upto(s, n) \ {s[k]}
           /\ From(t, At(s, k + 1)) = From(s, s[k]) \ {s[k]}
<1> DEFINE t == Without(s, k)
           To(i) == IF i < k THEN i ELSE i + 1
           Back(i) == IF i < k THEN i ELSE i - 1
<1>1. Distinct(t) /\ Len(t) = Len(s) - 1 /\ Len(s) \in Nat
  BY WithoutFacts, Places
<1>2. \A i \in 1..Len(t) : To(i) \in 1..Len(s) /\ To(i) # k /\ t[i] = s[To(i)]
  BY <1>1 DEF Without
<1>3. \A i \in 1..Len(s) : i # k => Back(i) \in 1..Len(t) /\ To(Back(i)) = i
  BY <1>1
<1>4. \A i, j \in 1..Len(t) : i <= j <=> To(i) <= To(j)
  BY <1>1
<1> HIDE DEF t, To, Back
<1>5. NodesOf(t) = NodesOf(s) \ {s[k]}
  <2>1. ASSUME NEW n \in NodesOf(t) PROVE n \in NodesOf(s) /\ n # s[k]
    <3>1. PICK i \in 1..Len(t) : n = t[i]
      BY DEF NodesOf
    <3>2. QED
      BY <1>2, <3>1 DEF NodesOf, Distinct
  <2>2. ASSUME NEW n \in NodesOf(s), n # s[k] PROVE n \in NodesOf(t)
    <3>1. PICK i \in 1..Len(s) : n = s[i]
      BY DEF NodesOf
    <3>2. Back(i) \in 1..Len(t) /\ t[Back(i)] = n
      BY <1>2, <1>3, <2>2, <3>1
    <3>3. QED
      BY <3>2 DEF NodesOf
  <2>3. QED
    BY <2>1, <2>2
<1>6. ASSUME NEW n \in NodesOf(t), NEW m \in NodesOf(t)
      PROVE  m \in Upto(t, n) <=> m \in Upto(s, n)
  <2>1. PICK i \in 1..Len(t), j \in 1..Len(t) : n = t[i] /\ m = t[j]
    BY DEF NodesOf
  <2>2. m \in Upto(t, n) <=> j <= i
    BY <1>1, <2>1, UptoIs
  <2>3. m \in Upto(s, n) <=> To(j) <= To(i)
    BY <1>2, <2>1, UptoIs
  <2>4. QED
    BY <1>4, <2>2, <2>3
<1>7. \A n : Upto(t, n) \subseteq NodesOf(t) /\ Upto(s, n) \subseteq NodesOf(s)
  BY <1>1, UptoIs
<1>8. \A n \in NodesOf(t) : Upto(t, n) = Upto(s, n) \ {s[k]}
  BY <1>5, <1>6, <1>7
<1>9. From(t, At(s, k + 1)) = From(s, s[k]) \ {s[k]}
  <2>1. ASSUME NEW n \in NodesOf(t)
        PROVE  n \in From(t, At(s, k + 1)) <=> n \in From(s, s[k])
    <3>1. n \in NodesOf(s) /\ n # s[k]
      BY <1>5
    <3>2. PICK i \in 1..Len(s) : n = s[i]
      BY <3>1 DEF NodesOf
    <3>3. n \in From(s, s[k]) <=> k <= i
      BY <3>1, <3>2, UptoIs DEF From
    <3>4. CASE k + 1 \in 1..Len(s)
      <4>1. At(s, k + 1) = s[k + 1] /\ s[k + 1] # s[k]
        BY <1>1, <3>4, Places DEF Distinct
      <4>2. At(s, k + 1) \in Upto(t, n) <=> k + 1 <= i
        BY <1>8, <3>2, <3>4, <4>1, UptoIs
      <4>3. i # k
        BY <3>1, <3>2
      <4>4. QED
        BY <1>1, <3>3, <4>2, <4>3 DEF From
    <3>5. CASE k + 1 \notin 1..Len(s)
      <4>1. k = Len(s) /\ i < k
        BY <1>1, <3>1, <3>2, <3>5
      <4>2. At(s, k + 1) = NULL
        BY <4>1, Places
      <4>3. NULL \notin NodesOf(t)
        BY <1>1, Places DEF NodesOf
      <4>4. n \notin From(t, At(s, k + 1))
        BY <1>7, <4>2, <4>3 DEF From
      <4>5. QED
        BY <1>1, <3>3, <4>1, <4>4
    <3>6. QED
      BY <3>4, <3>5
  <2>2. From(t, At(s, k + 1)) \subseteq NodesOf(t) /\ From(s, s[k]) \subseteq NodesOf(s)
    BY DEF From
  <2>3. QED
    BY <1>5, <2>1, <2>2
<1>10. QED
  BY <1>1, <1>5, <1>8, <1>9 DEF t

\* What is ahead of a timer on the k-th node, and on the one behind.
LEMMA FromIs ==
    ASSUME NEW s, Distinct(s)
    PROVE  /\ \A i, k \in 1..Len(s) : s[i] \in From(s, s[k]) <=> k <= i
           /\ From(s, NULL) = {}
           /\ \A k \in 1..Len(s) : From(s, At(s, k + 1)) = From(s, s[k]) \ {s[k]}
           /\ \A x : From(s, x) \subseteq NodesOf(s)
<1>1. Len(s) \in Nat
  BY Places
<1>2. \A i, k \in 1..Len(s) : s[i] \in From(s, s[k]) <=> k <= i
  BY UptoIs DEF From
<1>3. From(s, NULL) = {}
  <2>1. NULL \notin NodesOf(s)
    BY Places DEF NodesOf
  <2>2. QED
    BY <2>1, UptoIs DEF From
<1>4. \A x : From(s, x) \subseteq NodesOf(s)
  BY DEF From
<1>5. ASSUME NEW k \in 1..Len(s)
      PROVE  From(s, At(s, k + 1)) = From(s, s[k]) \ {s[k]}
  <2>1. CASE k + 1 \in 1..Len(s)
    <3>1. At(s, k + 1) = s[k + 1]
      BY <2>1, Places
    <3>2. ASSUME NEW i \in 1..Len(s)
          PROVE  s[i] \in From(s, s[k + 1]) <=> s[i] \in From(s, s[k]) /\ s[i] # s[k]
      <4>1. s[i] # s[k] <=> i # k
        BY DEF Distinct
      <4>2. k + 1 <= i <=> k <= i /\ i # k
        BY <1>1
      <4>3. QED
        BY <1>2, <2>1, <4>1, <4>2
    <3>3. QED
      BY <1>4, <3>1, <3>2, UptoIs
  <2>2. CASE k + 1 \notin 1..Len(s)
    <3>1. k = Len(s)
      BY <1>1, <2>2
    <3>2. At(s, k + 1) = NULL
      BY <3>1, Places
    <3>3. \A i \in 1..Len(s) : s[i] \in From(s, s[k]) => i = k
      BY <1>1, <1>2, <3>1
    <3>4. QED
      BY <1>3, <1>4, <3>2, <3>3, UptoIs
  <2>3. QED
    BY <2>1, <2>2
<1>6. QED
  BY <1>2, <1>3, <1>4, <1>5

-----------------------------------------------------------------------------
(* What the list stands for *)

\* At a cut the list is followed to the node before it, and nothing behind stays.
LEMMA CutStandsForWhole ==
    ASSUME NEW s \in Seq(Nodes), Listed(s), timer = "trim",
           NEW k \in 1..Len(s), s[k] = node, next[At(s, k - 1)] = NULL
    PROVE  AbstractOf(Chain) = AbstractOf(s)
<1> DEFINE p == [i \in 1..k - 1 |-> s[i]]
<1>1. /\ Distinct(s) /\ Links(next, last, s, node) /\ Len(s) \in Nat
      /\ \A i \in 1..Len(s) : s[i] \in Nodes
  BY Places DEF Listed, Cut
<1>2. p \in Seq(Nodes) /\ Len(p) = k - 1 /\ \A i \in 1..k - 1 : p[i] = s[i] /\ i \in 1..Len(s)
  <2>1. k - 1 \in Nat /\ p \in [1..k - 1 -> Nodes] /\ \A i \in 1..k - 1 : i \in 1..Len(s)
    BY <1>1
  <2>2. QED
    BY <2>1, FunctionIsSeq
<1> HIDE DEF p
<1>3. Distinct(p)
  BY <1>1, <1>2 DEF Distinct
<1>4. /\ \A i \in 0..k - 1 : At(p, i) = At(s, i)
      /\ At(p, k) = NULL
  <2>1. \A i \in 1..k - 1 : At(p, i) = p[i] /\ At(s, i) = s[i]
    BY <1>1, <1>2, <1>3, Places
  <2>2. At(p, 0) = Dummy /\ At(s, 0) = Dummy
    BY DEF At
  <2>3. \A i \in 0..k - 1 : i = 0 \/ i \in 1..k - 1
    OBVIOUS
  <2>4. At(p, k) = NULL
    BY <1>2 DEF At
  <2>5. QED
    BY <1>2, <2>1, <2>2, <2>3, <2>4
<1>5. Links(next, last, p, NULL)
  <2>1. \A i \in 1..Len(p) : last[p[i]] = At(p, i - 1)
    <3>1. \A i \in 1..k - 1 : i - 1 \in 0..k - 1 /\ i \in 1..Len(s)
      BY <1>1
    <3>2. QED
      BY <1>1, <1>2, <1>4, <3>1 DEF Links
  <2>2. ASSUME NEW i \in 0..Len(p) PROVE next[At(p, i)] = At(p, i + 1)
    <3>1. CASE i = k - 1
      <4>1. i + 1 = k
        BY <3>1
      <4>2. QED
        BY <1>2, <1>4, <3>1, <4>1
    <3>2. CASE i # k - 1
      <4>1. i \in 0..k - 1 /\ i + 1 \in 0..k - 1 /\ i \in 0..Len(s) /\ i + 1 \in 1..Len(s) /\ i + 1 # k
        BY <1>1, <1>2, <3>2
      <4>2. At(s, i + 1) # node
        BY <1>1, <4>1, Places DEF Distinct
      <4>3. QED
        BY <1>1, <1>4, <4>1, <4>2 DEF Links
    <3>3. QED
      BY <3>1, <3>2
  <2>3. QED
    BY <1>1, <2>1, <2>2 DEF Links
<1>6. Chain = p
  BY <1>3, <1>5, ChainIs
<1>7. NodesOf(p) \subseteq NodesOf(s) /\ node \notin NodesOf(p)
  BY <1>1, <1>2 DEF NodesOf, Distinct
<1>8. Staying(p) = NodesOf(p)
  BY <1>3, <1>7, UptoIs DEF Staying, Ahead
<1>9. Staying(s) = NodesOf(p)
  <2>1. ASSUME NEW i \in 1..Len(s) PROVE s[i] \in Staying(s) <=> s[i] \in NodesOf(p)
    <3>1. s[i] \in Ahead(s) <=> k <= i
      BY <1>1, UptoIs DEF Ahead
    <3>2. s[i] \in Staying(s) <=> ~(k <= i)
      BY <1>1, <3>1, UptoIs DEF Staying, LockFree
    <3>3. s[i] \in NodesOf(p) <=> i \in 1..k - 1
      BY <1>1, <1>2 DEF NodesOf, Distinct
    <3>4. QED
      BY <1>1, <3>2, <3>3
  <2>2. Staying(s) \subseteq NodesOf(s)
    BY DEF Staying
  <2>3. \A n \in NodesOf(s) : n \in Staying(s) <=> n \in NodesOf(p)
    BY <2>1 DEF NodesOf
  <2>4. QED
    BY <1>7, <2>2, <2>3
<1>10. ASSUME NEW n \in NodesOf(p)
       PROVE  Upto(p, n) \cap NodesOf(p) = Upto(s, n) \cap NodesOf(p)
  <2>1. PICK i \in 1..k - 1 : n = p[i]
    BY <1>2 DEF NodesOf
  <2>2. ASSUME NEW j \in 1..k - 1 PROVE p[j] \in Upto(p, n) <=> p[j] \in Upto(s, n)
    BY <1>1, <1>2, <1>3, <2>1, UptoIs
  <2>3. QED
    BY <1>2, <2>2 DEF NodesOf
<1>11. QED
  BY <1>6, <1>8, <1>9, <1>10, SelectionSame DEF AbstractOf

\* Whichever sequence the invariant speaks of, Abstract is what it stands for.
LEMMA AbstractIs ==
    ASSUME Inv, NEW s \in Seq(Nodes), Listed(s)
    PROVE  Abstract = AbstractOf(s)
<1>1. Abstract = AbstractOf(Chain)
  BY DEF Abstract
<1>2. CASE Links(next, last, s, NULL)
  BY <1>1, <1>2, ChainIs DEF Listed
<1>3. CASE ~Links(next, last, s, NULL)
  <2>1. /\ Distinct(s) /\ Links(next, last, s, Cut) /\ Len(s) \in Nat
    BY Places DEF Listed
  <2>2. timer = "trim" /\ node # NULL /\ Cut = node
    BY <1>3, <2>1 DEF Cut
  <2>3. PICK k \in 1..Len(s) : s[k] = node
    BY <2>2 DEF Listed
  <2>4. next[At(s, k - 1)] = NULL
    <3>1. SUFFICES ASSUME next[At(s, k - 1)] # NULL
                   PROVE  FALSE
      OBVIOUS
    <3>2. ASSUME NEW i \in 0..Len(s) PROVE next[At(s, i)] = At(s, i + 1)
      <4>1. SUFFICES ASSUME next[At(s, i)] = NULL, At(s, i + 1) = node
                     PROVE  FALSE
        BY <2>1, <2>2 DEF Links
      <4>2. i + 1 \in 1..Len(s) /\ At(s, i + 1) = s[i + 1]
        <5>1. i + 1 \in 1..Len(s) \/ i = Len(s)
          BY <2>1
        <5>2. QED
          BY <2>1, <2>2, <4>1, <5>1, Places
      <4>3. i + 1 = k
        BY <2>1, <2>3, <4>1, <4>2 DEF Distinct
      <4>4. i = k - 1
        BY <2>1, <4>3
      <4>5. QED
        BY <3>1, <4>1, <4>4
    <3>3. QED
      BY <1>3, <2>1, <3>2 DEF Links
  <2>5. QED
    BY <1>1, <2>2, <2>3, <2>4, CutStandsForWhole
<1>4. QED
  BY <1>2, <1>3

\* The same after a step.
AbstractFact == \A s \in Seq(Nodes) : Inv /\ Listed(s) => Abstract = AbstractOf(s)
LEMMA AbstractIsNext == AbstractFact'
<1>1. AbstractFact
  BY AbstractIs DEF AbstractFact
<1>2. QED
  BY <1>1, PTL

\* While the lock is free it is the list itself.
AsleepFact == \A s \in Seq(Nodes) : Inv /\ Listed(s) /\ timer = "sleep" =>
                  Abstract = [i \in 1..Len(s) |-> element[s[i]]]
LEMMA Asleep == AsleepFact
<1> SUFFICES ASSUME NEW s \in Seq(Nodes), Inv, Listed(s), timer = "sleep"
             PROVE  Abstract = [i \in 1..Len(s) |-> element[s[i]]]
  BY DEF AsleepFact
<1>1. Distinct(s)
  BY DEF Listed
<1>2. Staying(s) = NodesOf(s) /\ \A n : Final(element[n]) = element[n]
  BY DEF Staying, LockFree, Final
<1> DEFINE v == [n \in NodesOf(s) |-> element[n]]
<1>3. AbstractOf(s) = Selection(s, NodesOf(s), v)
  BY <1>2 DEF AbstractOf
<1>4. \A i \in 1..Len(s) : v[s[i]] = element[s[i]]
  BY <1>1, UptoIs
<1> HIDE DEF v
<1>5. Selection(s, NodesOf(s), v) = [i \in 1..Len(s) |-> v[s[i]]]
  BY <1>1, SelectionAll
<1>6. QED
  BY <1>3, <1>4, <1>5, AbstractIs
LEMMA AsleepNext == AsleepFact'
BY Asleep, PTL

\* A step that leaves the staying nodes, their order and what will become of
\* them as they were leaves what the list stands for.
LEMMA SameAbstract ==
    ASSUME Inv, Inv', NEW s \in Seq(Nodes), NEW t \in Seq(Nodes), Listed(s), Listed(t)',
           Staying(t)' = Staying(s),
           \A n \in Staying(s) : Upto(t, n) \cap Staying(s) = Upto(s, n) \cap Staying(s),
           \A n \in Staying(s) : Final(element[n])' = Final(element[n])
    PROVE  Abstract' = Abstract
<1>1. Abstract = AbstractOf(s) /\ Abstract' = AbstractOf(t)'
  BY AbstractIs, AbstractIsNext DEF AbstractFact
<1>2. AbstractOf(t)' = Selection(t, Staying(s), [n \in Staying(s) |-> Final(element[n])])
  BY DEF AbstractOf
<1>3. QED
  BY <1>1, <1>2, SelectionSame DEF AbstractOf

-----------------------------------------------------------------------------
(* The invariant of the walk *)

\* What the timer has passed has its new ttl.
Passed(s) ==
    timer # "sleep" =>
        \A n \in NodesOf(s) \ Ahead(s) : element[n].ttl = element[n].expire - tnow

WalkInv == /\ Inv
           /\ timer = "walk" => cnt < CacheSizeMax
           /\ \E s \in Seq(Nodes) : Listed(s) /\ Passed(s)

\* The elements of the listed nodes are records.
LEMMA ListedElements ==
    ASSUME Inv, NEW s \in Seq(Nodes), Listed(s)
    PROVE  \A n \in NodesOf(s) : n \in Nodes /\ element[n] \in Entry
<1>1. \A i \in 1..Len(s) : s[i] \in Nodes
  BY Places DEF Listed
<1>2. \A i \in 1..Len(s) : element[s[i]] # NULL
  BY <1>1 DEF Listed
<1>3. QED
  BY <1>1, <1>2 DEF NodesOf, Inv, TypeOK, Entry

\* A live node is passed: it stays because there is room, it counts as one of
\* those before the nodes ahead, and when it is the last for which there is room
\* nothing ahead would have stayed.
LEMMA UpdateTtlWalks ==
    ASSUME WalkInv, UpdateTtl
    PROVE  WalkInv' /\ Abstract' = Abstract
<1>1. /\ timer = "walk" /\ node # NULL /\ element[node].expire > tnow
      /\ cnt' = cnt + 1 /\ tnow' = tnow
      /\ timer' = AfterNode(cnt + 1)
  BY DEF UpdateTtl
<1>2. PICK s \in Seq(Nodes) : Listed(s) /\ Passed(s)
  BY DEF WalkInv
<1>3. PICK k \in 1..Len(s) : s[k] = node
  BY <1>1, <1>2 DEF Listed
<1>4. Inv /\ cnt \in Nat /\ cnt < CacheSizeMax /\ CacheSizeMax \in Nat /\ tnow \in Nat
  BY <1>1, Constants DEF WalkInv, Inv, TypeOK
<1>5. /\ Inv' /\ Listed(s)' /\ node' = At(s, k + 1)
      /\ element[node] \in Entry
      /\ element' = [element EXCEPT ![node] =
                       [element[node] EXCEPT !.ttl = element[node].expire - tnow]]
  BY <1>2, <1>3, <1>4, UpdateTtlStep
<1>6. Distinct(s) /\ Len(s) \in Nat
  BY <1>2, Places DEF Listed
<1>7. \A n \in NodesOf(s) : n \in Nodes /\ element[n] \in Entry
  BY <1>2, <1>4, ListedElements
<1>8. /\ Ahead(s)' = Ahead(s) \ {node} /\ node \in Ahead(s) /\ Ahead(s) \subseteq NodesOf(s)
  <2>1. Ahead(s) = From(s, s[k]) /\ Ahead(s)' = From(s, At(s, k + 1))
    BY <1>3, <1>5 DEF Ahead, From
  <2>2. k <= k
    BY <1>6
  <2>3. QED
    BY <1>3, <1>6, <2>1, <2>2, FromIs
<1>9. /\ \A n \in NodesOf(s) : n # node => element'[n] = element[n]
      /\ element'[node] = [element[node] EXCEPT !.ttl = element[node].expire - tnow]
  <2> DEFINE e == [element[node] EXCEPT !.ttl = element[node].expire - tnow]
  <2>1. element' = [element EXCEPT ![node] = e]
    BY <1>5
  <2> HIDE DEF e
  <2>2. element \in [Nodes -> Entry \cup {NULL}] /\ node \in Nodes
    BY <1>4, <1>7, <1>8 DEF Inv, TypeOK, Entry
  <2>3. QED
    BY <1>7, <2>1, <2>2 DEF e
<1>10. /\ element'[node].expire = element[node].expire
       /\ element'[node].ttl = element[node].expire - tnow
       /\ [element'[node] EXCEPT !.ttl = element[node].expire - tnow] = element'[node]
  BY <1>5, <1>9 DEF Entry
<1>11. \A n \in NodesOf(s) : element'[n].expire = element[n].expire
  BY <1>9, <1>10
<1>12. Passed(s)'
  <2>1. \A n \in NodesOf(s) \ Ahead(s) : element[n].ttl = element[n].expire - tnow
    BY <1>1, <1>2 DEF Passed
  <2>2. ASSUME NEW n \in NodesOf(s), n \notin Ahead(s)'
        PROVE  element'[n].ttl = element'[n].expire - tnow
    BY <1>8, <1>9, <1>10, <2>1, <2>2
  <2>3. QED
    BY <1>1, <2>2 DEF Passed
<1>13. timer' = "walk" => cnt' < CacheSizeMax
  BY <1>1, <1>4 DEF AfterNode
<1>14. WalkInv'
  BY <1>5, <1>12, <1>13 DEF WalkInv
<1>15. ASSUME NEW n \in Ahead(s), n # node
       PROVE  /\ LiveAhead(s, n) = LiveAhead(s, n)' \cup {node}
              /\ node \notin LiveAhead(s, n)'
              /\ IsFiniteSet(LiveAhead(s, n)')
              /\ Cardinality(LiveAhead(s, n)') \in Nat
              /\ Cardinality(LiveAhead(s, n)) = Cardinality(LiveAhead(s, n)') + 1
  <2>1. LiveAhead(s, n) = {m \in Ahead(s) \cap Upto(s, n) : element[m].expire > tnow}
    BY DEF LiveAhead
  <2>2. LiveAhead(s, n)' = {m \in Ahead(s)' \cap Upto(s, n) : element'[m].expire > tnow}
    BY <1>1 DEF LiveAhead
  <2>3. node \in Upto(s, n)
    BY DEF Ahead
  <2>4. LiveAhead(s, n) = LiveAhead(s, n)' \cup {node} /\ node \notin LiveAhead(s, n)'
    BY <1>1, <1>8, <1>11, <2>1, <2>2, <2>3
  <2>5. PICK A : A = LiveAhead(s, n)'
    OBVIOUS
  <2>6. A \in SUBSET NodesOf(s)
    BY <1>8, <2>2, <2>5
  <2>7. IsFiniteSet(A) /\ Cardinality(A) \in Nat
    BY <1>6, <2>6, NodesFinite
  <2>8. Cardinality(A \cup {node}) = Cardinality(A) + 1
    BY <2>4, <2>5, <2>7, FS_AddElement
  <2>9. QED
    BY <2>4, <2>5, <2>7, <2>8
<1>16. Staying(s)' = Staying(s)
  <2>1. ASSUME NEW n \in NodesOf(s), n \notin Ahead(s)
        PROVE  n \in Staying(s) /\ n \in Staying(s)'
    BY <1>8, <2>1 DEF Staying
  <2>2. node \in Staying(s) /\ node \in Staying(s)'
    <3>1. node \in Staying(s)'
      BY <1>8 DEF Staying
    <3>2. LiveAhead(s, node) = {node}
      <4>1. \A n \in Ahead(s) \cap Upto(s, node) : n = node
        <5> SUFFICES ASSUME NEW i \in 1..Len(s), s[i] \in Ahead(s), s[i] \in Upto(s, node)
                     PROVE  i = k
          BY <1>3, <1>8 DEF NodesOf
        <5>1. i <= k /\ k <= i
          BY <1>3, <1>6, UptoIs DEF Ahead
        <5>2. QED
          BY <1>6, <5>1
      <4>2. node \in Upto(s, node)
        BY <1>8 DEF Ahead
      <4>3. QED
        BY <1>1, <1>8, <4>1, <4>2 DEF LiveAhead
    <3>3. Cardinality({node}) = 1
      BY FS_Singleton
    <3>4. cnt + Cardinality(LiveAhead(s, node)) <= CacheSizeMax
      BY <1>4, <3>2, <3>3
    <3>5. QED
      BY <1>1, <1>8, <3>1, <3>2, <3>4 DEF Staying
  <2>3. ASSUME NEW n \in Ahead(s), n # node
        PROVE  n \in Staying(s) <=> n \in Staying(s)'
    <3>1. PICK c \in Nat : c = Cardinality(LiveAhead(s, n)')
      BY <1>15, <2>3
    <3>2. Cardinality(LiveAhead(s, n)) = c + 1
      BY <1>15, <2>3, <3>1
    <3>3. n \in LiveAhead(s, n) <=> n \in LiveAhead(s, n)'
      BY <1>15, <2>3
    <3>4. n \in LiveAhead(s, n)' => c # 0
      <4>1. PICK A : A = LiveAhead(s, n)'
        OBVIOUS
      <4>2. IsFiniteSet(A) /\ Cardinality(A) = c
        BY <1>15, <2>3, <3>1, <4>1
      <4>3. n \in A => c # 0
        BY <4>2, FS_EmptySet
      <4>4. QED
        BY <4>1, <4>3
    <3>5. n \in Staying(s) <=> n \in LiveAhead(s, n) /\ cnt + (c + 1) <= CacheSizeMax
      BY <1>1, <1>8, <2>3, <3>2 DEF Staying, LockFree
    <3>6. n \in Staying(s)' <=> /\ timer' = "walk" /\ n \in LiveAhead(s, n)'
                                /\ (cnt + 1) + c <= CacheSizeMax
      <4>1. timer' # "sleep" /\ n \in Ahead(s)' /\ n \in NodesOf(s)
        BY <1>1, <1>8, <2>3 DEF AfterNode
      <4>2. QED
        BY <1>1, <3>1, <4>1 DEF Staying, LockFree
    <3>7. CASE cnt + 1 = CacheSizeMax
      BY <1>1, <1>4, <3>3, <3>4, <3>5, <3>6, <3>7 DEF AfterNode
    <3>8. CASE cnt + 1 # CacheSizeMax
      <4>1. timer' = "walk" /\ (cnt + (c + 1) <= CacheSizeMax <=> (cnt + 1) + c <= CacheSizeMax)
        BY <1>1, <1>4, <3>8 DEF AfterNode
      <4>2. QED
        BY <3>3, <3>5, <3>6, <4>1
    <3>9. QED
      BY <3>7, <3>8
  <2>4. Staying(s) \subseteq NodesOf(s) /\ Staying(s)' \subseteq NodesOf(s)
    BY DEF Staying
  <2>5. ASSUME NEW n \in NodesOf(s) PROVE n \in Staying(s) <=> n \in Staying(s)'
    <3>1. CASE n \notin Ahead(s)
      BY <2>1, <3>1
    <3>2. CASE n \in Ahead(s) /\ n # node
      BY <2>3, <3>2
    <3>3. QED
      BY <2>2, <3>1, <3>2
  <2>6. QED
    BY <2>4, <2>5
<1>17. \A n \in NodesOf(s) : Final(element[n])' = Final(element[n])
  <2>1. timer # "sleep" /\ timer' # "sleep"
    BY <1>1 DEF AfterNode
  <2>2. ASSUME NEW n \in NodesOf(s)
        PROVE  [element'[n] EXCEPT !.ttl = element'[n].expire - tnow]
               = [element[n] EXCEPT !.ttl = element[n].expire - tnow]
    BY <1>9, <1>10
  <2>3. QED
    BY <1>1, <2>1, <2>2 DEF Final, LockFree
<1>18. Staying(s) \subseteq NodesOf(s)
  BY DEF Staying
<1>19. Abstract' = Abstract
  BY <1>2, <1>4, <1>5, <1>16, <1>17, <1>18, SameAbstract
<1>20. QED
  BY <1>14, <1>19

\* What a removal at the timer's node leaves of the other nodes.
LEMMA OthersLeft ==
    ASSUME WalkInv, NEW s \in Seq(Nodes), Listed(s), Passed(s), timer # "sleep",
           NEW k \in 1..Len(s), s[k] = node, node' = At(s, k + 1), FreeNode(node),
           Inv', Listed(Without(s, k))', timer' # "sleep", tnow' = tnow
    PROVE  /\ Without(s, k) \in Seq(Nodes) /\ Passed(Without(s, k))'
           /\ NodesOf(Without(s, k)) = NodesOf(s) \ {node}
           /\ \A n \in NodesOf(Without(s, k)) : Upto(Without(s, k), n) = Upto(s, n) \ {node}
           /\ Ahead(Without(s, k))' = Ahead(s) \ {node} /\ node \in Ahead(s)
           /\ \A n \in NodesOf(Without(s, k)) : element'[n] = element[n]
           /\ \A n \in NodesOf(Without(s, k)) : Final(element[n])' = Final(element[n])
<1>1. Distinct(s) /\ Len(s) \in Nat /\ Inv
  BY Places DEF Listed, WalkInv
<1>2. PICK t : t = Without(s, k)
  OBVIOUS
<1>3. /\ Distinct(t) /\ NodesOf(t) = NodesOf(s) \ {node}
      /\ \A n \in NodesOf(t) : Upto(t, n) = Upto(s, n) \ {node}
      /\ From(t, At(s, k + 1)) = From(s, s[k]) \ {node}
  BY <1>1, <1>2, WithoutOrder
<1>4. Ahead(t)' = Ahead(s) \ {node}
  BY <1>3 DEF Ahead, From
<1>5. node \in Ahead(s)
  <2>1. k <= k
    BY <1>1
  <2>2. QED
    BY <1>1, <2>1, UptoIs DEF Ahead
<1>6. \A n \in NodesOf(s) : n \in Nodes /\ element[n] \in Entry
  BY <1>1, ListedElements
<1>7. \A n \in NodesOf(t) : element'[n] = element[n]
  BY <1>1, <1>3, <1>6 DEF FreeNode, Inv, TypeOK
<1>8. Passed(t)'
  <2>1. \A n \in NodesOf(s) \ Ahead(s) : element[n].ttl = element[n].expire - tnow
    BY DEF Passed
  <2>2. QED
    BY <1>3, <1>4, <1>7, <2>1 DEF Passed
<1>9. \A n \in NodesOf(t) : Final(element[n])' = Final(element[n])
  BY <1>7 DEF Final, LockFree
<1>10. t \in Seq(Nodes)
  BY <1>3 DEF Distinct
<1>11. QED
  BY <1>2, <1>3, <1>4, <1>5, <1>7, <1>8, <1>9, <1>10

\* An expired node is not among those that stay, and is not counted.
LEMMA RemoveExpiredWalks ==
    ASSUME WalkInv, RemoveExpired
    PROVE  WalkInv' /\ Abstract' = Abstract
<1>1. /\ timer = "walk" /\ node # NULL /\ ~(element[node].expire > tnow)
      /\ cnt' = cnt /\ tnow' = tnow /\ FreeNode(node)
      /\ timer' = AfterNode(cnt) /\ Inv /\ cnt < CacheSizeMax
  <2>1. element[node].expire <= tnow /\ timer = "walk" /\ node # NULL
    BY DEF RemoveExpired
  <2>2. element[node].expire \in Nat /\ tnow \in Nat
    <3>1. PICK s \in Seq(Nodes) : Listed(s)
      BY DEF WalkInv
    <3>2. node \in NodesOf(s)
      BY <2>1, <3>1 DEF Listed, NodesOf
    <3>3. element[node] \in Entry
      BY <3>1, <3>2, ListedElements DEF WalkInv
    <3>4. QED
      BY <3>3 DEF Entry, WalkInv, Inv, TypeOK
  <2>3. QED
    BY <2>1, <2>2 DEF RemoveExpired, WalkInv
<1>2. timer' = "walk"
  BY <1>1, Constants DEF AfterNode, WalkInv, Inv, TypeOK
<1>3. PICK s \in Seq(Nodes) : Listed(s) /\ Passed(s)
  BY DEF WalkInv
<1>4. PICK k \in 1..Len(s) : s[k] = node
  BY <1>1, <1>3 DEF Listed
<1>5. Inv' /\ Listed(Without(s, k))' /\ node' = At(s, k + 1)
  BY <1>1, <1>3, <1>4, RemoveExpiredStep
<1>6. PICK t : t = Without(s, k)
  OBVIOUS
<1>7. /\ t \in Seq(Nodes) /\ Passed(t)' /\ Listed(t)'
      /\ NodesOf(t) = NodesOf(s) \ {node}
      /\ \A n \in NodesOf(t) : Upto(t, n) = Upto(s, n) \ {node}
      /\ Ahead(t)' = Ahead(s) \ {node} /\ node \in Ahead(s)
      /\ \A n \in NodesOf(t) : element'[n] = element[n]
      /\ \A n \in NodesOf(t) : Final(element[n])' = Final(element[n])
  BY <1>1, <1>2, <1>3, <1>4, <1>5, <1>6, OthersLeft
<1>8. WalkInv'
  BY <1>1, <1>5, <1>7 DEF WalkInv
<1>9. Ahead(s) \subseteq NodesOf(s)
  BY DEF Ahead
<1>10. ASSUME NEW n \in NodesOf(t) PROVE LiveAhead(t, n)' = LiveAhead(s, n)
  <2>1. LiveAhead(s, n) = {m \in Ahead(s) \cap Upto(s, n) : element[m].expire > tnow}
    BY DEF LiveAhead
  <2>2. LiveAhead(t, n)' = {m \in Ahead(t)' \cap Upto(t, n) : element'[m].expire > tnow}
    BY <1>1 DEF LiveAhead
  <2>3. ASSUME NEW m \in Ahead(s)
        PROVE  m \in LiveAhead(t, n)' <=> m \in LiveAhead(s, n)
    <3>1. CASE m = node
      BY <1>1, <1>7, <2>1, <2>2, <3>1
    <3>2. CASE m # node
      BY <1>7, <1>9, <2>1, <2>2, <3>2
    <3>3. QED
      BY <3>1, <3>2
  <2>4. QED
    BY <1>7, <2>1, <2>2, <2>3
<1>11. Staying(t)' = Staying(s)
  <2>1. Staying(t)' \subseteq NodesOf(t) /\ Staying(s) \subseteq NodesOf(s)
    BY DEF Staying
  <2>2. node \notin Staying(s)
    BY <1>1, <1>7 DEF Staying, LockFree, LiveAhead
  <2>3. ASSUME NEW n \in NodesOf(t) PROVE n \in Staying(t)' <=> n \in Staying(s)
    <3>1. n \in NodesOf(s) /\ (n \in Ahead(t)' <=> n \in Ahead(s))
      BY <1>7
    <3>2. LiveAhead(t, n)' = LiveAhead(s, n)
      BY <1>10
    <3>3. QED
      BY <1>1, <1>2, <3>1, <3>2 DEF Staying, LockFree
  <2>4. QED
    BY <1>7, <2>1, <2>2, <2>3
<1>12. Staying(s) \subseteq NodesOf(t) /\ node \notin Staying(s)
  <2>1. Staying(t)' \subseteq NodesOf(t)
    BY DEF Staying
  <2>2. QED
    BY <1>7, <1>11, <2>1
<1>13. \A n \in Staying(s) : Upto(t, n) \cap Staying(s) = Upto(s, n) \cap Staying(s)
  BY <1>7, <1>12
<1>14. Abstract' = Abstract
  BY <1>1, <1>3, <1>5, <1>7, <1>11, <1>12, <1>13, SameAbstract
<1>15. QED
  BY <1>8, <1>14

\* Nothing that is trimmed was to stay.
LEMMA RemoveSurplusWalks ==
    ASSUME WalkInv, RemoveSurplus
    PROVE  WalkInv' /\ Abstract' = Abstract
<1>1. /\ timer = "trim" /\ timer' = "trim" /\ node # NULL /\ tnow' = tnow
      /\ FreeNode(node) /\ Inv
  BY DEF RemoveSurplus, WalkInv
<1>2. PICK s \in Seq(Nodes) : Listed(s) /\ Passed(s)
  BY DEF WalkInv
<1>3. PICK k \in 1..Len(s) : s[k] = node
  BY <1>1, <1>2 DEF Listed
<1>4. Inv' /\ Listed(Without(s, k))' /\ node' = At(s, k + 1)
  BY <1>1, <1>2, <1>3, RemoveSurplusStep
<1>5. PICK t : t = Without(s, k)
  OBVIOUS
<1>6. /\ t \in Seq(Nodes) /\ Passed(t)' /\ Listed(t)'
      /\ NodesOf(t) = NodesOf(s) \ {node}
      /\ \A n \in NodesOf(t) : Upto(t, n) = Upto(s, n) \ {node}
      /\ Ahead(t)' = Ahead(s) \ {node} /\ node \in Ahead(s)
      /\ \A n \in NodesOf(t) : Final(element[n])' = Final(element[n])
  BY <1>1, <1>2, <1>3, <1>4, <1>5, OthersLeft
<1>7. WalkInv'
  BY <1>1, <1>4, <1>6 DEF WalkInv
<1>8. Staying(s) = NodesOf(s) \ Ahead(s) /\ Staying(t)' = NodesOf(t) \ Ahead(t)'
  BY <1>1 DEF Staying, LockFree
<1>9. Staying(t)' = Staying(s) /\ Staying(s) \subseteq NodesOf(t) /\ node \notin Staying(s)
  BY <1>6, <1>8
<1>10. \A n \in Staying(s) : Upto(t, n) \cap Staying(s) = Upto(s, n) \cap Staying(s)
  BY <1>6, <1>9
<1>11. Abstract' = Abstract
  BY <1>1, <1>2, <1>4, <1>6, <1>9, <1>10, SameAbstract
<1>12. QED
  BY <1>7, <1>11

\* When the walk is over every node has been passed and has its new ttl.
LEMMA RefreshUnlockWalks ==
    ASSUME WalkInv, RefreshUnlock
    PROVE  WalkInv' /\ Abstract' = Abstract
<1>1. /\ node = NULL /\ timer # "sleep" /\ timer' = "sleep"
      /\ UNCHANGED <<element, node, tnow>> /\ Inv
  BY DEF RefreshUnlock, listVars, WalkInv
<1>2. PICK s \in Seq(Nodes) : Listed(s) /\ Passed(s)
  BY DEF WalkInv
<1>3. Inv' /\ Listed(s)'
  BY <1>1, <1>2, RefreshUnlockStep
<1>4. Distinct(s)
  BY <1>2 DEF Listed
<1>5. Ahead(s) = {}
  BY <1>1, <1>4, FromIs DEF Ahead, From
<1>6. Staying(s) = NodesOf(s) /\ Staying(s)' = NodesOf(s)
  BY <1>1, <1>5 DEF Staying, LockFree
<1>7. ASSUME NEW n \in NodesOf(s) PROVE Final(element[n])' = Final(element[n])
  <2>1. element[n].ttl = element[n].expire - tnow /\ element[n] \in Entry
    BY <1>1, <1>2, <1>5, ListedElements DEF Passed
  <2>2. element[n] = [element[n] EXCEPT !.ttl = element[n].expire - tnow]
    BY <2>1 DEF Entry
  <2>3. QED
    BY <1>1, <2>2 DEF Final, LockFree
<1>8. Abstract' = Abstract
  BY <1>1, <1>2, <1>3, <1>6, <1>7, SameAbstract
<1>9. WalkInv'
  BY <1>1, <1>2, <1>3 DEF WalkInv, Passed
<1>10. QED
  BY <1>8, <1>9

\* The clock, and a step that changes nothing.
LEMMA TickWalks ==
    ASSUME WalkInv, Tick \/ UNCHANGED vars
    PROVE  WalkInv' /\ Abstract' = Abstract
<1>1. UNCHANGED <<next, last, element, size, timer, node, cnt, tnow>> /\ Inv
  BY DEF Tick, vars, listVars, timerVars, WalkInv
<1>2. PICK s \in Seq(Nodes) : Listed(s) /\ Passed(s)
  BY DEF WalkInv
<1>3. Inv' /\ Listed(s)'
  BY <1>1, <1>2, TickStep
<1>4. Ahead(s)' = Ahead(s) /\ \A n : LiveAhead(s, n)' = LiveAhead(s, n)
  BY <1>1 DEF Ahead, LiveAhead
<1>5. Staying(s)' = Staying(s) /\ \A n : Final(element[n])' = Final(element[n])
  BY <1>1, <1>4 DEF Staying, LockFree, Final
<1>6. Abstract' = Abstract
  BY <1>1, <1>2, <1>3, <1>5, SameAbstract
<1>7. WalkInv'
  BY <1>1, <1>2, <1>3, <1>4 DEF WalkInv, Passed
<1>8. QED
  BY <1>6, <1>7

-----------------------------------------------------------------------------
(* The steps that the callers of the cache see *)

\* rr_cmp is the same in both instances of Cache.
LEMMA SameRecords ==
    /\ \A r, q : C!rr_cmp(r, q) <=> Impl!rr_cmp(r, q)
    /\ \A r, t : C!create_cache_node(r, t) = Impl!create_cache_node(r, t)
BY DEF C!rr_cmp, C!SameBytes, Impl!rr_cmp, Impl!SameBytes,
       C!create_cache_node, Impl!create_cache_node

\* Abstract as a sequence, while the lock is free.
LEMMA AsleepIs ==
    ASSUME Inv, timer = "sleep", NEW s \in Seq(Nodes), Listed(s)
    PROVE  /\ Abstract = [i \in 1..Len(s) |-> element[s[i]]]
           /\ Len(Abstract) = Len(s) /\ Len(s) \in Nat
           /\ \A i \in 1..Len(s) : Abstract[i] = element[s[i]]
           /\ Impl!Positions = 1..Len(s)
<1>1. Abstract = [i \in 1..Len(s) |-> element[s[i]]]
  BY Asleep DEF AsleepFact
<1>2. Len(s) \in Nat
  BY LenProperties
<1>3. Len(Abstract) = Len(s) /\ \A i \in 1..Len(s) : Abstract[i] = element[s[i]]
  BY <1>1, <1>2
<1>4. QED
  BY <1>1, <1>2, <1>3 DEF Impl!Positions

\* Linking the old node in front is moving its entry to the front.
LEMMA PutOldPuts ==
    ASSUME WalkInv, NEW r \in RRs, PutOld(r)
    PROVE  WalkInv' /\ Impl!Put
<1>1. /\ timer = "sleep" /\ timer' = "sleep" /\ Inv
      /\ UNCHANGED <<element, now, tnow>>
  BY DEF PutOld, LockFree, timerVars, WalkInv
<1>2. PICK s \in Seq(Nodes) : \E k \in 1..Len(s) :
        /\ Listed(s) /\ Listed(Before(s[k], Without(s, k)))'
        /\ C!rr_cmp(element[s[k]].rr, r)
        /\ \A i \in 1..k - 1 : ~C!rr_cmp(element[s[i]].rr, r)
  BY <1>1, PutOldStep
<1>3. PICK k \in 1..Len(s) :
        /\ Listed(s) /\ Listed(Before(s[k], Without(s, k)))'
        /\ C!rr_cmp(element[s[k]].rr, r)
        /\ \A i \in 1..k - 1 : ~C!rr_cmp(element[s[i]].rr, r)
  BY <1>2
<1>4. Inv'
  BY <1>1, PutOldStep
<1>5. PICK t : t = Before(s[k], Without(s, k))
  OBVIOUS
<1>6. /\ Len(Abstract) = Len(s) /\ Len(s) \in Nat
      /\ \A i \in 1..Len(s) : Abstract[i] = element[s[i]]
      /\ Impl!Positions = 1..Len(s)
  BY <1>1, <1>3, AsleepIs
<1>7. /\ t \in Seq(Nodes) /\ Len(t) = Len(s)
      /\ \A i \in 1..Len(s) : t[i] = IF i = 1 THEN s[k] ELSE IF i <= k THEN s[i - 1] ELSE s[i]
  <2>1. Distinct(s) /\ Distinct(t)
    BY <1>3, <1>5 DEF Listed
  <2>2. Len(Without(s, k)) = Len(s) - 1
    BY <2>1, WithoutFacts
  <2>3. t = [i \in 1..Len(s) - 1 + 1 |-> IF i = 1 THEN s[k] ELSE Without(s, k)[i - 1]]
    BY <1>5, <2>2 DEF Before
  <2>4. \A i \in 1..Len(s) - 1 : Without(s, k)[i] = IF i < k THEN s[i] ELSE s[i + 1]
    BY DEF Without
  <2>5. Len(s) - 1 + 1 = Len(s)
    BY <1>6
  <2>6. ASSUME NEW i \in 1..Len(s)
        PROVE  t[i] = IF i = 1 THEN s[k] ELSE IF i <= k THEN s[i - 1] ELSE s[i]
    <3>1. CASE i = 1
      BY <2>3, <2>5, <3>1
    <3>2. CASE i # 1
      <4>1. i - 1 \in 1..Len(s) - 1 /\ (i - 1 < k <=> i <= k) /\ (i - 1) + 1 = i
        BY <1>6, <3>2
      <4>2. Without(s, k)[i - 1] = IF i <= k THEN s[i - 1] ELSE s[i]
        BY <2>4, <4>1
      <4>3. QED
        BY <2>3, <2>5, <3>2, <4>2
    <3>3. QED
      BY <3>1, <3>2
  <2>7. t \in Seq(Nodes) /\ DOMAIN t = 1..Len(s)
    BY <2>1, <2>3, <2>5 DEF Distinct
  <2>8. Len(t) = Len(s)
    BY <1>6, <2>7
  <2>9. QED
    BY <2>6, <2>7, <2>8
<1>8. Abstract' = [i \in 1..Len(s) |-> element[t[i]]]
  <2>1. Listed(t)'
    BY <1>3, <1>5
  <2>2. Abstract' = [i \in 1..Len(t) |-> element'[t[i]]]
    BY <1>1, <1>4, <1>7, <2>1, AsleepNext DEF AsleepFact
  <2>3. QED
    BY <1>1, <1>7, <2>2
<1>9. Abstract' = Impl!MoveToFront(Abstract, k)
  <2>1. \A i \in 1..Len(s) :
          element[t[i]] = IF i = 1 THEN Abstract[k]
                          ELSE IF i <= k THEN Abstract[i - 1] ELSE Abstract[i]
    <3> SUFFICES ASSUME NEW i \in 1..Len(s)
                 PROVE  element[t[i]] = IF i = 1 THEN Abstract[k]
                                        ELSE IF i <= k THEN Abstract[i - 1] ELSE Abstract[i]
      OBVIOUS
    <3>1. i = 1 \/ i - 1 \in 1..Len(s)
      BY <1>6
    <3>2. QED
      BY <1>6, <1>7, <3>1
  <2>2. QED
    BY <1>6, <1>8, <2>1 DEF Impl!MoveToFront
<1>10. PICK ttl : ttl \in TTLs
  BY Constants
<1>11. Impl!cache_put_rr(r, ttl)
  <2>1. k \in Impl!Positions /\ Impl!rr_cmp(Abstract[k].rr, r)
    BY <1>3, <1>6, SameRecords
  <2>2. \A i \in 1..k - 1 : i \in 1..Len(s)
    BY <1>6
  <2>3. \A i \in 1..k - 1 : ~Impl!rr_cmp(Abstract[i].rr, r)
    BY <1>3, <1>6, <2>2, SameRecords
  <2>4. QED
    BY <1>1, <1>9, <2>1, <2>3 DEF Impl!cache_put_rr
<1>12. Impl!Put
  BY <1>10, <1>11 DEF Impl!Put
<1>13. WalkInv'
  BY <1>1, <1>4 DEF WalkInv, Inv, Passed
<1>14. QED
  BY <1>12, <1>13

\* Linking a new node in front is adding an entry.
LEMMA PutNewPuts ==
    ASSUME WalkInv, NEW r \in RRs, NEW ttl \in TTLs, PutNew(r, ttl)
    PROVE  WalkInv' /\ Impl!Put
<1>1. /\ timer = "sleep" /\ timer' = "sleep" /\ Inv
      /\ UNCHANGED <<now, tnow>>
  BY DEF PutNew, LockFree, timerVars, WalkInv
<1>2. PICK s \in Seq(Nodes) : \E n \in Nodes :
        /\ Listed(s) /\ Listed(Before(n, s))'
        /\ \A i \in 1..Len(s) : ~C!rr_cmp(element[s[i]].rr, r) /\ s[i] # n
        /\ element' = [element EXCEPT ![n] = C!create_cache_node(r, ttl)]
  BY <1>1, PutNewStep
<1>3. PICK n \in Nodes :
        /\ Listed(s) /\ Listed(Before(n, s))'
        /\ \A i \in 1..Len(s) : ~C!rr_cmp(element[s[i]].rr, r) /\ s[i] # n
        /\ element' = [element EXCEPT ![n] = C!create_cache_node(r, ttl)]
  BY <1>2
<1>4. Inv'
  BY <1>1, PutNewStep
<1>5. PICK t : t = Before(n, s)
  OBVIOUS
<1>6. /\ Len(Abstract) = Len(s) /\ Len(s) \in Nat
      /\ \A i \in 1..Len(s) : Abstract[i] = element[s[i]]
      /\ Impl!Positions = 1..Len(s)
  BY <1>1, <1>3, AsleepIs
<1>7. /\ t \in Seq(Nodes) /\ Len(t) = Len(s) + 1
      /\ \A i \in 1..Len(s) + 1 : t[i] = IF i = 1 THEN n ELSE s[i - 1]
  <2>1. Distinct(t)
    BY <1>3, <1>5 DEF Listed
  <2>2. t = [i \in 1..Len(s) + 1 |-> IF i = 1 THEN n ELSE s[i - 1]]
    BY <1>5 DEF Before
  <2>3. t \in Seq(Nodes) /\ DOMAIN t = 1..Len(s) + 1
    BY <2>1, <2>2 DEF Distinct
  <2>4. Len(t) = Len(s) + 1
    BY <1>6, <2>3
  <2>5. QED
    BY <2>2, <2>3, <2>4
<1>8. Abstract' = [i \in 1..Len(s) + 1 |-> element'[t[i]]]
  <2>1. Listed(t)'
    BY <1>3, <1>5
  <2>2. QED
    BY <1>1, <1>4, <1>7, <2>1, AsleepNext DEF AsleepFact
<1> DEFINE e == Impl!create_cache_node(r, ttl)
<1>9. element'[n] = e /\ \A i \in 1..Len(s) : element'[s[i]] = element[s[i]]
  <2>1. element' = [element EXCEPT ![n] = e]
    BY <1>3, SameRecords
  <2> HIDE DEF e
  <2>2. \A i \in 1..Len(s) : s[i] \in Nodes
    BY <1>3, Places DEF Listed
  <2>3. QED
    BY <1>1, <1>3, <2>1, <2>2 DEF Inv, TypeOK
<1> HIDE DEF e
<1>10. Abstract' = Impl!Prepend(e, Abstract)
  <2>1. \A i \in 1..Len(s) + 1 : element'[t[i]] = IF i = 1 THEN e ELSE Abstract[i - 1]
    <3> SUFFICES ASSUME NEW i \in 1..Len(s) + 1
                 PROVE  element'[t[i]] = IF i = 1 THEN e ELSE Abstract[i - 1]
      OBVIOUS
    <3>1. i = 1 \/ i - 1 \in 1..Len(s)
      BY <1>6
    <3>2. QED
      BY <1>6, <1>7, <1>9, <3>1
  <2>2. QED
    BY <1>6, <1>8, <2>1 DEF Impl!Prepend
<1>11. \A k \in Impl!Positions : ~Impl!rr_cmp(Abstract[k].rr, r)
  BY <1>3, <1>6, SameRecords
<1>12. Impl!cache_put_rr(r, ttl)
  BY <1>1, <1>10, <1>11 DEF Impl!cache_put_rr, e
<1>13. Impl!Put
  BY <1>12 DEF Impl!Put
<1>14. WalkInv'
  BY <1>1, <1>4 DEF WalkInv, Inv, Passed
<1>15. QED
  BY <1>13, <1>14

\* Taking the lock is the whole refresh: the nodes that will stay are the entries
\* that refresh_cache keeps, with the ttl it gives them.
LEMMA RefreshLockRefreshes ==
    ASSUME WalkInv, RefreshLock
    PROVE  WalkInv' /\ Impl!refresh_cache
<1>1. /\ timer = "sleep" /\ timer' = "walk" /\ tnow' = now /\ cnt' = 0 /\ Inv
      /\ UNCHANGED <<element, now>>
  BY DEF RefreshLock, listVars, WalkInv
<1>2. PICK s \in Seq(Nodes) : Listed(s)
  BY DEF WalkInv
<1>3. Inv' /\ Listed(s)' /\ node' = At(s, 1)
  BY <1>1, <1>2, RefreshLockStep
<1>4. /\ Len(Abstract) = Len(s) /\ Len(s) \in Nat
      /\ \A i \in 1..Len(s) : Abstract[i] = element[s[i]]
      /\ Impl!Positions = 1..Len(s)
  BY <1>1, <1>2, AsleepIs
<1>5. Distinct(s) /\ CacheSizeMax \in Nat \ {0}
  BY <1>2, Constants DEF Listed
<1>6. Ahead(s)' = NodesOf(s)
  <2>1. ASSUME NEW i \in 1..Len(s) PROVE s[i] \in Ahead(s)'
    <3>1. 1 \in 1..Len(s) /\ 1 <= i
      BY <1>4
    <3>2. node' = s[1]
      BY <1>3, <1>5, <3>1, Places
    <3>3. QED
      BY <1>5, <3>1, <3>2, UptoIs DEF Ahead
  <2>2. QED
    BY <2>1 DEF NodesOf, Ahead
<1> DEFINE Alive(k) == {i \in 1..k : element[s[i]].expire > now}
           Kp == {k \in 1..Len(s) : element[s[k]].expire > now
                                    /\ Cardinality(Alive(k)) <= CacheSizeMax}
           K == {s[k] : k \in Kp}
           c == Cardinality(Kp)
<1>7. Impl!Kept = Kp
  <2>1. ASSUME NEW k \in 1..Len(s)
        PROVE  {i \in 1..k : Impl!Live(Abstract[i])} = Alive(k)
    <3>1. \A i \in 1..k : i \in 1..Len(s)
      BY <1>4
    <3>2. QED
      BY <1>4, <3>1 DEF Impl!Live
  <2> HIDE DEF Alive
  <2>2. \A k \in 1..Len(s) : Impl!Live(Abstract[k]) <=> element[s[k]].expire > now
    BY <1>4 DEF Impl!Live
  <2>3. QED
    BY <1>4, <2>1, <2>2, SameCardinality DEF Impl!Kept
<1>8. ASSUME NEW k \in 1..Len(s) PROVE s[k] \in Staying(s)' <=> k \in Kp
  <2>1. Alive(k) \in SUBSET (1..Len(s))
    BY <1>4
  <2>2. LiveAhead(s, s[k])' = {s[i] : i \in Alive(k)}
    <3>1. LiveAhead(s, s[k])' = {m \in NodesOf(s) \cap Upto(s, s[k]) : element[m].expire > now}
      BY <1>1, <1>6 DEF LiveAhead
    <3>2. ASSUME NEW i \in 1..Len(s)
          PROVE  s[i] \in LiveAhead(s, s[k])' <=> i \in Alive(k)
      <4>1. i <= k <=> i \in 1..k
        BY <1>4
      <4>2. QED
        BY <1>5, <3>1, <4>1, UptoIs
    <3>3. LiveAhead(s, s[k])' \subseteq NodesOf(s)
      BY <3>1
    <3> HIDE DEF Alive
    <3>4. ASSUME NEW m PROVE m \in LiveAhead(s, s[k])' <=> \E i \in Alive(k) : m = s[i]
      BY <2>1, <3>2, <3>3 DEF NodesOf
    <3>5. QED
      BY <3>4
  <2>3. Cardinality(LiveAhead(s, s[k])') = Cardinality(Alive(k)) /\ Cardinality(Alive(k)) \in Nat
    <3> HIDE DEF Alive
    <3>1. Cardinality({s[i] : i \in Alive(k)}) = Cardinality(Alive(k))
      BY <1>5, <2>1, NodesAt
    <3>2. Cardinality(Alive(k)) \in Nat
      BY <1>4, <2>1, BoundedIsFinite
    <3>3. QED
      BY <2>2, <3>1, <3>2
  <2>4. s[k] \in LiveAhead(s, s[k])' <=> element[s[k]].expire > now
    <3>1. k <= k
      BY <1>4
    <3>2. s[k] \in NodesOf(s) /\ s[k] \in Upto(s, s[k])
      BY <1>5, <3>1, UptoIs
    <3>3. QED
      BY <1>1, <1>6, <3>2 DEF LiveAhead
  <2> HIDE DEF Alive
  <2>5. s[k] \in Staying(s)' <=> /\ s[k] \in LiveAhead(s, s[k])'
                                 /\ 0 + Cardinality(LiveAhead(s, s[k])') <= CacheSizeMax
    <3>1. s[k] \in NodesOf(s) /\ s[k] \in Ahead(s)'
      BY <1>5, <1>6, UptoIs
    <3>2. QED
      BY <1>1, <3>1 DEF Staying, LockFree
  <2>6. 0 + Cardinality(LiveAhead(s, s[k])') = Cardinality(Alive(k))
    BY <2>3
  <2>7. QED
    BY <2>4, <2>5, <2>6
<1> HIDE DEF Alive
<1>9. Kp \in SUBSET (1..Len(s))
  OBVIOUS
<1> HIDE DEF Kp
<1>10. Staying(s)' = K
  <2>1. Staying(s)' \subseteq NodesOf(s)
    BY DEF Staying
  <2>2. ASSUME NEW n PROVE n \in Staying(s)' <=> \E k \in Kp : n = s[k]
    BY <1>8, <1>9, <2>1 DEF NodesOf
  <2>3. QED
    BY <2>2
<1>11. Cardinality(K) = c /\ c \in Nat /\ K \in SUBSET NodesOf(s)
  <2>1. Cardinality(K) = c
    BY <1>5, <1>9, NodesAt
  <2>2. c \in Nat
    BY <1>4, <1>9, BoundedIsFinite
  <2>3. QED
    BY <1>9, <2>1, <2>2 DEF NodesOf
<1>12. \A n \in K : \E k \in Kp : n = s[k]
  OBVIOUS
<1>13. \A k \in Kp : s[k] \in K
  OBVIOUS
<1> HIDE DEF K, c
<1>14. /\ \A i, j \in 1..Len(s) : s[i] \in K /\ s[j] \in K /\ i < j =>
            Cardinality(Upto(s, s[i]) \cap K) < Cardinality(Upto(s, s[j]) \cap K)
       /\ \A d \in 1..c : /\ Picked(s, K, d) \in K
                          /\ Cardinality(Upto(s, Picked(s, K, d)) \cap K) = d
  BY <1>5, <1>11, PickedIs
<1> DEFINE g == [d \in 1..c |-> CHOOSE k \in Kp : s[k] = Picked(s, K, d)]
<1>15. \A d \in 1..c : g[d] \in Kp /\ s[g[d]] = Picked(s, K, d)
  BY <1>12, <1>14
<1> HIDE DEF g
<1>16. g \in [1..c -> Kp]
  BY <1>15 DEF g
<1>17. ASSUME NEW i \in 1..c, NEW j \in 1..c, i < j PROVE g[i] < g[j]
  <2>1. /\ g[i] \in 1..Len(s) /\ g[j] \in 1..Len(s)
        /\ s[g[i]] \in K /\ s[g[j]] \in K
        /\ Cardinality(Upto(s, s[g[i]]) \cap K) = i
        /\ Cardinality(Upto(s, s[g[j]]) \cap K) = j
    BY <1>9, <1>13, <1>14, <1>15
  <2>2. g[i] # g[j]
    <3>1. i # j
      BY <1>11, <1>17
    <3>2. ASSUME g[i] = g[j] PROVE i = j
      <4>1. s[g[i]] = s[g[j]]
        BY <3>2, Zenon
      <4>2. Cardinality(Upto(s, s[g[i]]) \cap K) = Cardinality(Upto(s, s[g[j]]) \cap K)
        BY <4>1, Zenon
      <4>3. QED
        BY <2>1, <4>2, Zenon
    <3>3. QED
      BY <3>1, <3>2, Zenon
  <2>3. ~(g[j] < g[i])
    <3>1. ~(j < i)
      BY <1>11, <1>17
    <3>2. QED
      BY <1>14, <2>1, <3>1
  <2>4. QED
    BY <1>4, <2>1, <2>2, <2>3
<1>18. g \in Impl!Increasing(Impl!Kept)
  <2>1. Impl!Cardinality(Kp) = c
    BY SameCardinality DEF c
  <2>2. \A i, j \in DOMAIN g : i < j => g[i] < g[j]
    BY <1>16, <1>17
  <2>3. QED
    BY <1>7, <1>16, <2>1, <2>2 DEF Impl!Increasing
<1>19. Abstract' = [d \in 1..c |-> Impl!Aged(Abstract[g[d]])]
  <2>1. Abstract' = AbstractOf(s)'
    BY <1>3, AbstractIsNext DEF AbstractFact
  <2>2. \A n : Final(element[n])' = [element[n] EXCEPT !.ttl = element[n].expire - now]
    BY <1>1 DEF Final, LockFree
  <2> DEFINE v == [n \in K |-> [element[n] EXCEPT !.ttl = element[n].expire - now]]
  <2>3. AbstractOf(s)' = Selection(s, K, v)
    BY <1>10, <2>2 DEF AbstractOf
  <2>4. ASSUME NEW d \in 1..c PROVE v[Picked(s, K, d)] = Impl!Aged(Abstract[g[d]])
    <3>1. Picked(s, K, d) \in K /\ Picked(s, K, d) = s[g[d]] /\ g[d] \in 1..Len(s)
      BY <1>9, <1>14, <1>15
    <3>2. QED
      BY <1>4, <3>1 DEF Impl!Aged
  <2> HIDE DEF v
  <2>5. Selection(s, K, v) = [d \in 1..c |-> v[Picked(s, K, d)]]
    BY <1>11 DEF Selection
  <2>6. QED
    BY <2>1, <2>3, <2>4, <2>5
<1>20. Impl!refresh_cache
  <2>1. Impl!Cardinality(Impl!Kept) = c
    BY <1>7, SameCardinality DEF c
  <2>2. QED
    BY <1>1, <1>18, <1>19, <2>1 DEF Impl!refresh_cache
<1>21. WalkInv'
  <2>1. Passed(s)'
    BY <1>6 DEF Passed
  <2>2. cnt' < CacheSizeMax
    BY <1>1, <1>5
  <2>3. QED
    BY <1>3, <2>1, <2>2 DEF WalkInv
<1>22. QED
  BY <1>20, <1>21

-----------------------------------------------------------------------------
(* The refinement *)

\* The invariant of the walk holds at the start,
LEMMA WalkInit == Init => WalkInv /\ Impl!Init
<1> SUFFICES ASSUME Init PROVE WalkInv /\ Impl!Init
  OBVIOUS
<1>1. Inv /\ timer = "sleep" /\ size = 0 /\ now = 0 /\ tnow = 0
  BY InitInv DEF Init, init_cache
<1>2. PICK s \in Seq(Nodes) : Listed(s)
  BY <1>1 DEF Inv
<1>3. Len(s) = 0
  BY <1>1, <1>2 DEF Listed
<1>4. Abstract = [i \in 1..0 |-> element[s[i]]]
  BY <1>1, <1>2, <1>3, AsleepIs
<1>5. Abstract = <<>>
  BY <1>4
<1>6. WalkInv
  BY <1>1, <1>2 DEF WalkInv, Passed
<1>7. QED
  BY <1>1, <1>5, <1>6 DEF Impl!Init, Impl!init_cache

\* and every step keeps it and is one of the cache.
LEMMA WalkStep == WalkInv /\ [Next]_vars => WalkInv' /\ [Impl!Next]_(Impl!cacheVars)
<1> SUFFICES ASSUME WalkInv, [Next]_vars
             PROVE  WalkInv' /\ [Impl!Next]_(Impl!cacheVars)
  OBVIOUS
<1>1. ASSUME NEW r \in RRs, PutOld(r) \/ \E t \in TTLs : PutNew(r, t)
      PROVE  WalkInv' /\ Impl!Next
  BY <1>1, PutOldPuts, PutNewPuts DEF Impl!Next
<1>2. CASE RefreshLock
  BY <1>2, RefreshLockRefreshes DEF Impl!Next
<1>3. CASE Tick
  <2>1. now < MaxTime /\ now' = now + 1 /\ tnow' = tnow
    BY <1>3 DEF Tick, timerVars
  <2>2. WalkInv' /\ Abstract' = Abstract
    BY <1>3, TickWalks
  <2>3. QED
    BY <2>1, <2>2 DEF Impl!Next, Impl!Tick
<1>4. CASE RemoveExpired \/ UpdateTtl \/ RemoveSurplus \/ RefreshUnlock \/ UNCHANGED vars
  <2>1. now' = now /\ tnow' = tnow
    BY <1>4 DEF RemoveExpired, UpdateTtl, RemoveSurplus, RefreshUnlock, vars
  <2>2. WalkInv' /\ Abstract' = Abstract
    BY <1>4, RemoveExpiredWalks, UpdateTtlWalks, RemoveSurplusWalks, RefreshUnlockWalks, TickWalks
  <2>3. QED
    BY <2>1, <2>2 DEF Impl!cacheVars
<1>5. QED
  BY <1>1, <1>2, <1>3, <1>4 DEF Next

\* The linked list implements the cache, for any nodes, records and limit:
\* callers that take the lock never see a list that refresh_cache would not have
\* produced in one step, although the timer frees and trims node by node.
THEOREM ListIsCache == Spec => ImplementsCache
BY WalkInit, WalkStep, PTL DEF Spec, ImplementsCache, Impl!Spec
=============================================================================
