------------------------ MODULE RelayDatabaseProofs ------------------------
(***************************************************************************)
(* Proofs about RelayDatabase: the tree stays consistent, what it finds    *)
(* stands in the relay file, and it implements the table of RelayMap.      *)
(***************************************************************************)
EXTENDS RelayDatabase, NumberLemmas, SequenceTheorems

\* A function on 1..n is a sequence of length n.
LEMMA FunctionIsSeq ==
    ASSUME NEW S, NEW n \in Nat, NEW f \in [1..n -> S]
    PROVE  f \in Seq(S) /\ Len(f) = n
OBVIOUS

-----------------------------------------------------------------------------
(* Nodes *)

\* A label at the head of a chain is found in it, and the others still are; the
\* chain has no label twice when the new one was not in it.
LEMMA PutAtHead ==
    ASSUME NEW s \in Seq(Labels), NEW l \in Labels
    PROVE  /\ <<l>> \o s \in Seq(Labels)
           /\ Len(<<l>> \o s) = Len(s) + 1
           /\ \A m : Contains(<<l>> \o s, m) <=> (m = l \/ Contains(s, m))
           /\ IsInjective(s) /\ ~Contains(s, l) => IsInjective(<<l>> \o s)
           /\ \A i \in DOMAIN (<<l>> \o s) : (<<l>> \o s)[i] = l \/ \E j \in DOMAIN s : (<<l>> \o s)[i] = s[j]
<1> DEFINE t == <<l>> \o s
<1>1. <<l>> \in Seq(Labels) /\ Len(<<l>>) = 1 /\ <<l>>[1] = l
  OBVIOUS
<1>2. Len(s) \in Nat /\ DOMAIN s = 1..Len(s)
  OBVIOUS
<1>3. /\ t \in Seq(Labels) /\ Len(t) = Len(s) + 1
      /\ \A i \in 1..Len(s) + 1 : t[i] = IF i <= 1 THEN <<l>>[i] ELSE s[i - 1]
  <2>1. /\ <<l>> \o s \in Seq(Labels)
        /\ Len(<<l>> \o s) = Len(<<l>>) + Len(s)
        /\ \A i \in 1..Len(<<l>>) + Len(s) :
             (<<l>> \o s)[i] = IF i <= Len(<<l>>) THEN <<l>>[i] ELSE s[i - Len(<<l>>)]
    BY <1>1, ConcatProperties
  <2>2. QED
    BY <1>1, <1>2, <2>1
<1> HIDE DEF t
<1>4. /\ DOMAIN t = 1..Len(s) + 1 /\ 1 \in 1..Len(t)
      /\ t[1] = l
      /\ \A i \in 2..Len(s) + 1 : t[i] = s[i - 1] /\ i - 1 \in 1..Len(s)
      /\ \A i \in 1..Len(s) : t[i + 1] = s[i] /\ i + 1 \in 1..Len(t)
      /\ \A i \in 1..Len(s) + 1 : i = 1 \/ i \in 2..Len(s) + 1
  BY <1>1, <1>2, <1>3
<1>5. ASSUME NEW m
      PROVE  Contains(t, m) <=> (m = l \/ Contains(s, m))
  <2>1. ASSUME Contains(t, m), m # l PROVE Contains(s, m)
    BY <1>3, <1>4, <2>1 DEF Contains
  <2>2. CASE m = l
    BY <1>4, <2>2 DEF Contains
  <2>3. ASSUME Contains(s, m) PROVE Contains(t, m)
    BY <1>4, <2>3 DEF Contains
  <2>4. QED
    BY <2>1, <2>2, <2>3
<1>6. ASSUME IsInjective(s), ~Contains(s, l)
      PROVE  IsInjective(t)
  <2>1. ASSUME NEW i \in DOMAIN t, NEW j \in DOMAIN t, t[i] = t[j]
        PROVE  i = j
    <3>1. CASE i = 1 \/ j = 1
      <4>1. ASSUME NEW k \in 2..Len(s) + 1 PROVE t[k] # l
        BY <1>4, <1>6 DEF Contains
      <4>2. QED
        BY <1>4, <2>1, <3>1, <4>1
    <3>2. CASE i # 1 /\ j # 1
      <4>1. /\ i \in 2..Len(s) + 1 /\ j \in 2..Len(s) + 1
            /\ s[i - 1] = s[j - 1] /\ i - 1 \in DOMAIN s /\ j - 1 \in DOMAIN s
        BY <1>2, <1>4, <2>1, <3>2
      <4>2. i - 1 = j - 1
        BY <1>6, <4>1 DEF IsInjective
      <4>3. QED
        BY <1>2, <4>1, <4>2
    <3>3. QED
      BY <3>1, <3>2
  <2>2. QED
    BY <2>1 DEF IsInjective
<1>7. ASSUME NEW i \in DOMAIN t
      PROVE  t[i] = l \/ \E j \in DOMAIN s : t[i] = s[j]
  BY <1>2, <1>4
<1>8. QED
  BY <1>3, <1>5, <1>6, <1>7 DEF t

\* The positions K are all there, each once.
LEMMA BackwardsIs ==
    ASSUME NEW m \in Nat, NEW K \in SUBSET (1..m)
    PROVE  /\ Cardinality(K) \in Nat
           /\ Backwards(K) \in [1..Cardinality(K) -> K]
           /\ IsInjective(Backwards(K))
           /\ \A k \in K : \E i \in 1..Cardinality(K) : Backwards(K)[i] = k
<1> DEFINE c == Cardinality(K)
           Up(k) == Cardinality({j \in K : j >= k})
           at == [i \in 1..c |-> CHOOSE k \in K : Up(k) = i]
<1>1. /\ \A k \in K : Up(k) \in 1..c
      /\ \A i \in 1..c : \E k \in K : Up(k) = i
  BY RankFromAbove
<1>2. IsFiniteSet(K) /\ c \in Nat
  BY BoundedIsFinite
<1>3. at = Backwards(K)
  BY DEF Backwards
<1> HIDE DEF c, Up
<1>4. ASSUME NEW i \in 1..c
      PROVE  at[i] \in K /\ Up(at[i]) = i
  <2>1. (CHOOSE k \in K : Up(k) = i) \in K /\ Up(CHOOSE k \in K : Up(k) = i) = i
    BY <1>1
  <2>2. QED
    BY <2>1
<1>5. at \in [1..c -> K]
  BY <1>4
<1> HIDE DEF at
<1>6. IsInjective(at)
  BY <1>4, <1>5 DEF IsInjective
<1>7. ASSUME NEW k \in K
      PROVE  \E i \in 1..c : at[i] = k
  <2>1. at \in Injection(1..c, K)
    BY <1>5, <1>6 DEF Injection
  <2>2. IsFiniteSet(1..c) /\ Cardinality(1..c) = c
    BY <1>2, FS_Interval
  <2>3. at \in Surjection(1..c, K)
    <3>1. Cardinality(1..c) = Cardinality(K)
      BY <2>2 DEF c
    <3>2. QED
      BY <1>2, <2>1, <3>1, FS_Injection
  <2>4. QED
    BY <2>3 DEF Surjection
<1>8. QED
  BY <1>2, <1>3, <1>5, <1>6, <1>7 DEF c

\* The labels at the positions K are all in the new chain, each as often.
LEMMA MovedIs ==
    ASSUME NEW s \in Seq(Labels), NEW K \in SUBSET (1..Len(s))
    PROVE  /\ Moved(s, K) \in Seq(Labels)
           /\ \A m : Contains(Moved(s, K), m) <=> \E k \in K : s[k] = m
           /\ \A i \in DOMAIN Moved(s, K) : \E k \in K : Moved(s, K)[i] = s[k]
           /\ IsInjective(s) => IsInjective(Moved(s, K))
<1> DEFINE c == Cardinality(K)
           at == Backwards(K)
           t == Moved(s, K)
<1>1. Len(s) \in Nat /\ DOMAIN s = 1..Len(s) /\ \A i \in 1..Len(s) : s[i] \in Labels
  OBVIOUS
<1>2. /\ c \in Nat /\ at \in [1..c -> K] /\ IsInjective(at)
      /\ \A k \in K : \E i \in 1..c : at[i] = k
  BY <1>1, BackwardsIs
<1>3. t = [i \in 1..c |-> s[at[i]]]
  <2>1. t = [i \in DOMAIN at |-> s[at[i]]] /\ DOMAIN at = 1..c
    BY <1>2 DEF Moved
  <2>2. QED
    BY <2>1
<1> HIDE DEF at, c, t
<1>4. \A i \in 1..c : at[i] \in K /\ at[i] \in 1..Len(s)
  BY <1>2
<1>5. t \in [1..c -> Labels]
  BY <1>1, <1>3, <1>4
<1>6. t \in Seq(Labels) /\ Len(t) = c /\ DOMAIN t = 1..c
  BY <1>2, <1>5, FunctionIsSeq
<1>7. ASSUME NEW m
      PROVE  Contains(t, m) <=> \E k \in K : s[k] = m
  <2>1. Contains(t, m) <=> \E i \in 1..c : s[at[i]] = m
    BY <1>3, <1>6 DEF Contains
  <2>2. QED
    BY <1>2, <1>4, <2>1
<1>8. ASSUME NEW i \in DOMAIN t
      PROVE  \E k \in K : t[i] = s[k]
  BY <1>3, <1>4, <1>6
<1>9. ASSUME IsInjective(s)
      PROVE  IsInjective(t)
  <2>1. ASSUME NEW i \in 1..c, NEW j \in 1..c, t[i] = t[j]
        PROVE  i = j
    <3>1. s[at[i]] = s[at[j]] /\ at[i] \in DOMAIN s /\ at[j] \in DOMAIN s
      BY <1>1, <1>3, <1>4, <2>1
    <3>2. at[i] = at[j]
      BY <1>9, <3>1 DEF IsInjective
    <3>3. QED
      BY <1>2, <3>2 DEF IsInjective
  <2>2. QED
    BY <1>6, <2>1 DEF IsInjective
<1>10. QED
  BY <1>6, <1>7, <1>8, <1>9 DEF t

\* The buckets have the labels of the list, each in the bucket of its hash.
LEMMA RehashedIs ==
    ASSUME NEW s \in Seq(Labels), IsInjective(s)
    PROVE  /\ Rehashed(s) \in [Buckets -> Seq(Labels)]
           /\ \A b \in Buckets : /\ IsInjective(Rehashed(s)[b])
                                 /\ \A i \in DOMAIN Rehashed(s)[b] : Hash[Rehashed(s)[b][i]] = b
           /\ \A l \in Labels : Contains(Rehashed(s)[Hash[l]], l) <=> Contains(s, l)
<1> DEFINE At(b) == {i \in 1..Len(s) : Hash[s[i]] = b}
<1>1. \A b \in Buckets : Rehashed(s)[b] = Moved(s, At(b))
  BY DEF Rehashed
<1>2. ASSUME NEW b
      PROVE  /\ At(b) \in SUBSET (1..Len(s))
             /\ Moved(s, At(b)) \in Seq(Labels)
             /\ \A m : Contains(Moved(s, At(b)), m) <=> \E k \in At(b) : s[k] = m
             /\ \A i \in DOMAIN Moved(s, At(b)) : \E k \in At(b) : Moved(s, At(b))[i] = s[k]
             /\ IsInjective(Moved(s, At(b)))
  <2>1. At(b) \in SUBSET (1..Len(s))
    OBVIOUS
  <2> HIDE DEF At
  <2>2. QED
    BY <2>1, MovedIs
<1>3. Rehashed(s) \in [Buckets -> Seq(Labels)]
  <2>1. Rehashed(s) = [b \in Buckets |-> Moved(s, At(b))]
    BY DEF Rehashed
  <2> HIDE DEF At
  <2>2. QED
    BY <1>2, <2>1
<1>4. ASSUME NEW b \in Buckets
      PROVE  /\ IsInjective(Rehashed(s)[b])
             /\ \A i \in DOMAIN Rehashed(s)[b] : Hash[Rehashed(s)[b][i]] = b
  <2>1. Rehashed(s)[b] = Moved(s, At(b))
    BY <1>1
  <2>2. \A k \in At(b) : Hash[s[k]] = b
    OBVIOUS
  <2> HIDE DEF At
  <2>3. QED
    BY <1>2, <2>1, <2>2
<1>5. ASSUME NEW l \in Labels
      PROVE  Contains(Rehashed(s)[Hash[l]], l) <=> Contains(s, l)
  <2>1. Hash[l] \in Buckets
    BY DatabaseAssumption
  <2>2. Contains(Rehashed(s)[Hash[l]], l) <=> \E k \in At(Hash[l]) : s[k] = l
    <3> HIDE DEF At
    <3>1. QED
      BY <1>1, <1>2, <2>1
  <2>3. (\E k \in At(Hash[l]) : s[k] = l) <=> \E k \in 1..Len(s) : s[k] = l
    OBVIOUS
  <2>4. QED
    BY <2>2, <2>3 DEF Contains
<1>6. QED
  BY <1>3, <1>4, <1>5

\* tree_node_insert: the node keeps the new label and all it kept before.
LEMMA InsertInNode ==
    ASSUME NEW tn \in TreeNodes, NodeConsistent(tn), NEW l \in Labels,
           ~tree_node_find(tn, l)
    PROVE  /\ tree_node_insert(tn, l) \in TreeNodes
           /\ NodeConsistent(tree_node_insert(tn, l))
           /\ Kept(tree_node_insert(tn, l)) = Kept(tn) \cup {l}
<1> DEFINE new == tree_node_insert(tn, l)
           list == <<l>> \o tn.list
<1>1. /\ tn.type \in {"list", "bucket"} /\ tn.size \in Nat /\ tn.list \in Seq(Labels)
      /\ tn.bucket \in [Buckets -> Seq(Labels)]
      /\ Hash[l] \in Buckets /\ HashSwitchThreshold \in Nat
      /\ \A m \in Labels : Hash[m] \in Buckets
      /\ tn = [type |-> tn.type, size |-> tn.size, list |-> tn.list, bucket |-> tn.bucket]
  BY DatabaseAssumption DEF TreeNodes
<1>2. /\ IsInjective(tn.list) /\ \A b \in Buckets : IsInjective(tn.bucket[b])
      /\ \A b \in Buckets : \A i \in DOMAIN tn.bucket[b] : Hash[tn.bucket[b][i]] = b
      /\ tn.size = Cardinality(Kept(tn))
      /\ (tn.type = "bucket") <=> (tn.size > HashSwitchThreshold)
      /\ tn.type = "bucket" => tn.list = <<>>
      /\ tn.type # "bucket" => \A b \in Buckets : tn.bucket[b] = <<>>
  BY DEF NodeConsistent
<1>3. ASSUME Kept(new) = Kept(tn) \cup {l}, new.size = tn.size + 1
      PROVE  new.size = Cardinality(Kept(new))
  <2>1. Kept(tn) \in SUBSET Labels /\ l \notin Kept(tn) /\ IsFiniteSet(Labels)
    BY DatabaseAssumption DEF Kept
  <2>2. IsFiniteSet(Kept(tn))
    BY <2>1, FS_Subset
  <2>3. Cardinality(Kept(tn) \cup {l}) = Cardinality(Kept(tn)) + 1
    BY <2>1, <2>2, FS_AddElement
  <2> HIDE DEF new
  <2>4. QED
    BY <1>2, <1>3, <2>3
<1>4. CASE tn.type = "bucket"
  <2> DEFINE h == Hash[l]
             chain == <<l>> \o tn.bucket[h]
  <2>1. new = [type |-> "bucket", size |-> tn.size + 1, list |-> tn.list,
               bucket |-> [tn.bucket EXCEPT ![h] = chain]]
    BY <1>1, <1>4 DEF tree_node_insert
  <2>2. ~Contains(tn.bucket[h], l)
    BY <1>4 DEF tree_node_find
  <2>3. tn.bucket[h] \in Seq(Labels)
    BY <1>1
  <2>4. /\ chain \in Seq(Labels) /\ IsInjective(chain)
        /\ \A m : Contains(chain, m) <=> (m = l \/ Contains(tn.bucket[h], m))
        /\ \A i \in DOMAIN chain : chain[i] = l \/ \E j \in DOMAIN tn.bucket[h] : chain[i] = tn.bucket[h][j]
    BY <1>1, <1>2, <2>2, <2>3, PutAtHead
  <2> HIDE DEF chain, new
  <2>5. new \in TreeNodes
    BY <1>1, <2>1, <2>4 DEF TreeNodes
  <2>6. ASSUME NEW m \in Labels
        PROVE  tree_node_find(new, m) <=> (m = l \/ tree_node_find(tn, m))
    <3>1. tree_node_find(new, m) <=> Contains(new.bucket[Hash[m]], m)
      BY <2>1 DEF tree_node_find
    <3>2. tree_node_find(tn, m) <=> Contains(tn.bucket[Hash[m]], m)
      BY <1>4 DEF tree_node_find
    <3>3. CASE Hash[m] = h
      BY <1>1, <2>1, <2>4, <3>1, <3>2, <3>3
    <3>4. CASE Hash[m] # h
      <4>1. new.bucket[Hash[m]] = tn.bucket[Hash[m]] /\ m # l
        BY <1>1, <2>1, <3>4
      <4>2. QED
        BY <3>1, <3>2, <4>1
    <3>5. QED
      BY <3>3, <3>4
  <2>7. Kept(new) = Kept(tn) \cup {l}
    BY <2>6 DEF Kept
  <2>8. ASSUME NEW b \in Buckets
        PROVE  /\ IsInjective(new.bucket[b])
               /\ \A i \in DOMAIN new.bucket[b] : Hash[new.bucket[b][i]] = b
    <3>1. CASE b = h
      <4>1. new.bucket[b] = chain
        BY <1>1, <2>1, <3>1
      <4>2. ASSUME NEW i \in DOMAIN chain PROVE Hash[chain[i]] = h
        <5>1. CASE chain[i] = l
          BY <5>1
        <5>2. CASE \E j \in DOMAIN tn.bucket[h] : chain[i] = tn.bucket[h][j]
          BY <1>1, <1>2, <5>2
        <5>3. QED
          BY <2>4, <5>1, <5>2
      <4>3. QED
        BY <2>4, <3>1, <4>1, <4>2
    <3>2. CASE b # h
      <4>1. new.bucket[b] = tn.bucket[b]
        BY <1>1, <2>1, <3>2
      <4>2. QED
        BY <1>2, <4>1
    <3>3. QED
      BY <3>1, <3>2
  <2>9. new.type = "bucket" /\ new.size = tn.size + 1 /\ new.list = tn.list
    BY <2>1
  <2>10. NodeConsistent(new)
    <3>1. new.size = Cardinality(Kept(new))
      BY <1>3, <2>7, <2>9
    <3>2. new.size > HashSwitchThreshold
      BY <1>1, <1>2, <1>4, <2>9
    <3>3. IsInjective(new.list) /\ new.list = <<>>
      BY <1>2, <1>4, <2>9
    <3>4. QED
      BY <2>8, <2>9, <3>1, <3>2, <3>3 DEF NodeConsistent
  <2>11. QED
    BY <2>5, <2>7, <2>10 DEF new
<1>5. CASE tn.type # "bucket"
  <2>1. ~Contains(tn.list, l) /\ tn.type = "list"
    BY <1>1, <1>5 DEF tree_node_find
  <2>2. /\ list \in Seq(Labels) /\ IsInjective(list)
        /\ \A m : Contains(list, m) <=> (m = l \/ Contains(tn.list, m))
    BY <1>1, <1>2, <2>1, PutAtHead
  <2>3. CASE tn.size + 1 > HashSwitchThreshold
    <3>1. new = [type |-> "bucket", size |-> tn.size + 1, list |-> <<>>,
                 bucket |-> Rehashed(list)]
      BY <1>5, <2>3 DEF tree_node_insert
    <3> HIDE DEF list, new
    <3>2. /\ Rehashed(list) \in [Buckets -> Seq(Labels)]
          /\ \A b \in Buckets : /\ IsInjective(Rehashed(list)[b])
                                /\ \A i \in DOMAIN Rehashed(list)[b] : Hash[Rehashed(list)[b][i]] = b
          /\ \A m \in Labels : Contains(Rehashed(list)[Hash[m]], m) <=> Contains(list, m)
      BY <2>2, RehashedIs
    <3>3. /\ new.type = "bucket" /\ new.size = tn.size + 1 /\ new.list = <<>>
          /\ new.bucket = Rehashed(list)
      BY <3>1
    <3>4. <<>> \in Seq(Labels) /\ IsInjective(<<>>)
      BY DEF IsInjective
    <3>5. new \in TreeNodes
      BY <1>1, <3>1, <3>2, <3>4 DEF TreeNodes
    <3>6. Kept(new) = Kept(tn) \cup {l}
      <4>1. ASSUME NEW m \in Labels
            PROVE  tree_node_find(new, m) <=> (m = l \/ tree_node_find(tn, m))
        BY <2>1, <2>2, <3>2, <3>3 DEF tree_node_find
      <4>2. QED
        BY <4>1 DEF Kept
    <3>7. new.size = Cardinality(Kept(new))
      BY <1>3, <3>3, <3>6
    <3>8. NodeConsistent(new)
      BY <2>3, <3>2, <3>3, <3>4, <3>7 DEF NodeConsistent
    <3>9. QED
      BY <3>5, <3>6, <3>8 DEF new
  <2>4. CASE ~(tn.size + 1 > HashSwitchThreshold)
    <3>1. new = [type |-> "list", size |-> tn.size + 1, list |-> list,
                 bucket |-> tn.bucket]
      BY <1>1, <1>5, <2>1, <2>4 DEF tree_node_insert
    <3> HIDE DEF list, new
    <3>2. /\ new.type = "list" /\ new.size = tn.size + 1 /\ new.list = list
          /\ new.bucket = tn.bucket
      BY <3>1
    <3>3. new \in TreeNodes
      BY <1>1, <2>2, <3>1 DEF TreeNodes
    <3>4. Kept(new) = Kept(tn) \cup {l}
      <4>1. ASSUME NEW m \in Labels
            PROVE  tree_node_find(new, m) <=> (m = l \/ tree_node_find(tn, m))
        BY <2>1, <2>2, <3>2 DEF tree_node_find
      <4>2. QED
        BY <4>1 DEF Kept
    <3>5. new.size = Cardinality(Kept(new))
      BY <1>3, <3>2, <3>4
    <3>6. NodeConsistent(new)
      BY <1>2, <2>1, <2>2, <2>4, <3>2, <3>5 DEF NodeConsistent
    <3>7. QED
      BY <3>3, <3>4, <3>6 DEF new
  <2>5. QED
    BY <2>3, <2>4
<1>6. QED
  BY <1>4, <1>5

\* A node that was just made is consistent and keeps nothing.
LEMMA EmptyNode ==
    /\ create_tree_node \in TreeNodes
    /\ NodeConsistent(create_tree_node)
    /\ Kept(create_tree_node) = {}
<1> DEFINE tn == create_tree_node
<1>1. /\ tn.type = "list" /\ tn.size = 0 /\ tn.list = <<>>
      /\ \A b \in Buckets : tn.bucket[b] = <<>>
      /\ <<>> \in Seq(Labels) /\ IsInjective(<<>>) /\ DOMAIN <<>> = {} /\ Len(<<>>) = 0
  BY DEF create_tree_node, IsInjective
<1>2. tn \in TreeNodes
  BY <1>1 DEF create_tree_node, TreeNodes
<1> HIDE DEF tn
<1>3. Kept(tn) = {}
  BY <1>1 DEF Kept, tree_node_find, Contains
<1>4. Cardinality(Kept(tn)) = 0
  BY <1>3, FS_EmptySet
<1>5. ~(tn.size > HashSwitchThreshold)
  BY <1>1, DatabaseAssumption
<1>6. NodeConsistent(tn)
  BY <1>1, <1>4, <1>5 DEF NodeConsistent
<1>7. QED
  BY <1>2, <1>3, <1>6 DEF tn

-----------------------------------------------------------------------------
(* Paths *)

\* The first k labels of a name.
LEMMA UpToIs ==
    ASSUME NEW r \in Seq(Labels), NEW k \in 0..Len(r)
    PROVE  /\ UpTo(r, k) \in Seq(Labels) /\ Len(UpTo(r, k)) = k
           /\ \A i \in 1..k : UpTo(r, k)[i] = r[i]
<1>1. Len(r) \in Nat /\ k \in Int /\ 1 \in Int /\ \A i \in 1..k : r[i] \in Labels
  OBVIOUS
<1>2. /\ SubSeq(r, 1, k) \in Seq(Labels)
      /\ Len(SubSeq(r, 1, k)) = IF 1 <= k THEN k - 1 + 1 ELSE 0
      /\ \A i \in 1..k - 1 + 1 : SubSeq(r, 1, k)[i] = r[1 + i - 1]
  BY <1>1, SubSeqProperties
<1>3. QED
  BY <1>1, <1>2 DEF UpTo

\* Paths get longer by one label at a time and begin with their beginnings.
LEMMA PathFacts ==
    ASSUME NEW r \in Seq(Labels)
    PROVE  /\ UpTo(r, Len(r)) = r
           /\ UpTo(r, 0) = <<>>
           /\ \A k \in 1..Len(r) : UpTo(r, k) = Append(UpTo(r, k - 1), r[k])
           /\ \A k \in 0..Len(r) : \A j \in 0..k : UpTo(UpTo(r, k), j) = UpTo(r, j)
<1>1. Len(r) \in Nat /\ \A i \in 1..Len(r) : r[i] \in Labels
  OBVIOUS
<1>2. UpTo(r, Len(r)) = r
  BY SubSeqFull DEF UpTo
<1>3. UpTo(r, 0) = <<>>
  BY SubSeqEmpty DEF UpTo
<1>4. ASSUME NEW k \in 1..Len(r)
      PROVE  UpTo(r, k) = Append(UpTo(r, k - 1), r[k])
  <2> DEFINE p == UpTo(r, k)
             q == UpTo(r, k - 1)
  <2>1. k \in 0..Len(r) /\ k - 1 \in 0..Len(r) /\ r[k] \in Labels
    BY <1>1
  <2>2. p \in Seq(Labels) /\ Len(p) = k /\ \A i \in 1..k : p[i] = r[i]
    BY <2>1, UpToIs
  <2>3. q \in Seq(Labels) /\ Len(q) = k - 1 /\ \A i \in 1..k - 1 : q[i] = r[i]
    BY <2>1, UpToIs
  <2> HIDE DEF p, q
  <2>4. /\ Append(q, r[k]) \in Seq(Labels) /\ Len(Append(q, r[k])) = k
        /\ \A i \in 1..k - 1 : Append(q, r[k])[i] = q[i]
        /\ Append(q, r[k])[k] = r[k]
    BY <2>1, <2>3, AppendProperties
  <2>5. \A i \in 1..k : p[i] = Append(q, r[k])[i]
    <3>1. \A i \in 1..k : i = k \/ i \in 1..k - 1
      BY <1>1
    <3>2. QED
      BY <2>2, <2>3, <2>4, <3>1
  <2>6. p = Append(q, r[k])
    BY <2>2, <2>4, <2>5, SeqEqual
  <2>7. QED
    BY <2>6 DEF p, q
<1>5. ASSUME NEW k \in 0..Len(r), NEW j \in 0..k
      PROVE  UpTo(UpTo(r, k), j) = UpTo(r, j)
  <2> DEFINE p == UpTo(r, k)
  <2>1. p \in Seq(Labels) /\ Len(p) = k /\ \A i \in 1..k : p[i] = r[i]
    BY UpToIs
  <2>2. j \in 0..Len(r) /\ j \in 0..Len(p)
    BY <1>1, <2>1
  <2> HIDE DEF p
  <2>3. UpTo(p, j) \in Seq(Labels) /\ Len(UpTo(p, j)) = j /\ \A i \in 1..j : UpTo(p, j)[i] = p[i]
    BY <2>1, <2>2, UpToIs
  <2>4. UpTo(r, j) \in Seq(Labels) /\ Len(UpTo(r, j)) = j /\ \A i \in 1..j : UpTo(r, j)[i] = r[i]
    BY <2>2, UpToIs
  <2>5. \A i \in 1..j : UpTo(p, j)[i] = UpTo(r, j)[i]
    BY <2>1, <2>3, <2>4
  <2>6. QED
    BY <2>3, <2>4, <2>5, SeqEqual DEF p
<1>6. QED
  BY <1>2, <1>3, <1>4, <1>5

\* A name turned round is a path; the name is got back by turning it again.
LEMMA ReverseIs ==
    ASSUME NEW n \in Seq(Labels)
    PROVE  /\ domain_rev(n) \in Seq(Labels) /\ Len(domain_rev(n)) = Len(n)
           /\ n # <<>> => domain_rev(n) # <<>>
           /\ \A i \in 1..Len(n) : Len(n) - i + 1 \in 1..Len(n)
                                   /\ n[i] = domain_rev(n)[Len(n) - i + 1]
<1> DEFINE r == domain_rev(n)
<1>1. Len(n) \in Nat /\ \A i \in 1..Len(n) : n[i] \in Labels
  OBVIOUS
<1>2. r = [i \in 1..Len(n) |-> n[(Len(n) - i) + 1]]
  BY DEF domain_rev, Reverse
<1> HIDE DEF r
<1>3. \A i \in 1..Len(n) : (Len(n) - i) + 1 \in 1..Len(n)
  BY <1>1
<1>4. r \in [1..Len(n) -> Labels]
  BY <1>1, <1>2, <1>3
<1>5. r \in Seq(Labels) /\ Len(r) = Len(n)
  BY <1>1, <1>4, FunctionIsSeq
<1>6. n # <<>> => Len(n) # 0
  BY EmptySeq
<1>7. r = <<>> => Len(r) = 0
  OBVIOUS
<1>8. ASSUME NEW i \in 1..Len(n)
      PROVE  n[i] = r[Len(n) - i + 1]
  <2>1. Len(n) - i + 1 \in 1..Len(n) /\ (Len(n) - (Len(n) - i + 1)) + 1 = i
    BY <1>1
  <2>2. QED
    BY <1>2, <2>1
<1>9. QED
  BY <1>3, <1>5, <1>6, <1>7, <1>8 DEF r

\* Different names have different paths.
LEMMA ReverseInjective ==
    ASSUME NEW m \in Seq(Labels), NEW n \in Seq(Labels), domain_rev(m) = domain_rev(n)
    PROVE  m = n
<1>1. /\ Len(domain_rev(m)) = Len(m)
      /\ \A i \in 1..Len(m) : m[i] = domain_rev(m)[Len(m) - i + 1]
  BY ReverseIs
<1>2. /\ Len(domain_rev(n)) = Len(n)
      /\ \A i \in 1..Len(n) : n[i] = domain_rev(n)[Len(n) - i + 1]
  BY ReverseIs
<1>3. Len(m) = Len(n) /\ \A i \in 1..Len(m) : m[i] = n[i]
  BY <1>1, <1>2
<1>4. QED
  BY <1>3, SeqEqual

-----------------------------------------------------------------------------
(* The tree *)

\* With an element its whole path is in the tree.
Closed == \A p \in DOMAIN data : \A j \in 1..Len(p) : UpTo(p, j) \in DOMAIN data

TreeInv == TypeOK /\ TreeConsistent /\ Closed

\* There is an element for every label that its node finds, and for no other.
LEMMA ElementIs ==
    ASSUME TreeInv, NEW p \in Seq(Labels), NEW l \in Labels
    PROVE  Append(p, l) \in DOMAIN data <=> (p \in DOMAIN tree /\ tree_node_find(tree[p], l))
<1>1. /\ DOMAIN tree \subseteq Seq(Labels)
      /\ DOMAIN data = UNION {{Append(q, m) : m \in Kept(tree[q])} : q \in DOMAIN tree}
  BY DEF TreeInv, TypeOK, TreeConsistent
<1>2. ASSUME Append(p, l) \in DOMAIN data
      PROVE  p \in DOMAIN tree /\ tree_node_find(tree[p], l)
  <2>1. PICK q \in DOMAIN tree : \E m \in Kept(tree[q]) : Append(p, l) = Append(q, m)
    BY <1>1, <1>2
  <2>2. PICK m \in Kept(tree[q]) : Append(p, l) = Append(q, m)
    BY <2>1
  <2>3. q \in Seq(Labels) /\ m \in Labels /\ tree_node_find(tree[q], m)
    BY <1>1, <2>1 DEF Kept
  <2>4. p = q /\ l = m
    BY <2>2, <2>3, AppendInjective
  <2>5. QED
    BY <2>1, <2>3, <2>4
<1>3. ASSUME p \in DOMAIN tree, tree_node_find(tree[p], l)
      PROVE  Append(p, l) \in DOMAIN data
  <2>1. l \in Kept(tree[p])
    BY <1>3 DEF Kept
  <2>2. QED
    BY <1>1, <1>3, <2>1
<1>4. QED
  BY <1>2, <1>3

\* An element is reached from the root if and only if it is there.
LEMMA ReachedIs ==
    ASSUME TreeInv, NEW r \in Seq(Labels), NEW k \in 1..Len(r)
    PROVE  Reached(r, k) <=> UpTo(r, k) \in DOMAIN data
<1>1. Len(r) \in Nat
  OBVIOUS
<1>2. ASSUME NEW j \in 1..k
      PROVE  UpTo(r, j) \in DOMAIN data
             <=> (UpTo(r, j - 1) \in DOMAIN tree /\ tree_node_find(tree[UpTo(r, j - 1)], r[j]))
  <2>1. j \in 1..Len(r) /\ j - 1 \in 0..Len(r)
    BY <1>1
  <2>2. r[j] \in Labels /\ UpTo(r, j - 1) \in Seq(Labels)
    BY <2>1, UpToIs
  <2>3. UpTo(r, j) = Append(UpTo(r, j - 1), r[j])
    BY <2>1, PathFacts
  <2>4. QED
    BY <2>2, <2>3, ElementIs
<1>3. Reached(r, k) <=> \A j \in 1..k : UpTo(r, j) \in DOMAIN data
  BY <1>2 DEF Reached
<1>4. ASSUME UpTo(r, k) \in DOMAIN data, NEW j \in 1..k
      PROVE  UpTo(r, j) \in DOMAIN data
  <2>1. Len(UpTo(r, k)) = k
    BY <1>1, UpToIs
  <2>2. UpTo(UpTo(r, k), j) = UpTo(r, j)
    BY <1>1, PathFacts
  <2>3. QED
    BY <1>4, <2>1, <2>2 DEF TreeInv, Closed
<1>5. k \in 1..k
  BY <1>1
<1>6. QED
  BY <1>3, <1>4, <1>5

\* The levels that are missing are the ones without an element.
LEMMA NewLevelsAre ==
    ASSUME TreeInv, NEW r \in Seq(Labels)
    PROVE  NewLevels(r) = {k \in 1..Len(r) : UpTo(r, k) \notin DOMAIN data}
BY ReachedIs DEF NewLevels

\* What the new tree is made of: every node is consistent and keeps what it kept
\* before and, along the name, the label of the name.
LEMMA GrownIs ==
    ASSUME TreeInv, NEW r \in Seq(Labels)
    PROVE  /\ DOMAIN Grown(r) = DOMAIN tree \cup {UpTo(r, k - 1) : k \in 1..Len(r)}
           /\ Grown(r) \in [DOMAIN Grown(r) -> TreeNodes]
           /\ \A p \in DOMAIN Grown(r) :
                /\ p \in Seq(Labels) /\ NodeConsistent(Grown(r)[p])
                /\ \A l \in Labels :
                     l \in Kept(Grown(r)[p])
                     <=> \/ p \in DOMAIN tree /\ l \in Kept(tree[p])
                         \/ \E k \in 1..Len(r) : p = UpTo(r, k - 1) /\ l = r[k]
<1> DEFINE New == NewLevels(r)
           fresh == {UpTo(r, k - 1) : k \in {j \in New : j - 1 \in New}}
           along == {UpTo(r, k - 1) : k \in 1..Len(r)}
           G == Grown(r)
           Old(p) == IF p \in DOMAIN tree THEN tree[p] ELSE create_tree_node
<1>1. Len(r) \in Nat /\ \A k \in 1..Len(r) : r[k] \in Labels /\ k - 1 \in 0..Len(r)
  OBVIOUS
<1>2. New = {k \in 1..Len(r) : UpTo(r, k) \notin DOMAIN data}
  BY NewLevelsAre
<1>3. \A k \in 1..Len(r) : UpTo(r, k - 1) \in Seq(Labels) /\ Len(UpTo(r, k - 1)) = k - 1
  BY <1>1, UpToIs
<1>4. /\ DOMAIN tree \subseteq Seq(Labels) /\ tree \in [DOMAIN tree -> TreeNodes]
      /\ \A p \in DOMAIN tree : NodeConsistent(tree[p]) /\ (p = <<>> \/ p \in DOMAIN data)
  BY DEF TreeInv, TypeOK, TreeConsistent
<1>5. ASSUME NEW p \in fresh PROVE p \notin DOMAIN tree
  <2>1. PICK k \in New : k - 1 \in New /\ p = UpTo(r, k - 1)
    OBVIOUS
  <2>2. k \in 1..Len(r) /\ k - 1 \in 1..Len(r) /\ p \notin DOMAIN data
    BY <1>2, <2>1
  <2>3. Len(p) # 0
    BY <1>1, <1>3, <2>1, <2>2
  <2>4. p # <<>>
    BY <2>3
  <2>5. QED
    BY <1>4, <2>2, <2>4
<1>6. /\ DOMAIN G = DOMAIN tree \cup along
      /\ G = [p \in DOMAIN tree \cup along |->
                IF p \in along /\ Len(p) + 1 \in New
                THEN tree_node_insert(Old(p), r[Len(p) + 1]) ELSE Old(p)]
  <2>1. G = [p \in DOMAIN tree \cup along |->
               IF p \in along /\ Len(p) + 1 \in New
               THEN tree_node_insert(IF p \in DOMAIN tree \ fresh THEN tree[p]
                                     ELSE create_tree_node, r[Len(p) + 1])
               ELSE IF p \in DOMAIN tree \ fresh THEN tree[p] ELSE create_tree_node]
    BY DEF Grown
  <2>2. \A p : (IF p \in DOMAIN tree \ fresh THEN tree[p] ELSE create_tree_node) = Old(p)
    BY <1>5
  <2> HIDE DEF G, New, fresh, along, Old
  <2>3. QED
    BY <2>1, <2>2
<1> HIDE DEF G, New, fresh
<1>7. ASSUME NEW p \in DOMAIN tree \cup along
      PROVE  /\ p \in Seq(Labels) /\ Old(p) \in TreeNodes /\ NodeConsistent(Old(p))
             /\ \A l \in Labels : l \in Kept(Old(p)) <=> (p \in DOMAIN tree /\ l \in Kept(tree[p]))
  <2>1. p \in Seq(Labels)
    BY <1>3, <1>4
  <2>2. CASE p \in DOMAIN tree
    BY <1>4, <2>1, <2>2
  <2>3. CASE p \notin DOMAIN tree
    BY <2>1, <2>3, EmptyNode
  <2>4. QED
    BY <2>2, <2>3
<1>8. ASSUME NEW k \in 1..Len(r)
      PROVE  /\ UpTo(r, k) \in DOMAIN data
                <=> (UpTo(r, k - 1) \in DOMAIN tree /\ r[k] \in Kept(tree[UpTo(r, k - 1)]))
             /\ UpTo(r, k - 1) \in along /\ Len(UpTo(r, k - 1)) + 1 = k
  <2>1. UpTo(r, k) = Append(UpTo(r, k - 1), r[k])
    BY PathFacts
  <2>2. r[k] \in Labels /\ UpTo(r, k - 1) \in Seq(Labels)
    BY <1>1, <1>3
  <2>3. QED
    BY <1>1, <1>3, <2>1, <2>2, ElementIs DEF Kept
<1>9. ASSUME NEW p \in DOMAIN tree \cup along
      PROVE  /\ G[p] \in TreeNodes /\ NodeConsistent(G[p])
             /\ \A l \in Labels :
                  l \in Kept(G[p]) <=> \/ p \in DOMAIN tree /\ l \in Kept(tree[p])
                                       \/ \E k \in 1..Len(r) : p = UpTo(r, k - 1) /\ l = r[k]
  <2>1. CASE p \in along /\ Len(p) + 1 \in New
    <3>1. PICK k \in 1..Len(r) : p = UpTo(r, k - 1)
      BY <2>1
    <3>2. Len(p) + 1 = k /\ r[k] \in Labels /\ UpTo(r, k) \notin DOMAIN data
      BY <1>1, <1>2, <1>8, <2>1, <3>1
    <3>3. G[p] = tree_node_insert(Old(p), r[k])
      BY <1>6, <2>1, <3>2
    <3>4. ~tree_node_find(Old(p), r[k])
      <4>1. r[k] \notin Kept(Old(p))
        BY <1>7, <1>8, <3>1, <3>2
      <4>2. QED
        BY <3>2, <4>1 DEF Kept
    <3> HIDE DEF Old
    <3>5. G[p] \in TreeNodes /\ NodeConsistent(G[p]) /\ Kept(G[p]) = Kept(Old(p)) \cup {r[k]}
      BY <1>7, <3>2, <3>3, <3>4, InsertInNode
    <3>6. \A j \in 1..Len(r) : p = UpTo(r, j - 1) => j = k
      BY <1>8, <3>2
    <3>7. QED
      BY <1>7, <3>1, <3>5, <3>6
  <2>2. CASE ~(p \in along /\ Len(p) + 1 \in New)
    <3>1. G[p] = Old(p)
      BY <1>6, <2>2
    <3>2. ASSUME NEW k \in 1..Len(r), p = UpTo(r, k - 1)
          PROVE  p \in DOMAIN tree /\ r[k] \in Kept(tree[p])
      <4>1. k \notin New
        BY <1>8, <2>2, <3>2
      <4>2. QED
        BY <1>2, <1>8, <3>2, <4>1
    <3> HIDE DEF Old
    <3>3. QED
      BY <1>7, <3>1, <3>2
  <2>3. QED
    BY <2>1, <2>2
<1>10. G \in [DOMAIN G -> TreeNodes]
  <2>1. \A p \in DOMAIN G : G[p] \in TreeNodes
    BY <1>6, <1>9
  <2>2. G = [p \in DOMAIN G |-> G[p]]
    BY <1>6
  <2>3. QED
    BY <2>1, <2>2
<1>11. QED
  BY <1>6, <1>7, <1>9, <1>10 DEF G

\* The records at a path, none when there is no element.
Rec(p, t) == IF p \in DOMAIN data THEN data[p][t] ELSE <<>>

\* What tree_insert does when it takes the record: the elements of the path are
\* there, and no records but those of the path and type have changed.
Inserts(r, t, d) ==
    /\ Len(Rec(r, t)) < RRCntMax /\ ~Contains(Rec(r, t), d)
    /\ tree' = Grown(r)
    /\ DOMAIN data' = DOMAIN data \cup {UpTo(r, k) : k \in 1..Len(r)}
    /\ data' \in [DOMAIN data' -> [Types -> Seq(Datas)]]
    /\ \A p, u : u \in Types =>
         Rec(p, u)' = IF p = r /\ u = t THEN Append(Rec(r, t), d) ELSE Rec(p, u)

\* The records of an element are typed.
LEMMA RecordsTyped ==
    ASSUME TypeOK, NEW p, NEW t \in Types
    PROVE  Rec(p, t) \in Seq(Datas)
<1>1. p \in DOMAIN data => data[p] \in [Types -> Seq(Datas)]
  BY DEF TypeOK
<1>2. <<>> \in Seq(Datas)
  OBVIOUS
<1>3. QED
  BY <1>1, <1>2 DEF Rec

\* tree_insert leaves the tree as it is or takes the record.
LEMMA InsertIs ==
    ASSUME TreeInv, NEW r \in Seq(Labels), r # <<>>, NEW t \in Types, NEW d \in Datas,
           tree_insert(r, t, d)
    PROVE  UNCHANGED <<tree, data>> \/ Inserts(r, t, d)
<1> DEFINE new == {UpTo(r, k) : k \in NewLevels(r)}
           all == {UpTo(r, k) : k \in 1..Len(r)}
           kept == [p \in DOMAIN data \cup new |-> IF p \in new THEN NoRecords ELSE data[p]]
<1>1. new = all \ DOMAIN data
  <2>1. NewLevels(r) = {k \in 1..Len(r) : UpTo(r, k) \notin DOMAIN data}
    BY NewLevelsAre
  <2>2. QED
    BY <2>1
<1>2. r \in all
  <2>1. Len(r) \in Nat /\ Len(r) # 0
    BY EmptySeq
  <2>2. Len(r) \in 1..Len(r) /\ UpTo(r, Len(r)) = r
    BY <2>1, PathFacts
  <2>3. QED
    BY <2>2
<1>3. /\ data \in [DOMAIN data -> [Types -> Seq(Datas)]]
      /\ \A p \in DOMAIN data : data[p] \in [Types -> Seq(Datas)]
  BY DEF TreeInv, TypeOK
<1>4. NoRecords \in [Types -> Seq(Datas)] /\ \A u \in Types : NoRecords[u] = <<>>
  BY DEF NoRecords
<1>5. CASE UNCHANGED <<tree, data>>
  BY <1>5
<1>6. CASE /\ Accepts(kept[r][t], d) /\ tree' = Grown(r)
           /\ data' = [kept EXCEPT ![r][t] = Append(@, d)]
  <2> HIDE DEF new, all
  <2>1. DOMAIN kept = DOMAIN data \cup all /\ DOMAIN kept = DOMAIN data \cup new
    BY <1>1
  <2>2. ASSUME NEW p \in DOMAIN kept
        PROVE  /\ kept[p] \in [Types -> Seq(Datas)]
               /\ \A u \in Types : kept[p][u] = Rec(p, u)
    <3>1. CASE p \in DOMAIN data
      <4>1. kept[p] = data[p]
        BY <1>1, <3>1
      <4>2. QED
        BY <1>3, <3>1, <4>1 DEF Rec
    <3>2. CASE p \notin DOMAIN data
      <4>1. kept[p] = NoRecords
        BY <1>1, <2>1, <3>2
      <4>2. QED
        BY <1>4, <3>2, <4>1 DEF Rec
    <3>3. QED
      BY <3>1, <3>2
  <2>3. r \in DOMAIN kept
    BY <1>2, <2>1
  <2>4. kept = [p \in DOMAIN kept |-> kept[p]]
    OBVIOUS
  <2> HIDE DEF kept
  <2>5. kept[r][t] = Rec(r, t) /\ kept[r][t] \in Seq(Datas)
    BY <2>2, <2>3
  <2> DEFINE longer == Append(kept[r][t], d)
  <2>6. longer \in Seq(Datas)
    BY <2>5, AppendProperties
  <2>7. data' = [kept EXCEPT ![r] = [kept[r] EXCEPT ![t] = longer]]
    BY <1>6
  <2>8. /\ DOMAIN data' = DOMAIN kept
        /\ data'[r] = [kept[r] EXCEPT ![t] = longer]
        /\ \A p \in DOMAIN kept : p # r => data'[p] = kept[p]
        /\ data' = [p \in DOMAIN kept |-> data'[p]]
    <3> HIDE DEF longer
    <3>1. QED
      BY <2>3, <2>4, <2>7
  <2>9. /\ data'[r] \in [Types -> Seq(Datas)]
        /\ \A u \in Types : data'[r][u] = IF u = t THEN longer ELSE kept[r][u]
    <3>1. kept[r] \in [Types -> Seq(Datas)]
      BY <2>2, <2>3
    <3> HIDE DEF longer
    <3>2. QED
      BY <2>6, <2>8, <3>1
  <2>10. data' \in [DOMAIN data' -> [Types -> Seq(Datas)]]
    <3>1. \A p \in DOMAIN kept : data'[p] \in [Types -> Seq(Datas)]
      BY <2>2, <2>8, <2>9
    <3>2. QED
      BY <2>8, <3>1
  <2>11. ASSUME NEW p, NEW u \in Types
         PROVE  Rec(p, u)' = IF p = r /\ u = t THEN Append(Rec(r, t), d) ELSE Rec(p, u)
    <3>1. Rec(p, u)' = IF p \in DOMAIN data' THEN data'[p][u] ELSE <<>>
      BY DEF Rec
    <3>2. CASE p \notin DOMAIN kept
      <4>1. p \notin DOMAIN data /\ p # r
        BY <2>1, <2>3, <3>2
      <4>2. QED
        BY <2>8, <3>1, <3>2, <4>1 DEF Rec
    <3>3. CASE p = r
      <4>1. Rec(p, u)' = IF u = t THEN longer ELSE kept[r][u]
        BY <2>3, <2>8, <2>9, <3>1, <3>3
      <4>2. kept[r][u] = Rec(r, u)
        BY <2>2, <2>3
      <4>3. QED
        BY <2>5, <3>3, <4>1, <4>2
    <3>4. CASE p \in DOMAIN kept /\ p # r
      <4>1. Rec(p, u)' = kept[p][u]
        BY <2>8, <3>1, <3>4
      <4>2. kept[p][u] = Rec(p, u)
        BY <2>2, <3>4
      <4>3. QED
        BY <3>4, <4>1, <4>2
    <3>5. QED
      BY <3>2, <3>3, <3>4
  <2>12. Len(Rec(r, t)) < RRCntMax /\ ~Contains(Rec(r, t), d)
    BY <1>6, <2>5 DEF Accepts
  <2>13. DOMAIN data' = DOMAIN data \cup {UpTo(r, k) : k \in 1..Len(r)}
    BY <2>1, <2>8 DEF all
  <2>14. QED
    BY <1>6, <2>10, <2>11, <2>12, <2>13 DEF Inserts
<1>7. QED
  BY <1>5, <1>6 DEF tree_insert

\* An insertion keeps the tree consistent.
LEMMA InsertKeepsTree ==
    ASSUME TreeInv, NEW r \in Seq(Labels), NEW t \in Types, NEW d \in Datas,
           Inserts(r, t, d)
    PROVE  /\ DOMAIN tree' \subseteq Seq(Labels) /\ tree' \in [DOMAIN tree' -> TreeNodes]
           /\ DOMAIN data' \subseteq Seq(Labels)
           /\ data' \in [DOMAIN data' -> [Types -> Seq(Datas)]]
           /\ \A p \in DOMAIN data', u \in Types : Len(data'[p][u]) <= RRCntMax
           /\ TreeConsistent'
           /\ Closed'
<1>1. /\ DOMAIN tree' = DOMAIN tree \cup {UpTo(r, k - 1) : k \in 1..Len(r)}
      /\ tree' \in [DOMAIN tree' -> TreeNodes]
      /\ \A p \in DOMAIN tree' :
            /\ p \in Seq(Labels) /\ NodeConsistent(tree'[p])
            /\ \A l \in Labels :
                 l \in Kept(tree'[p])
                 <=> \/ p \in DOMAIN tree /\ l \in Kept(tree[p])
                     \/ \E k \in 1..Len(r) : p = UpTo(r, k - 1) /\ l = r[k]
  <2>1. tree' = Grown(r)
    BY DEF Inserts
  <2>2. QED
    BY <2>1, GrownIs, ZenonT(30)
<1>2. /\ DOMAIN data' = DOMAIN data \cup {UpTo(r, k) : k \in 1..Len(r)}
      /\ data' \in [DOMAIN data' -> [Types -> Seq(Datas)]]
  BY DEF Inserts
<1>3. /\ DOMAIN tree \subseteq Seq(Labels) /\ DOMAIN data \subseteq Seq(Labels)
      /\ \A p \in DOMAIN tree : p = <<>> \/ p \in DOMAIN data
      /\ \A p \in DOMAIN data : \A j \in 1..Len(p) : UpTo(p, j) \in DOMAIN data
      /\ DOMAIN data = UNION {{Append(p, l) : l \in Kept(tree[p])} : p \in DOMAIN tree}
      /\ TypeOK
  BY DEF TreeInv, TypeOK, TreeConsistent, Closed
<1>4. /\ Len(r) \in Nat
      /\ \A k \in 1..Len(r) : /\ k \in 0..Len(r) /\ k - 1 \in 0..Len(r) /\ r[k] \in Labels
                              /\ UpTo(r, k) = Append(UpTo(r, k - 1), r[k])
                              /\ UpTo(r, k) \in Seq(Labels) /\ Len(UpTo(r, k)) = k
  <2>1. /\ Len(r) \in Nat
        /\ \A k \in 1..Len(r) : k \in 0..Len(r) /\ k - 1 \in 0..Len(r) /\ r[k] \in Labels
    OBVIOUS
  <2>2. QED
    BY <2>1, UpToIs, PathFacts
<1>5. DOMAIN data' \subseteq Seq(Labels)
  BY <1>2, <1>3, <1>4
<1>6. ASSUME NEW p \in DOMAIN data', NEW u \in Types
      PROVE  Len(data'[p][u]) <= RRCntMax
  <2>1. data'[p][u] = IF p = r /\ u = t THEN Append(Rec(r, t), d) ELSE Rec(p, u)
    <3>1. Rec(p, u)' = data'[p][u]
      BY DEF Rec
    <3>2. QED
      BY <3>1 DEF Inserts
  <2>2. RRCntMax \in Nat /\ Len(Rec(r, t)) < RRCntMax
    BY DatabaseAssumption DEF Inserts
  <2>3. Rec(r, t) \in Seq(Datas)
    BY <1>3, RecordsTyped
  <2>4. Len(Append(Rec(r, t), d)) = Len(Rec(r, t)) + 1
    BY <2>3, AppendProperties
  <2>5. Len(Rec(r, t)) + 1 <= RRCntMax
    BY <2>2, <2>3
  <2>6. Len(Rec(p, u)) <= RRCntMax
    <3>1. p \in DOMAIN data => Len(data[p][u]) <= RRCntMax
      BY <1>3 DEF TypeOK
    <3>2. Len(<<>>) <= RRCntMax
      BY <2>2
    <3>3. QED
      BY <3>1, <3>2 DEF Rec
  <2>7. QED
    BY <2>1, <2>4, <2>5, <2>6
<1>7. ASSUME NEW p \in DOMAIN tree'
      PROVE  p = <<>> \/ p \in DOMAIN data'
  <2>1. CASE p \in DOMAIN tree
    BY <1>2, <1>3, <2>1
  <2>2. ASSUME NEW k \in 1..Len(r), p = UpTo(r, k - 1)
        PROVE  p = <<>> \/ p \in DOMAIN data'
    <3>1. CASE k = 1
      BY <2>2, <3>1, PathFacts
    <3>2. CASE k # 1
      <4>1. k - 1 \in 1..Len(r)
        BY <1>4, <3>2
      <4>2. QED
        BY <1>2, <2>2, <4>1
    <3>3. QED
      BY <3>1, <3>2
  <2>3. QED
    BY <1>1, <2>1, <2>2
<1>8. ASSUME NEW q
      PROVE  q \in DOMAIN data'
             <=> q \in UNION {{Append(p, l) : l \in Kept(tree'[p])} : p \in DOMAIN tree'}
  <2>1. ASSUME q \in DOMAIN data'
        PROVE  \E p \in DOMAIN tree' : \E l \in Kept(tree'[p]) : q = Append(p, l)
    <3>1. CASE q \in DOMAIN data
      <4>1. PICK p \in DOMAIN tree : \E l \in Kept(tree[p]) : q = Append(p, l)
        BY <1>3, <3>1
      <4>2. PICK l \in Kept(tree[p]) : q = Append(p, l)
        BY <4>1
      <4>3. p \in DOMAIN tree' /\ l \in Labels
        BY <1>1, <4>1, <4>2 DEF Kept
      <4>4. l \in Kept(tree'[p])
        BY <1>1, <4>1, <4>2, <4>3
      <4>5. QED
        BY <4>2, <4>3, <4>4
    <3>2. CASE q \in {UpTo(r, k) : k \in 1..Len(r)}
      <4>1. PICK k \in 1..Len(r) : q = UpTo(r, k)
        BY <3>2
      <4>2. q = Append(UpTo(r, k - 1), r[k]) /\ r[k] \in Labels
        BY <1>4, <4>1
      <4>3. UpTo(r, k - 1) \in DOMAIN tree'
        BY <1>1
      <4>4. r[k] \in Kept(tree'[UpTo(r, k - 1)])
        BY <1>1, <4>2, <4>3
      <4>5. QED
        BY <4>2, <4>3, <4>4
    <3>3. QED
      BY <1>2, <2>1, <3>1, <3>2
  <2>2. ASSUME NEW p \in DOMAIN tree', NEW l \in Kept(tree'[p])
        PROVE  Append(p, l) \in DOMAIN data'
    <3>1. l \in Labels
      BY DEF Kept
    <3>2. CASE p \in DOMAIN tree /\ l \in Kept(tree[p])
      <4>1. \E o \in DOMAIN tree : \E m \in Kept(tree[o]) : Append(p, l) = Append(o, m)
        BY <3>2
      <4>2. Append(p, l) \in UNION {{Append(o, m) : m \in Kept(tree[o])} : o \in DOMAIN tree}
        BY <4>1
      <4>3. QED
        BY <1>2, <1>3, <4>2
    <3>3. ASSUME NEW k \in 1..Len(r), p = UpTo(r, k - 1), l = r[k]
          PROVE  Append(p, l) \in DOMAIN data'
      BY <1>2, <1>4, <3>3
    <3>4. QED
      BY <1>1, <3>1, <3>2, <3>3
  <2>3. q \in UNION {{Append(p, l) : l \in Kept(tree'[p])} : p \in DOMAIN tree'}
        <=> \E p \in DOMAIN tree' : \E l \in Kept(tree'[p]) : q = Append(p, l)
    OBVIOUS
  <2>4. QED
    BY <2>1, <2>2, <2>3
<1>9. TreeConsistent'
  <2>1. DOMAIN data' = UNION {{Append(p, l) : l \in Kept(tree'[p])} : p \in DOMAIN tree'}
    BY <1>8
  <2>2. QED
    BY <1>1, <1>7, <2>1 DEF TreeConsistent
<1>10. Closed'
  <2>1. ASSUME NEW p \in DOMAIN data', NEW j \in 1..Len(p)
        PROVE  UpTo(p, j) \in DOMAIN data'
    <3>1. CASE p \in DOMAIN data
      BY <1>2, <1>3, <3>1
    <3>2. ASSUME NEW k \in 1..Len(r), p = UpTo(r, k)
          PROVE  UpTo(p, j) \in DOMAIN data'
      <4>1. j \in 1..k /\ j \in 0..k
        BY <1>4, <3>2
      <4>2. UpTo(p, j) = UpTo(r, j) /\ j \in 1..Len(r)
        BY <1>4, <3>2, <4>1, PathFacts
      <4>3. QED
        BY <1>2, <4>2
    <3>3. QED
      BY <1>2, <3>1, <3>2
  <2>2. QED
    BY <2>1 DEF Closed
<1>11. QED
  BY <1>1, <1>2, <1>5, <1>6, <1>9, <1>10

-----------------------------------------------------------------------------
(* Reading a line *)

\* Lower case is typed and lower case already.
LEMMA LowerIs ==
    ASSUME NEW n \in Seq(Labels)
    PROVE  /\ str_lower(n) \in Seq(Labels)
           /\ str_lower(str_lower(n)) = str_lower(n)
           /\ FirstLabel(n) \in Seq(Labels)
           /\ FirstLabel(FirstLabel(n)) = FirstLabel(n)
<1>1. /\ DOMAIN n = 1..Len(n) /\ Len(n) \in Nat /\ \A i \in 1..Len(n) : n[i] \in Labels
      /\ \A l \in Labels : Lower[l] \in Labels /\ Lower[Lower[l]] = Lower[l]
  BY DatabaseAssumption
<1> DEFINE m == str_lower(n)
<1>2. m = [i \in 1..Len(n) |-> Lower[n[i]]]
  BY <1>1 DEF str_lower
<1> HIDE DEF m
<1>3. m \in [1..Len(n) -> Labels]
  BY <1>1, <1>2
<1>4. m \in Seq(Labels) /\ DOMAIN m = 1..Len(n)
  BY <1>1, <1>3, FunctionIsSeq
<1>5. str_lower(m) = [i \in 1..Len(n) |-> Lower[m[i]]]
  BY <1>4 DEF str_lower
<1>6. \A i \in 1..Len(n) : Lower[m[i]] = m[i]
  BY <1>1, <1>2
<1>7. str_lower(m) = m
  BY <1>3, <1>5, <1>6
<1>8. /\ FirstLabel(n) \in Seq(Labels)
      /\ FirstLabel(FirstLabel(n)) = FirstLabel(n)
  <2>1. CASE n = <<>>
    BY <2>1 DEF FirstLabel
  <2>2. CASE n # <<>>
    <3>1. Head(n) \in Labels
      BY <2>2, HeadTailProperties
    <3>2. <<Head(n)>> \in Seq(Labels) /\ <<Head(n)>> # <<>> /\ Head(<<Head(n)>>) = Head(n)
      BY <3>1
    <3>3. QED
      BY <2>2, <3>2 DEF FirstLabel
  <2>3. QED
    BY <2>1, <2>2
<1>9. QED
  BY <1>4, <1>7, <1>8 DEF m

\* The first label of a name in lower case is in lower case.
LEMMA FirstIsLower ==
    ASSUME NEW n \in Seq(Labels), str_lower(n) = n
    PROVE  str_lower(FirstLabel(n)) = FirstLabel(n)
<1>1. CASE n = <<>>
  BY <1>1 DEF FirstLabel
<1>2. CASE n # <<>>
  <2>1. Len(n) \in Nat \ {0} /\ DOMAIN n = 1..Len(n)
    BY <1>2, EmptySeq
  <2>2. Lower[n[1]] = n[1]
    BY <2>1 DEF str_lower
  <2>3. FirstLabel(n) = <<n[1]>>
    BY <1>2, <2>1 DEF FirstLabel
  <2>4. DOMAIN <<n[1]>> = {1} /\ <<n[1]>>[1] = n[1]
    OBVIOUS
  <2>5. str_lower(<<n[1]>>) = [i \in {1} |-> n[1]]
    BY <2>2, <2>4 DEF str_lower
  <2>6. [i \in {1} |-> n[1]] = <<n[1]>>
    BY <2>4
  <2>7. QED
    BY <2>3, <2>5, <2>6
<1>3. QED
  BY <1>1, <1>2

\* The name that a line is read with.
NameRead(line) == str_lower(IF line.name = Missing THEN domainbuf ELSE line.name)

\* The address and the name that a line is read with are typed, and the name is
\* in lower case.
LEMMA ReadTypes ==
    ASSUME TypeOK, NEW line \in Lines
    PROVE  /\ Address(line) \in Addresses \cup {BadAddr}
           /\ NameRead(line) \in Seq(Labels)
           /\ str_lower(NameRead(line)) = NameRead(line)
<1> DEFINE n == IF line.name = Missing THEN domainbuf ELSE line.name
<1>1. /\ line.addr \in Addresses \cup {Missing, BadAddr}
      /\ line.name = Missing \/ line.name \in Seq(Labels)
      /\ ipbuf \in Addresses \cup {BadAddr} /\ domainbuf \in Seq(Labels)
  BY DatabaseAssumption DEF TypeOK
<1>2. Address(line) \in Addresses \cup {BadAddr}
  BY <1>1 DEF Address
<1>3. n \in Seq(Labels)
  BY <1>1
<1> HIDE DEF n
<1>4. str_lower(n) \in Seq(Labels) /\ str_lower(str_lower(n)) = str_lower(n)
  BY <1>3, LowerIs
<1>5. QED
  BY <1>2, <1>4 DEF NameRead, n

\* A line that is read inserts its record, or leaves the tree as it is.
LEMMA ReadEffect ==
    ASSUME TreeInv, NEW line \in Lines, ReadLine(line)
    PROVE  \/ UNCHANGED <<tree, data>>
           \/ /\ Address(line) \in Addresses /\ NameRead(line) # <<>>
              /\ Inserts(domain_rev(NameRead(line)), Address(line).type, Address(line).data)
<1> DEFINE addr == Address(line)
           name == NameRead(line)
<1>1. addr \in Addresses \cup {BadAddr} /\ name \in Seq(Labels)
  BY ReadTypes DEF TreeInv
<1>2. \/ /\ addr # BadAddr /\ name \notin LongNames \cup {<<>>}
         /\ tree_insert(domain_rev(name), addr.type, addr.data)
      \/ UNCHANGED <<tree, data>>
  BY DEF ReadLine, NameRead
<1> HIDE DEF addr, name
<1>3. CASE UNCHANGED <<tree, data>>
  BY <1>3
<1>4. CASE /\ addr # BadAddr /\ name \notin LongNames \cup {<<>>}
           /\ tree_insert(domain_rev(name), addr.type, addr.data)
  <2>1. addr \in Addresses /\ name # <<>>
    BY <1>1, <1>4
  <2>2. addr.type \in Types /\ addr.data \in Datas
    BY <2>1 DEF Addresses
  <2>3. domain_rev(name) \in Seq(Labels) /\ domain_rev(name) # <<>>
    BY <1>1, <2>1, ReverseIs
  <2>4. UNCHANGED <<tree, data>> \/ Inserts(domain_rev(name), addr.type, addr.data)
    BY <1>4, <2>2, <2>3, InsertIs
  <2>5. QED
    BY <2>1, <2>4 DEF addr, name
<1>5. QED
  BY <1>2, <1>3, <1>4

-----------------------------------------------------------------------------
(* TypeOK and TreeConsistent *)

\* The empty tree is consistent.
LEMMA TreeInvInit == Init => TreeInv
<1> SUFFICES ASSUME Init PROVE TreeInv
  OBVIOUS
<1>1. /\ DOMAIN tree = {<<>>} /\ tree[<<>>] = create_tree_node
      /\ DOMAIN data = {} /\ tree = [p \in {<<>>} |-> create_tree_node]
      /\ data = [p \in {} |-> NoRecords]
  BY DEF Init, tree_init
<1>2. <<>> \in Seq(Labels)
  OBVIOUS
<1>3. ipbuf \in Addresses \cup {BadAddr} /\ domainbuf \in Seq(Labels)
  BY DatabaseAssumption DEF Init
<1>4. nread \in 0..MaxLines /\ seen \subseteq Lines
  BY DatabaseAssumption DEF Init
<1>5. TypeOK
  <2>1. tree \in [DOMAIN tree -> TreeNodes]
    BY <1>1, EmptyNode
  <2>2. data \in [DOMAIN data -> [Types -> Seq(Datas)]]
    BY <1>1
  <2>3. QED
    BY <1>1, <1>2, <1>3, <1>4, <2>1, <2>2 DEF TypeOK
<1>6. TreeConsistent
  <2>1. UNION {{Append(p, l) : l \in Kept(tree[p])} : p \in DOMAIN tree} = {}
    BY <1>1, EmptyNode
  <2>2. QED
    BY <1>1, <2>1, EmptyNode DEF TreeConsistent
<1>7. Closed
  BY <1>1 DEF Closed
<1>8. QED
  BY <1>5, <1>6, <1>7 DEF TreeInv

\* Reading or skipping a line keeps the tree consistent.
LEMMA TreeInvStep == TreeInv /\ [Next]_vars => TreeInv'
<1> SUFFICES ASSUME TreeInv, [Next]_vars PROVE TreeInv'
  OBVIOUS
<1>1. TypeOK /\ TreeConsistent /\ Closed /\ MaxLines \in Nat
  BY DatabaseAssumption DEF TreeInv
<1>2. ASSUME UNCHANGED <<tree, data>>, ipbuf' \in Addresses \cup {BadAddr},
             domainbuf' \in Seq(Labels), nread' \in 0..MaxLines, seen' \subseteq Lines
      PROVE  TreeInv'
  <2>1. TypeOK'
    BY <1>1, <1>2 DEF TypeOK
  <2>2. TreeConsistent'
    <3>1. tree' = tree /\ data' = data
      BY <1>2
    <3>2. TreeConsistent' <=>
            /\ \A p \in DOMAIN tree' :
                 NodeConsistent(tree'[p]) /\ (p = <<>> \/ p \in DOMAIN data')
            /\ DOMAIN data' = UNION {{Append(p, l) : l \in Kept(tree'[p])} : p \in DOMAIN tree'}
      BY DEF TreeConsistent
    <3>3. QED
      BY <1>1, <3>1, <3>2 DEF TreeConsistent
  <2>3. Closed'
    BY <1>1, <1>2 DEF Closed
  <2>4. QED
    BY <2>1, <2>2, <2>3 DEF TreeInv
<1>3. ASSUME NEW line \in Lines, ReadLine(line)
      PROVE  TreeInv'
  <2> DEFINE addr == Address(line)
             name == NameRead(line)
  <2>1. addr \in Addresses \cup {BadAddr} /\ name \in Seq(Labels) /\ FirstLabel(name) \in Seq(Labels)
    BY <1>1, ReadTypes, LowerIs
  <2>2. /\ nread < MaxLines /\ nread' = nread + 1 /\ seen' = seen \cup {line}
        /\ ipbuf' = addr
        /\ domainbuf' = IF addr = BadAddr THEN name ELSE FirstLabel(name)
    BY <1>3 DEF ReadLine, NameRead
  <2>3. /\ ipbuf' \in Addresses \cup {BadAddr} /\ domainbuf' \in Seq(Labels)
        /\ nread' \in 0..MaxLines /\ seen' \subseteq Lines
    <3>1. nread \in 0..MaxLines /\ seen \subseteq Lines
      BY <1>1 DEF TypeOK
    <3> HIDE DEF addr, name
    <3>2. QED
      BY <1>1, <2>1, <2>2, <3>1
  <2>4. CASE UNCHANGED <<tree, data>>
    BY <1>2, <2>3, <2>4
  <2>5. CASE /\ addr \in Addresses
             /\ Inserts(domain_rev(name), addr.type, addr.data)
    <3>1. domain_rev(name) \in Seq(Labels) /\ addr.type \in Types /\ addr.data \in Datas
      BY <2>1, <2>5, ReverseIs DEF Addresses
    <3>2. /\ DOMAIN tree' \subseteq Seq(Labels) /\ tree' \in [DOMAIN tree' -> TreeNodes]
          /\ DOMAIN data' \subseteq Seq(Labels)
          /\ data' \in [DOMAIN data' -> [Types -> Seq(Datas)]]
          /\ \A p \in DOMAIN data', u \in Types : Len(data'[p][u]) <= RRCntMax
          /\ TreeConsistent' /\ Closed'
      <4> HIDE DEF addr, name
      <4>1. QED
        BY <2>5, <3>1, InsertKeepsTree
    <3>3. TypeOK'
      BY <2>3, <3>2 DEF TypeOK
    <3>4. QED
      BY <3>2, <3>3 DEF TreeInv
  <2>6. QED
    BY <1>3, <2>4, <2>5, ReadEffect
<1>4. ASSUME NEW line \in Lines, SkipLine(line)
      PROVE  TreeInv'
  <2>1. /\ nread < MaxLines /\ nread' = nread + 1 /\ seen' = seen \cup {line}
        /\ UNCHANGED <<tree, data, ipbuf, domainbuf>>
    BY <1>4 DEF SkipLine
  <2>2. /\ ipbuf' \in Addresses \cup {BadAddr} /\ domainbuf' \in Seq(Labels)
        /\ nread' \in 0..MaxLines /\ seen' \subseteq Lines
    BY <1>1, <2>1 DEF TypeOK
  <2>3. QED
    BY <1>2, <2>1, <2>2
<1>5. CASE UNCHANGED vars
  BY <1>1, <1>2, <1>5 DEF vars, TypeOK
<1>6. QED
  BY <1>3, <1>4, <1>5 DEF Next

\* The tree is consistent in every state.
LEMMA TreeInvHolds == Spec => []TreeInv
BY TreeInvInit, TreeInvStep, PTL DEF Spec

\* Every state of the loader is typed; no element has more records of a type
\* than its array has room for.
THEOREM TypeCorrect == Spec => []TypeOK
<1>1. TreeInv => TypeOK
  BY DEF TreeInv
<1>2. QED
  BY <1>1, TreeInvHolds, PTL

\* Whatever file is loaded, each node of the tree has each label once, finds it
\* again, counts it, and has switched to buckets when it had to.
THEOREM TreeStaysConsistent == Spec => []TreeConsistent
<1>1. TreeInv => TreeConsistent
  BY DEF TreeInv
<1>2. QED
  BY <1>1, TreeInvHolds, PTL

-----------------------------------------------------------------------------
(* What is found *)

\* select_database gives the records at the path of the name.
SelectFact ==
    TreeInv => \A n \in Names, t \in Types : select_database(n, t) = Rec(domain_rev(n), t)

\* It does in every state with a consistent tree: all levels are reached.
LEMMA SelectIs == SelectFact
<1> SUFFICES ASSUME TreeInv, NEW n \in Names, NEW t \in Types
             PROVE  select_database(n, t) = Rec(domain_rev(n), t)
  BY DEF SelectFact
<1> DEFINE r == domain_rev(n)
<1>1. n \in Seq(Labels) /\ n # <<>>
  BY DatabaseAssumption
<1>2. r \in Seq(Labels) /\ r # <<>>
  BY <1>1, ReverseIs
<1>3. select_database(n, t) = IF Reached(r, Len(r)) THEN data[r][t] ELSE <<>>
  BY DEF select_database, tree_search
<1> HIDE DEF r
<1>4. Len(r) \in 1..Len(r)
  BY <1>2, EmptySeq
<1>5. UpTo(r, Len(r)) = r
  BY <1>2, PathFacts
<1>6. Reached(r, Len(r)) <=> r \in DOMAIN data
  BY <1>2, <1>4, <1>5, ReachedIs
<1>7. QED
  BY <1>3, <1>6 DEF Rec, r

\* The same in the state after a step.
LEMMA SelectIsNext == SelectFact'
BY SelectIs, PTL

\* A step changes what is found for at most one name and type, and only by one
\* record at the end, which is new and for which there is room.
LEMMA FoundStep ==
    ASSUME TreeInv, TreeInv', NEW line \in Lines, ReadLine(line)
    PROVE  \/ \A n \in Names, t \in Types : select_database(n, t)' = select_database(n, t)
           \/ /\ Address(line) \in Addresses
              /\ NameRead(line) \in Names =>
                   LET old == select_database(NameRead(line), Address(line).type)
                   IN  Len(old) < RRCntMax /\ ~Contains(old, Address(line).data)
              /\ \A n \in Names, t \in Types :
                   select_database(n, t)' =
                     IF n = NameRead(line) /\ t = Address(line).type
                     THEN Append(select_database(n, t), Address(line).data)
                     ELSE select_database(n, t)
<1> DEFINE addr == Address(line)
           name == NameRead(line)
<1>1. ASSUME NEW n \in Names, NEW t \in Types
      PROVE  /\ select_database(n, t) = Rec(domain_rev(n), t)
             /\ select_database(n, t)' = Rec(domain_rev(n), t)'
  <2>1. select_database(n, t) = Rec(domain_rev(n), t)
    BY SelectIs DEF SelectFact
  <2>2. select_database(n, t)' = Rec(domain_rev(n), t)'
    BY SelectIsNext DEF SelectFact
  <2>3. QED
    BY <2>1, <2>2
<1>2. name \in Seq(Labels)
  BY ReadTypes DEF TreeInv
<1>3. CASE UNCHANGED <<tree, data>>
  <2>1. \A p, t : Rec(p, t)' = Rec(p, t)
    BY <1>3 DEF Rec
  <2>2. QED
    BY <1>1, <2>1
<1>4. CASE addr \in Addresses /\ Inserts(domain_rev(name), addr.type, addr.data)
  <2>1. addr.type \in Types
    BY <1>4 DEF Addresses
  <2> HIDE DEF addr, name
  <2>2. /\ Len(Rec(domain_rev(name), addr.type)) < RRCntMax
        /\ ~Contains(Rec(domain_rev(name), addr.type), addr.data)
        /\ \A p, u : u \in Types =>
             Rec(p, u)' = IF p = domain_rev(name) /\ u = addr.type
                          THEN Append(Rec(domain_rev(name), addr.type), addr.data) ELSE Rec(p, u)
    BY <1>4 DEF Inserts
  <2>3. ASSUME NEW n \in Names, NEW t \in Types
        PROVE  select_database(n, t)' =
                 IF n = name /\ t = addr.type
                 THEN Append(select_database(n, t), addr.data)
                 ELSE select_database(n, t)
    <3>1. n = name <=> domain_rev(n) = domain_rev(name)
      BY <1>2, DatabaseAssumption, ReverseInjective
    <3>2. Rec(domain_rev(n), t)' =
            IF domain_rev(n) = domain_rev(name) /\ t = addr.type
            THEN Append(Rec(domain_rev(name), addr.type), addr.data) ELSE Rec(domain_rev(n), t)
      BY <2>2
    <3>3. CASE n = name /\ t = addr.type
      BY <1>1, <3>1, <3>2, <3>3
    <3>4. CASE ~(n = name /\ t = addr.type)
      BY <1>1, <3>1, <3>2, <3>4
    <3>5. QED
      BY <3>3, <3>4
  <2>4. ASSUME name \in Names
        PROVE  /\ Len(select_database(name, addr.type)) < RRCntMax
               /\ ~Contains(select_database(name, addr.type), addr.data)
    <3>1. select_database(name, addr.type) = Rec(domain_rev(name), addr.type)
      BY <1>1, <2>1, <2>4
    <3>2. QED
      BY <2>2, <3>1
  <2>5. QED
    BY <1>4, <2>3, <2>4 DEF addr, name
<1>5. QED
  BY <1>3, <1>4, ReadEffect

\* What is found is typed.
LEMMA FoundTyped ==
    ASSUME TreeInv, NEW n \in Names, NEW t \in Types
    PROVE  select_database(n, t) \in Seq(Datas)
<1>1. select_database(n, t) = Rec(domain_rev(n), t)
  BY SelectIs DEF SelectFact
<1>2. QED
  BY <1>1, RecordsTyped DEF TreeInv

\* Other steps change nothing that is found.
LEMMA FoundStays ==
    ASSUME UNCHANGED <<tree, data>>
    PROVE  \A n, t : select_database(n, t)' = select_database(n, t)
BY DEF select_database, tree_search, Reached

\* The tree implements the table: every insertion is one of the table or does not
\* concern its names, and what the table has can be found.
THEOREM TreeIsTable == Spec => ImplementsMap
<1>1. Init => Map!Init
  <2> SUFFICES ASSUME Init PROVE Map!Init
    OBVIOUS
  <2>1. TreeInv /\ DOMAIN data = {}
    BY TreeInvInit DEF Init, tree_init
  <2>2. \A n \in Names, t \in Types : select_database(n, t) = <<>>
    BY <2>1, SelectIs DEF SelectFact, Rec
  <2>3. QED
    BY <2>2 DEF Map!Init, Found
<1>2. TreeInv /\ TreeInv' /\ [Next]_vars => [Map!Next]_Found
  <2> SUFFICES ASSUME TreeInv, TreeInv', [Next]_vars
               PROVE  [Map!Next]_Found
    OBVIOUS
  <2>1. ASSUME \A n \in Names, t \in Types : select_database(n, t)' = select_database(n, t)
        PROVE  Found' = Found
    BY <2>1 DEF Found
  <2>2. ASSUME NEW line \in Lines, ReadLine(line)
        PROVE  [Map!Next]_Found
    <3> DEFINE addr == Address(line)
               name == NameRead(line)
               old == select_database(name, addr.type)
    <3>1. CASE \A n \in Names, t \in Types : select_database(n, t)' = select_database(n, t)
      BY <2>1, <3>1
    <3>2. CASE /\ addr \in Addresses
               /\ name \in Names => Len(old) < RRCntMax /\ ~Contains(old, addr.data)
               /\ \A n \in Names, t \in Types :
                    select_database(n, t)' = IF n = name /\ t = addr.type
                                             THEN Append(select_database(n, t), addr.data)
                                             ELSE select_database(n, t)
      <4>1. CASE name \notin Names
        <5> HIDE DEF addr, name, old
        <5>1. \A n \in Names, t \in Types : select_database(n, t)' = select_database(n, t)
          BY <3>2, <4>1
        <5>2. QED
          BY <2>1, <5>1
      <4>2. CASE name \in Names
        <5>1. addr.type \in Types /\ addr.data \in Datas
          BY <3>2 DEF Addresses
        <5> HIDE DEF addr, name
        <5>2. Found[name][addr.type] = old
          BY <4>2, <5>1 DEF Found
        <5>3. old \in Seq(Datas)
          BY <4>2, <5>1, FoundTyped
        <5> HIDE DEF old
        <5>4. \A i \in DOMAIN old : old[i] # addr.data
          BY <3>2, <4>2, <5>3 DEF Contains
        <5>5. Found' = [Found EXCEPT ![name][addr.type] = Append(Found[name][addr.type], addr.data)]
          <6> DEFINE row == [Found[name] EXCEPT ![addr.type] = Append(old, addr.data)]
          <6>1. Found' = [n \in Names |-> [t \in Types |-> select_database(n, t)']]
            BY DEF Found
          <6>2. ASSUME NEW n \in Names
                PROVE  [t \in Types |-> select_database(n, t)'] = IF n = name THEN row ELSE Found[n]
            <7>1. Found[n] = [t \in Types |-> select_database(n, t)]
              BY DEF Found
            <7>2. CASE n = name
              <8>1. \A t \in Types : select_database(n, t)' = row[t]
                BY <3>2, <5>1, <7>1, <7>2 DEF old
              <8>2. row = [t \in Types |-> row[t]]
                BY <7>1, <7>2
              <8>3. QED
                BY <7>2, <8>1, <8>2
            <7>3. CASE n # name
              BY <3>2, <7>1, <7>3
            <7>4. QED
              BY <7>2, <7>3
          <6>3. Found = [n \in Names |-> Found[n]]
            BY DEF Found
          <6>4. Found' = [n \in Names |-> IF n = name THEN row ELSE Found[n]]
            BY <6>1, <6>2
          <6>5. Found' = [Found EXCEPT ![name] = row]
            <7> HIDE DEF row
            <7>1. QED
              BY <4>2, <6>3, <6>4
          <6>6. QED
            BY <5>2, <6>5
        <5>6. Map!Insert(name, addr.type, addr.data)
          BY <3>2, <4>2, <5>2, <5>4, <5>5 DEF Map!Insert
        <5>7. QED
          BY <4>2, <5>1, <5>6 DEF Map!Next
      <4>3. QED
        BY <4>1, <4>2
    <3>3. QED
      BY <2>2, <3>1, <3>2, FoundStep
  <2>3. ASSUME NEW line \in Lines, SkipLine(line)
        PROVE  [Map!Next]_Found
    BY <2>1, <2>3, FoundStays DEF SkipLine
  <2>4. CASE UNCHANGED vars
    BY <2>1, <2>4, FoundStays DEF vars
  <2>5. QED
    BY <2>2, <2>3, <2>4 DEF Next
<1>3. QED
  BY <1>1, <1>2, TreeInvHolds, PTL DEF Spec, ImplementsMap, Map!Spec

-----------------------------------------------------------------------------
(* RecordsComeFromFile *)

\* The buffers hold an address of a line, or of before the first, and a name of
\* one or its first label.
BuffersKnown ==
    /\ \E line \in seen \cup Garbage : line.addr = ipbuf
    /\ \E line \in seen \cup Garbage :
         Named(line, str_lower(domainbuf)) \/ Starts(line, str_lower(domainbuf))

FileInv == TreeInv /\ BuffersKnown /\ RecordsComeFromFile

\* Before the first line the buffers are known and nothing is found.
LEMMA FileInvInit == Init => FileInv
<1> SUFFICES ASSUME Init PROVE FileInv
  OBVIOUS
<1>1. TreeInv /\ DOMAIN data = {}
  BY TreeInvInit DEF Init, tree_init
<1>2. BuffersKnown
  <2>1. PICK g \in Garbage : ipbuf = g.addr /\ domainbuf = g.name
    BY DEF Init
  <2>2. Named(g, str_lower(domainbuf))
    BY <2>1, DatabaseAssumption DEF Named
  <2>3. QED
    BY <2>1, <2>2 DEF BuffersKnown
<1>3. RecordsComeFromFile
  <2>1. ASSUME NEW n \in Names, NEW t \in Types
        PROVE  DOMAIN select_database(n, t) = {}
    <3>1. select_database(n, t) = <<>>
      BY <1>1, SelectIs DEF SelectFact, Rec
    <3>2. QED
      BY <3>1
  <2>2. QED
    BY <2>1 DEF RecordsComeFromFile
<1>4. QED
  BY <1>1, <1>2, <1>3 DEF FileInv

\* The lines that were read are read for ever.
LEMMA FromFileStays ==
    ASSUME NEW n, NEW a, FromFile(n, a), seen \subseteq seen'
    PROVE  FromFile(n, a)'
<1>1. CASE \E line \in seen : line.addr = a /\ Named(line, n)
  BY <1>1 DEF FromFile
<1>2. CASE /\ \E line \in seen : Missing \in {line.addr, line.name}
           /\ \E line \in seen \cup Garbage : line.addr = a
           /\ \E line \in seen \cup Garbage : Named(line, n) \/ Starts(line, n)
  <2>1. \E line \in seen' : Missing \in {line.addr, line.name}
    BY <1>2
  <2>2. \E line \in seen' \cup Garbage : line.addr = a
    BY <1>2
  <2>3. \E line \in seen' \cup Garbage : Named(line, n) \/ Starts(line, n)
    BY <1>2
  <2>4. QED
    BY <2>1, <2>2, <2>3 DEF FromFile
<1>3. QED
  BY <1>1, <1>2 DEF FromFile

\* A line gives the buffers and its record an address and a name that are known.
LEMMA LineIsKnown ==
    ASSUME FileInv, NEW line \in Lines, ReadLine(line)
    PROVE  /\ \E l \in seen' \cup Garbage : l.addr = Address(line)
           /\ \E l \in seen' \cup Garbage : Named(l, NameRead(line)) \/ Starts(l, NameRead(line))
           /\ \A n, a : n = NameRead(line) /\ a = Address(line) => FromFile(n, a)'
<1>1. seen' = seen \cup {line}
  BY DEF ReadLine
<1>2. \E l \in seen' \cup Garbage : l.addr = Address(line)
  <2>1. CASE line.addr = Missing
    BY <1>1, <2>1 DEF FileInv, BuffersKnown, Address
  <2>2. CASE line.addr # Missing
    BY <1>1, <2>2 DEF Address
  <2>3. QED
    BY <2>1, <2>2
<1>3. \E l \in seen' \cup Garbage : Named(l, NameRead(line)) \/ Starts(l, NameRead(line))
  <2>1. CASE line.name = Missing
    BY <1>1, <2>1 DEF FileInv, BuffersKnown, NameRead
  <2>2. CASE line.name # Missing
    BY <1>1, <2>2 DEF NameRead, Named
  <2>3. QED
    BY <2>1, <2>2
<1>4. ASSUME NEW n, NEW a, n = NameRead(line), a = Address(line)
      PROVE  FromFile(n, a)'
  <2>1. CASE Missing \in {line.addr, line.name}
    <3>1. \E l \in seen' : Missing \in {l.addr, l.name}
      BY <1>1, <2>1
    <3>2. QED
      BY <1>2, <1>3, <1>4, <3>1 DEF FromFile
  <2>2. CASE Missing \notin {line.addr, line.name}
    <3>1. line \in seen' /\ line.addr = a /\ Named(line, n)
      BY <1>1, <1>4, <2>2 DEF Address, NameRead, Named
    <3>2. QED
      BY <3>1 DEF FromFile
  <2>3. QED
    BY <2>1, <2>2
<1>5. QED
  BY <1>2, <1>3, <1>4

\* Every line leaves buffers that are known, and records from the file.
LEMMA FileInvStep == FileInv /\ TreeInv' /\ [Next]_vars => FileInv'
<1> SUFFICES ASSUME FileInv, TreeInv', [Next]_vars PROVE FileInv'
  OBVIOUS
<1>1. TreeInv /\ BuffersKnown /\ RecordsComeFromFile
  BY DEF FileInv
<1>2. ASSUME UNCHANGED <<tree, data, ipbuf, domainbuf>>, seen \subseteq seen'
      PROVE  FileInv'
  <2>1. BuffersKnown'
    BY <1>1, <1>2 DEF BuffersKnown
  <2>2. \A n, t : select_database(n, t)' = select_database(n, t)
    BY <1>2, FoundStays
  <2>3. ASSUME NEW n \in Names, NEW t \in Types, NEW i, i \in DOMAIN select_database(n, t)'
        PROVE  FromFile(n, [type |-> t, data |-> select_database(n, t)[i]])'
    <3>1. FromFile(n, [type |-> t, data |-> select_database(n, t)[i]])
      BY <1>1, <2>2, <2>3 DEF RecordsComeFromFile
    <3>2. PICK a : a = [type |-> t, data |-> select_database(n, t)[i]]
      OBVIOUS
    <3>3. FromFile(n, a)'
      BY <1>2, <3>1, <3>2, FromFileStays
    <3>4. [type |-> t, data |-> select_database(n, t)'[i]] = a
      BY <2>2, <3>2
    <3>5. QED
      BY <3>3, <3>4 DEF FromFile
  <2>4. QED
    BY <2>1, <2>3 DEF FileInv, RecordsComeFromFile
<1>3. ASSUME NEW line \in Lines, ReadLine(line)
      PROVE  FileInv'
  <2>1. PICK name, addr : name = NameRead(line) /\ addr = Address(line)
    OBVIOUS
  <2>2. /\ \E l \in seen' \cup Garbage : l.addr = addr
        /\ \E l \in seen' \cup Garbage : Named(l, name) \/ Starts(l, name)
        /\ FromFile(name, addr)'
    BY <1>3, <2>1, LineIsKnown
  <2>3. /\ seen \subseteq seen' /\ ipbuf' = addr
        /\ domainbuf' = IF addr = BadAddr THEN name ELSE FirstLabel(name)
    BY <1>3, <2>1 DEF ReadLine, NameRead
  <2>4. name \in Seq(Labels) /\ str_lower(name) = name
    BY <1>1, <2>1, ReadTypes DEF TreeInv
  <2>5. BuffersKnown'
    <3>1. \E l \in seen' \cup Garbage : Named(l, str_lower(domainbuf')) \/ Starts(l, str_lower(domainbuf'))
      <4>1. CASE addr = BadAddr
        BY <2>2, <2>3, <2>4, <4>1
      <4>2. CASE addr # BadAddr
        <5>1. str_lower(domainbuf') = FirstLabel(name)
          BY <2>3, <2>4, <4>2, FirstIsLower
        <5>2. PICK l \in seen' \cup Garbage : Named(l, name) \/ Starts(l, name)
          BY <2>2
        <5>3. CASE Named(l, name)
          BY <5>1, <5>2, <5>3 DEF Named, Starts
        <5>4. CASE Starts(l, name)
          <6>1. FirstLabel(name) = name
            <7>1. l.name \in Seq(Labels)
              <8>1. seen' \subseteq Lines /\ l.name # Missing
                BY <5>4 DEF TreeInv, TypeOK, Starts
              <8>2. QED
                BY <5>2, <8>1, DatabaseAssumption
            <7>2. str_lower(l.name) \in Seq(Labels)
              BY <7>1, LowerIs
            <7>3. QED
              BY <5>4, <7>2, LowerIs DEF Starts
          <6>2. QED
            BY <5>1, <5>2, <5>4, <6>1
        <5>5. QED
          BY <5>2, <5>3, <5>4
      <4>3. QED
        BY <4>1, <4>2
    <3>2. QED
      BY <2>2, <2>3, <3>1 DEF BuffersKnown
  <2>6. ASSUME NEW n \in Names, NEW t \in Types, NEW i, i \in DOMAIN select_database(n, t)'
        PROVE  FromFile(n, [type |-> t, data |-> select_database(n, t)[i]])'
    <3> DEFINE old == select_database(n, t)
    <3>1. old \in Seq(Datas)
      BY <1>1, FoundTyped
    <3>2. ASSUME NEW j \in DOMAIN old, select_database(n, t)'[i] = old[j]
          PROVE  FromFile(n, [type |-> t, data |-> select_database(n, t)[i]])'
      <4>1. PICK a : a = [type |-> t, data |-> old[j]]
        OBVIOUS
      <4>2. FromFile(n, a)
        BY <1>1, <4>1 DEF RecordsComeFromFile
      <4>3. FromFile(n, a)'
        BY <2>3, <4>2, FromFileStays
      <4>4. [type |-> t, data |-> select_database(n, t)'[i]] = a
        BY <3>2, <4>1
      <4>5. QED
        BY <4>3, <4>4 DEF FromFile
    <3>3. CASE select_database(n, t)' = old
      BY <2>6, <3>2, <3>3
    <3>4. CASE /\ addr \in Addresses /\ n = name /\ t = addr.type
               /\ select_database(n, t)' = Append(old, addr.data)
      <4>1. addr.data \in Datas /\ addr = [type |-> addr.type, data |-> addr.data]
        BY <3>4 DEF Addresses
      <4> HIDE DEF old
      <4>2. /\ DOMAIN Append(old, addr.data) = 1..Len(old) + 1 /\ DOMAIN old = 1..Len(old)
            /\ Len(old) \in Nat
            /\ \A j \in 1..Len(old) : Append(old, addr.data)[j] = old[j]
            /\ Append(old, addr.data)[Len(old) + 1] = addr.data
        BY <3>1, <4>1, AppendProperties
      <4>3. CASE i = Len(old) + 1
        <5>1. [type |-> t, data |-> select_database(n, t)'[i]] = addr
          BY <3>4, <4>1, <4>2, <4>3
        <5>2. QED
          BY <2>2, <3>4, <5>1 DEF FromFile
      <4>4. CASE i # Len(old) + 1
        <5>1. i \in DOMAIN old
          BY <2>6, <3>4, <4>2, <4>4
        <5>2. select_database(n, t)'[i] = old[i]
          BY <3>4, <4>2, <5>1
        <5>3. QED
          BY <3>2, <5>1, <5>2
      <4>5. QED
        BY <4>3, <4>4
    <3>5. QED
      BY <1>1, <1>3, <2>1, <3>3, <3>4, FoundStep
  <2>7. QED
    BY <2>5, <2>6 DEF FileInv, RecordsComeFromFile
<1>4. ASSUME NEW line \in Lines, SkipLine(line)
      PROVE  FileInv'
  BY <1>2, <1>4 DEF SkipLine
<1>5. CASE UNCHANGED vars
  BY <1>2, <1>5 DEF vars
<1>6. QED
  BY <1>3, <1>4, <1>5 DEF Next

\* Whatever file is loaded, a record that is found stands in a line of the file
\* or is made of what lines with a missing field left in the buffers.
THEOREM FoundIsFromFile == Spec => []RecordsComeFromFile
<1>1. FileInv => RecordsComeFromFile
  BY DEF FileInv
<1>2. QED
  BY <1>1, FileInvInit, FileInvStep, TreeInvHolds, PTL DEF Spec
=============================================================================
