---------------------------- MODULE CacheProofs ----------------------------
(* Proofs that the cache's invariants hold for every set of records, every
   ttl and every size limit. *)
EXTENDS CacheRecency, NumberLemmas, FiniteSetTheorems, SequenceTheorems, TLAPS

Entry == [rr : RRs, ttl : Nat, expire : Nat]

\* rr_cmp does not depend on the order of its arguments.
LEMMA RrCmpSymmetric ==
    ASSUME NEW r, NEW s, rr_cmp(r, s)
    PROVE  rr_cmp(s, r)
BY DEF rr_cmp, SameBytes

\* A function on 1..n into S is a sequence over S of length n.
LEMMA FunctionIsSeq ==
    ASSUME NEW S, NEW n \in Nat, NEW f \in [1..n -> S]
    PROVE  f \in Seq(S) /\ Len(f) = n
OBVIOUS

\* Prepend keeps the old entries, one place further down.
LEMMA PrependType ==
    ASSUME NEW S, NEW s \in Seq(S), NEW e \in S
    PROVE  /\ Prepend(e, s) \in Seq(S)
           /\ Len(Prepend(e, s)) = Len(s) + 1
           /\ Prepend(e, s)[1] = e
           /\ \A i \in 2..Len(s) + 1 : Prepend(e, s)[i] = s[i - 1]
<1>1. Len(s) \in Nat /\ s \in [1..Len(s) -> S]
  BY LenProperties
<1>2. Prepend(e, s) \in [1..Len(s) + 1 -> S]
  BY <1>1 DEF Prepend
<1>3. Prepend(e, s) \in Seq(S) /\ Len(Prepend(e, s)) = Len(s) + 1
  BY <1>1, <1>2, FunctionIsSeq
<1>4. QED
  BY <1>1, <1>3 DEF Prepend

\* MoveToFront rearranges the entries: place i holds what was at From(i).
From(i, k) == IF i = 1 THEN k ELSE IF i <= k THEN i - 1 ELSE i

\* From is a permutation of the places.
LEMMA MoveToFrontType ==
    ASSUME NEW S, NEW s \in Seq(S), NEW k \in 1..Len(s)
    PROVE  /\ MoveToFront(s, k) \in Seq(S)
           /\ Len(MoveToFront(s, k)) = Len(s)
           /\ \A i \in 1..Len(s) : /\ From(i, k) \in 1..Len(s)
                                   /\ MoveToFront(s, k)[i] = s[From(i, k)]
           /\ \A i, j \in 1..Len(s) : From(i, k) = From(j, k) => i = j
<1>1. Len(s) \in Nat /\ s \in [1..Len(s) -> S]
  BY LenProperties
<1>2. \A i \in 1..Len(s) : /\ From(i, k) \in 1..Len(s)
                           /\ MoveToFront(s, k)[i] = s[From(i, k)]
  BY <1>1 DEF From, MoveToFront
<1>3. MoveToFront(s, k) \in [1..Len(s) -> S]
  BY <1>1 DEF MoveToFront
<1>4. MoveToFront(s, k) \in Seq(S) /\ Len(MoveToFront(s, k)) = Len(s)
  BY <1>1, <1>3, FunctionIsSeq
<1>5. \A i, j \in 1..Len(s) : From(i, k) = From(j, k) => i = j
  BY <1>1 DEF From
<1>6. QED
  BY <1>2, <1>4, <1>5

\* What survives a refresh: the places kept are finitely many, each survivor
\* comes from a place of its own, and it was alive.
LEMMA SurvivorsOf ==
    ASSUME TypeOK, NEW g \in Increasing(Kept)
    PROVE  /\ Cardinality(Kept) \in Nat
           /\ \A i \in 1..Cardinality(Kept) :
                g[i] \in Positions /\ entries[g[i]].expire > now
           /\ \A i, j \in 1..Cardinality(Kept) : g[i] = g[j] => i = j
<1>1. Len(entries) \in Nat
  BY LenProperties DEF TypeOK
<1>2. IsFiniteSet(Positions)
  BY <1>1, FS_Interval DEF Positions
<1>3. Kept \subseteq Positions
  BY DEF Kept
<1>4. Cardinality(Kept) \in Nat
  BY <1>2, <1>3, FS_Subset, FS_CardinalityType
<1>5. g \in [1..Cardinality(Kept) -> Kept]
      /\ \A i, j \in 1..Cardinality(Kept) : i < j => g[i] < g[j]
  BY DEF Increasing
<1>6. \A i \in 1..Cardinality(Kept) : g[i] \in Kept
  BY <1>5
<1>7. \A i \in 1..Cardinality(Kept) :
        g[i] \in Positions /\ entries[g[i]].expire > now
  BY <1>6 DEF Kept, Live
<1>8. \A i \in 1..Cardinality(Kept) : g[i] \in Int
  BY <1>1, <1>7 DEF Positions
<1>9. ASSUME NEW i \in 1..Cardinality(Kept), NEW j \in 1..Cardinality(Kept),
             g[i] = g[j]
      PROVE  i = j
  <2>1. i \in Int /\ j \in Int /\ g[i] \in Int
    BY <1>4, <1>8
  <2>2. ~(i < j) /\ ~(j < i)
    BY <1>5, <1>8, <1>9, <2>1
  <2>3. QED
    BY <2>1, <2>2
<1>10. QED
  BY <1>4, <1>7, <1>9

\* The cases of a step of the cache: an entry is moved to the front, a record
\* is added that matches no entry, the timer runs, or time passes.
MoveStep == /\ \E k \in Positions : entries' = MoveToFront(entries, k)
            /\ UNCHANGED <<now, refreshed>>
AddStep == /\ \E r \in RRs, t \in TTLs :
                /\ \A k \in Positions : ~rr_cmp(entries[k].rr, r)
                /\ entries' = Prepend(create_cache_node(r, t), entries)
           /\ UNCHANGED <<now, refreshed>>

\* There is no other step.
LEMMA StepCases ==
    ASSUME [Next]_cacheVars
    PROVE  MoveStep \/ AddStep \/ refresh_cache \/ Tick \/ UNCHANGED cacheVars
BY DEF Next, Put, cache_put_rr, MoveStep, AddStep

-----------------------------------------------------------------------------
\* Every entry of the cache is a record with a ttl and an expiry time, and the
\* last refresh is never in the future.
THEOREM TypeCorrect == Spec => []TypeOK
<1>1. Init => TypeOK
  <2>1. <<>> \in Seq(Entry)
    BY EmptySeq
  <2>2. QED
    BY <2>1 DEF Init, init_cache, TypeOK, Entry
<1>2. TypeOK /\ [Next]_cacheVars => TypeOK'
  <2> SUFFICES ASSUME TypeOK, [Next]_cacheVars PROVE TypeOK'
    OBVIOUS
  <2> USE DEF Entry
  <2>0. entries \in Seq(Entry) /\ now \in Nat /\ refreshed \in 0..now
    BY DEF TypeOK
  <2>1. CASE MoveStep
    BY <2>0, <2>1, MoveToFrontType DEF MoveStep, TypeOK, Positions
  <2>2. CASE AddStep
    <3>1. PICK r \in RRs, t \in TTLs :
             entries' = Prepend(create_cache_node(r, t), entries)
      BY <2>2 DEF AddStep
    <3>2. create_cache_node(r, t) \in Entry
      BY <2>0, CacheAssumption DEF create_cache_node, CacheAssumption
    <3>3. entries' \in Seq(Entry)
      BY <2>0, <3>1, <3>2, PrependType
    <3>4. QED
      BY <2>0, <2>2, <3>3 DEF AddStep, TypeOK
  <2>3. CASE refresh_cache
    <3>1. PICK g \in Increasing(Kept) :
             entries' = [i \in 1..Cardinality(Kept) |-> Aged(entries[g[i]])]
      BY <2>3 DEF refresh_cache
    <3>2. \A k \in Positions : entries[k] \in Entry
      BY <2>0, ElementOfSeq DEF Positions
    <3>3. \A k \in Positions : entries[k].expire > now => Aged(entries[k]) \in Entry
      <4> SUFFICES ASSUME NEW k \in Positions, entries[k].expire > now
                   PROVE  Aged(entries[k]) \in Entry
        OBVIOUS
      <4>1. entries[k].expire - now \in Nat
        BY <2>0, <3>2
      <4>2. QED
        BY <3>2, <4>1 DEF Aged
    <3>4. entries' \in [1..Cardinality(Kept) -> Entry]
      BY <3>1, <3>3, SurvivorsOf
    <3>5. entries' \in Seq(Entry)
      BY <3>4, SurvivorsOf, FunctionIsSeq
    <3>6. QED
      BY <2>0, <2>3, <3>5 DEF refresh_cache, TypeOK
  <2>4. CASE Tick
    BY <2>0, <2>4 DEF Tick, TypeOK
  <2>5. CASE UNCHANGED cacheVars
    BY <2>0, <2>5 DEF cacheVars, TypeOK
  <2>6. QED
    BY <2>1, <2>2, <2>3, <2>4, <2>5, StepCases
<1>3. QED
  BY <1>1, <1>2, PTL DEF Spec

-----------------------------------------------------------------------------
\* However records are put, by whichever workers, the cache never holds two
\* that rr_cmp takes for the same.
THEOREM DuplicatesNever == Spec => []NoDuplicates
<1>1. Init => NoDuplicates
  BY EmptySeq DEF Init, init_cache, NoDuplicates, Positions
<1>2. TypeOK /\ NoDuplicates /\ [Next]_cacheVars => NoDuplicates'
  <2> SUFFICES ASSUME TypeOK, NoDuplicates, [Next]_cacheVars PROVE NoDuplicates'
    OBVIOUS
  <2>0. entries \in Seq(Entry) /\ Len(entries) \in Nat
    BY LenProperties DEF TypeOK, Entry
  <2>1. CASE MoveStep
    <3>1. PICK k \in 1..Len(entries) : entries' = MoveToFront(entries, k)
      BY <2>1 DEF MoveStep, Positions
    <3>2. /\ Len(entries') = Len(entries)
          /\ \A i \in 1..Len(entries) : /\ From(i, k) \in 1..Len(entries)
                                        /\ entries'[i] = entries[From(i, k)]
          /\ \A i, j \in 1..Len(entries) : From(i, k) = From(j, k) => i = j
      BY <2>0, <3>1, MoveToFrontType
    <3>3. ASSUME NEW i \in 1..Len(entries), NEW j \in 1..Len(entries),
                 rr_cmp(entries'[i].rr, entries'[j].rr)
          PROVE  i = j
      <4>1. rr_cmp(entries[From(i, k)].rr, entries[From(j, k)].rr)
        BY <3>2, <3>3
      <4>2. From(i, k) = From(j, k)
        BY <3>2, <4>1 DEF NoDuplicates, Positions
      <4>3. QED
        BY <3>2, <4>2
    <3>4. QED
      BY <3>2, <3>3 DEF NoDuplicates, Positions
  <2>2. CASE AddStep
    <3>1. PICK r \in RRs, t \in TTLs :
             /\ \A k \in Positions : ~rr_cmp(entries[k].rr, r)
             /\ entries' = Prepend(create_cache_node(r, t), entries)
      BY <2>2 DEF AddStep
    <3> DEFINE e == create_cache_node(r, t)
    <3>2. e \in Entry /\ e.rr = r
      BY CacheAssumption DEF create_cache_node, CacheAssumption, Entry, TypeOK
    <3>3. /\ Len(entries') = Len(entries) + 1
          /\ entries'[1].rr = r
          /\ \A i \in 2..Len(entries) + 1 : entries'[i] = entries[i - 1]
      <4> HIDE DEF e
      <4>1. entries' = Prepend(e, entries)
        BY <3>1 DEF e
      <4>2. e \in Entry
        BY <3>2
      <4>3. /\ Len(Prepend(e, entries)) = Len(entries) + 1
            /\ Prepend(e, entries)[1] = e
            /\ \A i \in 2..Len(entries) + 1 : Prepend(e, entries)[i] = entries[i - 1]
        BY <2>0, <4>2, PrependType
      <4>4. QED
        BY <3>2, <4>1, <4>3
    <3>4. \A i \in 2..Len(entries) + 1 :
             i - 1 \in Positions /\ ~rr_cmp(entries'[i].rr, r) /\ ~rr_cmp(r, entries'[i].rr)
      BY <2>0, <3>1, <3>3, RrCmpSymmetric DEF Positions
    <3>5. ASSUME NEW i \in 1..Len(entries) + 1, NEW j \in 1..Len(entries) + 1,
                 rr_cmp(entries'[i].rr, entries'[j].rr)
          PROVE  i = j
      <4>1. CASE i = 1
        BY <2>0, <3>3, <3>4, <3>5, <4>1
      <4>2. CASE j = 1
        BY <2>0, <3>3, <3>4, <3>5, <4>2
      <4>3. CASE i # 1 /\ j # 1
        <5>1. i \in 2..Len(entries) + 1 /\ j \in 2..Len(entries) + 1
          BY <2>0, <4>3
        <5>2. i - 1 \in Positions /\ j - 1 \in Positions
              /\ rr_cmp(entries[i - 1].rr, entries[j - 1].rr)
          BY <3>3, <3>4, <3>5, <5>1
        <5>3. i - 1 = j - 1
          BY <5>2 DEF NoDuplicates
        <5>4. QED
          BY <2>0, <5>1, <5>3
      <4>4. QED
        BY <4>1, <4>2, <4>3
    <3>6. QED
      BY <3>3, <3>5 DEF NoDuplicates, Positions
  <2>3. CASE refresh_cache
    <3>1. PICK g \in Increasing(Kept) :
             entries' = [i \in 1..Cardinality(Kept) |-> Aged(entries[g[i]])]
      BY <2>3 DEF refresh_cache
    <3>2. \A k \in Positions : entries[k] \in Entry
      BY <2>0, ElementOfSeq DEF Positions
    <3>3. \A k \in Positions : Aged(entries[k]).rr = entries[k].rr
      BY <3>2 DEF Aged, Entry
    <3>4. \A i \in 1..Cardinality(Kept) : entries'[i].rr = entries[g[i]].rr
      BY <3>1, <3>3, SurvivorsOf
    <3>5. Len(entries') = Cardinality(Kept)
      BY <3>1, SurvivorsOf
    <3>6. QED
      BY <3>4, <3>5, SurvivorsOf, SMTT(30) DEF NoDuplicates, Positions
  <2>4. CASE Tick
    BY <2>4 DEF Tick, NoDuplicates, Positions
  <2>5. CASE UNCHANGED cacheVars
    BY <2>5 DEF cacheVars, NoDuplicates, Positions
  <2>6. QED
    BY <2>1, <2>2, <2>3, <2>4, <2>5, StepCases
<1>3. QED
  BY <1>1, <1>2, TypeCorrect, PTL DEF Spec

\* The ttl that a cached record is served with is never below the time it has
\* left, and above it by at most the time since the timer's last refresh.
THEOREM TtlsAreFresh == Spec => []TtlIsFresh
<1>1. Init => TtlIsFresh
  BY EmptySeq DEF Init, init_cache, TtlIsFresh, Positions
<1>2. TypeOK /\ TtlIsFresh /\ [Next]_cacheVars => TtlIsFresh'
  <2> SUFFICES ASSUME TypeOK, TtlIsFresh, [Next]_cacheVars PROVE TtlIsFresh'
    OBVIOUS
  <2>0. /\ entries \in Seq(Entry) /\ Len(entries) \in Nat
        /\ now \in Nat /\ refreshed \in 0..now
    BY LenProperties DEF TypeOK, Entry
  <2>e. \A k \in Positions : /\ entries[k] \in Entry
                             /\ entries[k].ttl \in Nat /\ entries[k].expire \in Nat
    <3>1. \A k \in Positions : entries[k] \in Entry
      BY <2>0, ElementOfSeq DEF Positions
    <3>2. QED
      BY <3>1 DEF Entry
  <2>1. CASE MoveStep
    <3>1. PICK k \in 1..Len(entries) : entries' = MoveToFront(entries, k)
      BY <2>1 DEF MoveStep, Positions
    <3>2. /\ Len(entries') = Len(entries)
          /\ \A i \in 1..Len(entries) : /\ From(i, k) \in 1..Len(entries)
                                        /\ entries'[i] = entries[From(i, k)]
      BY <2>0, <3>1, MoveToFrontType
    <3>3. QED
      BY <2>1, <3>2 DEF TtlIsFresh, Positions, MoveStep
  <2>2. CASE AddStep
    <3>1. PICK r \in RRs, t \in TTLs :
             entries' = Prepend(create_cache_node(r, t), entries)
      BY <2>2 DEF AddStep
    <3> DEFINE e == create_cache_node(r, t)
    <3>2. t \in Nat /\ e \in Entry /\ e.ttl = t /\ e.expire = now + t
      BY <2>0, CacheAssumption DEF create_cache_node, CacheAssumption, Entry
    <3>3. /\ Len(entries') = Len(entries) + 1
          /\ entries'[1].ttl = t /\ entries'[1].expire = now + t
          /\ \A i \in 2..Len(entries) + 1 : entries'[i] = entries[i - 1]
      <4> HIDE DEF e
      <4>1. entries' = Prepend(e, entries)
        BY <3>1 DEF e
      <4>2. /\ Len(entries') = Len(entries) + 1
            /\ entries'[1] = e
            /\ \A i \in 2..Len(entries) + 1 : entries'[i] = entries[i - 1]
        <5>1. e \in Entry /\ entries \in Seq(Entry)
          BY <2>0, <3>2
        <5>2. QED
          BY <4>1, <5>1, PrependType, ZenonT(30)
      <4>3. QED
        BY <3>2, <4>2
    <3>4. ASSUME NEW i \in 1..Len(entries) + 1
          PROVE  entries'[i].ttl - (entries'[i].expire - now) \in 0..(now - refreshed)
      <4>1. CASE i = 1
        BY <2>0, <3>2, <3>3, <4>1
      <4>2. CASE i # 1
        <5>1. i \in 2..Len(entries) + 1 /\ i - 1 \in Positions
          BY <2>0, <4>2 DEF Positions
        <5>2. QED
          BY <3>3, <5>1 DEF TtlIsFresh
      <4>3. QED
        BY <4>1, <4>2
    <3>5. QED
      BY <2>2, <3>3, <3>4 DEF TtlIsFresh, Positions, AddStep
  <2>3. CASE refresh_cache
    <3>1. PICK g \in Increasing(Kept) :
             entries' = [i \in 1..Cardinality(Kept) |-> Aged(entries[g[i]])]
      BY <2>3 DEF refresh_cache
    <3>2. \A k \in Positions : /\ Aged(entries[k]).ttl = entries[k].expire - now
                               /\ Aged(entries[k]).expire = entries[k].expire
      BY <2>e DEF Aged, Entry
    <3>3. \A i \in 1..Cardinality(Kept) :
             entries'[i].ttl - (entries'[i].expire - now) = 0
      BY <2>0, <2>e, <3>1, <3>2, SurvivorsOf
    <3>4. Len(entries') = Cardinality(Kept)
      BY <3>1, SurvivorsOf
    <3>5. now' = now /\ refreshed' = now
      BY <2>3 DEF refresh_cache
    <3>6. 0 \in 0..(now' - refreshed')
      BY <2>0, <3>5
    <3>7. QED
      BY <3>3, <3>4, <3>5, <3>6 DEF TtlIsFresh, Positions
  <2>4. CASE Tick
    <3>1. now' = now + 1 /\ entries' = entries /\ refreshed' = refreshed
      BY <2>4 DEF Tick
    <3>2. ASSUME NEW k \in Positions
          PROVE  entries'[k].ttl - (entries'[k].expire - now') \in 0..(now' - refreshed')
      <4>1. entries[k].ttl - (entries[k].expire - now) \in 0..(now - refreshed)
        BY DEF TtlIsFresh
      <4>2. QED
        BY <2>0, <2>e, <3>1, <4>1, SMTT(30)
    <3>3. Positions' = Positions
      BY <3>1 DEF Positions
    <3>4. QED
      BY <3>2, <3>3 DEF TtlIsFresh
  <2>5. CASE UNCHANGED cacheVars
    BY <2>5 DEF cacheVars, TtlIsFresh, Positions
  <2>6. QED
    BY <2>1, <2>2, <2>3, <2>4, <2>5, StepCases
<1>3. QED
  BY <1>1, <1>2, TypeCorrect, PTL DEF Spec

-----------------------------------------------------------------------------
(* The order of the puts *)

\* rr_cmp is transitive although bytes behind a NUL do not count: take the first
\* place where both of a pair are NUL.
LEMMA RrCmpTransitive ==
    ASSUME NEW r \in RRs, NEW s \in RRs, NEW t \in RRs, rr_cmp(r, s), rr_cmp(s, t)
    PROVE  rr_cmp(r, t)
<1> DEFINE a == r.rdata
           b == s.rdata
           c == t.rdata
           n == Len(a)
<1>1. /\ n \in Nat
      /\ Len(b) = n /\ Len(c) = n /\ r.key = t.key
      /\ SameBytes(a, b) /\ SameBytes(b, c)
  BY CacheAssumption, LenProperties DEF rr_cmp, CacheAssumption
<1>2. SameBytes(a, c)
  <2> SUFFICES ASSUME NEW i \in 1..n, a[i] # c[i]
               PROVE  \E k \in 1..i - 1 : a[k] = 0 /\ c[k] = 0
    BY DEF SameBytes
  <2> DEFINE N == {k \in 1..i - 1 : b[k] = 0 /\ (a[k] = 0 \/ c[k] = 0)}
  <2>0. \/ \E k \in 1..i - 1 : a[k] = 0 /\ b[k] = 0
        \/ \E k \in 1..i - 1 : b[k] = 0 /\ c[k] = 0
    BY <1>1 DEF SameBytes
  <2>1. N # {} /\ N \subseteq Nat /\ \A k \in N : k \in 1..n
    <3>1. \A k \in 1..i - 1 : k \in Nat /\ k \in 1..n
      BY <1>1
    <3>2. QED
      BY <2>0, <3>1
  <2> HIDE DEF N
  <2>2. PICK k \in N : \A m \in N : k <= m
    BY <2>1, LeastExists
  <2>3. k \in 1..i - 1 /\ k \in 1..n /\ b[k] = 0 /\ (a[k] = 0 \/ c[k] = 0)
    BY <2>1 DEF N
  <2>4. \A m \in 1..k - 1 : ~(b[m] = 0 /\ (a[m] = 0 \/ c[m] = 0))
    BY <2>2, <2>3 DEF N
  <2>5. a[k] = b[k] /\ b[k] = c[k]
    BY <1>1, <2>3, <2>4 DEF SameBytes
  <2>6. QED
    BY <2>3, <2>5
<1>3. QED
  BY <1>1, <1>2 DEF rr_cmp

\* The steps of the cache with its history are steps of the cache.
LEMMA RecencyIsCache == RecencySpec => Spec
<1>1. RecencyInit => Init
  BY DEF RecencyInit
<1>2. [RecencyNext]_recencyVars => [Next]_cacheVars
  BY DEF RecencyNext, recencyVars, PutAndNote, Next, Put
<1>3. QED
  BY <1>1, <1>2, PTL DEF RecencySpec, Spec

\* A refresh leaves every survivor its record and keeps their order.
LEMMA RefreshOrder ==
    ASSUME TypeOK, refresh_cache
    PROVE  /\ Len(entries') = Cardinality(Kept)
           /\ \E g \in [1..Cardinality(Kept) -> Kept] :
                /\ \A i, j \in 1..Cardinality(Kept) : i < j => g[i] < g[j]
                /\ \A k \in Kept : \E i \in 1..Cardinality(Kept) : g[i] = k
                /\ \A i \in 1..Cardinality(Kept) :
                     g[i] \in Positions /\ entries'[i].rr = entries[g[i]].rr
<1> DEFINE n == Cardinality(Kept)
<1>1. PICK g \in Increasing(Kept) : entries' = [i \in 1..n |-> Aged(entries[g[i]])]
  BY DEF refresh_cache
<1>2. /\ n \in Nat
      /\ \A i \in 1..n : g[i] \in Positions
      /\ \A i, j \in 1..n : g[i] = g[j] => i = j
  BY SurvivorsOf
<1>3. g \in [1..n -> Kept] /\ \A i, j \in 1..n : i < j => g[i] < g[j]
  BY DEF Increasing
<1>4. \A k \in Positions : Aged(entries[k]).rr = entries[k].rr
  <2>1. \A k \in Positions : entries[k] \in Entry
    BY ElementOfSeq DEF Positions, TypeOK, Entry
  <2>2. QED
    BY <2>1 DEF Aged, Entry
<1>5. \A k \in Kept : \E i \in 1..n : g[i] = k
  <2>1. IsFiniteSet(1..n) /\ Cardinality(1..n) = n
    <3> HIDE DEF n
    <3>1. QED
      BY <1>2, FS_Interval
  <2>2. IsFiniteSet(Kept)
    <3>1. IsFiniteSet(Positions)
      BY LenProperties, FS_Interval DEF Positions, TypeOK
    <3>2. QED
      BY <3>1, FS_Subset DEF Kept
  <2>3. g \in Injection(1..n, Kept)
    BY <1>2, <1>3 DEF Injection, IsInjective
  <2>4. g \in Surjection(1..n, Kept)
    BY <2>1, <2>2, <2>3, FS_Injection
  <2>5. QED
    BY <2>4 DEF Surjection
<1>6. Len(entries') = n
  BY <1>1, <1>2
<1> HIDE DEF n
<1>7. \A i \in 1..n : g[i] \in Positions /\ entries'[i].rr = entries[g[i]].rr
  BY <1>1, <1>2, <1>4
<1>8. QED
  BY <1>3, <1>5, <1>6, <1>7 DEF n

\* A put leaves the order as its history says: what it moves or adds is first.
LEMMA PutKeepsOrder ==
    ASSUME TypeOK, NoDuplicates, LastPutFirst,
           NEW r \in RRs, NEW t \in TTLs, PutAndNote(r, t)
    PROVE  LastPutFirst'
<1>0. /\ entries \in Seq(Entry) /\ Len(entries) \in Nat /\ Positions = 1..Len(entries)
      /\ \A k \in Positions : entries[k] \in Entry /\ entries[k].rr \in RRs
      /\ now \in Nat /\ t \in Nat
  <2>1. entries \in Seq(Entry) /\ Len(entries) \in Nat /\ Positions = 1..Len(entries)
    BY LenProperties DEF TypeOK, Positions, Entry
  <2>2. \A k \in Positions : entries[k] \in Entry
    BY <2>1, ElementOfSeq
  <2>3. QED
    BY <2>1, <2>2, CacheAssumption DEF Entry, TypeOK, CacheAssumption
<1>1. \A x, y \in RRs : <<x, y>> \in later'
                        <=> ~rr_cmp(y, r) /\ (rr_cmp(x, r) \/ <<x, y>> \in later)
  BY DEF PutAndNote
<1>2. \A i, k \in Positions : i < k => <<entries[i].rr, entries[k].rr>> \in later
  BY DEF LastPutFirst
<1>3. CASE \E k \in Positions : rr_cmp(entries[k].rr, r)
                                /\ entries' = MoveToFront(entries, k)
  <2>1. PICK k \in Positions : rr_cmp(entries[k].rr, r) /\ entries' = MoveToFront(entries, k)
    BY <1>3
  <2>2. /\ Len(entries') = Len(entries)
        /\ \A i \in 1..Len(entries) : /\ From(i, k) \in 1..Len(entries)
                                      /\ entries'[i] = entries[From(i, k)]
    BY <1>0, <2>1, MoveToFrontType
  <2>3. ASSUME NEW j \in Positions, j # k PROVE ~rr_cmp(entries[j].rr, r)
    <3>1. SUFFICES ASSUME rr_cmp(entries[j].rr, r) PROVE FALSE
      OBVIOUS
    <3>2. rr_cmp(r, entries[k].rr)
      BY <2>1, RrCmpSymmetric
    <3>3. rr_cmp(entries[j].rr, entries[k].rr)
      BY <1>0, <3>1, <3>2, RrCmpTransitive
    <3>4. QED
      BY <2>3, <3>3 DEF NoDuplicates
  <2>4. ASSUME NEW i \in Positions, NEW j \in Positions, i < j
        PROVE  <<entries[From(i, k)].rr, entries[From(j, k)].rr>> \in later'
    <3>1. From(i, k) \in Positions /\ From(j, k) \in Positions /\ From(j, k) # k
          /\ (From(i, k) = k \/ From(i, k) < From(j, k))
      BY <1>0, <2>4 DEF From
    <3>2. ~rr_cmp(entries[From(j, k)].rr, r)
      BY <2>3, <3>1
    <3>3. \/ rr_cmp(entries[From(i, k)].rr, r)
          \/ <<entries[From(i, k)].rr, entries[From(j, k)].rr>> \in later
      BY <1>2, <2>1, <3>1
    <3>4. entries[From(i, k)].rr \in RRs /\ entries[From(j, k)].rr \in RRs
      BY <1>0, <3>1
    <3>5. QED
      BY <1>1, <3>2, <3>3, <3>4
  <2>5. QED
    BY <1>0, <2>2, <2>4, ZenonT(30) DEF LastPutFirst, Positions
<1>4. CASE /\ \A k \in Positions : ~rr_cmp(entries[k].rr, r)
           /\ entries' = Prepend(create_cache_node(r, t), entries)
  <2> DEFINE e == create_cache_node(r, t)
  <2>1. e \in Entry /\ e.rr = r
    BY <1>0 DEF create_cache_node, Entry
  <2> HIDE DEF e
  <2>2. /\ Len(entries') = Len(entries) + 1
        /\ entries'[1] = e
        /\ \A i \in 2..Len(entries) + 1 : entries'[i] = entries[i - 1]
    <3>1. entries' = Prepend(e, entries)
      BY <1>4 DEF e
    <3>2. QED
      BY <1>0, <2>1, <3>1, PrependType, ZenonT(30)
  <2>3. ASSUME NEW i \in 1..Len(entries) + 1, NEW j \in 1..Len(entries) + 1, i < j
        PROVE  <<entries'[i].rr, entries'[j].rr>> \in later'
    <3>1. /\ j - 1 \in Positions /\ entries'[j] = entries[j - 1]
          /\ i = 1 \/ (i - 1 \in Positions /\ entries'[i] = entries[i - 1] /\ i - 1 < j - 1)
      BY <1>0, <2>2, <2>3
    <3>2. entries'[j].rr \in RRs /\ ~rr_cmp(entries'[j].rr, r)
      BY <1>0, <1>4, <3>1
    <3>3. CASE i = 1
      <4>1. entries'[i].rr = r
        BY <2>1, <2>2, <3>3
      <4>2. rr_cmp(r, r)
        BY DEF rr_cmp, SameBytes
      <4>3. QED
        BY <1>1, <3>2, <4>1, <4>2
    <3>4. CASE i # 1
      <4>1. <<entries'[i].rr, entries'[j].rr>> \in later /\ entries'[i].rr \in RRs
        BY <1>0, <1>2, <3>1, <3>4
      <4>2. QED
        BY <1>1, <3>2, <4>1
    <3>5. QED
      BY <3>3, <3>4
  <2>4. QED
    BY <2>2, <2>3 DEF LastPutFirst, Positions
<1>5. QED
  BY <1>3, <1>4 DEF PutAndNote, cache_put_rr

\* The list is ordered by the last put of each record: a record that is moved
\* comes to the front, and the timer takes records out without reordering.
THEOREM OrderedByLastPut == RecencySpec => []LastPutFirst
<1>1. RecencyInit => LastPutFirst
  BY EmptySeq DEF RecencyInit, Init, init_cache, LastPutFirst, Positions
<1>2. TypeOK /\ NoDuplicates /\ LastPutFirst /\ [RecencyNext]_recencyVars => LastPutFirst'
  <2> SUFFICES ASSUME TypeOK, NoDuplicates, LastPutFirst, [RecencyNext]_recencyVars
               PROVE  LastPutFirst'
    OBVIOUS
  <2>1. CASE refresh_cache /\ UNCHANGED later
    <3> DEFINE n == Cardinality(Kept)
    <3>1. PICK g \in [1..n -> Kept] :
            /\ \A i, j \in 1..n : i < j => g[i] < g[j]
            /\ \A i \in 1..n : g[i] \in Positions /\ entries'[i].rr = entries[g[i]].rr
      BY <2>1, RefreshOrder
    <3>2. Len(entries') = n
      BY <2>1, RefreshOrder
    <3> HIDE DEF n
    <3>3. \A i, j \in 1..n : i < j => <<entries'[i].rr, entries'[j].rr>> \in later
      BY <3>1 DEF LastPutFirst
    <3>4. QED
      BY <2>1, <3>2, <3>3 DEF LastPutFirst, Positions
  <2>2. CASE UNCHANGED <<entries, later>>
    BY <2>2 DEF LastPutFirst, Positions
  <2>3. QED
    BY <2>1, <2>2, PutKeepsOrder DEF RecencyNext, Tick, recencyVars, cacheVars
<1>3. QED
  BY <1>1, <1>2, RecencyIsCache, TypeCorrect, DuplicatesNever, PTL DEF RecencySpec

-----------------------------------------------------------------------------
(* What the timer evicts *)

\* When the timer drops the live entry at k, it keeps CacheSizeMax entries, all
\* of them before k: the live entries are numbered from the front and the first
\* CacheSizeMax of them stay.
LEMMA DroppedBehindFull ==
    ASSUME TypeOK, NEW k \in Positions, Live(entries[k]), k \notin Kept
    PROVE  Cardinality(Kept) = CacheSizeMax /\ \A j \in Kept : j < k
<1> DEFINE L == {i \in Positions : Live(entries[i])}
           Rank(i) == Cardinality({j \in L : j <= i})
           m == Len(entries)
<1>1. /\ m \in Nat /\ Positions = 1..m /\ L \in SUBSET (1..m) /\ k \in L
      /\ CacheSizeMax \in Nat \ {0}
  BY LenProperties, CacheAssumption DEF TypeOK, Positions, CacheAssumption
<1>2. \A i \in Positions : {j \in 1..i : Live(entries[j])} = {j \in L : j <= i}
  <2> SUFFICES ASSUME NEW i \in Positions, NEW j
               PROVE  j \in 1..i /\ Live(entries[j]) <=> j \in L /\ j <= i
    OBVIOUS
  <2>1. QED
    BY <1>1
<1>3. \A i : i \in Kept <=> i \in L /\ Rank(i) <= CacheSizeMax
  BY <1>2 DEF Kept
<1> HIDE DEF L
<1>4. /\ \A i \in L : Rank(i) \in 1..Cardinality(L)
      /\ \A i, j \in L : Rank(i) = Rank(j) => i = j
      /\ \A c \in 1..Cardinality(L) : \E i \in L : Rank(i) = c
  BY <1>1, RankFromBelow
<1>5. IsFiniteSet(L) /\ Cardinality(L) \in Nat
  BY <1>1, BoundedIsFinite
<1>6. \A i, j \in L : i <= j => Rank(i) <= Rank(j)
  <2> SUFFICES ASSUME NEW i \in L, NEW j \in L, i <= j PROVE Rank(i) <= Rank(j)
    OBVIOUS
  <2> DEFINE S == {x \in L : x <= i}
             T == {x \in L : x <= j}
  <2>1. S \subseteq T
    <3>1. i \in Int /\ j \in Int /\ \A x \in L : x \in Int
      BY <1>1
    <3>2. ASSUME NEW x \in S PROVE x \in T
      <4>1. x \in L /\ x \in Int /\ x <= i
        BY <3>1
      <4>2. QED
        BY <3>1, <4>1
    <3>3. QED
      BY <3>2
  <2>2. T \subseteq L
    OBVIOUS
  <2> HIDE DEF S, T
  <2>3. IsFiniteSet(T)
    BY <1>5, <2>2, FS_Subset
  <2>4. Cardinality(S) <= Cardinality(T)
    BY <2>1, <2>3, FS_Subset
  <2>5. QED
    BY <2>4 DEF S, T
<1> DEFINE rank == [i \in Kept |-> Rank(i)]
<1> HIDE DEF Rank
<1>r. \A i \in L : Rank(i) \in Nat /\ 1 <= Rank(i) /\ Rank(i) <= Cardinality(L)
  BY <1>4, <1>5
<1>s. \A i \in Kept : i \in L /\ Rank(i) \in Nat /\ Rank(i) \in 1..CacheSizeMax
  <2> SUFFICES ASSUME NEW i \in Kept
               PROVE  i \in L /\ Rank(i) \in Nat /\ Rank(i) \in 1..CacheSizeMax
    OBVIOUS
  <2>1. i \in L /\ Rank(i) <= CacheSizeMax
    BY <1>3
  <2>2. Rank(i) \in Nat /\ 1 <= Rank(i)
    BY <1>r, <2>1
  <2>3. QED
    BY <1>1, <2>1, <2>2
<1>7. Rank(k) > CacheSizeMax /\ Cardinality(L) > CacheSizeMax
  BY <1>1, <1>3, <1>4, <1>5
<1>8. ASSUME NEW j \in Kept PROVE j < k
  <2>1. j \in L /\ Rank(j) \in Int /\ Rank(k) \in Int /\ Rank(j) < Rank(k)
    <3>1. j \in L /\ Rank(j) \in 1..CacheSizeMax
      BY <1>s
    <3>2. Rank(k) \in Nat /\ Rank(k) > CacheSizeMax
      BY <1>1, <1>r, <1>7
    <3>3. QED
      BY <1>1, <3>1, <3>2
  <2>2. ~(k <= j)
    BY <1>1, <1>6, <2>1
  <2>3. j \in Int /\ k \in Int
    BY <1>1, <2>1
  <2>4. QED
    BY <2>2, <2>3
<1>9. Cardinality(Kept) = CacheSizeMax
  <2>1. \A i \in Kept : i \in L /\ Rank(i) \in 1..CacheSizeMax
    BY <1>s
  <2>2. rank \in Injection(Kept, 1..CacheSizeMax)
    BY <1>4, <2>1 DEF Injection, IsInjective
  <2>3. \A c \in 1..CacheSizeMax : \E i \in Kept : rank[i] = c
    <3> TAKE c \in 1..CacheSizeMax
    <3>1. PICK i \in L : Rank(i) = c
      BY <1>1, <1>4, <1>5, <1>7
    <3>2. i \in Kept
      BY <1>1, <1>3, <3>1
    <3>3. QED
      BY <3>1, <3>2
  <2>4. rank \in Surjection(Kept, 1..CacheSizeMax)
    BY <2>2, <2>3 DEF Injection, Surjection
  <2>5. IsFiniteSet(1..CacheSizeMax) /\ Cardinality(1..CacheSizeMax) = CacheSizeMax
    <3>1. CacheSizeMax \in Nat /\ 1 \in Int /\ CacheSizeMax - 1 + 1 = CacheSizeMax
      BY <1>1
    <3>2. QED
      BY <3>1, FS_Interval
  <2> HIDE DEF rank
  <2>6. QED
    BY <2>2, <2>4, <2>5, FS_Injection
<1>10. QED
  BY <1>8, <1>9

\* The cache is least-recently-put: a record with time left leaves it only in
\* the timer's walk, and only when CacheSizeMax records put after it stay.
THEOREM EvictsLeastRecent == RecencySpec => LeastRecentEvicted
<1>1. ASSUME TypeOK, LastPutFirst, [RecencyNext]_recencyVars
      PROVE  [\A k \in Positions : EvictedFor(entries[k])]_recencyVars
  <2> SUFFICES ASSUME RecencyNext, NEW k \in Positions PROVE EvictedFor(entries[k])
    BY <1>1
  <2>0. entries \in Seq(Entry) /\ Len(entries) \in Nat /\ k \in 1..Len(entries)
        /\ Positions = 1..Len(entries)
    BY <1>1, LenProperties DEF TypeOK, Entry, Positions
  <2>1. CASE refresh_cache /\ UNCHANGED later
    <3> SUFFICES ASSUME entries[k].expire > now,
                        \A i \in 1..Len(entries') : entries'[i].rr # entries[k].rr
                 PROVE  /\ Len(entries') = CacheSizeMax
                        /\ \A i \in 1..Len(entries') :
                             <<entries'[i].rr, entries[k].rr>> \in later
      BY DEF EvictedFor
    <3> DEFINE n == Cardinality(Kept)
    <3>1. Len(entries') = n
      BY <1>1, <2>1, RefreshOrder
    <3>2. PICK g \in [1..n -> Kept] :
            /\ \A j \in Kept : \E i \in 1..n : g[i] = j
            /\ \A i \in 1..n : g[i] \in Positions /\ entries'[i].rr = entries[g[i]].rr
      BY <1>1, <2>1, RefreshOrder
    <3>3. k \notin Kept
      BY <3>1, <3>2
    <3>4. n = CacheSizeMax /\ \A j \in Kept : j < k
      BY <1>1, <3>3, DroppedBehindFull DEF Live
    <3>5. \A i \in 1..n : <<entries[g[i]].rr, entries[k].rr>> \in later
      BY <1>1, <3>2, <3>4 DEF LastPutFirst
    <3>6. QED
      BY <3>1, <3>2, <3>4, <3>5
  <2>2. CASE UNCHANGED entries
    BY <2>0, <2>2 DEF EvictedFor
  <2>3. ASSUME NEW r \in RRs, NEW t \in TTLs, cache_put_rr(r, t)
        PROVE  \E i \in 1..Len(entries') : entries'[i] = entries[k]
    <3>1. CASE \E j \in Positions : entries' = MoveToFront(entries, j)
      <4>1. PICK j \in 1..Len(entries) : entries' = MoveToFront(entries, j)
        BY <2>0, <3>1
      <4>2. /\ Len(entries') = Len(entries)
            /\ \A i \in 1..Len(entries) : entries'[i] = entries[From(i, j)]
        BY <2>0, <4>1, MoveToFrontType
      <4>3. \E i \in 1..Len(entries) : From(i, j) = k
        <5>1. CASE k = j
          BY <2>0, <5>1 DEF From
        <5>2. CASE k < j
          <6>1. k + 1 \in 1..Len(entries) /\ From(k + 1, j) = k
            BY <2>0, <5>2 DEF From
          <6>2. QED
            BY <6>1
        <5>3. CASE k > j
          BY <2>0, <5>3 DEF From
        <5>4. QED
          BY <2>0, <5>1, <5>2, <5>3
      <4>4. QED
        BY <4>2, <4>3
    <3>2. CASE entries' = Prepend(create_cache_node(r, t), entries)
      <4> DEFINE e == create_cache_node(r, t)
      <4>1. e \in Entry
        BY <1>1, CacheAssumption DEF create_cache_node, Entry, TypeOK, CacheAssumption
      <4>2. entries' = Prepend(e, entries)
        BY <3>2
      <4> HIDE DEF e
      <4>3. /\ Len(entries') = Len(entries) + 1
            /\ \A i \in 2..Len(entries) + 1 : entries'[i] = entries[i - 1]
        BY <2>0, <4>1, <4>2, PrependType, ZenonT(30)
      <4>4. k + 1 \in 1..Len(entries') /\ entries'[k + 1] = entries[k]
        BY <2>0, <4>3
      <4>5. QED
        BY <4>4
    <3>3. QED
      BY <2>3, <3>1, <3>2 DEF cache_put_rr
  <2>4. QED
    BY <2>1, <2>2, <2>3 DEF RecencyNext, PutAndNote, Tick, EvictedFor
<1>2. QED
  BY <1>1, RecencyIsCache, TypeCorrect, OrderedByLastPut, PTL DEF RecencySpec, LeastRecentEvicted
=============================================================================
