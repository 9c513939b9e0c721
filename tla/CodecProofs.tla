---------------------------- MODULE CodecProofs ----------------------------
(***************************************************************************)
(* Proofs about Codec: every message is read as its sender meant it,       *)
(* whatever is compressed, and sent on with the same meaning.              *)
(*                                                                         *)
(* A name that has been written is read by following at most one pointer   *)
(* for each of its labels, and what is read depends only on the bytes up   *)
(* to the end of the name (NameIn, EntryIn).  So what is written later, or *)
(* lost behind it, changes nothing, and the sender may point to any name   *)
(* that it knows (Sound).  WireInv says this of the packet, ReadInv of the *)
(* message in memory.  At the end a message that has been read is written  *)
(* without pointers.                                                       *)
(***************************************************************************)
EXTENDS Codec, NumberLemmas, SequenceTheorems

-----------------------------------------------------------------------------
(* Sequences *)

\* What stands where in x \o y.
LEMMA Concat ==
    ASSUME NEW S, NEW x \in Seq(S), NEW y \in Seq(S)
    PROVE  /\ x \o y \in Seq(S) /\ Len(x \o y) = Len(x) + Len(y)
           /\ Len(x) \in Nat /\ Len(y) \in Nat
           /\ \A i \in 1..Len(x) : (x \o y)[i] = x[i]
           /\ \A i \in 1..Len(y) : (x \o y)[Len(x) + i] = y[i]
<1>1. /\ x \o y \in Seq(S) /\ Len(x \o y) = Len(x) + Len(y)
      /\ Len(x) \in Nat /\ Len(y) \in Nat
  BY ConcatProperties, LenProperties
<1>2. \A i \in 1..Len(x) + Len(y) : (x \o y)[i] = IF i <= Len(x) THEN x[i] ELSE y[i - Len(x)]
  BY ConcatProperties
<1>3. ASSUME NEW i \in 1..Len(x) PROVE (x \o y)[i] = x[i]
  <2>1. i \in 1..Len(x) + Len(y) /\ i <= Len(x)
    BY <1>1
  <2>2. QED
    BY <1>2, <2>1
<1>4. ASSUME NEW i \in 1..Len(y) PROVE (x \o y)[Len(x) + i] = y[i]
  <2>1. /\ Len(x) + i \in 1..Len(x) + Len(y) /\ ~(Len(x) + i <= Len(x))
        /\ (Len(x) + i) - Len(x) = i
    BY <1>1
  <2>2. QED
    BY <1>2, <2>1
<1>5. QED
  BY <1>1, <1>3, <1>4

LEMMA Joined ==
    ASSUME NEW S, NEW x \in Seq(S), NEW y \in Seq(S), NEW z \in Seq(S)
    PROVE  (x \o y) \o z = x \o (y \o z) /\ x \o y \in Seq(S) /\ y \o z \in Seq(S)
  BY ConcatProperties, ConcatAssociative

\* FlattenSeq appends one sequence after the other.
LEMMA FlattenFunction ==
    ASSUME NEW S, NEW q \in Seq(Seq(S))
    PROVE  \E f \in [0..Len(q) -> Seq(S)] :
             /\ f[0] = <<>>
             /\ \A i \in 1..Len(q) : f[i] = f[i - 1] \o q[i]
             /\ FlattenSeq(q) = f[Len(q)]
<1> DEFINE n == Len(q)
           Step(g) == [i \in 1..n |-> IF i = 1 THEN q[i] ELSE g[i - 1] \o q[i]]
           G == [i \in 1..n |-> [v \in Seq(S) |-> v \o q[i]]]
<1>1. n \in Nat /\ \A i \in 1..n : q[i] \in Seq(S)
  BY ElementOfSeq, LenProperties
<1>2. G \in [1..n -> [Seq(S) -> Seq(S)]]
  BY <1>1, ConcatProperties
<1>3. <<>> \in Seq(S)
  BY EmptySeq
<1>4. PICK f \in [0..n -> Seq(S)] : f[0] = <<>> /\ \A i \in 1..n : f[i] = G[i][f[i - 1]]
  <2> DEFINE V == Seq(S)
             e == <<>>
  <2>1. n \in Nat /\ e \in V /\ G \in [1..n -> [V -> V]]
    BY <1>1, <1>2, <1>3
  <2> HIDE DEF n, G, V, e
  <2>2. \E f : f \in Recursion(V, e, n, G)
    BY <2>1, RecursionExists
  <2>3. QED
    BY <2>2 DEF V, e, Recursion
<1>5. ASSUME NEW i \in 1..n PROVE f[i] = f[i - 1] \o q[i]
  <2>1. i - 1 \in 0..n
    BY <1>1
  <2>2. QED
    BY <1>4, <2>1
<1>6. CASE n = 0
  <2>1. FlattenSeq(q) = q /\ q = <<>>
    BY <1>6, EmptySeq DEF FlattenSeq
  <2>2. QED
    BY <1>4, <1>5, <1>6, <2>1
<1>7. CASE n # 0
  <2> DEFINE h == [i \in 1..n |-> f[i]]
  <2> HIDE DEF G
  <2>1. f[1] = q[1]
    <3>1. 1 \in 1..n /\ f[1] = f[0] \o q[1]
      <4>1. 1 \in 1..n /\ 1 - 1 = 0
        BY <1>1, <1>7
      <4>2. f[1] = f[1 - 1] \o q[1]
        BY <1>5, <4>1
      <4>3. QED
        BY <4>1, <4>2
    <3>2. QED
      BY <1>1, <1>4, <3>1, ConcatEmptySeq
  <2>2. h = Step(h)
    <3>1. ASSUME NEW i \in 1..n PROVE h[i] = IF i = 1 THEN q[i] ELSE h[i - 1] \o q[i]
      <4>1. CASE i = 1
        BY <2>1, <4>1
      <4>2. CASE i # 1
        <5>1. i - 1 \in 1..n
          BY <1>1, <4>2
        <5>2. QED
          BY <1>5, <4>2, <5>1
      <4>3. QED
        BY <4>1, <4>2
    <3>2. QED
      BY <3>1
  <2> DEFINE c == CHOOSE g : g = Step(g)
  <2>3. FlattenSeq(q) = c[n]
    BY <1>7 DEF FlattenSeq
  <2>4. c = Step(c)
    BY <2>2
  <2> HIDE DEF c, h
  <2>5. \A i \in 1..n : c[i] = IF i = 1 THEN q[i] ELSE c[i - 1] \o q[i]
    BY <2>4
  <2> DEFINE T == {i \in 1..n : c[i] = f[i]}
  <2>6. 1 \in T
    BY <1>1, <1>7, <2>1, <2>5
  <2>7. \A m \in 1..n : m \in T /\ m < n => m + 1 \in T
    <3> SUFFICES ASSUME NEW m \in 1..n, m \in T, m < n PROVE c[m + 1] = f[m + 1] /\ m + 1 \in 1..n
      OBVIOUS
    <3>1. m + 1 \in 1..n /\ m + 1 # 1 /\ (m + 1) - 1 = m
      BY <1>1
    <3>2. f[m + 1] = f[m] \o q[m + 1] /\ c[m + 1] = c[m] \o q[m + 1]
      BY <1>5, <2>5, <3>1
    <3>3. QED
      BY <3>1, <3>2
  <2> HIDE DEF T, n
  <2>8. 1..n \subseteq T
    BY <1>1, <2>6, <2>7, IntervalInduction
  <2>9. n \in 1..n
    BY <1>1, <1>7
  <2>10. c[n] = f[n]
    BY <2>8, <2>9 DEF T
  <2>11. QED
    BY <1>4, <1>5, <2>3, <2>10 DEF n
<1>8. QED
  BY <1>6, <1>7

\* What appends them one after the other is FlattenSeq.
LEMMA FlattenUnique ==
    ASSUME NEW S, NEW q \in Seq(Seq(S)), NEW g, g[0] = <<>>,
           \A i \in 1..Len(q) : g[i] = g[i - 1] \o q[i]
    PROVE  FlattenSeq(q) = g[Len(q)]
<1>1. PICK f \in [0..Len(q) -> Seq(S)] :
             /\ f[0] = <<>>
             /\ \A i \in 1..Len(q) : f[i] = f[i - 1] \o q[i]
             /\ FlattenSeq(q) = f[Len(q)]
  BY FlattenFunction
<1>2. Len(q) \in Nat
  BY LenProperties
<1>3. \A i \in 0..Len(q) : f[i] = g[i]
  <2> DEFINE n == Len(q)
  <2>1. n \in Nat /\ f[0] = g[0]
    BY <1>1, <1>2
  <2>2. \A i \in 1..n : f[i - 1] = g[i - 1] => f[i] = g[i]
    BY <1>1
  <2> HIDE DEF n
  <2>3. SameSteps(n, f, g)
    BY <2>1, <2>2 DEF SameSteps
  <2>4. \A i \in 0..n : f[i] = g[i]
    BY <2>1, <2>3, RecursionUnique
  <2>5. QED
    BY <2>4 DEF n
<1>4. QED
  BY <1>1, <1>2, <1>3

LEMMA FlattenType ==
    ASSUME NEW S, NEW q \in Seq(Seq(S))
    PROVE  FlattenSeq(q) \in Seq(S)
<1>1. PICK f \in [0..Len(q) -> Seq(S)] : FlattenSeq(q) = f[Len(q)]
  BY FlattenFunction
<1>2. Len(q) \in 0..Len(q)
  BY LenProperties
<1>3. QED
  BY <1>1, <1>2

\* No sequence, and one.
LEMMA FlattenFew ==
    ASSUME NEW S, NEW x \in Seq(S)
    PROVE  FlattenSeq(<<>>) = <<>> /\ FlattenSeq(<<x>>) = x
<1>1. FlattenSeq(<<>>) = <<>>
  BY DEF FlattenSeq
<1> DEFINE g == [i \in 0..1 |-> IF i = 0 THEN <<>> ELSE x]
<1>2. <<x>> \in Seq(Seq(S)) /\ Len(<<x>>) = 1 /\ <<x>>[1] = x
  OBVIOUS
<1>3. g[0] = <<>> /\ g[1] = x /\ g[1] = g[0] \o x
  BY ConcatEmptySeq
<1>4. \A i \in 1..Len(<<x>>) : g[i] = g[i - 1] \o <<x>>[i]
  BY <1>2, <1>3
<1> HIDE DEF g
<1>5. FlattenSeq(<<x>>) = g[1]
  BY <1>2, <1>3, <1>4, FlattenUnique
<1>6. QED
  BY <1>1, <1>3, <1>5

LEMMA FlattenConcat ==
    ASSUME NEW S, NEW q \in Seq(Seq(S)), NEW r \in Seq(Seq(S))
    PROVE  FlattenSeq(q \o r) = FlattenSeq(q) \o FlattenSeq(r)
<1>1. PICK f \in [0..Len(q) -> Seq(S)] :
             /\ f[0] = <<>>
             /\ \A i \in 1..Len(q) : f[i] = f[i - 1] \o q[i]
             /\ FlattenSeq(q) = f[Len(q)]
  BY FlattenFunction
<1>2. PICK g \in [0..Len(r) -> Seq(S)] :
             /\ g[0] = <<>>
             /\ \A i \in 1..Len(r) : g[i] = g[i - 1] \o r[i]
             /\ FlattenSeq(r) = g[Len(r)]
  BY FlattenFunction
<1> DEFINE n == Len(q)
           m == Len(r)
           h == [i \in 0..n + m |-> IF i <= n THEN f[i] ELSE f[n] \o g[i - n]]
<1>3. n \in Nat /\ m \in Nat
  BY LenProperties
<1>4. /\ q \o r \in Seq(Seq(S)) /\ Len(q \o r) = n + m
      /\ \A i \in 1..n + m : (q \o r)[i] = IF i <= n THEN q[i] ELSE r[i - n]
  BY ConcatProperties
<1>5. f[n] \in Seq(S) /\ \A i \in 1..m : r[i] \in Seq(S)
  BY <1>3, ElementOfSeq, SMTT(30)
<1> HIDE DEF n, m
<1>6. h[0] = <<>>
  BY <1>1, <1>3
<1>7. ASSUME NEW i \in 1..n + m PROVE h[i] = h[i - 1] \o (q \o r)[i]
  <2>1. i - 1 \in 0..n + m
    BY <1>3
  <2>2. CASE i <= n
    <3>1. i \in 1..n
      BY <1>3, <2>2
    <3>2. f[i] = f[i - 1] \o q[i]
      BY <1>1, <3>1 DEF n
    <3>3. h[i] = f[i] /\ h[i - 1] = f[i - 1]
      BY <1>3, <2>1, <2>2
    <3>4. (q \o r)[i] = q[i]
      BY <1>4, <2>2
    <3> HIDE DEF h
    <3>5. QED
      BY <3>2, <3>3, <3>4
  <2>3. CASE i > n
    <3>1. i - n \in 1..m /\ (i - n) - 1 \in 0..m /\ (i - 1) - n = (i - n) - 1
      BY <1>3, <2>3
    <3>2. g[i - n] = g[(i - n) - 1] \o r[i - n]
      BY <1>2, <3>1 DEF m
    <3>3. h[i - 1] = f[n] \o g[(i - n) - 1]
      <4>1. CASE i - 1 = n
        <5>1. g[(i - n) - 1] = <<>>
          BY <1>2, <1>3, <4>1
        <5>2. h[i - 1] = f[n]
          BY <2>1, <4>1
        <5>3. QED
          BY <1>5, <5>1, <5>2, ConcatEmptySeq
      <4>2. CASE i - 1 # n
        <5>1. ~(i - 1 <= n)
          BY <1>3, <2>3, <4>2
        <5>2. QED
          BY <2>1, <3>1, <5>1
      <4>3. QED
        BY <4>1, <4>2
    <3>4. h[i] = f[n] \o g[i - n] /\ (q \o r)[i] = r[i - n]
      <4>1. ~(i <= n) /\ i \in 0..n + m
        BY <1>3, <2>3
      <4>2. h[i] = f[n] \o g[i - n]
        BY <4>1
      <4>3. (q \o r)[i] = r[i - n]
        BY <1>4, <4>1
      <4> HIDE DEF h
      <4>4. QED
        BY <4>2, <4>3
    <3>5. (f[n] \o g[(i - n) - 1]) \o r[i - n] = f[n] \o (g[(i - n) - 1] \o r[i - n])
      <4>1. g[(i - n) - 1] \in Seq(S)
        BY <1>2, <3>1 DEF m
      <4>2. r[i - n] \in Seq(S)
        BY <1>5, <3>1
      <4> DEFINE x == f[n]
                 y == g[(i - n) - 1]
                 z == r[i - n]
      <4>3. x \in Seq(S) /\ y \in Seq(S) /\ z \in Seq(S)
        BY <1>5, <4>1, <4>2
      <4> HIDE DEF x, y, z
      <4>4. (x \o y) \o z = x \o (y \o z)
        BY <4>3, ConcatAssociative
      <4>5. QED
        BY <4>4 DEF x, y, z
    <3> HIDE DEF h
    <3>6. QED
      BY <3>2, <3>3, <3>4, <3>5
  <2> HIDE DEF h
  <2>4. i <= n \/ i > n
    BY <1>3
  <2>5. QED
    BY <2>2, <2>3, <2>4
<1>8. h[n + m] = f[n] \o g[m]
  <2>1. CASE m = 0
    <3>1. g[m] = <<>> /\ h[n + m] = f[n]
      BY <1>2, <1>3, <2>1
    <3>2. QED
      BY <1>5, <3>1, ConcatEmptySeq
  <2>2. CASE m # 0
    <3>1. ~(n + m <= n) /\ (n + m) - n = m /\ n + m \in 0..n + m
      BY <1>3, <2>2
    <3>2. QED
      BY <3>1
  <2>3. QED
    BY <2>1, <2>2
<1> HIDE DEF h
<1>9. FlattenSeq(q \o r) = h[n + m]
  BY <1>4, <1>6, <1>7, FlattenUnique
<1>10. QED
  BY <1>1, <1>2, <1>8, <1>9 DEF n, m

-----------------------------------------------------------------------------
(* Names as bytes *)

LEMMA Bounds ==
    ASSUME NEW x
    PROVE  /\ x \in Octets <=> x \in Nat /\ x <= 255
           /\ x \in Words <=> x \in Nat /\ x <= 65535
           /\ x \in LabelBytes <=> x \in Nat /\ x > 0 /\ x < 192
  BY DEF Octets, Words, LabelBytes

Labels == {l \in Seq(LabelBytes) : Len(l) > 0 /\ Len(l) < 64}

LEMMA LabelIs ==
    ASSUME NEW l \in Labels
    PROVE  /\ Label(l) \in Seq(LabelBytes) /\ Len(Label(l)) = 1 + Len(l)
           /\ \A i \in 1..Len(Label(l)) : Label(l)[i] = IF i = 1 THEN Len(l) ELSE l[i - 1]
<1>1. l \in Seq(LabelBytes) /\ Len(l) \in LabelBytes /\ Len(l) \in Nat
  <2>1. l \in Seq(LabelBytes) /\ Len(l) > 0 /\ Len(l) < 64
    BY DEF Labels
  <2>2. Len(l) \in Nat /\ Len(l) > 0 /\ Len(l) < 192
    BY <2>1, LenProperties
  <2>3. Len(l) \in LabelBytes
    BY <2>2, Bounds
  <2>4. QED
    BY <2>1, <2>2, <2>3
<1>2. <<Len(l)>> \in Seq(LabelBytes) /\ Len(<<Len(l)>>) = 1 /\ <<Len(l)>>[1] = Len(l)
  BY <1>1
<1> DEFINE h == <<Len(l)>>
<1>3. h \in Seq(LabelBytes) /\ Len(h) = 1 /\ h[1] = Len(l) /\ Label(l) = h \o l
  BY <1>2 DEF Label
<1> HIDE DEF h
<1>4. /\ h \o l \in Seq(LabelBytes) /\ Len(h \o l) = 1 + Len(l)
      /\ \A i \in 1..1 : (h \o l)[i] = h[i]
      /\ \A i \in 1..Len(l) : (h \o l)[1 + i] = l[i]
  <2>1. /\ h \o l \in Seq(LabelBytes) /\ Len(h \o l) = Len(h) + Len(l)
        /\ \A i \in 1..Len(h) : (h \o l)[i] = h[i]
        /\ \A i \in 1..Len(l) : (h \o l)[Len(h) + i] = l[i]
    <3>1. h \in Seq(LabelBytes) /\ l \in Seq(LabelBytes)
      BY <1>1, <1>3
    <3>2. QED
      BY <3>1, Concat
  <2>2. QED
    BY <1>3, <2>1
<1>5. ASSUME NEW i \in 1..1 + Len(l) PROVE (h \o l)[i] = IF i = 1 THEN Len(l) ELSE l[i - 1]
  <2>1. CASE i = 1
    BY <1>3, <1>4, <2>1
  <2>2. CASE i # 1
    <3>1. i - 1 \in 1..Len(l) /\ 1 + (i - 1) = i
      BY <1>1, <2>2
    <3>2. (h \o l)[1 + (i - 1)] = l[i - 1]
      BY <1>4, <3>1
    <3>3. QED
      BY <2>2, <3>1, <3>2
  <2>3. QED
    BY <2>1, <2>2
<1>6. QED
  BY <1>3, <1>4, <1>5

\* The sequence of which Literal makes one.
LEMMA LabelsOf ==
    ASSUME NEW n \in Seq(Labels)
    PROVE  /\ [i \in DOMAIN n |-> Label(n[i])] \in Seq(Seq(LabelBytes))
           /\ [i \in DOMAIN n |-> Label(n[i])] = [i \in 1..Len(n) |-> Label(n[i])]
           /\ Len([i \in DOMAIN n |-> Label(n[i])]) = Len(n)
           /\ \A i \in 1..Len(n) : n[i] \in Labels
<1>1. DOMAIN n = 1..Len(n) /\ Len(n) \in Nat /\ \A i \in 1..Len(n) : n[i] \in Labels
  BY LenProperties, ElementOfSeq
<1>2. \A i \in 1..Len(n) : Label(n[i]) \in Seq(LabelBytes)
  BY <1>1, LabelIs
<1>3. QED
  BY <1>1, <1>2

LEMMA LiteralType ==
    ASSUME NEW n \in Seq(Labels)
    PROVE  Literal(n) \in Seq(LabelBytes) /\ Literal(n) \in Seq(Octets) /\ Len(Literal(n)) \in Nat
<1>1. Literal(n) \in Seq(LabelBytes)
  BY LabelsOf, FlattenType DEF Literal
<1>2. LabelBytes \subseteq Octets
  BY DEF LabelBytes, Octets
<1>3. QED
  BY <1>1, <1>2, SeqMonotonic, LenProperties

LEMMA LiteralConcat ==
    ASSUME NEW n \in Seq(Labels), NEW m \in Seq(Labels)
    PROVE  Literal(n \o m) = Literal(n) \o Literal(m)
<1> DEFINE f(k) == [i \in 1..Len(k) |-> Label(k[i])]
<1>1. /\ n \o m \in Seq(Labels) /\ Len(n \o m) = Len(n) + Len(m)
      /\ Len(n) \in Nat /\ Len(m) \in Nat
      /\ \A i \in 1..Len(n) + Len(m) : (n \o m)[i] = IF i <= Len(n) THEN n[i] ELSE m[i - Len(n)]
  BY ConcatProperties, LenProperties
<1>2. \A k \in Seq(Labels) : /\ f(k) \in Seq(Seq(LabelBytes)) /\ Len(f(k)) = Len(k)
                             /\ Literal(k) = FlattenSeq(f(k))
  BY LabelsOf DEF Literal
<1>3. /\ f(n) \o f(m) \in Seq(Seq(LabelBytes)) /\ Len(f(n) \o f(m)) = Len(n) + Len(m)
      /\ \A i \in 1..Len(n) + Len(m) :
           (f(n) \o f(m))[i] = IF i <= Len(n) THEN f(n)[i] ELSE f(m)[i - Len(n)]
  <2> DEFINE x == f(n)
             y == f(m)
  <2>1. x \in Seq(Seq(LabelBytes)) /\ y \in Seq(Seq(LabelBytes)) /\ Len(x) = Len(n) /\ Len(y) = Len(m)
    BY <1>2
  <2> HIDE DEF x, y
  <2>2. x \o y \in Seq(Seq(LabelBytes)) /\ Len(x \o y) = Len(x) + Len(y)
    BY <2>1, ConcatProperties
  <2>3. \A i \in 1..Len(x) + Len(y) :
           (x \o y)[i] = IF i <= Len(x) THEN x[i] ELSE y[i - Len(x)]
    BY <2>1, ConcatProperties
  <2>4. QED
    BY <2>1, <2>2, <2>3 DEF x, y
<1>4. ASSUME NEW i \in 1..Len(n) + Len(m) PROVE f(n \o m)[i] = (f(n) \o f(m))[i]
  <2>1. CASE i <= Len(n)
    <3>1. i \in 1..Len(n)
      BY <1>1, <2>1
    <3>2. f(n \o m)[i] = Label(n[i])
      BY <1>1, <2>1
    <3>3. (f(n) \o f(m))[i] = f(n)[i]
      BY <1>3, <2>1
    <3>4. QED
      BY <3>1, <3>2, <3>3
  <2>2. CASE ~(i <= Len(n))
    <3>1. i - Len(n) \in 1..Len(m)
      BY <1>1, <2>2
    <3>2. f(n \o m)[i] = Label(m[i - Len(n)])
      BY <1>1, <2>2
    <3>3. (f(n) \o f(m))[i] = f(m)[i - Len(n)]
      BY <1>3, <2>2
    <3>4. QED
      BY <3>1, <3>2, <3>3
  <2>3. QED
    BY <2>1, <2>2
<1>5. f(n \o m) = f(n) \o f(m)
  <2> DEFINE x == f(n \o m)
             y == f(n) \o f(m)
  <2>1. x \in Seq(Seq(LabelBytes)) /\ Len(x) = Len(n) + Len(m)
    BY <1>1, <1>2
  <2>2. y \in Seq(Seq(LabelBytes)) /\ Len(y) = Len(n) + Len(m)
    BY <1>3
  <2>3. \A i \in 1..Len(x) : x[i] = y[i]
    BY <1>4, <2>1
  <2> HIDE DEF x, y
  <2>4. x = y
    BY <2>1, <2>2, <2>3, SeqEqual
  <2>5. QED
    BY <2>4 DEF x, y
<1> HIDE DEF f
<1>6. FlattenSeq(f(n) \o f(m)) = FlattenSeq(f(n)) \o FlattenSeq(f(m))
  BY <1>2, FlattenConcat
<1>7. QED
  BY <1>1, <1>2, <1>5, <1>6

LEMMA LiteralEmpty == Literal(<<>>) = <<>>
<1>1. [i \in DOMAIN <<>> |-> Label(<<>>[i])] = <<>>
  OBVIOUS
<1>2. QED
  BY <1>1 DEF Literal, FlattenSeq

\* The first i labels and the others make the name.
LEMMA LiteralSplit ==
    ASSUME NEW n \in Seq(Labels), NEW i \in 0..Len(n)
    PROVE  /\ Literal(n) = Literal(SubSeq(n, 1, i)) \o Literal(SubSeq(n, i + 1, Len(n)))
           /\ SubSeq(n, 1, i) \in Seq(Labels) /\ Len(SubSeq(n, 1, i)) = i
           /\ SubSeq(n, i + 1, Len(n)) \in Seq(Labels)
           /\ Len(SubSeq(n, i + 1, Len(n))) = Len(n) - i
<1>1. Len(n) \in Nat /\ \A k \in 1..Len(n) : n[k] \in Labels
  BY ElementOfSeq, LenProperties
<1>2. /\ SubSeq(n, 1, i) \in Seq(Labels) /\ Len(SubSeq(n, 1, i)) = i
  <2>1. \A k \in 1..i : n[k] \in Labels
    BY <1>1
  <2>2. Len(SubSeq(n, 1, i)) = IF 1 <= i THEN i - 1 + 1 ELSE 0
    BY <1>1, <2>1, SubSeqProperties
  <2>3. SubSeq(n, 1, i) \in Seq(Labels)
    BY <1>1, <2>1, SubSeqProperties
  <2>4. QED
    BY <1>1, <2>2, <2>3
<1>3. /\ SubSeq(n, i + 1, Len(n)) \in Seq(Labels)
      /\ Len(SubSeq(n, i + 1, Len(n))) = Len(n) - i
  <2>1. \A k \in i + 1..Len(n) : n[k] \in Labels
    BY <1>1
  <2>2. i + 1 \in Int /\ Len(n) \in Int
    BY <1>1
  <2>3. Len(SubSeq(n, i + 1, Len(n))) = IF i + 1 <= Len(n) THEN Len(n) - (i + 1) + 1 ELSE 0
    BY <2>1, <2>2, SubSeqProperties
  <2>4. SubSeq(n, i + 1, Len(n)) \in Seq(Labels)
    BY <2>1, <2>2, SubSeqProperties
  <2>5. QED
    BY <1>1, <2>3, <2>4
<1>4. n = SubSeq(n, 1, i) \o SubSeq(n, i + 1, Len(n))
  <2>1. 1 \in 1..Len(n) + 1 /\ i \in 1 - 1..Len(n) /\ Len(n) \in i..Len(n)
    BY <1>1
  <2>2. SubSeq(n, 1, i) \o SubSeq(n, i + 1, Len(n)) = SubSeq(n, 1, Len(n))
    BY <2>1, ConcatAdjacentSubSeq
  <2>3. QED
    BY <2>2, SubSeqFull
<1>5. QED
  <2> DEFINE x == SubSeq(n, 1, i)
             y == SubSeq(n, i + 1, Len(n))
  <2>1. n = x \o y /\ x \in Seq(Labels) /\ y \in Seq(Labels)
    BY <1>2, <1>3, <1>4
  <2> HIDE DEF x, y
  <2>2. Literal(x \o y) = Literal(x) \o Literal(y)
    BY <2>1, LiteralConcat
  <2>3. Literal(n) = Literal(x) \o Literal(y)
    BY <2>1, <2>2
  <2>4. QED
    BY <1>2, <1>3, <2>3 DEF x, y

-----------------------------------------------------------------------------
(* Bytes of a buffer *)

LEMMA ByteIs ==
    ASSUME NEW b \in Seq(Octets), NEW p \in Nat
    PROVE  /\ Byte(b, p) \in Octets /\ Byte(b, p) \in Nat /\ Byte(b, p) <= 255
           /\ p < Len(b) => Byte(b, p) = b[p + 1]
           /\ ~(p < Len(b)) => Byte(b, p) = 0
<1>1. Len(b) \in Nat /\ \A i \in 1..Len(b) : b[i] \in Octets
  BY LenProperties, ElementOfSeq
<1>2. CASE p < Len(b)
  <2>1. p + 1 \in 1..Len(b)
    BY <1>1, <1>2
  <2>2. Byte(b, p) = b[p + 1]
    BY <1>2 DEF Byte
  <2>3. QED
    BY <1>1, <1>2, <2>1, <2>2, Bounds
<1>3. CASE ~(p < Len(b))
  BY <1>3, Bounds DEF Byte
<1>4. QED
  BY <1>2, <1>3

LEMMA NumberIs ==
    ASSUME NEW b \in Seq(Octets), NEW p \in Nat
    PROVE  /\ u8n_to_u16h(b, p) \in Words /\ u8n_to_u16h(b, p) \in Nat
           /\ u8n_to_u32h(b, p) \in Longs
<1>1. ASSUME NEW q \in Nat PROVE u8n_to_u16h(b, q) \in Nat /\ u8n_to_u16h(b, q) <= 65535
  <2>1. q + 1 \in Nat
    OBVIOUS
  <2> DEFINE x == Byte(b, q)
             y == Byte(b, q + 1)
  <2>2. x \in Octets /\ y \in Octets
    BY <2>1, ByteIs
  <2>3. u8n_to_u16h(b, q) = 256 * x + y
    BY DEF u8n_to_u16h
  <2> HIDE DEF x, y
  <2>4. x \in Nat /\ x <= 255 /\ y \in Nat /\ y <= 255
    BY <2>2, Bounds
  <2>5. 256 * x + y \in Nat /\ 256 * x + y <= 65535
    BY <2>4
  <2>6. QED
    BY <2>3, <2>5
<1> DEFINE x == u8n_to_u16h(b, p)
           y == u8n_to_u16h(b, p + 2)
<1>2. x \in Nat /\ x <= 65535 /\ y \in Nat /\ y <= 65535
  <2>1. p + 2 \in Nat
    OBVIOUS
  <2>2. QED
    BY <1>1, <2>1
<1>3. u8n_to_u32h(b, p) = 65536 * x + y
  BY DEF u8n_to_u32h
<1> HIDE DEF x, y
<1>4. 65536 * x + y \in Nat /\ (65536 * x + y) \div 65536 = x
  BY <1>2
<1>5. x \in Words
  BY <1>2, Bounds
<1>6. 65536 * x + y \in Longs
  BY <1>4, <1>5, SMT DEF Longs
<1>7. QED
  BY <1>2, <1>3, <1>5, <1>6, SMT DEF x

LEMMA BytesIs ==
    ASSUME NEW b \in Seq(Octets), NEW p \in Nat, NEW n \in Nat
    PROVE  /\ Bytes(b, p, n) \in Seq(Octets) /\ Len(Bytes(b, p, n)) = n
           /\ \A i \in 1..n : Bytes(b, p, n)[i] = Byte(b, p + i - 1)
<1>1. \A i \in 1..n : Byte(b, p + i - 1) \in Octets
  <2>1. \A i \in 1..n : p + i - 1 \in Nat
    OBVIOUS
  <2>2. QED
    BY <2>1, ByteIs
<1>2. QED
  BY <1>1 DEF Bytes

\* The bytes s stand at p.
Holds(b, p, s) == \A i \in 1..Len(s) : Byte(b, p + i - 1) = s[i]

LEMMA HoldsBytes ==
    ASSUME NEW b \in Seq(Octets), NEW p \in Nat, NEW s \in Seq(Octets), Holds(b, p, s)
    PROVE  Bytes(b, p, Len(s)) = s
<1>1. Len(s) \in Nat
  BY LenProperties
<1>2. /\ Bytes(b, p, Len(s)) \in Seq(Octets) /\ Len(Bytes(b, p, Len(s))) = Len(s)
      /\ \A i \in 1..Len(s) : Bytes(b, p, Len(s))[i] = Byte(b, p + i - 1)
  BY <1>1, BytesIs
<1>3. \A i \in 1..Len(s) : Bytes(b, p, Len(s))[i] = s[i]
  BY <1>2 DEF Holds
<1> DEFINE x == Bytes(b, p, Len(s))
<1>4. x \in Seq(Octets) /\ Len(x) = Len(s) /\ \A i \in 1..Len(x) : x[i] = s[i]
  BY <1>2, <1>3
<1> HIDE DEF x
<1>5. x = s
  BY <1>4, SeqEqual
<1>6. QED
  BY <1>5 DEF x

\* Of two parts each stands at its place.
LEMMA HoldsConcat ==
    ASSUME NEW b, NEW p \in Nat, NEW S, NEW s \in Seq(S), NEW t \in Seq(S)
    PROVE  Holds(b, p, s \o t) <=> Holds(b, p, s) /\ Holds(b, p + Len(s), t)
<1>1. /\ Len(s \o t) = Len(s) + Len(t) /\ Len(s) \in Nat /\ Len(t) \in Nat
      /\ \A i \in 1..Len(s) : (s \o t)[i] = s[i]
      /\ \A i \in 1..Len(t) : (s \o t)[Len(s) + i] = t[i]
  BY Concat
<1>2. ASSUME Holds(b, p, s \o t) PROVE Holds(b, p, s) /\ Holds(b, p + Len(s), t)
  <2>1. \A i \in 1..Len(s) + Len(t) : Byte(b, p + i - 1) = (s \o t)[i]
    BY <1>1, <1>2 DEF Holds
  <2>2. ASSUME NEW i \in 1..Len(s) PROVE Byte(b, p + i - 1) = s[i]
    <3>1. i \in 1..Len(s) + Len(t)
      BY <1>1
    <3>2. QED
      BY <1>1, <2>1, <3>1
  <2>3. ASSUME NEW i \in 1..Len(t) PROVE Byte(b, (p + Len(s)) + i - 1) = t[i]
    <3>1. Len(s) + i \in 1..Len(s) + Len(t) /\ p + (Len(s) + i) - 1 = (p + Len(s)) + i - 1
      BY <1>1
    <3>2. Byte(b, p + (Len(s) + i) - 1) = (s \o t)[Len(s) + i]
      BY <2>1, <3>1
    <3>3. QED
      BY <1>1, <3>1, <3>2
  <2>4. QED
    BY <2>2, <2>3 DEF Holds
<1>3. ASSUME Holds(b, p, s), Holds(b, p + Len(s), t) PROVE Holds(b, p, s \o t)
  <2>1. ASSUME NEW i \in 1..Len(s) + Len(t) PROVE Byte(b, p + i - 1) = (s \o t)[i]
    <3>1. CASE i <= Len(s)
      <4>1. i \in 1..Len(s)
        BY <1>1, <3>1
      <4>2. QED
        BY <1>1, <1>3, <4>1 DEF Holds
    <3>2. CASE ~(i <= Len(s))
      <4>1. /\ i - Len(s) \in 1..Len(t) /\ Len(s) + (i - Len(s)) = i
            /\ (p + Len(s)) + (i - Len(s)) - 1 = p + i - 1
        BY <1>1, <3>2
      <4>2. Byte(b, (p + Len(s)) + (i - Len(s)) - 1) = t[i - Len(s)]
        BY <1>3, <4>1 DEF Holds
      <4>3. (s \o t)[Len(s) + (i - Len(s))] = t[i - Len(s)]
        BY <1>1, <4>1
      <4>4. QED
        BY <4>1, <4>2, <4>3
    <3>3. QED
      BY <3>1, <3>2
  <2>2. QED
    BY <1>1, <2>1 DEF Holds
<1>4. QED
  BY <1>2, <1>3

-----------------------------------------------------------------------------
(* Reading a name *)

Stops(b, e) == Byte(b, e) = 0 \/ IsPointer(Byte(b, e))

\* The name's bytes end at the first place that stops them; there is one, since
\* the buffer is zero beyond its end.
LEMMA NameEndIs ==
    ASSUME NEW b \in Seq(Octets), NEW p \in Nat
    PROVE  /\ NameEnd(b, p) \in Nat /\ NameEnd(b, p) >= p /\ Stops(b, NameEnd(b, p))
           /\ \A q \in p..NameEnd(b, p) - 1 : ~Stops(b, q)
<1> DEFINE S == {e \in p..p + Len(b) : Stops(b, e)}
           First(e) == /\ Byte(b, e) = 0 \/ IsPointer(Byte(b, e))
                       /\ \A q \in p..e - 1 : Byte(b, q) # 0 /\ ~IsPointer(Byte(b, q))
<1>1. Len(b) \in Nat
  BY LenProperties
<1>2. p + Len(b) \in S
  <2>1. Byte(b, p + Len(b)) = 0
    BY <1>1, ByteIs
  <2>2. QED
    BY <1>1, <2>1 DEF Stops
<1>3. S \in SUBSET Nat /\ S # {}
  BY <1>1, <1>2
<1>4. PICK e \in S : \A y \in S : e <= y
  <2> HIDE DEF S
  <2>1. QED
    BY <1>3, LeastExists
<1>5. ASSUME NEW q \in p..e - 1 PROVE ~Stops(b, q)
  <2>1. q \in p..p + Len(b) /\ ~(e <= q)
    BY <1>1, <1>4
  <2>2. QED
    BY <1>4, <2>1
<1>6. e \in p..p + Len(b) /\ First(e)
  BY <1>4, <1>5 DEF Stops
<1>7. NameEnd(b, p) = CHOOSE x \in p..p + Len(b) : First(x)
  BY DEF NameEnd
<1> HIDE DEF First
<1>8. NameEnd(b, p) \in p..p + Len(b) /\ First(NameEnd(b, p))
  BY <1>6, <1>7
<1>9. QED
  BY <1>1, <1>8 DEF First, Stops

LEMMA NameEndUnique ==
    ASSUME NEW b \in Seq(Octets), NEW p \in Nat, NEW e \in Nat, e >= p, Stops(b, e),
           \A q \in p..e - 1 : ~Stops(b, q)
    PROVE  NameEnd(b, p) = e
<1> DEFINE x == NameEnd(b, p)
<1>1. x \in Nat /\ x >= p /\ Stops(b, x) /\ \A q \in p..x - 1 : ~Stops(b, q)
  BY NameEndIs
<1> HIDE DEF x
<1>2. ~(x < e)
  <2>1. x < e => x \in p..e - 1
    BY <1>1
  <2>2. QED
    BY <1>1, <2>1
<1>3. ~(e < x)
  <2>1. e < x => e \in p..x - 1
    BY <1>1
  <2>2. QED
    BY <1>1, <2>1
<1>4. x = e
  BY <1>1, <1>2, <1>3
<1>5. QED
  BY <1>4 DEF x

\* The bytes of a name up to where they stop, and where the pointer there leads.
Segment(b, q) == Bytes(b, q, NameEnd(b, q) - q)
Points(b, q) == IsPointer(Byte(b, NameEnd(b, q)))
Target(b, q) == u8n_to_u16h(b, NameEnd(b, q)) % 16384

LEMMA SegmentIs ==
    ASSUME NEW b \in Seq(Octets), NEW q \in Nat
    PROVE  Segment(b, q) \in Seq(Octets) /\ Target(b, q) \in Nat
<1>1. NameEnd(b, q) \in Nat /\ NameEnd(b, q) - q \in Nat
  BY NameEndIs
<1>2. Segment(b, q) \in Seq(Octets)
  BY <1>1, BytesIs DEF Segment
<1>4. Target(b, q) \in Nat
  <2>1. u8n_to_u16h(b, NameEnd(b, q)) \in Nat
    BY <1>1, NumberIs
  <2>2. QED
    BY <2>1 DEF Target
<1>5. QED
  BY <1>2, <1>4

\* Expanded satisfies its definition.
LEMMA ExpandedIs ==
    ASSUME NEW b \in Seq(Octets)
    PROVE  \A k \in 0..PointerMax : \A q \in Nat :
             /\ Expanded(b)[k][q] \in Seq(Octets)
             /\ Expanded(b)[k][q] = Segment(b, q) \o (IF Points(b, q) /\ k > 0
                                                      THEN Expanded(b)[k - 1][Target(b, q)]
                                                      ELSE <<>>)
<1> DEFINE V == [Nat -> Seq(Octets)]
           Level(k, v) == [q \in Nat |-> Segment(b, q) \o (IF Points(b, q) /\ k > 0
                                                           THEN v[Target(b, q)] ELSE <<>>)]
           Step(g) == [k \in 0..PointerMax |-> Level(k, g[k - 1])]
           G == [k \in 1..PointerMax |-> [v \in V |-> Level(k, v)]]
           a == [q \in Nat |-> Segment(b, q) \o <<>>]
<1>1. PointerMax \in Nat
  BY MessageAssumption
<1>2. <<>> \in Seq(Octets)
  BY EmptySeq
<1>3. a \in V
  <2>1. ASSUME NEW q \in Nat PROVE Segment(b, q) \o <<>> \in Seq(Octets)
    BY <1>2, SegmentIs, ConcatProperties
  <2>2. QED
    BY <2>1
<1>4. ASSUME NEW k, NEW v \in V PROVE Level(k, v) \in V
  <2>1. ASSUME NEW q \in Nat
        PROVE  Segment(b, q) \o (IF Points(b, q) /\ k > 0 THEN v[Target(b, q)] ELSE <<>>)
                 \in Seq(Octets)
    <3>1. (IF Points(b, q) /\ k > 0 THEN v[Target(b, q)] ELSE <<>>) \in Seq(Octets)
      BY <1>2, SegmentIs
    <3>2. QED
      BY <3>1, SegmentIs, ConcatProperties
  <2>2. QED
    BY <2>1
<1>5. G \in [1..PointerMax -> [V -> V]]
  <2> HIDE DEF V, Level
  <2>1. QED
    BY <1>4
<1>6. ASSUME NEW v PROVE Level(0, v) = a
  <2>1. ~(0 > 0)
    OBVIOUS
  <2>2. ASSUME NEW q \in Nat
        PROVE  (IF Points(b, q) /\ 0 > 0 THEN v[Target(b, q)] ELSE <<>>) = <<>>
    BY <2>1, Zenon
  <2>3. QED
    BY <2>2, Zenon
<1> HIDE DEF Level, V, a
<1>7. PICK f : f \in Recursion(V, a, PointerMax, G)
  <2> HIDE DEF G
  <2>1. QED
    BY <1>1, <1>3, <1>5, RecursionExists
<1>8. /\ f \in [0..PointerMax -> V] /\ f[0] = a
      /\ \A k \in 1..PointerMax : f[k] = G[k][f[k - 1]]
  <2> HIDE DEF G
  <2>1. QED
    BY <1>7 DEF Recursion
<1>9. ASSUME NEW k \in 0..PointerMax PROVE f[k] = Level(k, f[k - 1])
  <2>1. CASE k = 0
    BY <1>6, <1>8, <2>1
  <2>2. CASE k # 0
    <3>1. k \in 1..PointerMax /\ k - 1 \in 0..PointerMax
      BY <1>1, <2>2
    <3>2. f[k - 1] \in V
      BY <1>8, <3>1
    <3>3. QED
      BY <1>8, <3>1, <3>2
  <2>3. QED
    BY <2>1, <2>2
<1>10. f = Step(f)
  BY <1>8, <1>9
<1>11. Expanded(b) = CHOOSE g : g = Step(g)
  BY DEF Expanded, Level, Segment, Points, Target
<1>12. Expanded(b) = Step(Expanded(b))
  BY <1>10, <1>11
<1> DEFINE X == Expanded(b)
<1>13. \A k \in 0..PointerMax : X[k] = Level(k, X[k - 1])
  BY <1>12
<1> HIDE DEF X
<1>14. X[0] = f[0]
  BY <1>1, <1>6, <1>8, <1>13
<1>15. \A k \in 1..PointerMax : X[k - 1] = f[k - 1] => X[k] = f[k]
  <2>1. \A k \in 1..PointerMax : k \in 0..PointerMax
    BY <1>1
  <2>2. QED
    BY <1>9, <1>13, <2>1
<1>16. \A k \in 0..PointerMax : X[k] = f[k]
  <2>1. PointerMax \in Nat /\ SameSteps(PointerMax, X, f)
    BY <1>1, <1>14, <1>15 DEF SameSteps
  <2>2. QED
    BY <2>1, RecursionUnique
<1>17. ASSUME NEW k \in 0..PointerMax, NEW q \in Nat
       PROVE  /\ X[k][q] \in Seq(Octets)
              /\ X[k][q] = Segment(b, q) \o (IF Points(b, q) /\ k > 0
                                             THEN X[k - 1][Target(b, q)] ELSE <<>>)
  <2>1. X[k] \in V
    BY <1>8, <1>16
  <2>2. X[k] = Level(k, X[k - 1])
    BY <1>13
  <2>3. QED
    BY <2>1, <2>2 DEF V, Level
<1>18. QED
  BY <1>17 DEF X

LEMMA ReadDomainType ==
    ASSUME NEW b \in Seq(Octets), NEW p \in Nat
    PROVE  read_domain(b, p) \in Seq(Octets) /\ NameOffset(b, p) \in Nat
<1>1. PointerMax \in 0..PointerMax
  BY MessageAssumption
<1>2. read_domain(b, p) \in Seq(Octets)
  BY <1>1, ExpandedIs DEF read_domain
<1>3. NameOffset(b, p) \in Nat
  <2> DEFINE e == NameEnd(b, p)
  <2>1. NameOffset(b, p) = e - p + (IF IsPointer(Byte(b, e)) THEN 2 ELSE 1)
    BY DEF NameOffset
  <2>2. e \in Nat /\ e >= p
    BY NameEndIs
  <2> HIDE DEF e
  <2>3. e - p + 2 \in Nat /\ e - p + 1 \in Nat
    BY <2>2
  <2>4. QED
    BY <2>1, <2>3
<1>4. QED
  BY <1>2, <1>3

-----------------------------------------------------------------------------
(* Numbers on the wire *)

LEMMA U16Is ==
    ASSUME NEW n \in Words
    PROVE  /\ U16(n) \in Seq(Octets) /\ Len(U16(n)) = 2
           /\ U16(n)[1] = n \div 256 /\ U16(n)[2] = n % 256
           /\ u16h_to_u8n(n) = U16(n)
<1>1. n \in Nat /\ n <= 65535
  BY Bounds
<1>2. n \div 256 \in Nat /\ n \div 256 <= 255 /\ n % 256 \in Nat /\ n % 256 <= 255
  BY <1>1
<1>3. n \div 256 \in Octets /\ n % 256 \in Octets
  BY <1>2, Bounds
<1>4. QED
  BY <1>3 DEF U16, u16h_to_u8n

LEMMA U32Is ==
    ASSUME NEW n \in Longs
    PROVE  /\ U32(n) \in Seq(Octets) /\ Len(U32(n)) = 4
           /\ u32h_to_u8n(n) = U32(n)
<1> DEFINE h == n \div 65536
           l == n % 65536
           x == U16(h)
           y == U16(l)
<1>1. h \in Words /\ l \in Nat /\ l <= 65535
  BY SMT DEF Longs
<1>2. U32(n) = x \o y /\ u32h_to_u8n(n) = u16h_to_u8n(h) \o u16h_to_u8n(l)
  BY SMT DEF U32, u32h_to_u8n
<1> HIDE DEF h, l
<1>3. l \in Words
  BY <1>1, Bounds
<1>7. x \in Seq(Octets) /\ y \in Seq(Octets) /\ Len(x) = 2 /\ Len(y) = 2
      /\ u16h_to_u8n(h) = x /\ u16h_to_u8n(l) = y
  BY <1>1, <1>3, U16Is
<1> HIDE DEF x, y
<1>4. x \o y \in Seq(Octets) /\ Len(x \o y) = Len(x) + Len(y)
  <2>1. x \in Seq(Octets) /\ y \in Seq(Octets)
    BY <1>7
  <2>2. QED
    BY <2>1, Concat
<1>5. QED
  BY <1>2, <1>4, <1>7

\* A number is read as it was written.
LEMMA ReadU16 ==
    ASSUME NEW x \in Seq(Octets), NEW p \in Nat, NEW n \in Words, Holds(x, p, U16(n))
    PROVE  u8n_to_u16h(x, p) = n
<1> DEFINE u == U16(n)
<1>1. Len(u) = 2 /\ u[1] = n \div 256 /\ u[2] = n % 256
  BY U16Is
<1>2. \A i \in 1..Len(u) : Byte(x, p + i - 1) = u[i]
  BY DEF Holds
<1> HIDE DEF u
<1>3. 1 \in 1..Len(u) /\ 2 \in 1..Len(u) /\ p + 1 - 1 = p /\ p + 2 - 1 = p + 1
  BY <1>1
<1>4. Byte(x, p) = n \div 256 /\ Byte(x, p + 1) = n % 256
  <2>1. Byte(x, p + 1 - 1) = u[1] /\ Byte(x, p + 2 - 1) = u[2]
    BY <1>2, <1>3
  <2>2. QED
    BY <1>1, <1>3, <2>1
<1>5. n \in Nat
  BY Bounds
<1>6. 256 * (n \div 256) + (n % 256) = n
  BY <1>5
<1>7. QED
  BY <1>4, <1>6 DEF u8n_to_u16h

LEMMA ReadU32 ==
    ASSUME NEW x \in Seq(Octets), NEW p \in Nat, NEW n \in Longs, Holds(x, p, U32(n))
    PROVE  u8n_to_u32h(x, p) = n
<1> DEFINE h == n \div 65536
           l == n % 65536
<1>1. U32(n) = U16(h) \o U16(l) /\ h \in Words /\ l \in Words
  <2>1. h \in Words /\ l \in Nat /\ l <= 65535
    BY SMT DEF Longs
  <2>2. U32(n) = U16(h) \o U16(l)
    BY SMT DEF U32
  <2> HIDE DEF l
  <2>3. l \in Words
    BY <2>1, Bounds, SMTT(30)
  <2>4. QED
    BY <2>1, <2>2, <2>3, SMT
<1>2. 65536 * h + l = n
  BY SMT DEF Longs
<1> HIDE DEF h, l
<1>3. U16(h) \in Seq(Octets) /\ U16(l) \in Seq(Octets) /\ Len(U16(h)) = 2
  BY <1>1, U16Is
<1>4. Holds(x, p, U16(h)) /\ Holds(x, p + Len(U16(h)), U16(l))
  <2>1. U16(h) \in Seq(Octets) /\ U16(l) \in Seq(Octets) /\ Holds(x, p, U16(h) \o U16(l))
    BY <1>1, <1>3
  <2>2. QED
    BY <2>1, HoldsConcat
<1>5. Holds(x, p + 2, U16(l)) /\ p + 2 \in Nat
  BY <1>3, <1>4
<1>6. u8n_to_u16h(x, p) = h /\ u8n_to_u16h(x, p + 2) = l
  BY <1>1, <1>4, <1>5, ReadU16
<1>7. QED
  BY <1>2, <1>6, SMT DEF u8n_to_u32h

-----------------------------------------------------------------------------
(* What the sender writes for a name *)

Place == [name : Seq(Labels), at : Nat]
Rest(labels, i) == SubSeq(labels, i, Len(labels))
Start(labels, i) == Literal(SubSeq(labels, 1, i - 1))
PlacesOf(K, labels, i) == {k \in K : k.name = Rest(labels, i) /\ k.at < 16384}
Cut(K, labels, compress) ==
    IF compress THEN Min({Len(labels) + 1} \cup {i \in 1..Len(labels) : PlacesOf(K, labels, i) # {}})
    ELSE Len(labels) + 1
Ending(K, labels, compress) ==
    IF Cut(K, labels, compress) > Len(labels) THEN <<0>>
    ELSE U16(49152 + (CHOOSE k \in PlacesOf(K, labels, Cut(K, labels, compress)) : TRUE).at)
NewPlaces(K, p, labels, compress) ==
    {[name |-> Rest(labels, i), at |-> p + Len(Start(labels, i))] :
       i \in 1..(Cut(K, labels, compress) - 1)}
NameBytes(K, labels, compress) ==
    Start(labels, Cut(K, labels, compress)) \o Ending(K, labels, compress)

LEMMA CutIs ==
    ASSUME NEW K, NEW labels \in Seq(Labels), NEW compress \in BOOLEAN
    PROVE  /\ Cut(K, labels, compress) \in 1..Len(labels) + 1
           /\ Cut(K, labels, compress) \in Nat /\ Len(labels) \in Nat
           /\ Cut(K, labels, compress) <= Len(labels) =>
                PlacesOf(K, labels, Cut(K, labels, compress)) # {}
           /\ compress = FALSE => Cut(K, labels, compress) = Len(labels) + 1
<1> DEFINE n == Len(labels)
           S == {n + 1} \cup {i \in 1..n : PlacesOf(K, labels, i) # {}}
<1>1. n \in Nat
  BY LenProperties
<1>2. CASE compress
  <2>1. Cut(K, labels, compress) = CHOOSE x \in S : \A y \in S : x <= y
    BY <1>2 DEF Cut, Min
  <2>2. S \in SUBSET Nat /\ S # {}
    BY <1>1
  <2>3. \E x \in S : \A y \in S : x <= y
    <3> HIDE DEF S
    <3>1. QED
      BY <2>2, LeastExists
  <2>4. Cut(K, labels, compress) \in S
    <3> HIDE DEF S
    <3>1. QED
      BY <2>1, <2>3
  <2> DEFINE c == Cut(K, labels, compress)
  <2>5. c = n + 1 \/ (c \in 1..n /\ PlacesOf(K, labels, c) # {})
    BY <2>4
  <2> HIDE DEF c, n
  <2>6. /\ c \in 1..n + 1 /\ c \in Nat
        /\ c <= n => PlacesOf(K, labels, c) # {}
    BY <1>1, <2>5
  <2>7. QED
    BY <1>1, <1>2, <2>6 DEF c, n
<1>3. CASE ~compress
  BY <1>1, <1>3 DEF Cut
<1>4. QED
  BY <1>2, <1>3

LEMMA RestIs ==
    ASSUME NEW labels \in Seq(Labels), NEW i \in 1..Len(labels) + 1
    PROVE  /\ Rest(labels, i) \in Seq(Labels) /\ Len(Rest(labels, i)) = Len(labels) - i + 1
           /\ Start(labels, i) \in Seq(LabelBytes) /\ Start(labels, i) \in Seq(Octets)
           /\ Len(Start(labels, i)) \in Nat /\ Len(labels) \in Nat
           /\ Literal(labels) = Start(labels, i) \o Literal(Rest(labels, i))
           /\ Literal(Rest(labels, i)) \in Seq(LabelBytes)
           /\ Literal(Rest(labels, i)) \in Seq(Octets)
<1> DEFINE j == i - 1
<1>1. Len(labels) \in Nat
  BY LenProperties
<1>2. j \in 0..Len(labels) /\ j + 1 = i
  BY <1>1
<1> HIDE DEF j
<1>3. /\ Literal(labels) = Literal(SubSeq(labels, 1, j)) \o Literal(SubSeq(labels, j + 1, Len(labels)))
      /\ SubSeq(labels, 1, j) \in Seq(Labels)
      /\ SubSeq(labels, j + 1, Len(labels)) \in Seq(Labels)
      /\ Len(SubSeq(labels, j + 1, Len(labels))) = Len(labels) - j
  BY <1>2, LiteralSplit
<1>4. /\ Literal(labels) = Start(labels, i) \o Literal(Rest(labels, i))
      /\ Rest(labels, i) \in Seq(Labels) /\ Len(Rest(labels, i)) = Len(labels) - j
  BY <1>2, <1>3 DEF Start, Rest, j
<1>5. /\ Start(labels, i) \in Seq(LabelBytes) /\ Start(labels, i) \in Seq(Octets)
      /\ Len(Start(labels, i)) \in Nat
  BY <1>3, LiteralType DEF Start, j
<1>6. Literal(Rest(labels, i)) \in Seq(LabelBytes) /\ Literal(Rest(labels, i)) \in Seq(Octets)
  BY <1>4, LiteralType
<1>7. Len(labels) - j = Len(labels) - i + 1
  BY <1>1, <1>2
<1>8. QED
  BY <1>1, <1>4, <1>5, <1>6, <1>7

\* The places a pointer can lead to, and the pointer.
Near == {a \in Nat : a < 16384}
PointerTo(a) == U16(49152 + a)

LEMMA PointerIs ==
    ASSUME NEW a \in Near
    PROVE  PointerTo(a) \in Seq(Octets) /\ Len(PointerTo(a)) = 2 /\ a \in Nat
<1>1. a \in Nat /\ 49152 + a \in Nat /\ 49152 + a <= 65535
  BY SMT DEF Near
<1>2. 49152 + a \in Words
  BY <1>1, Bounds, SMT
<1>3. QED
  BY <1>1, <1>2, U16Is, SMT DEF PointerTo

LEMMA ReadPointer ==
    ASSUME NEW x \in Seq(Octets), NEW p \in Nat, NEW a \in Near, Holds(x, p, PointerTo(a))
    PROVE  IsPointer(Byte(x, p)) /\ u8n_to_u16h(x, p) % 16384 = a
<1> DEFINE n == 49152 + a
           y == Byte(x, p)
           z == Byte(x, p + 1)
<1>1. n \in Nat /\ n <= 65535 /\ n >= 49152 /\ n % 16384 = a
  BY SMT DEF Near
<1>2. PointerTo(a) = U16(n)
  BY SMT DEF PointerTo
<1>3. p + 1 \in Nat
  OBVIOUS
<1>4. y \in Nat /\ z \in Nat /\ z <= 255
  BY <1>3, ByteIs, ZenonT(30)
<1>5. u8n_to_u16h(x, p) = 256 * y + z
  BY SMT DEF u8n_to_u16h
<1> HIDE DEF n, y, z
<1>6. n \in Words
  BY <1>1, Bounds, SMT
<1>7. u8n_to_u16h(x, p) = n
  BY <1>2, <1>6, ReadU16, SMT
<1>8. y >= 192
  BY <1>1, <1>4, <1>5, <1>7, SMT
<1>9. QED
  BY <1>1, <1>7, <1>8, SMT DEF IsPointer, y

LEMMA EndingIs ==
    ASSUME NEW K \in SUBSET Place, NEW labels \in Seq(Labels), NEW compress \in BOOLEAN
    PROVE  \/ /\ Cut(K, labels, compress) = Len(labels) + 1
              /\ Ending(K, labels, compress) = <<0>>
           \/ /\ Cut(K, labels, compress) \in 1..Len(labels)
              /\ \E k \in K : /\ k.name = Rest(labels, Cut(K, labels, compress))
                              /\ k.at \in Near /\ Ending(K, labels, compress) = PointerTo(k.at)
<1> DEFINE c == Cut(K, labels, compress)
           n == Len(labels)
           P == PlacesOf(K, labels, c)
           k == CHOOSE j \in P : TRUE
<1>1. c \in 1..n + 1 /\ c \in Nat /\ n \in Nat /\ (c <= n => P # {})
  BY CutIs
<1>2. Ending(K, labels, compress) = IF c > n THEN <<0>> ELSE PointerTo(k.at)
  BY SMT DEF Ending, PointerTo
<1>3. CASE c > n
  <2> HIDE DEF c, n, P, k
  <2>1. c = n + 1
    BY <1>1, <1>3
  <2>2. QED
    BY <1>2, <1>3, <2>1 DEF c, n
<1>4. CASE ~(c > n)
  <2>1. c \in 1..n /\ k \in P
    <3> HIDE DEF c, n, P
    <3>1. c \in 1..n /\ P # {}
      BY <1>1, <1>4
    <3>2. QED
      BY <3>1
  <2>2. k \in K /\ k.name = Rest(labels, c) /\ k.at \in Near
    <3> HIDE DEF c, k
    <3>1. k \in Place /\ k \in K /\ k.name = Rest(labels, c) /\ k.at < 16384
      BY <2>1, SMT DEF PlacesOf
    <3>2. k.at \in Near
      BY <3>1, SMT DEF Place, Near
    <3>3. QED
      BY <3>1, <3>2
  <2> HIDE DEF c, n, P, k
  <2>3. Ending(K, labels, compress) = PointerTo(k.at)
    BY <1>2, <1>4
  <2>4. QED
    BY <2>1, <2>2, <2>3 DEF c, n
<1>5. QED
  BY <1>3, <1>4

\* The bytes of a name, and a bound for them.
LEMMA NameBytesIs ==
    ASSUME NEW K \in SUBSET Place, NEW labels \in Seq(Labels), NEW compress \in BOOLEAN
    PROVE  /\ Ending(K, labels, compress) \in Seq(Octets)
           /\ Len(Ending(K, labels, compress)) \in 1..2
           /\ NameBytes(K, labels, compress) \in Seq(Octets)
           /\ Len(NameBytes(K, labels, compress)) \in 1..Len(Literal(labels)) + 2
           /\ compress = FALSE => NameBytes(K, labels, compress) = Literal(labels) \o <<0>>
<1> DEFINE c == Cut(K, labels, compress)
           s == Start(labels, c)
           r == Literal(Rest(labels, c))
           e == Ending(K, labels, compress)
<1>1. c \in 1..Len(labels) + 1 /\ (compress = FALSE => c = Len(labels) + 1)
  BY CutIs
<1>2. s \in Seq(Octets) /\ Len(s) \in Nat /\ r \in Seq(Octets) /\ Literal(labels) = s \o r
  BY <1>1, RestIs
<1>3. <<0>> \in Seq(Octets) /\ Len(<<0>>) = 1
  <2>1. 0 \in Octets
    BY Bounds
  <2>2. QED
    BY <2>1
<1>4. e \in Seq(Octets) /\ Len(e) \in 1..2 /\ (c = Len(labels) + 1 => e = <<0>>)
  <2>1. \/ c = Len(labels) + 1 /\ e = <<0>>
        \/ c \in 1..Len(labels) /\ \E k \in K : k.at \in Near /\ e = PointerTo(k.at)
    BY EndingIs
  <2> HIDE DEF c, e
  <2>2. c \in 1..Len(labels) => c # Len(labels) + 1
    BY LenProperties
  <2>3. ASSUME NEW a \in Near, e = PointerTo(a) PROVE e \in Seq(Octets) /\ Len(e) = 2
    BY <2>3, PointerIs
  <2>4. e = <<0>> \/ (e \in Seq(Octets) /\ Len(e) = 2)
    BY <2>1, <2>3
  <2>5. c = Len(labels) + 1 => e = <<0>>
    BY <2>1, <2>2, Zenon
  <2>6. e \in Seq(Octets) /\ (Len(e) = 1 \/ Len(e) = 2)
    BY <1>3, <2>4, Zenon
  <2>7. QED
    BY <2>5, <2>6
<1>5. s \o e \in Seq(Octets) /\ Len(s \o e) = Len(s) + Len(e)
  <2> HIDE DEF s, e
  <2>1. s \in Seq(Octets) /\ e \in Seq(Octets)
    BY <1>2, <1>4
  <2>2. QED
    BY <2>1, Concat
<1>6. Len(Literal(labels)) = Len(s) + Len(r) /\ Len(r) \in Nat
  <2> HIDE DEF s, r
  <2>1. s \in Seq(Octets) /\ r \in Seq(Octets)
    BY <1>2
  <2>2. Len(s \o r) = Len(s) + Len(r) /\ Len(r) \in Nat
    BY <2>1, Concat
  <2>3. QED
    BY <1>2, <2>2
<1>7. ASSUME compress = FALSE PROVE s = Literal(labels)
  <2>1. c = Len(labels) + 1
    BY <1>1, <1>7
  <2>2. Rest(labels, c) = <<>>
    <3>1. Rest(labels, c) \in Seq(Labels) /\ Len(Rest(labels, c)) = Len(labels) - c + 1 /\ Len(labels) \in Nat
      BY <1>1, RestIs
    <3>2. Len(labels) - c + 1 = 0
      BY <2>1, <3>1
    <3>3. QED
      BY <3>1, <3>2, EmptySeq
  <2>3. r = <<>>
    <3>1. Literal(<<>>) = <<>>
      BY LiteralEmpty
    <3>2. QED
      BY <2>2, <3>1
  <2> HIDE DEF s, r
  <2>4. QED
    BY <1>2, <2>3, ConcatEmptySeq
<1>8. NameBytes(K, labels, compress) = s \o e
  BY DEF NameBytes
<1> HIDE DEF c, s, r, e
<1>9. Len(s \o e) \in 1..Len(Literal(labels)) + 2
  <2>1. \A x, y \in Nat : \A z \in 1..2 : x + z \in 1..(x + y) + 2
    OBVIOUS
  <2>2. Len(s) + Len(e) \in 1..(Len(s) + Len(r)) + 2
    BY <1>2, <1>4, <1>6, <2>1
  <2>3. QED
    BY <1>5, <1>6, <2>2, Zenon
<1>10. compress = FALSE => s \o e = Literal(labels) \o <<0>>
  BY <1>1, <1>4, <1>7
<1>11. QED
  BY <1>4, <1>5, <1>8, <1>9, <1>10 DEF e

Writer == [bytes : Seq(Octets), known : SUBSET Place]

LEMMA PutNameIs ==
    ASSUME NEW w \in Writer, NEW labels \in Seq(Labels), NEW compress \in BOOLEAN
    PROVE  /\ PutName(w, labels, compress) \in Writer
           /\ PutName(w, labels, compress).bytes = w.bytes \o NameBytes(w.known, labels, compress)
           /\ PutName(w, labels, compress).known =
                w.known \cup NewPlaces(w.known, Len(w.bytes), labels, compress)
<1> DEFINE b == w.bytes
           K == w.known
           s == Start(labels, Cut(K, labels, compress))
           e == Ending(K, labels, compress)
           new == NewPlaces(K, Len(b), labels, compress)
<1>1. b \in Seq(Octets) /\ K \in SUBSET Place
  BY DEF Writer
<1>2. PutName(w, labels, compress) = [bytes |-> b \o s \o e, known |-> K \cup new]
  BY SMT DEF PutName, Start, Rest, Ending, NewPlaces, Cut, PlacesOf
<1>3. s \in Seq(Octets) /\ e \in Seq(Octets)
  <2>1. Cut(K, labels, compress) \in 1..Len(labels) + 1
    BY CutIs
  <2>2. QED
    BY <1>1, <2>1, RestIs, NameBytesIs
<1>4. NameBytes(K, labels, compress) = s \o e
  BY DEF NameBytes
<1>5. new \in SUBSET Place
  <2>1. Len(b) \in Nat
    BY <1>1, LenProperties
  <2>2. ASSUME NEW i \in 1..Cut(K, labels, compress) - 1
        PROVE  [name |-> Rest(labels, i), at |-> Len(b) + Len(Start(labels, i))] \in Place
    <3>1. i \in 1..Len(labels) + 1
      <4>1. \A n \in Nat : \A c \in 1..n + 1 : \A j \in 1..c - 1 : j \in 1..n + 1
        OBVIOUS
      <4>2. Cut(K, labels, compress) \in 1..Len(labels) + 1 /\ Len(labels) \in Nat
        BY CutIs
      <4>3. QED
        BY <4>1, <4>2
    <3>2. Rest(labels, i) \in Seq(Labels) /\ Len(Start(labels, i)) \in Nat
      BY <3>1, RestIs
    <3>3. QED
      BY <2>1, <3>2 DEF Place
  <2>3. QED
    BY <2>2 DEF NewPlaces
<1> HIDE DEF b, K, s, e, new
<1>6. b \o s \o e = b \o (s \o e) /\ b \o (s \o e) \in Seq(Octets)
  BY <1>1, <1>3, ConcatAssociative, ConcatProperties, SMTT(30)
<1>7. [bytes |-> b \o s \o e, known |-> K \cup new] \in Writer
  BY <1>1, <1>5, <1>6 DEF Writer
<1> DEFINE put == PutName(w, labels, compress)
<1>8. put = [bytes |-> b \o (s \o e), known |-> K \cup new] /\ put \in Writer
  BY <1>2, <1>6, <1>7, Zenon
<1> HIDE DEF put
<1>9. put \in Writer /\ put.bytes = b \o (s \o e) /\ put.known = K \cup new
  BY <1>8
<1>10. QED
  BY <1>4, <1>9, Zenon DEF b, K, new, put

-----------------------------------------------------------------------------
(* What is read depends on the bytes from the header up to c only. *)

Same(b, x, c) == \A i \in HeaderSize..c - 1 : Byte(x, i) = Byte(b, i)

\* A longer buffer has the same bytes.
LEMMA SamePrefix ==
    ASSUME NEW b \in Seq(Octets), NEW s \in Seq(Octets), NEW x, Same(b \o s, x, Len(b \o s))
    PROVE  Same(b, x, Len(b))
<1>1. /\ Len(b \o s) = Len(b) + Len(s) /\ Len(b) \in Nat /\ Len(s) \in Nat
      /\ b \o s \in Seq(Octets)
      /\ \A i \in 1..Len(b) : (b \o s)[i] = b[i]
  BY Concat
<1>2. ASSUME NEW i \in HeaderSize..Len(b) - 1 PROVE Byte(x, i) = Byte(b, i)
  <2>1. i \in Nat /\ i < Len(b) /\ i < Len(b) + Len(s) /\ i + 1 \in 1..Len(b)
        /\ i \in HeaderSize..(Len(b) + Len(s)) - 1
    BY <1>1 DEF HeaderSize
  <2>2. Byte(b, i) = b[i + 1] /\ Byte(b \o s, i) = (b \o s)[i + 1]
    BY <1>1, <2>1 DEF Byte
  <2>3. Byte(x, i) = Byte(b \o s, i)
    BY <1>1, <2>1 DEF Same
  <2>4. QED
    BY <1>1, <2>1, <2>2, <2>3
<1>3. QED
  BY <1>2 DEF Same

\* What was written behind b stands there.
LEMMA SameHolds ==
    ASSUME NEW b \in Seq(Octets), NEW s \in Seq(Octets), NEW x, Len(b) >= HeaderSize,
           Same(b \o s, x, Len(b \o s))
    PROVE  Holds(x, Len(b), s)
<1>1. /\ Len(b \o s) = Len(b) + Len(s) /\ Len(b) \in Nat /\ Len(s) \in Nat
      /\ \A i \in 1..Len(s) : (b \o s)[Len(b) + i] = s[i]
  BY Concat
<1>2. ASSUME NEW i \in 1..Len(s) PROVE Byte(x, Len(b) + i - 1) = s[i]
  <2> DEFINE j == Len(b) + i - 1
  <2>1. /\ j \in Nat /\ j < Len(b) + Len(s) /\ j + 1 = Len(b) + i
        /\ j \in HeaderSize..(Len(b) + Len(s)) - 1
    BY <1>1 DEF HeaderSize
  <2> HIDE DEF j
  <2>2. Byte(b \o s, j) = (b \o s)[j + 1]
    BY <1>1, <2>1 DEF Byte
  <2>3. Byte(x, j) = Byte(b \o s, j)
    BY <1>1, <2>1 DEF Same
  <2>4. Byte(x, j) = s[i]
    BY <1>1, <2>1, <2>2, <2>3
  <2>5. QED
    BY <2>4 DEF j
<1>3. QED
  BY <1>2 DEF Holds

-----------------------------------------------------------------------------
(* A name is read as it was written. *)

\* Bytes of labels up to a NUL or a pointer.
LEMMA SegmentAt ==
    ASSUME NEW x \in Seq(Octets), NEW p \in Nat, NEW s \in Seq(LabelBytes), Holds(x, p, s),
           Stops(x, p + Len(s))
    PROVE  NameEnd(x, p) = p + Len(s) /\ Segment(x, p) = s
<1> DEFINE e == p + Len(s)
<1>1. Len(s) \in Nat /\ \A i \in 1..Len(s) : s[i] \in LabelBytes
  BY LenProperties, ElementOfSeq
<1>2. e \in Nat /\ e >= p /\ Stops(x, e) /\ e - p = Len(s)
  BY <1>1
<1>3. ASSUME NEW q \in p..e - 1 PROVE ~Stops(x, q)
  <2> DEFINE i == q - p + 1
  <2>1. i \in 1..Len(s) /\ p + i - 1 = q
    BY <1>1
  <2> HIDE DEF i
  <2>2. Byte(x, q) \in LabelBytes
    <3>1. Byte(x, p + i - 1) = s[i]
      BY <2>1 DEF Holds
    <3>2. QED
      BY <1>1, <2>1, <3>1
  <2>3. Byte(x, q) \in Nat /\ Byte(x, q) > 0 /\ Byte(x, q) < 192
    BY <2>2, Bounds
  <2>4. QED
    BY <2>3 DEF Stops, IsPointer
<1> HIDE DEF e
<1>4. NameEnd(x, p) = e
  BY <1>2, <1>3, NameEndUnique
<1>5. LabelBytes \subseteq Octets
  BY DEF LabelBytes, Octets
<1>6. s \in Seq(Octets)
  BY <1>5, SeqMonotonic
<1>7. Bytes(x, p, Len(s)) = s
  BY <1>6, HoldsBytes
<1>8. QED
  BY <1>2, <1>4, <1>7 DEF Segment, e

\* The labels from i up to the cut.
LEMMA Middle ==
    ASSUME NEW labels \in Seq(Labels), NEW c \in 1..Len(labels) + 1, NEW i \in 1..c
    PROVE  \E m \in Seq(LabelBytes) :
             /\ Start(labels, c) = Start(labels, i) \o m
             /\ Literal(Rest(labels, i)) = m \o Literal(Rest(labels, c))
<1> DEFINE n == Len(labels)
           y == SubSeq(labels, i, c - 1)
           a == SubSeq(labels, 1, i - 1)
           z == SubSeq(labels, c, n)
<1>1. n \in Nat /\ \A k \in 1..n : labels[k] \in Labels
  BY LenProperties, ElementOfSeq
<1>2. c \in 1..n + 1 /\ i \in 1..n + 1 /\ i \in Int /\ c \in Int
  BY <1>1
<1>3. y \in Seq(Labels) /\ a \in Seq(Labels) /\ z \in Seq(Labels)
  <2>1. /\ \A k \in i..c - 1 : labels[k] \in Labels
        /\ \A k \in 1..i - 1 : labels[k] \in Labels
        /\ \A k \in c..n : labels[k] \in Labels
    BY <1>1, <1>2
  <2>2. i - 1 \in Int /\ c - 1 \in Int /\ n \in Int
    BY <1>1, <1>2
  <2>3. QED
    BY <1>2, <2>1, <2>2, SubSeqProperties
<1>4. SubSeq(labels, 1, c - 1) = a \o y
  <2> DEFINE m == i - 1
             k == c - 1
  <2>1. 1 \in 1..n + 1 /\ m \in 1 - 1..n /\ k \in m..n /\ m + 1 = i
    BY <1>1, <1>2
  <2> HIDE DEF m, k, n
  <2>2. SubSeq(labels, 1, m) \o SubSeq(labels, m + 1, k) = SubSeq(labels, 1, k)
    BY <2>1, ConcatAdjacentSubSeq DEF n
  <2>3. QED
    BY <2>1, <2>2 DEF m, k
<1>5. SubSeq(labels, i, n) = y \o z
  <2> DEFINE k == c - 1
  <2>1. i \in 1..n + 1 /\ k \in i - 1..n /\ n \in k..n /\ k + 1 = c
    BY <1>1, <1>2
  <2>2. SubSeq(labels, i, k) \o SubSeq(labels, k + 1, Len(labels)) = SubSeq(labels, i, Len(labels))
    <3> HIDE DEF k
    <3>1. QED
      BY <2>1, ConcatAdjacentSubSeq
  <2>3. QED
    BY <2>1, <2>2
<1> HIDE DEF n, y, a, z
<1>6. Literal(a \o y) = Literal(a) \o Literal(y) /\ Literal(y \o z) = Literal(y) \o Literal(z)
  BY <1>3, LiteralConcat
<1>7. Literal(y) \in Seq(LabelBytes)
  BY <1>3, LiteralType
<1>8. Start(labels, c) = Start(labels, i) \o Literal(y)
  BY <1>4, <1>6 DEF Start, a
<1>9. Literal(Rest(labels, i)) = Literal(y) \o Literal(Rest(labels, c))
  BY <1>5, <1>6 DEF Rest, z, n
<1>10. QED
  BY <1>7, <1>8, <1>9

\* The name at p in whatever begins like b, when at least k pointers are followed.
Reads(b, p, k, name) ==
    \A x \in Seq(Octets) : Same(b, x, Len(b)) =>
        \A d \in k..PointerMax : Expanded(x)[d][p] = Literal(name)

\* At the places the sender knows there is what it has written: a label, with at
\* most one pointer for each of the others.
Sound(w) ==
    /\ Len(w.bytes) >= HeaderSize
    /\ \A k \in w.known : k.name # <<>> /\ Reads(w.bytes, k.at, Len(k.name) - 1, k.name)

LEMMA NameFrom ==
    ASSUME NEW w \in Writer, Sound(w), NEW labels \in Seq(Labels), NEW compress \in BOOLEAN,
           NEW x \in Seq(Octets),
           Same(w.bytes \o NameBytes(w.known, labels, compress), x,
                Len(w.bytes \o NameBytes(w.known, labels, compress))),
           NEW i \in 1..Cut(w.known, labels, compress)
    PROVE  /\ NameEnd(x, Len(w.bytes) + Len(Start(labels, i))) =
                Len(w.bytes) + Len(Start(labels, Cut(w.known, labels, compress)))
           /\ Holds(x, Len(w.bytes) + Len(Start(labels, Cut(w.known, labels, compress))),
                    Ending(w.known, labels, compress))
           /\ \A d \in 0..PointerMax :
                d >= Len(Rest(labels, Cut(w.known, labels, compress))) =>
                  Expanded(x)[d][Len(w.bytes) + Len(Start(labels, i))] = Literal(Rest(labels, i))
<1> DEFINE b == w.bytes
           K == w.known
           c == Cut(K, labels, compress)
           s == Start(labels, c)
           e == Ending(K, labels, compress)
           f == Start(labels, i)
           t == Len(b) + Len(s)
           p == Len(b) + Len(f)
           z == Rest(labels, c)
<1>1. b \in Seq(Octets) /\ K \in SUBSET Place /\ Len(b) >= HeaderSize /\ Len(b) \in Nat
  BY LenProperties DEF Writer, Sound
<1>2. c \in 1..Len(labels) + 1 /\ Len(labels) \in Nat
  BY CutIs
<1>3. /\ s \in Seq(Octets) /\ Len(s) \in Nat
      /\ z \in Seq(Labels) /\ Len(z) = Len(labels) - c + 1 /\ Literal(z) \in Seq(LabelBytes)
  BY <1>2, RestIs
<1>4. i \in 1..Len(labels) + 1 /\ i \in 1..c
  <2>1. \A n \in Nat : \A j \in 1..n + 1 : \A k \in 1..j : k \in 1..n + 1
    OBVIOUS
  <2>2. QED
    BY <1>2, <2>1
<1>5. f \in Seq(LabelBytes) /\ f \in Seq(Octets) /\ Len(f) \in Nat
  BY <1>4, RestIs
<1>6. PICK m \in Seq(LabelBytes) : s = f \o m /\ Literal(Rest(labels, i)) = m \o Literal(z)
  BY <1>2, <1>4, Middle
<1>7. e \in Seq(Octets)
  BY <1>1, NameBytesIs
<1>8. NameBytes(K, labels, compress) = s \o e
  BY DEF NameBytes
<1>9. \/ c = Len(labels) + 1 /\ e = <<0>>
      \/ /\ c \in 1..Len(labels)
         /\ \E k \in K : k.name = z /\ k.at \in Near /\ e = PointerTo(k.at)
  BY <1>1, EndingIs
<1>10. Same(b \o (s \o e), x, Len(b \o (s \o e)))
  BY <1>8
<1>11. ASSUME NEW k \in K
       PROVE  k.name # <<>> /\ Reads(b, k.at, Len(k.name) - 1, k.name)
  BY DEF Sound
<1> HIDE DEF b, K, c, s, e, f, z
<1>12. s \o e \in Seq(Octets)
  BY <1>3, <1>7, ConcatProperties
<1>13. Holds(x, Len(b), s \o e) /\ Same(b, x, Len(b))
  BY <1>1, <1>10, <1>12, SameHolds, SamePrefix
<1>14. Holds(x, Len(b), s) /\ Holds(x, t, e)
  BY <1>1, <1>3, <1>7, <1>13, HoldsConcat
<1>15. Holds(x, p, m) /\ Len(s) = Len(f) + Len(m) /\ Len(m) \in Nat
  <2>1. Holds(x, Len(b), f \o m)
    BY <1>6, <1>14
  <2>2. Holds(x, p, m)
    BY <1>1, <1>5, <2>1, HoldsConcat
  <2>3. Len(f \o m) = Len(f) + Len(m) /\ Len(m) \in Nat
    BY <1>5, Concat
  <2>4. QED
    BY <1>6, <2>2, <2>3
<1>16. p + Len(m) = t /\ p \in Nat /\ t \in Nat
  BY <1>1, <1>3, <1>5, <1>15
<1> HIDE DEF p, t
<1>17. CASE c = Len(labels) + 1 /\ e = <<0>>
  <2>1. Byte(x, t) = 0
    <3>1. 1 \in 1..Len(e) /\ e[1] = 0 /\ t + 1 - 1 = t
      BY <1>16, <1>17
    <3>2. Byte(x, t + 1 - 1) = e[1]
      BY <1>14, <3>1 DEF Holds
    <3>3. QED
      BY <3>1, <3>2
  <2>2. Stops(x, p + Len(m)) /\ ~IsPointer(Byte(x, t))
    BY <1>16, <2>1 DEF Stops, IsPointer
  <2>3. NameEnd(x, p) = p + Len(m) /\ Segment(x, p) = m
    BY <1>15, <1>16, <2>2, SegmentAt
  <2>4. ~Points(x, p)
    BY <1>16, <2>2, <2>3 DEF Points
  <2>5. Literal(z) = <<>>
    <3>1. Len(z) = 0
      BY <1>2, <1>3, <1>17
    <3>2. z = <<>>
      BY <1>3, <3>1, EmptySeq
    <3>3. QED
      BY <3>2, LiteralEmpty
  <2>6. ASSUME NEW d \in 0..PointerMax PROVE Expanded(x)[d][p] = Literal(Rest(labels, i))
    <3>1. Expanded(x)[d][p] = Segment(x, p) \o (IF Points(x, p) /\ d > 0
                                                THEN Expanded(x)[d - 1][Target(x, p)] ELSE <<>>)
      BY <1>16, ExpandedIs
    <3>2. QED
      BY <1>6, <2>3, <2>4, <2>5, <3>1
  <2>7. QED
    BY <1>14, <1>16, <2>3, <2>6 DEF b, K, c, s, e, f, t, p, z
<1>18. ASSUME c \in 1..Len(labels), NEW k \in K, k.name = z, k.at \in Near, e = PointerTo(k.at)
       PROVE  /\ NameEnd(x, p) = t
              /\ \A d \in 0..PointerMax :
                   d >= Len(z) => Expanded(x)[d][p] = Literal(Rest(labels, i))
  <2>1. IsPointer(Byte(x, t)) /\ u8n_to_u16h(x, t) % 16384 = k.at
    BY <1>14, <1>16, <1>18, ReadPointer, SMT
  <2>2. Stops(x, p + Len(m))
    BY <1>16, <2>1, SMT DEF Stops
  <2>3. NameEnd(x, p) = t /\ Segment(x, p) = m
    BY <1>15, <1>16, <2>2, SegmentAt, SMT
  <2>4. Points(x, p) /\ Target(x, p) = k.at
    BY <2>1, <2>3, SMT DEF Points, Target
  <2>5. ASSUME NEW d \in 0..PointerMax, d >= Len(z)
        PROVE  Expanded(x)[d][p] = Literal(Rest(labels, i))
    <3>1. Expanded(x)[d][p] = Segment(x, p) \o (IF Points(x, p) /\ d > 0
                                                THEN Expanded(x)[d - 1][Target(x, p)] ELSE <<>>)
      BY <1>16, ExpandedIs
    <3>2. Len(z) >= 1 /\ Len(z) \in Nat
      BY <1>2, <1>3, <1>18
    <3>3. d > 0 /\ d - 1 \in Len(k.name) - 1..PointerMax
      BY <1>18, <2>5, <3>2, MessageAssumption
    <3>4. Expanded(x)[d - 1][k.at] = Literal(z)
      BY <1>11, <1>13, <1>18, <3>3 DEF Reads
    <3>5. QED
      BY <1>6, <2>3, <2>4, <3>1, <3>3, <3>4
  <2>6. QED
    BY <2>3, <2>5
<1>19. CASE c \in 1..Len(labels) /\ \E k \in K : k.name = z /\ k.at \in Near /\ e = PointerTo(k.at)
  <2>1. /\ NameEnd(x, p) = t
        /\ \A d \in 0..PointerMax : d >= Len(z) => Expanded(x)[d][p] = Literal(Rest(labels, i))
    BY <1>18, <1>19
  <2>2. QED
    BY <1>14, <2>1 DEF b, K, c, s, e, f, t, p, z
<1>20. QED
  BY <1>9, <1>17, <1>19

LEMMA ReadsOn ==
    ASSUME NEW b \in Seq(Octets), NEW s \in Seq(Octets), NEW p, NEW k, NEW name,
           Reads(b, p, k, name)
    PROVE  Reads(b \o s, p, k, name)
<1>1. \A x : Same(b \o s, x, Len(b \o s)) => Same(b, x, Len(b))
  BY SamePrefix
<1>2. QED
  BY <1>1 DEF Reads

\* Whatever is written next, what is known stays true.
LEMMA PutSound ==
    ASSUME NEW w \in Writer, Sound(w), NEW s \in Seq(Octets)
    PROVE  /\ Put(w, s) \in Writer /\ Sound(Put(w, s))
           /\ Put(w, s).bytes = w.bytes \o s /\ Put(w, s).known = w.known
           /\ Len(Put(w, s).bytes) = Len(w.bytes) + Len(s)
<1>1. w.bytes \in Seq(Octets) /\ w.known \in SUBSET Place
  BY DEF Writer
<1>2. Put(w, s) = [bytes |-> w.bytes \o s, known |-> w.known]
  <2>1. DOMAIN w = {"bytes", "known"}
    BY DEF Writer
  <2>2. Put(w, s) = [w EXCEPT !["bytes"] = w["bytes"] \o s]
    BY DEF Put
  <2>3. QED
    BY <2>1, <2>2
<1> DEFINE v == Put(w, s)
           b == w.bytes
<1>3. v.bytes = b \o s /\ v.known = w.known
  BY <1>2
<1>4. b \o s \in Seq(Octets) /\ Len(b \o s) = Len(b) + Len(s) /\ Len(b) \in Nat /\ Len(s) \in Nat
  BY <1>1, Concat
<1>5. v \in Writer
  BY <1>1, <1>2, <1>4 DEF Writer
<1>6. ASSUME NEW k \in w.known
      PROVE  k.name # <<>> /\ Reads(b \o s, k.at, Len(k.name) - 1, k.name)
  <2>1. k.name # <<>> /\ Reads(b, k.at, Len(k.name) - 1, k.name)
    BY DEF Sound
  <2> HIDE DEF b
  <2>2. QED
    BY <1>1, <2>1, ReadsOn DEF b
<1>7. Len(b) >= HeaderSize
  BY DEF Sound
<1> HIDE DEF v, b
<1>8. Len(b \o s) >= HeaderSize
  BY <1>4, <1>7 DEF HeaderSize
<1>9. Sound(v)
  BY <1>3, <1>6, <1>8 DEF Sound
<1>10. QED
  BY <1>3, <1>4, <1>5, <1>9 DEF v, b

\* The name between p and q in whatever begins like b.
NameIn(b, p, q, name) ==
    \A x \in Seq(Octets) : Same(b, x, q) =>
        read_domain(x, p) = Literal(name) /\ p + NameOffset(x, p) = q

LEMMA PutNameSound ==
    ASSUME NEW w \in Writer, Sound(w), NEW labels \in Seq(Labels), NEW compress \in BOOLEAN
    PROVE  Sound(PutName(w, labels, compress))
<1> DEFINE v == PutName(w, labels, compress)
           b == w.bytes
           K == w.known
           u == NameBytes(K, labels, compress)
           c == Cut(K, labels, compress)
           new == NewPlaces(K, Len(b), labels, compress)
<1>1. v.bytes = b \o u /\ v.known = K \cup new
  BY PutNameIs
<1>2. b \in Seq(Octets) /\ K \in SUBSET Place /\ u \in Seq(Octets)
  BY NameBytesIs DEF Writer
<1>3. /\ \A k \in K : k.name # <<>> /\ Reads(b, k.at, Len(k.name) - 1, k.name)
      /\ Len(b) >= HeaderSize
  BY DEF Sound
<1>4. c \in 1..Len(labels) + 1 /\ Len(labels) \in Nat
  BY CutIs
<1>5. ASSUME NEW i \in 1..c - 1
      PROVE  /\ Rest(labels, i) # <<>>
             /\ Reads(b \o u, Len(b) + Len(Start(labels, i)), Len(Rest(labels, i)) - 1, Rest(labels, i))
  <2>1. i \in 1..c /\ i \in 1..Len(labels) + 1
    <3> HIDE DEF c
    <3>1. QED
      BY <1>4
  <2>2. /\ Len(Rest(labels, i)) = Len(labels) - i + 1
        /\ Len(Rest(labels, c)) = Len(labels) - c + 1
    BY <1>4, <2>1, RestIs
  <2>3. /\ Len(Rest(labels, i)) - 1 >= Len(Rest(labels, c))
        /\ Len(Rest(labels, i)) - 1 \in Nat /\ Len(Rest(labels, c)) \in Nat
    <3> DEFINE li == Len(Rest(labels, i))
               lc == Len(Rest(labels, c))
    <3> HIDE DEF li, lc, c
    <3>1. li = Len(labels) - i + 1 /\ lc = Len(labels) - c + 1
      BY <2>2 DEF li, lc, c
    <3>2. li - 1 >= lc /\ li - 1 \in Nat /\ lc \in Nat
      BY <1>4, <3>1
    <3>3. QED
      BY <3>2 DEF li, lc, c
  <2>4. Rest(labels, i) # <<>>
    <3>1. Len(Rest(labels, i)) # 0
      BY <2>3
    <3>2. QED
      BY <3>1
  <2>5. ASSUME NEW x \in Seq(Octets), Same(b \o u, x, Len(b \o u)),
               NEW d \in Len(Rest(labels, i)) - 1..PointerMax
        PROVE  Expanded(x)[d][Len(b) + Len(Start(labels, i))] = Literal(Rest(labels, i))
    <3>1. d \in 0..PointerMax /\ d >= Len(Rest(labels, c))
      BY <2>3
    <3>2. \A k \in 0..PointerMax : k >= Len(Rest(labels, c)) =>
             Expanded(x)[k][Len(b) + Len(Start(labels, i))] = Literal(Rest(labels, i))
      BY <2>1, <2>5, NameFrom
    <3>3. QED
      BY <3>1, <3>2
  <2>6. QED
    BY <2>4, <2>5 DEF Reads
<1>6. ASSUME NEW k \in K \cup new
      PROVE  k.name # <<>> /\ Reads(b \o u, k.at, Len(k.name) - 1, k.name)
  <2>1. CASE k \in K
    <3>1. k.name # <<>> /\ Reads(b, k.at, Len(k.name) - 1, k.name)
      BY <1>3, <2>1
    <3> HIDE DEF b, u
    <3>2. QED
      BY <1>2, <3>1, ReadsOn
  <2>2. CASE k \in new
    <3>1. PICK i \in 1..c - 1 :
             k = [name |-> Rest(labels, i), at |-> Len(b) + Len(Start(labels, i))]
      BY <2>2 DEF NewPlaces
    <3>2. k.name = Rest(labels, i) /\ k.at = Len(b) + Len(Start(labels, i))
      BY <3>1
    <3>3. QED
      BY <1>5, <3>2
  <2>3. QED
    BY <2>1, <2>2
<1> HIDE DEF v, b, K, u, new
<1>7. Len(b \o u) >= HeaderSize
  <2>1. Len(b \o u) = Len(b) + Len(u) /\ Len(b) \in Nat /\ Len(u) \in Nat
    BY <1>2, Concat
  <2>2. QED
    BY <1>3, <2>1 DEF HeaderSize
<1>8. Sound(v)
  BY <1>1, <1>6, <1>7 DEF Sound
<1>9. QED
  BY <1>8 DEF v

LEMMA PutNameReads ==
    ASSUME NEW w \in Writer, Sound(w), NEW labels \in Seq(Labels), NEW compress \in BOOLEAN,
           Len(labels) <= PointerMax
    PROVE  NameIn(PutName(w, labels, compress).bytes, Len(w.bytes),
                  Len(PutName(w, labels, compress).bytes), labels)
<1> DEFINE b == w.bytes
           K == w.known
           u == NameBytes(K, labels, compress)
           c == Cut(K, labels, compress)
           s == Start(labels, c)
           e == Ending(K, labels, compress)
           p == Len(b)
<1>1. PutName(w, labels, compress).bytes = b \o u
  BY PutNameIs
<1>2. b \in Seq(Octets) /\ K \in SUBSET Place /\ u \in Seq(Octets) /\ p \in Nat
  BY NameBytesIs, LenProperties DEF Writer
<1>3. c \in 1..Len(labels) + 1 /\ Len(labels) \in Nat
  BY CutIs
<1>4. 1 \in 1..c /\ 1 \in 1..Len(labels) + 1
  <2> HIDE DEF c
  <2>1. QED
    BY <1>3
<1>5. Rest(labels, 1) = labels
  BY SubSeqFull DEF Rest
<1>6. Start(labels, 1) = <<>>
  <2>1. SubSeq(labels, 1, 1 - 1) = <<>>
    BY SubSeqEmpty
  <2>2. QED
    BY <2>1, LiteralEmpty DEF Start
<1>7. p + Len(Start(labels, 1)) = p
  BY <1>2, <1>6
<1>8. Len(Rest(labels, c)) <= Len(labels)
  <2>1. Len(Rest(labels, c)) = Len(labels) - c + 1
    BY <1>3, RestIs
  <2> HIDE DEF c
  <2>2. QED
    BY <1>3, <2>1
<1>9. s \in Seq(Octets) /\ Len(s) \in Nat /\ e \in Seq(Octets)
  BY <1>2, <1>3, RestIs, NameBytesIs
<1>10. u = s \o e
  BY DEF NameBytes
<1>11. \/ e = <<0>>
       \/ \E k \in K : k.at \in Near /\ e = PointerTo(k.at)
  BY <1>2, EndingIs
<1>12. ASSUME NEW x \in Seq(Octets), Same(b \o u, x, Len(b \o u))
       PROVE  read_domain(x, p) = Literal(labels) /\ p + NameOffset(x, p) = Len(b \o u)
  <2>1. /\ NameEnd(x, p + Len(Start(labels, 1))) = p + Len(s)
        /\ Holds(x, p + Len(s), e)
        /\ \A d \in 0..PointerMax : d >= Len(Rest(labels, c)) =>
             Expanded(x)[d][p + Len(Start(labels, 1))] = Literal(Rest(labels, 1))
    BY <1>4, <1>12, NameFrom
  <2>2. read_domain(x, p) = Literal(labels)
    <3>1. PointerMax \in 0..PointerMax /\ PointerMax >= Len(Rest(labels, c))
      <4>1. Len(Rest(labels, c)) \in Nat
        BY <1>3, RestIs, LenProperties
      <4>2. QED
        BY <1>3, <1>8, <4>1, MessageAssumption
    <3>2. Expanded(x)[PointerMax][p] = Literal(labels)
      BY <1>5, <1>7, <2>1, <3>1
    <3>3. QED
      BY <3>2 DEF read_domain
  <2> DEFINE t == p + Len(s)
  <2>3. NameEnd(x, p) = t /\ Holds(x, t, e) /\ t \in Nat
    <3>1. t \in Nat
      <4> HIDE DEF p, s
      <4>1. p \in Nat /\ Len(s) \in Nat
        BY <1>2, <1>9
      <4>2. QED
        BY <4>1
    <3>2. NameEnd(x, p) = NameEnd(x, p + Len(Start(labels, 1)))
      BY <1>7, Zenon
    <3>3. QED
      BY <2>1, <3>1, <3>2, Zenon
  <2>4. NameOffset(x, p) = t - p + (IF IsPointer(Byte(x, t)) THEN 2 ELSE 1)
    BY <2>3 DEF NameOffset
  <2> HIDE DEF t
  <2>5. (IF IsPointer(Byte(x, t)) THEN 2 ELSE 1) = Len(e)
    <3>1. e = <<0>> => ~IsPointer(Byte(x, t)) /\ Len(e) = 1
      <4> HAVE e = <<0>>
      <4>1. 1 \in 1..Len(e) /\ e[1] = 0 /\ t + 1 - 1 = t
        BY <2>3
      <4>2. Byte(x, t + 1 - 1) = e[1]
        BY <2>3, <4>1 DEF Holds
      <4>3. Byte(x, t) = 0
        BY <4>1, <4>2
      <4>4. QED
        BY <4>3 DEF IsPointer
    <3>2. ASSUME NEW a \in Near, e = PointerTo(a) PROVE IsPointer(Byte(x, t)) /\ Len(e) = 2
      <4>1. Holds(x, t, PointerTo(a)) /\ t \in Nat
        BY <2>3, <3>2
      <4>2. IsPointer(Byte(x, t))
        BY <4>1, ReadPointer
      <4>3. QED
        BY <3>2, <4>2, PointerIs
    <3> HIDE DEF e
    <3>3. CASE e = <<0>>
      BY <3>1, <3>3
    <3>4. CASE \E k \in K : k.at \in Near /\ e = PointerTo(k.at)
      BY <3>2, <3>4
    <3>5. QED
      BY <1>11, <3>3, <3>4
  <2>6. Len(b \o u) = p + Len(s) + Len(e) /\ Len(e) \in Nat
    <3> HIDE DEF s, e, u, b
    <3>1. Len(u) = Len(s) + Len(e) /\ Len(e) \in Nat
      BY <1>9, <1>10, Concat
    <3>2. Len(b \o u) = Len(b) + Len(u)
      BY <1>2, Concat
    <3>3. QED
      BY <1>2, <1>9, <3>1, <3>2
  <2>7. p + NameOffset(x, p) = Len(b \o u)
    <3> HIDE DEF p, s, e, b, u
    <3>1. NameOffset(x, p) = t - p + Len(e)
      BY <2>4, <2>5
    <3>2. QED
      BY <1>2, <1>9, <2>3, <2>6, <3>1 DEF t
  <2>8. QED
    BY <2>2, <2>7
<1>13. QED
  BY <1>1, <1>12 DEF NameIn

-----------------------------------------------------------------------------
(* The entries of a message *)

LEMMA NamesAre ==
    ASSUME NEW n \in Names
    PROVE  /\ n \in Seq(Labels) /\ Len(n) \in Nat /\ Len(n) <= PointerMax
           /\ Len(Literal(n)) \in Nat /\ Len(Literal(n)) <= 511
<1>1. n \in Seq(Seq(LabelBytes)) /\ Len(n) \in Nat /\ Len(n) < PointerMax /\ Len(Literal(n)) < DOMAIN_BUF_LEN
  BY LenProperties DEF Names
<1>2. DOMAIN n = 1..Len(n) /\ \A i \in 1..Len(n) : n[i] \in Seq(LabelBytes)
  BY <1>1, LenProperties, ElementOfSeq
<1>3. \A i \in 1..Len(n) : n[i] \in Labels
  BY <1>2 DEF Names, Labels
<1>4. n \in Seq(Labels)
  BY <1>1, <1>2, <1>3, SeqDef
<1>5. Len(Literal(n)) \in Nat
  BY <1>4, LiteralType
<1>6. QED
  BY <1>1, <1>4, <1>5, MessageAssumption DEF DOMAIN_BUF_LEN

\* The names of a record are written one after the other.
LEMMA PutNamesIs ==
    ASSUME NEW w \in Writer, NEW names \in Seq(Seq(Labels)), NEW compress \in BOOLEAN
    PROVE  /\ Len(names) = 0 => PutNames(w, names, compress) = w
           /\ Len(names) = 1 => PutNames(w, names, compress) = PutName(w, names[1], compress)
           /\ Len(names) = 2 => PutNames(w, names, compress) =
                                  PutName(PutName(w, names[1], compress), names[2], compress)
<1> DEFINE n == Len(names)
           Step(g) == [i \in 0..n |-> IF i = 0 THEN w ELSE PutName(g[i - 1], names[i], compress)]
           G == [i \in 1..n |-> [v \in Writer |-> PutName(v, names[i], compress)]]
           put == CHOOSE g : g = Step(g)
<1>1. n \in Nat /\ \A i \in 1..n : names[i] \in Seq(Labels)
  BY LenProperties, ElementOfSeq
<1>2. G \in [1..n -> [Writer -> Writer]]
  <2>1. \A i \in 1..n : \A v \in Writer : PutName(v, names[i], compress) \in Writer
    BY <1>1, PutNameIs
  <2> HIDE DEF n
  <2>2. QED
    BY <2>1
<1>3. PICK f : f \in Recursion(Writer, w, n, G)
  <2> HIDE DEF n, G
  <2>1. QED
    BY <1>1, <1>2, RecursionExists
<1>4. /\ f \in [0..n -> Writer] /\ f[0] = w
      /\ \A i \in 1..n : f[i] = G[i][f[i - 1]]
  <2> HIDE DEF n, G
  <2>1. QED
    BY <1>3 DEF Recursion
<1> HIDE DEF n
<1>5. ASSUME NEW i \in 0..n
      PROVE  f[i] = IF i = 0 THEN w ELSE PutName(f[i - 1], names[i], compress)
  <2>1. CASE i = 0
    BY <1>4, <2>1
  <2>2. CASE i # 0
    <3>1. i \in 1..n /\ i - 1 \in 0..n
      BY <1>1, <2>2
    <3>2. f[i - 1] \in Writer
      BY <1>4, <3>1
    <3>3. QED
      BY <1>4, <2>2, <3>1, <3>2
  <2>3. QED
    BY <2>1, <2>2
<1>6. f = Step(f)
  BY <1>4, <1>5
<1>7. put = Step(put)
  BY <1>6
<1>8. PutNames(w, names, compress) = put[n]
  BY DEF PutNames, n
<1> HIDE DEF put
<1>9. \A i \in 0..n : put[i] = IF i = 0 THEN w ELSE PutName(put[i - 1], names[i], compress)
  BY <1>7
<1>10. put[0] = w
  <2>1. 0 \in 0..n
    BY <1>1
  <2>2. QED
    BY <1>9, <2>1
<1>11. n >= 1 => put[1] = PutName(w, names[1], compress)
  <2>1. n >= 1 => 1 \in 0..n
    BY <1>1
  <2>2. 1 # 0 /\ 1 - 1 = 0
    OBVIOUS
  <2>3. n >= 1 => put[1] = PutName(put[1 - 1], names[1], compress)
    BY <1>9, <2>1, <2>2
  <2>4. QED
    BY <1>10, <2>2, <2>3
<1>12. n = 2 => put[2] = PutName(put[1], names[2], compress)
  <2>1. n = 2 => 2 \in 0..n
    BY <1>1
  <2>2. 2 # 0 /\ 2 - 1 = 1
    OBVIOUS
  <2>3. n = 2 => put[2] = PutName(put[2 - 1], names[2], compress)
    BY <1>9, <2>1, <2>2
  <2>4. QED
    BY <2>2, <2>3
<1>13. QED
  BY <1>1, <1>8, <1>10, <1>11, <1>12 DEF n

NamesBytes(K, p, names, compress) ==
    CASE Len(names) = 0 -> <<>>
      [] Len(names) = 1 -> NameBytes(K, names[1], compress)
      [] Len(names) = 2 -> NameBytes(K, names[1], compress)
                             \o NameBytes(K \cup NewPlaces(K, p, names[1], compress), names[2], compress)

FewNames == {names \in Seq(Names) : Len(names) \in {0, 1, 2}}

\* v follows from w by writing N.
NamesPut(w, v, N) ==
    /\ v \in Writer /\ Sound(v) /\ v.bytes = w.bytes \o N
    /\ N \in Seq(Octets) /\ Len(N) \in Nat /\ Len(N) <= 1026

LEMMA PutNamesSound ==
    ASSUME NEW w \in Writer, Sound(w), NEW names \in FewNames, NEW compress \in BOOLEAN
    PROVE  NamesPut(w, PutNames(w, names, compress),
                    NamesBytes(w.known, Len(w.bytes), names, compress))
<1>0. names \in Seq(Names) /\ Len(names) \in {0, 1, 2}
  BY DEF FewNames
<1>1. \A i \in 1..Len(names) : names[i] \in Names
  BY <1>0, ElementOfSeq
<1>2. /\ \A i \in 1..Len(names) : names[i] \in Seq(Labels) /\ Len(Literal(names[i])) \in Nat
                                 /\ Len(Literal(names[i])) <= 511
      /\ names \in Seq(Seq(Labels))
  <2>1. \A i \in 1..Len(names) : names[i] \in Seq(Labels) /\ Len(Literal(names[i])) \in Nat
                                 /\ Len(Literal(names[i])) <= 511
    BY <1>1, NamesAre
  <2>2. Names \subseteq Seq(Labels)
    BY NamesAre
  <2>3. QED
    BY <1>0, <2>1, <2>2, SeqMonotonic
<1> DEFINE b == w.bytes
           K == w.known
           N == NamesBytes(K, Len(b), names, compress)
           v == PutNames(w, names, compress)
<1>3. b \in Seq(Octets) /\ K \in SUBSET Place
  BY DEF Writer
<1>4. CASE Len(names) = 0
  <2>1. v = w
    BY <1>2, <1>4, PutNamesIs
  <2>2. N = <<>>
    BY <1>4 DEF NamesBytes
  <2>3. b \o <<>> = b /\ <<>> \in Seq(Octets) /\ Len(<<>>) = 0
    BY <1>3, ConcatEmptySeq
  <2>4. QED
    BY <2>1, <2>2, <2>3 DEF NamesPut
<1> DEFINE n1 == names[1]
           w1 == PutName(w, n1, compress)
           b1 == NameBytes(K, n1, compress)
<1>5. ASSUME 1 \in 1..Len(names)
      PROVE  /\ n1 \in Seq(Labels) /\ w1 \in Writer /\ Sound(w1) /\ w1.bytes = b \o b1
             /\ w1.known = K \cup NewPlaces(K, Len(b), n1, compress)
             /\ b1 \in Seq(Octets) /\ Len(b1) \in Nat /\ Len(b1) <= 513
  <2>1. n1 \in Seq(Labels) /\ Len(Literal(n1)) \in Nat /\ Len(Literal(n1)) <= 511
    BY <1>2, <1>5
  <2>2. /\ w1 \in Writer /\ Sound(w1) /\ w1.bytes = b \o b1
        /\ w1.known = K \cup NewPlaces(K, Len(b), n1, compress)
    BY <2>1, PutNameIs, PutNameSound
  <2>3. b1 \in Seq(Octets) /\ Len(b1) \in 1..Len(Literal(n1)) + 2
    BY <1>3, <2>1, NameBytesIs
  <2> HIDE DEF n1, b1
  <2>4. Len(b1) \in Nat /\ Len(b1) <= 513
    BY <2>1, <2>3
  <2>5. QED
    BY <2>1, <2>2, <2>3, <2>4
<1>6. CASE Len(names) = 1
  <2>1. 1 \in 1..Len(names)
    BY <1>6
  <2>2. v = w1 /\ N = b1
    <3>1. v = w1
      BY <1>2, <1>6, PutNamesIs
    <3>2. N = b1
      BY <1>6 DEF NamesBytes
    <3>3. QED
      BY <3>1, <3>2
  <2> HIDE DEF v, N, w1, b1, n1
  <2>3. v \in Writer /\ Sound(v) /\ v.bytes = b \o N /\ N \in Seq(Octets) /\ Len(N) <= 513 /\ Len(N) \in Nat
    BY <1>5, <2>1, <2>2
  <2>4. Len(N) <= 1026
    BY <2>3
  <2>5. QED
    BY <2>3, <2>4 DEF v, N, b, NamesPut
<1>7. CASE Len(names) = 2
  <2> DEFINE n2 == names[2]
             w2 == PutName(w1, n2, compress)
             b2 == NameBytes(w1.known, n2, compress)
  <2>1. 1 \in 1..Len(names) /\ 2 \in 1..Len(names)
    BY <1>7
  <2>2. /\ n1 \in Seq(Labels) /\ w1 \in Writer /\ Sound(w1) /\ w1.bytes = b \o b1
        /\ w1.known = K \cup NewPlaces(K, Len(b), n1, compress)
        /\ b1 \in Seq(Octets) /\ Len(b1) \in Nat /\ Len(b1) <= 513
    BY <1>5, <2>1
  <2>3. n2 \in Seq(Labels) /\ Len(Literal(n2)) \in Nat /\ Len(Literal(n2)) <= 511
    BY <1>2, <2>1
  <2>4. v = w2
    BY <1>2, <1>7, PutNamesIs
  <2>5. N = b1 \o b2
    BY <1>7, <2>2 DEF NamesBytes
  <2> HIDE DEF n1, n2, w1, b1
  <2>6. w2 \in Writer /\ Sound(w2) /\ w2.bytes = w1.bytes \o b2
    BY <2>2, <2>3, PutNameIs, PutNameSound
  <2>7. b2 \in Seq(Octets) /\ Len(b2) \in 1..Len(Literal(n2)) + 2
    <3>1. w1.known \in SUBSET Place
      BY <2>2 DEF Writer
    <3>2. QED
      BY <2>3, <3>1, NameBytesIs
  <2> HIDE DEF b2, w2, v, N, b
  <2>8. (b \o b1) \o b2 = b \o (b1 \o b2)
    <3>1. b \in Seq(Octets) /\ b1 \in Seq(Octets) /\ b2 \in Seq(Octets)
      BY <1>3, <2>2, <2>7
    <3>2. QED
      BY <3>1, ConcatAssociative
  <2>9. b1 \o b2 \in Seq(Octets) /\ Len(b1 \o b2) = Len(b1) + Len(b2)
    BY <2>2, <2>7, Concat
  <2>10. Len(b1) + Len(b2) <= 1026
    <3>1. Len(b2) \in Nat /\ Len(b2) <= 513
      BY <2>3, <2>7
    <3>2. QED
      BY <2>2, <3>1
  <2>11. v \in Writer /\ Sound(v) /\ v.bytes = b \o N /\ N \in Seq(Octets) /\ Len(N) <= 1026
    BY <2>2, <2>4, <2>5, <2>6, <2>8, <2>9, <2>10, SMT
  <2>12. Len(N) \in Nat
    BY <2>11, LenProperties
  <2>13. QED
    BY <2>11, <2>12 DEF v, N, b, NamesPut
<1>8. QED
  BY <1>0, <1>4, <1>6, <1>7

\* The fixed part of a record.
RecordPart(r, n) == U16(r.type) \o U16(r.class) \o U32(r.ttl) \o U16(n)

LEMMA QuestionPartIs ==
    ASSUME NEW t \in Words, NEW c \in Words
    PROVE  /\ U16(t) \o U16(c) \in Seq(Octets) /\ Len(U16(t) \o U16(c)) = 4
           /\ \A x \in Seq(Octets), q \in Nat : Holds(x, q, U16(t) \o U16(c)) =>
                u8n_to_u16h(x, q) = t /\ u8n_to_u16h(x, q + 2) = c
<1> DEFINE y == U16(t)
           z == U16(c)
<1>1. y \in Seq(Octets) /\ z \in Seq(Octets) /\ Len(y) = 2 /\ Len(z) = 2
  BY U16Is
<1> HIDE DEF y, z
<1>2. y \in Seq(Octets) /\ z \in Seq(Octets)
  BY <1>1
<1>3. y \o z \in Seq(Octets) /\ Len(y \o z) = Len(y) + Len(z)
  BY <1>2, Concat
<1>4. ASSUME NEW x \in Seq(Octets), NEW q \in Nat, Holds(x, q, y \o z)
      PROVE  u8n_to_u16h(x, q) = t /\ u8n_to_u16h(x, q + 2) = c
  <2>1. Holds(x, q, y) /\ Holds(x, q + Len(y), z)
    BY <1>2, <1>4, HoldsConcat
  <2>2. Holds(x, q + 2, z) /\ q + 2 \in Nat
    BY <1>1, <2>1
  <2>3. QED
    BY <2>1, <2>2, ReadU16 DEF y, z
<1>5. Len(y \o z) = 4
  BY <1>1, <1>3
<1>6. QED
  BY <1>3, <1>4, <1>5 DEF y, z

LEMMA RecordPartIs ==
    ASSUME NEW t \in Words, NEW c \in Words, NEW l \in Longs, NEW n \in Words
    PROVE  /\ U16(t) \o U16(c) \o U32(l) \o U16(n) \in Seq(Octets)
           /\ Len(U16(t) \o U16(c) \o U32(l) \o U16(n)) = 10
           /\ \A x \in Seq(Octets), q \in Nat :
                Holds(x, q, U16(t) \o U16(c) \o U32(l) \o U16(n)) =>
                  /\ u8n_to_u16h(x, q) = t /\ u8n_to_u16h(x, q + 2) = c
                  /\ u8n_to_u32h(x, q + 4) = l /\ u8n_to_u16h(x, q + 8) = n
<1> DEFINE y == U16(t) \o U16(c)
           z == U32(l)
           u == U16(n)
<1>1. /\ y \in Seq(Octets) /\ z \in Seq(Octets) /\ u \in Seq(Octets)
      /\ Len(y) = 4 /\ Len(z) = 4 /\ Len(u) = 2
  BY QuestionPartIs, U32Is, U16Is
<1>2. \A x \in Seq(Octets), q \in Nat : Holds(x, q, y) =>
                u8n_to_u16h(x, q) = t /\ u8n_to_u16h(x, q + 2) = c
  BY QuestionPartIs
<1> HIDE DEF y, z, u
<1>3. y \in Seq(Octets) /\ z \in Seq(Octets) /\ u \in Seq(Octets)
  BY <1>1
<1>4. y \o z \in Seq(Octets) /\ Len(y \o z) = Len(y) + Len(z)
  BY <1>3, Concat
<1>5. y \o z \in Seq(Octets)
  BY <1>4
<1>6. (y \o z) \o u \in Seq(Octets) /\ Len((y \o z) \o u) = Len(y \o z) + Len(u)
  BY <1>3, <1>5, Concat
<1>7. Len((y \o z) \o u) = 10
  BY <1>1, <1>4, <1>6
<1>8. ASSUME NEW x \in Seq(Octets), NEW q \in Nat, Holds(x, q, (y \o z) \o u)
      PROVE  /\ u8n_to_u16h(x, q) = t /\ u8n_to_u16h(x, q + 2) = c
             /\ u8n_to_u32h(x, q + 4) = l /\ u8n_to_u16h(x, q + 8) = n
  <2>1. Holds(x, q, y \o z) /\ Holds(x, q + Len(y \o z), u)
    <3> DEFINE a == y \o z
    <3>1. a \in Seq(Octets) /\ u \in Seq(Octets) /\ Holds(x, q, a \o u)
      BY <1>3, <1>5, <1>8
    <3> HIDE DEF a
    <3>2. Holds(x, q, a) /\ Holds(x, q + Len(a), u)
      BY <3>1, HoldsConcat
    <3>3. QED
      BY <3>2 DEF a
  <2>2. Holds(x, q, y) /\ Holds(x, q + Len(y), z)
    BY <1>3, <2>1, HoldsConcat
  <2>3. Len(y \o z) = 8
    BY <1>1, <1>4
  <2>4. Holds(x, q + 4, z) /\ Holds(x, q + 8, u) /\ q + 4 \in Nat /\ q + 8 \in Nat
    BY <1>1, <2>1, <2>2, <2>3
  <2>5. u8n_to_u16h(x, q) = t /\ u8n_to_u16h(x, q + 2) = c
    BY <1>2, <2>2
  <2>6. u8n_to_u32h(x, q + 4) = l
    BY <2>4, ReadU32 DEF z
  <2>7. u8n_to_u16h(x, q + 8) = n
    BY <2>4, ReadU16 DEF u
  <2>8. QED
    BY <2>5, <2>6, <2>7
<1>9. QED
  BY <1>6, <1>7, <1>8 DEF y, z, u

\* The entry e of section s is read between p and q in whatever begins like b.
ReadAt(x, s, p) == IF s = 1 THEN msg_question_from_buf(x, p) ELSE msg_rr_from_buf(x, p)
EntryIn(b, s, e, p, q) ==
    \A x \in Seq(Octets) : Same(b, x, q) => ReadAt(x, s, p) = [entry |-> Plain(s, e), next |-> q]

LEMMA PutQuestionReads ==
    ASSUME NEW w \in Writer, Sound(w), NEW q \in QuestionFormat, NEW compress \in BOOLEAN
    PROVE  /\ PutQuestion(w, q, compress) \in Writer /\ Sound(PutQuestion(w, q, compress))
           /\ \E s \in Seq(Octets) : PutQuestion(w, q, compress).bytes = w.bytes \o s
           /\ EntryIn(PutQuestion(w, q, compress).bytes, 1, q, Len(w.bytes),
                      Len(PutQuestion(w, q, compress).bytes))
<1> DEFINE b == w.bytes
           n == q.name
           w1 == PutName(w, n, compress)
           b1 == w1.bytes
           u == NameBytes(w.known, n, compress)
           f == U16(q.type) \o U16(q.class)
           v == PutQuestion(w, q, compress)
           p1 == Len(b1)
<1>1. n \in Names /\ q.type \in Words /\ q.class \in Words
  BY DEF QuestionFormat
<1>2. n \in Seq(Labels) /\ Len(n) <= PointerMax
  BY <1>1, NamesAre
<1>3. b \in Seq(Octets) /\ w.known \in SUBSET Place /\ Len(b) \in Nat
  BY LenProperties DEF Writer
<1>4. w1 \in Writer /\ Sound(w1) /\ b1 = b \o u
  BY <1>2, PutNameIs, PutNameSound
<1>5. u \in Seq(Octets) /\ b1 \in Seq(Octets) /\ p1 \in Nat /\ p1 >= HeaderSize
  BY <1>2, <1>3, <1>4, NameBytesIs, LenProperties DEF Writer, Sound
<1>6. NameIn(b1, Len(b), p1, n)
  BY <1>2, PutNameReads
<1>7. /\ f \in Seq(Octets) /\ Len(f) = 4
      /\ \A x \in Seq(Octets), k \in Nat : Holds(x, k, f) =>
           u8n_to_u16h(x, k) = q.type /\ u8n_to_u16h(x, k + 2) = q.class
  BY <1>1, QuestionPartIs
<1>8. v = Put(w1, f)
  BY DEF PutQuestion
<1> HIDE DEF w1, f, v, u, b
<1>9. v \in Writer /\ Sound(v) /\ v.bytes = b1 \o f /\ Len(v.bytes) = p1 + Len(f)
  BY <1>4, <1>7, <1>8, PutSound
<1>10. v.bytes = b \o (u \o f) /\ u \o f \in Seq(Octets)
  <2>1. b \in Seq(Octets) /\ u \in Seq(Octets) /\ f \in Seq(Octets)
    BY <1>3, <1>5, <1>7
  <2>2. (b \o u) \o f = b \o (u \o f) /\ u \o f \in Seq(Octets)
    BY <2>1, ConcatAssociative, ConcatProperties
  <2>3. QED
    BY <1>4, <1>9, <2>2
<1>11. ASSUME NEW x \in Seq(Octets), Same(v.bytes, x, Len(v.bytes))
       PROVE  ReadAt(x, 1, Len(b)) = [entry |-> Plain(1, q), next |-> Len(v.bytes)]
  <2>1. b1 \in Seq(Octets) /\ f \in Seq(Octets) /\ Same(b1 \o f, x, Len(b1 \o f)) /\ Len(b1) >= HeaderSize
    BY <1>5, <1>7, <1>9, <1>11
  <2>2. Same(b1, x, p1) /\ Holds(x, p1, f)
    BY <2>1, SamePrefix, SameHolds
  <2>3. read_domain(x, Len(b)) = Literal(n) /\ Len(b) + NameOffset(x, Len(b)) = p1
    BY <1>6, <2>2 DEF NameIn
  <2>4. u8n_to_u16h(x, p1) = q.type /\ u8n_to_u16h(x, p1 + 2) = q.class
    BY <1>5, <1>7, <2>2
  <2> HIDE DEF p1
  <2>5. msg_question_from_buf(x, Len(b)) =
          [entry |-> [name |-> Literal(n), type |-> q.type, class |-> q.class], next |-> p1 + 4]
    BY <2>3, <2>4 DEF msg_question_from_buf
  <2>6. Plain(1, q) = [name |-> Literal(n), type |-> q.type, class |-> q.class]
    <3>1. q = [name |-> q.name, type |-> q.type, class |-> q.class]
      BY DEF QuestionFormat
    <3>2. Plain(1, q) = [q EXCEPT !["name"] = Literal(q["name"])]
      BY DEF Plain
    <3>3. DOMAIN q = {"name", "type", "class"}
      BY DEF QuestionFormat
    <3>4. QED
      BY <3>1, <3>2, <3>3
  <2>7. QED
    BY <1>7, <1>9, <2>5, <2>6 DEF ReadAt
<1>12. EntryIn(v.bytes, 1, q, Len(b), Len(v.bytes))
  BY <1>11 DEF EntryIn
<1>13. QED
  BY <1>9, <1>10, <1>12 DEF v, b

\* A record is written in five steps: its name, its fixed part with n as the
\* length of the data, and the three parts of the data.
Named(w, r, compress) == PutName(w, r.name, compress)
WithPart(w, r, compress, n) == Put(Named(w, r, compress), RecordPart(r, n))
WithPre(w, r, compress, n) == Put(WithPart(w, r, compress, n), r.pre)
WithNames(w, r, compress, n) == PutNames(WithPre(w, r, compress, n), r.names, compress)
WithPost(w, r, compress, n) == Put(WithNames(w, r, compress, n), r.post)
DataNames(w, r, compress) ==
    NamesBytes(Named(w, r, compress).known, Len(Named(w, r, compress).bytes) + 10 + Len(r.pre),
               r.names, compress)

FewRecords == {r \in RecordFormat : r.names \in FewNames}

RecordPut(w, r, f, N, u, w1, w2, w3, w4, w5) ==
    /\ r.pre \in Seq(Octets) /\ r.post \in Seq(Octets)
    /\ w1 \in Writer /\ Sound(w1) /\ w1.bytes = w.bytes \o u /\ u \in Seq(Octets)
    /\ w2 \in Writer /\ Sound(w2) /\ w2.bytes = w1.bytes \o f /\ f \in Seq(Octets)
    /\ w3 \in Writer /\ Sound(w3) /\ w3.bytes = w2.bytes \o r.pre
    /\ w4 \in Writer /\ Sound(w4) /\ w4.bytes = w3.bytes \o N /\ N \in Seq(Octets)
    /\ w5 \in Writer /\ Sound(w5) /\ w5.bytes = w4.bytes \o r.post
    /\ Len(w2.bytes) = Len(w1.bytes) + 10 /\ Len(w3.bytes) = Len(w1.bytes) + 10 + Len(r.pre)
    /\ Len(N) \in Nat /\ Len(N) <= 1026
    /\ Len(w5.bytes) = Len(w2.bytes) + (Len(r.pre) + Len(N) + Len(r.post))

LEMMA RecordSteps ==
    ASSUME NEW w \in Writer, Sound(w), NEW r \in FewRecords, NEW compress \in BOOLEAN, NEW n \in Words
    PROVE  RecordPut(w, r, RecordPart(r, n), DataNames(w, r, compress),
                     NameBytes(w.known, r.name, compress),
                     Named(w, r, compress), WithPart(w, r, compress, n), WithPre(w, r, compress, n),
                     WithNames(w, r, compress, n), WithPost(w, r, compress, n))
<1> DEFINE w1 == Named(w, r, compress)
           w2 == WithPart(w, r, compress, n)
           w3 == WithPre(w, r, compress, n)
           w4 == WithNames(w, r, compress, n)
           w5 == WithPost(w, r, compress, n)
           f == RecordPart(r, n)
           N == DataNames(w, r, compress)
           u == NameBytes(w.known, r.name, compress)
<1>1. /\ r.name \in Names /\ r.type \in Words /\ r.class \in Words /\ r.ttl \in Longs
      /\ r.pre \in Seq(Octets) /\ r.names \in Seq(Names) /\ r.post \in Seq(Octets)
  BY DEF RecordFormat, FewRecords
<1>2. r.name \in Seq(Labels)
  BY <1>1, NamesAre
<1>3. w1 \in Writer /\ Sound(w1) /\ w1.bytes = w.bytes \o u
  BY <1>2, PutNameIs, PutNameSound DEF Named
<1>4. u \in Seq(Octets)
  BY <1>2, NameBytesIs DEF Writer
<1>5. f \in Seq(Octets) /\ Len(f) = 10
  <2> DEFINE t == r.type
             c == r.class
             l == r.ttl
  <2>1. t \in Words /\ c \in Words /\ l \in Longs /\ f = U16(t) \o U16(c) \o U32(l) \o U16(n)
    BY <1>1 DEF RecordPart
  <2> HIDE DEF t, c, l, f
  <2>2. /\ U16(t) \o U16(c) \o U32(l) \o U16(n) \in Seq(Octets)
        /\ Len(U16(t) \o U16(c) \o U32(l) \o U16(n)) = 10
    BY <2>1, RecordPartIs
  <2>3. QED
    BY <2>1, <2>2, Zenon
<1>6. /\ w2 \in Writer /\ Sound(w2) /\ w2.bytes = w1.bytes \o f /\ w2.known = w1.known
      /\ Len(w2.bytes) = Len(w1.bytes) + Len(f)
  BY <1>3, <1>5, PutSound DEF WithPart
<1>7. /\ w3 \in Writer /\ Sound(w3) /\ w3.bytes = w2.bytes \o r.pre /\ w3.known = w2.known
      /\ Len(w3.bytes) = Len(w2.bytes) + Len(r.pre)
  BY <1>1, <1>6, PutSound DEF WithPre
<1>8. Len(w3.bytes) = Len(w1.bytes) + 10 + Len(r.pre) /\ w3.known = w1.known
  BY <1>5, <1>6, <1>7
<1>9. N = NamesBytes(w3.known, Len(w3.bytes), r.names, compress)
  BY <1>8, Zenon DEF DataNames
<1>10. /\ w4 \in Writer /\ Sound(w4) /\ w4.bytes = w3.bytes \o N
       /\ N \in Seq(Octets) /\ Len(N) \in Nat /\ Len(N) <= 1026
  <2>1. w4 = PutNames(w3, r.names, compress)
    BY DEF WithNames
  <2> HIDE DEF w3, w4, N
  <2>2. w3 \in Writer /\ Sound(w3) /\ r.names \in Seq(Names)
    BY <1>1, <1>7
  <2> DEFINE nm == r.names
  <2>3. nm \in FewNames
    BY DEF FewRecords
  <2> HIDE DEF nm
  <2>4. NamesPut(w3, PutNames(w3, nm, compress),
                 NamesBytes(w3.known, Len(w3.bytes), nm, compress))
    BY <2>2, <2>3, PutNamesSound
  <2>5. NamesPut(w3, w4, N)
    BY <1>9, <2>1, <2>4, Zenon DEF nm
  <2>6. QED
    BY <2>5 DEF NamesPut
<1>11. /\ w5 \in Writer /\ Sound(w5) /\ w5.bytes = w4.bytes \o r.post
       /\ Len(w5.bytes) = Len(w4.bytes) + Len(r.post)
  BY <1>1, <1>10, PutSound DEF WithPost
<1> HIDE DEF w1, w2, w3, w4, w5, f, N, u
<1>12. Len(w4.bytes) = Len(w3.bytes) + Len(N)
  <2>1. w3.bytes \in Seq(Octets) /\ N \in Seq(Octets)
    BY <1>7, <1>10 DEF Writer
  <2>2. Len(w3.bytes \o N) = Len(w3.bytes) + Len(N)
    BY <2>1, Concat
  <2>3. QED
    BY <1>10, <2>2
<1>13. Len(w5.bytes) = Len(w2.bytes) + (Len(r.pre) + Len(N) + Len(r.post))
  <2>1. Len(w2.bytes) \in Nat /\ Len(r.pre) \in Nat /\ Len(N) \in Nat /\ Len(r.post) \in Nat
    BY <1>1, <1>6, <1>10, LenProperties DEF Writer
  <2> DEFINE l2 == Len(w2.bytes)
             lp == Len(r.pre)
             ln == Len(N)
             lq == Len(r.post)
  <2>2. Len(w5.bytes) = ((l2 + lp) + ln) + lq
    BY <1>7, <1>11, <1>12, Zenon
  <2>6. l2 \in Nat /\ lp \in Nat /\ ln \in Nat /\ lq \in Nat
    BY <2>1
  <2> HIDE DEF l2, lp, ln, lq
  <2>3. ((l2 + lp) + ln) + lq = l2 + (lp + ln + lq)
    BY <2>6
  <2>4. Len(w5.bytes) = l2 + (lp + ln + lq)
    BY <2>2, <2>3, Zenon
  <2>5. QED
    BY <2>4, Zenon DEF l2, lp, ln, lq
<1>14. Len(w2.bytes) = Len(w1.bytes) + 10
  BY <1>5, <1>6
<1>15. QED
  <2>1. RecordPut(w, r, f, N, u, w1, w2, w3, w4, w5)
    BY <1>1, <1>3, <1>4, <1>5, <1>6, <1>7, <1>8, <1>10, <1>11, <1>13, <1>14, Zenon DEF RecordPut
  <2>2. QED
    BY <2>1 DEF w1, w2, w3, w4, w5, f, N, u

\* The length of the data is the one that is written before it.
LEMMA PutRecordIs ==
    ASSUME NEW w \in Writer, Sound(w), NEW r \in FewRecords,
           NEW compress \in BOOLEAN
    PROVE  PutRecord(w, r, compress) =
             WithPost(w, r, compress, Len(r.pre) + Len(DataNames(w, r, compress)) + Len(r.post))
<1> DEFINE x == Len(WithPost(w, r, compress, 0).bytes)
           y == Len(WithPart(w, r, compress, 0).bytes)
           m == Len(r.pre) + Len(DataNames(w, r, compress)) + Len(r.post)
<1>1. 0 \in Words
  BY Bounds
<1>2. x = y + m /\ WithPart(w, r, compress, 0) \in Writer /\ DataNames(w, r, compress) \in Seq(Octets)
  <2> DEFINE n == 0
  <2>1. n \in Words
    BY <1>1
  <2> HIDE DEF n
  <2>2. /\ WithPart(w, r, compress, n) \in Writer /\ DataNames(w, r, compress) \in Seq(Octets)
        /\ Len(WithPost(w, r, compress, n).bytes) = Len(WithPart(w, r, compress, n).bytes)
             + (Len(r.pre) + Len(DataNames(w, r, compress)) + Len(r.post))
    <3>1. RecordPut(w, r, RecordPart(r, n), DataNames(w, r, compress),
                    NameBytes(w.known, r.name, compress),
                    Named(w, r, compress), WithPart(w, r, compress, n), WithPre(w, r, compress, n),
                    WithNames(w, r, compress, n), WithPost(w, r, compress, n))
      BY <2>1, RecordSteps
    <3>2. QED
      BY <3>1, Zenon DEF RecordPut
  <2>3. QED
    BY <2>2, Zenon DEF n
<1>3. y \in Nat /\ m \in Nat
  <2>1. r.pre \in Seq(Octets) /\ r.post \in Seq(Octets)
    BY DEF RecordFormat, FewRecords
  <2>2. Len(r.pre) \in Nat /\ Len(r.post) \in Nat /\ Len(DataNames(w, r, compress)) \in Nat /\ y \in Nat
    BY <1>2, <2>1, LenProperties DEF Writer
  <2>3. \A lp, ln, lq \in Nat : lp + ln + lq \in Nat
    OBVIOUS
  <2>4. QED
    BY <2>2, <2>3, Zenon
<1>4. PutRecord(w, r, compress) = WithPost(w, r, compress, x - y)
  BY DEF PutRecord, WithPost, WithNames, WithPre, WithPart, Named, RecordPart
<1> HIDE DEF x, y, m
<1>5. x - y = m
  BY <1>2, <1>3
<1>6. PutRecord(w, r, compress) = WithPost(w, r, compress, m)
  BY <1>4, <1>5
<1>7. QED
  BY <1>6 DEF m

\* What a record has, by its type.
LEMMA WellFormedIs ==
    ASSUME NEW r, WellFormed(r)
    PROVE  /\ r \in RecordFormat /\ r \in FewRecords /\ Len(DataOf(r)) <= RR_BUF_SIZE
           /\ \/ /\ r.type = RRTYPE_SOA
                 /\ r.pre = <<>> /\ Len(r.names) = 2 /\ Len(r.post) = 20
              \/ /\ r.type = RRTYPE_MX
                 /\ Len(r.pre) = 2 /\ Len(r.names) = 1 /\ r.post = <<>>
              \/ /\ r.type \in {RRTYPE_NS, RRTYPE_PTR, RRTYPE_CNAME}
                 /\ r.pre = <<>> /\ Len(r.names) = 1 /\ r.post = <<>>
              \/ /\ r.type \notin {RRTYPE_SOA, RRTYPE_MX, RRTYPE_NS, RRTYPE_PTR, RRTYPE_CNAME}
                 /\ r.names = <<>>
<1>1. r \in RecordFormat /\ Len(DataOf(r)) <= RR_BUF_SIZE
  BY DEF WellFormed
<1>2. \/ /\ r.type = RRTYPE_SOA
         /\ r.pre = <<>> /\ Len(r.names) = 2 /\ Len(r.post) = 20
      \/ /\ r.type = RRTYPE_MX
         /\ Len(r.pre) = 2 /\ Len(r.names) = 1 /\ r.post = <<>>
      \/ /\ r.type \in {RRTYPE_NS, RRTYPE_PTR, RRTYPE_CNAME}
         /\ r.pre = <<>> /\ Len(r.names) = 1 /\ r.post = <<>>
      \/ /\ r.type \notin {RRTYPE_SOA, RRTYPE_MX, RRTYPE_NS, RRTYPE_PTR, RRTYPE_CNAME}
         /\ r.names = <<>>
  BY DEF WellFormed, RRTYPE_SOA, RRTYPE_MX, RRTYPE_NS, RRTYPE_PTR, RRTYPE_CNAME
<1>3. r.names \in Seq(Names) /\ Len(<<>>) = 0
  BY <1>1 DEF RecordFormat
<1>4. Len(r.names) \in {0, 1, 2}
  BY <1>2, <1>3
<1>5. r \in FewRecords
  BY <1>1, <1>3, <1>4 DEF FewRecords, FewNames
<1>6. QED
  BY <1>1, <1>2, <1>5

\* The parts of the data.
DataParts(r) == r.pre \in Seq(Octets) /\ r.names \in Seq(Names) /\ r.post \in Seq(Octets)

LEMMA DataIs ==
    ASSUME NEW r, DataParts(r)
    PROVE  /\ r.names = <<>> => DataOf(r) = r.pre \o r.post
           /\ Len(r.names) = 1 => DataOf(r) = r.pre \o (Literal(r.names[1]) \o <<0>>) \o r.post
<1> DEFINE f == [i \in DOMAIN r.names |-> Literal(r.names[i]) \o <<0>>]
<1>1. r.pre \in Seq(Octets) /\ r.post \in Seq(Octets) /\ r.names \in Seq(Names)
  BY DEF DataParts
<1>2. DataOf(r) = r.pre \o FlattenSeq(f) \o r.post
  BY DEF DataOf
<1>3. ASSUME r.names = <<>> PROVE DataOf(r) = r.pre \o r.post
  <2>1. f = <<>>
    BY <1>3
  <2>2. FlattenSeq(f) = <<>>
    BY <2>1 DEF FlattenSeq
  <2> HIDE DEF f
  <2>3. r.pre \o <<>> = r.pre
    BY <1>1, ConcatEmptySeq
  <2>4. QED
    BY <1>2, <2>2, <2>3
<1>4. ASSUME Len(r.names) = 1
      PROVE  DataOf(r) = r.pre \o (Literal(r.names[1]) \o <<0>>) \o r.post
  <2> DEFINE d == Literal(r.names[1]) \o <<0>>
  <2>1. r.names[1] \in Seq(Labels)
    <3>1. 1 \in 1..Len(r.names)
      BY <1>4
    <3>2. r.names[1] \in Names
      BY <1>1, <3>1, ElementOfSeq
    <3>3. QED
      BY <3>2, NamesAre
  <2>2. d \in Seq(Octets)
    <3>1. <<0>> \in Seq(Octets)
      BY Bounds
    <3>2. Literal(r.names[1]) \in Seq(Octets)
      BY <2>1, LiteralType
    <3>3. QED
      BY <3>1, <3>2, ConcatProperties
  <2>3. f = <<d>>
    <3>1. DOMAIN r.names = 1..1
      BY <1>1, <1>4, LenProperties
    <3> HIDE DEF d
    <3>2. f = [i \in 1..1 |-> Literal(r.names[i]) \o <<0>>]
      BY <3>1, Zenon
    <3>3. QED
      BY <3>2 DEF d
  <2> HIDE DEF d, f
  <2>4. FlattenSeq(f) = d
    BY <2>2, <2>3, FlattenFew
  <2>5. DataOf(r) = r.pre \o d \o r.post
    BY <1>2, <2>4
  <2>6. QED
    BY <2>5 DEF d
<1>5. QED
  BY <1>3, <1>4

LEMMA DataType ==
    ASSUME NEW r, DataParts(r)
    PROVE  DataOf(r) \in Seq(Octets) /\ Len(DataOf(r)) \in Nat
<1> DEFINE f == [i \in DOMAIN r.names |-> Literal(r.names[i]) \o <<0>>]
<1>1. r.pre \in Seq(Octets) /\ r.post \in Seq(Octets) /\ r.names \in Seq(Names)
  BY DEF DataParts
<1>2. /\ DOMAIN r.names = 1..Len(r.names) /\ Len(r.names) \in Nat
      /\ \A i \in 1..Len(r.names) : r.names[i] \in Names
  BY <1>1, LenProperties, ElementOfSeq
<1>3. <<0>> \in Seq(Octets)
  BY Bounds
<1>4. ASSUME NEW i \in 1..Len(r.names) PROVE Literal(r.names[i]) \o <<0>> \in Seq(Octets)
  <2>1. Literal(r.names[i]) \in Seq(Octets)
    BY <1>2, NamesAre, LiteralType
  <2>2. QED
    BY <1>3, <2>1, ConcatProperties
<1>5. f \in Seq(Seq(Octets))
  BY <1>2, <1>4
<1>6. DataOf(r) = r.pre \o FlattenSeq(f) \o r.post
  BY DEF DataOf
<1> HIDE DEF f
<1>7. FlattenSeq(f) \in Seq(Octets)
  BY <1>5, FlattenType
<1>8. DataOf(r) \in Seq(Octets)
  BY <1>1, <1>6, <1>7, ConcatProperties
<1>9. QED
  BY <1>8, LenProperties

\* The length of the data fits into its field.
LEMMA DataFits ==
    ASSUME NEW w \in Writer, Sound(w), NEW r, WellFormed(r), NEW compress \in BOOLEAN
    PROVE  /\ Len(r.pre) + Len(DataNames(w, r, compress)) + Len(r.post) \in Words
           /\ r.names = <<>> => DataNames(w, r, compress) = <<>>
<1> DEFINE N == DataNames(w, r, compress)
<1>1. r \in FewRecords /\ r \in RecordFormat /\ Len(DataOf(r)) <= RR_BUF_SIZE
  BY WellFormedIs
<1>2. 0 \in Words
  BY Bounds
<1>3. RecordPut(w, r, RecordPart(r, 0), N, NameBytes(w.known, r.name, compress),
                    Named(w, r, compress), WithPart(w, r, compress, 0), WithPre(w, r, compress, 0),
                    WithNames(w, r, compress, 0), WithPost(w, r, compress, 0))
  BY <1>1, <1>2, RecordSteps
<1>4. /\ r.pre \in Seq(Octets) /\ r.post \in Seq(Octets) /\ Len(N) \in Nat /\ Len(N) <= 1026
  BY <1>3, Zenon DEF RecordPut
<1>5. Len(r.pre) \in Nat /\ Len(r.post) \in Nat
  BY <1>4, LenProperties
<1>6. r.names = <<>> => N = <<>>
  BY DEF DataNames, NamesBytes
<1> HIDE DEF N
<1> DEFINE a == Len(r.pre)
           c == Len(N)
           d == Len(r.post)
<1>7. a \in Nat /\ c \in Nat /\ d \in Nat /\ c <= 1026
  BY <1>4, <1>5
<1>8. (c = 0 /\ a + d <= 512) \/ (a <= 2 /\ d <= 20)
  <2>1. CASE r.names = <<>>
    <3>1. DataOf(r) = r.pre \o r.post /\ Len(N) = 0
      <4>1. DataParts(r)
        BY <1>1, <1>4 DEF RecordFormat, DataParts
      <4>2. DataOf(r) = r.pre \o r.post
        BY <2>1, <4>1, DataIs
      <4>3. QED
        BY <1>6, <2>1, <4>2, EmptySeq
    <3>2. Len(r.pre \o r.post) = Len(r.pre) + Len(r.post)
      BY <1>4, Concat
    <3>3. Len(r.pre) + Len(r.post) <= 512
      BY <1>1, <3>1, <3>2 DEF RR_BUF_SIZE
    <3>4. QED
      BY <3>1, <3>3
  <2>2. CASE r.names # <<>>
    <3>1. \/ r.pre = <<>> /\ Len(r.post) = 20
          \/ Len(r.pre) = 2 /\ r.post = <<>>
          \/ r.pre = <<>> /\ r.post = <<>>
      BY <2>2, WellFormedIs
    <3>2. Len(<<>>) = 0
      OBVIOUS
    <3>3. (a = 0 \/ a = 2) /\ (d = 0 \/ d = 20)
      BY <3>1, <3>2
    <3> HIDE DEF a, c, d
    <3>4. QED
      BY <3>3
  <2>3. QED
    BY <2>1, <2>2
<1> HIDE DEF a, c, d
<1>9. a + c + d \in Nat /\ a + c + d <= 65535
  BY <1>7, <1>8, SMT
<1>10. a + c + d \in Words
  BY <1>9, Bounds, SMT
<1>11. QED
  BY <1>6, <1>10 DEF N, a, c, d

LEMMA Behind ==
    ASSUME NEW w \in Writer, Sound(w), NEW s \in Seq(Octets), NEW b, b = w.bytes \o s,
           NEW x, Same(b, x, Len(b))
    PROVE  Same(w.bytes, x, Len(w.bytes)) /\ Holds(x, Len(w.bytes), s)
<1>1. w.bytes \in Seq(Octets) /\ Len(w.bytes) >= HeaderSize
  BY DEF Writer, Sound
<1> DEFINE a == w.bytes
<1>2. Same(a \o s, x, Len(a \o s)) /\ a \in Seq(Octets) /\ Len(a) >= HeaderSize
  BY <1>1
<1> HIDE DEF a
<1>3. Same(a, x, Len(a)) /\ Holds(x, Len(a), s)
  BY <1>2, SamePrefix, SameHolds
<1>4. QED
  BY <1>3 DEF a

\* The types whose data is read as it is meant: in an SOA record what follows
\* the names is looked for in the wrong place, in a TXT record the text is
\* taken for a name.
PlainType(r) == r.type \notin {RRTYPE_SOA, RRTYPE_TXT}

\* The data of a record, d being where it begins.
LEMMA DataReads ==
    ASSUME NEW r, WellFormed(r), PlainType(r), NEW x \in Seq(Octets), NEW d \in Nat,
           Holds(x, d, r.pre),
           r.names = <<>> => Holds(x, d + Len(r.pre), r.post),
           Len(r.names) = 1 => read_domain(x, d + Len(r.pre)) = Literal(r.names[1]),
           NEW m, r.names = <<>> => m = Len(r.pre) + Len(r.post)
    PROVE  RData(x, d, r.type, m) = DataOf(r)
<1>1. r \in FewRecords /\ r.pre \in Seq(Octets) /\ r.post \in Seq(Octets) /\ r.names \in Seq(Names)
  BY WellFormedIs DEF RecordFormat
<1>2. Len(r.pre) \in Nat /\ Len(r.post) \in Nat
  BY <1>1, LenProperties
<1>3. Bytes(x, d, Len(r.pre)) = r.pre
  BY <1>1, HoldsBytes
<1> DEFINE l == Literal(r.names[1])
<1>4. Len(r.names) = 1 => l \o <<0>> \in Seq(Octets) /\ l \in Seq(Octets) /\ <<0>> \in Seq(Octets)
  <2>1. <<0>> \in Seq(Octets)
    BY Bounds
  <2>2. ASSUME Len(r.names) = 1 PROVE l \in Seq(Octets)
    <3>1. 1 \in 1..Len(r.names)
      BY <2>2
    <3>2. r.names[1] \in Names
      BY <1>1, <3>1, ElementOfSeq
    <3>3. QED
      BY <3>2, NamesAre, LiteralType
  <2>3. QED
    BY <2>1, <2>2, ConcatProperties
<1>5. CASE r.type = RRTYPE_MX /\ Len(r.pre) = 2 /\ Len(r.names) = 1 /\ r.post = <<>>
  <2>1. RData(x, d, r.type, m) = Bytes(x, d, 2) \o read_domain(x, d + 2) \o <<0>>
    <3>1. r.type = 15
      BY <1>5 DEF RRTYPE_MX
    <3> DEFINE t == r.type
    <3> HIDE DEF t
    <3>2. t = 15
      BY <3>1 DEF t
    <3>3. RData(x, d, t, m) = Bytes(x, d, 2) \o read_domain(x, d + 2) \o <<0>>
      BY <3>2 DEF RData, RRTYPE_MX, RRTYPE_SOA, RRTYPE_NS, RRTYPE_PTR, RRTYPE_CNAME, RRTYPE_TXT
    <3>4. QED
      BY <3>3 DEF t
  <2>2. Bytes(x, d, 2) = r.pre /\ read_domain(x, d + 2) = l
    BY <1>3, <1>5
  <2>3. DataOf(r) = r.pre \o (l \o <<0>>) \o <<>>
    BY <1>1, <1>5, DataIs DEF DataParts
  <2> DEFINE a == r.pre
             z == <<0>>
  <2>4. a \in Seq(Octets) /\ l \in Seq(Octets) /\ z \in Seq(Octets)
    BY <1>1, <1>4, <1>5
  <2> HIDE DEF a, l, z
  <2>5. (a \o l) \o z = a \o (l \o z) /\ a \o (l \o z) \in Seq(Octets)
    BY <2>4, ConcatAssociative, ConcatProperties, SMTT(30)
  <2>6. a \o (l \o z) \o <<>> = a \o (l \o z)
    BY <2>5, ConcatEmptySeq
  <2>7. QED
    BY <2>1, <2>2, <2>3, <2>5, <2>6 DEF a, z
<1>6. CASE /\ r.type \in {RRTYPE_NS, RRTYPE_PTR, RRTYPE_CNAME}
           /\ r.pre = <<>> /\ Len(r.names) = 1 /\ r.post = <<>>
  <2>1. RData(x, d, r.type, m) = read_domain(x, d) \o <<0>>
    BY <1>6 DEF RData, RRTYPE_MX, RRTYPE_SOA, RRTYPE_NS, RRTYPE_PTR, RRTYPE_CNAME, RRTYPE_TXT
  <2>2. d + Len(r.pre) = d
    BY <1>6
  <2>3. read_domain(x, d) = l
    BY <1>6, <2>2
  <2>4. DataOf(r) = <<>> \o (l \o <<0>>) \o <<>>
    BY <1>1, <1>6, DataIs DEF DataParts
  <2> DEFINE a == l \o <<0>>
  <2>5. a \in Seq(Octets)
    BY <1>4, <1>6
  <2> HIDE DEF a
  <2>6. <<>> \o a \o <<>> = a
    BY <2>5, ConcatEmptySeq
  <2>7. QED
    BY <2>1, <2>3, <2>4, <2>6 DEF a
<1>7. CASE /\ r.type \notin {RRTYPE_SOA, RRTYPE_MX, RRTYPE_NS, RRTYPE_PTR, RRTYPE_CNAME}
           /\ r.names = <<>>
  <2>1. RData(x, d, r.type, m) = Bytes(x, d, m)
    BY <1>7 DEF RData, PlainType
  <2>2. DataOf(r) = r.pre \o r.post
    BY <1>1, <1>7, DataIs DEF DataParts
  <2> DEFINE a == r.pre
             z == r.post
  <2>3. a \in Seq(Octets) /\ z \in Seq(Octets) /\ Holds(x, d, a) /\ Holds(x, d + Len(a), z)
    BY <1>1, <1>7
  <2>4. m = Len(a) + Len(z)
    BY <1>7
  <2> HIDE DEF a, z
  <2>5. Holds(x, d, a \o z)
    BY <2>3, HoldsConcat
  <2>6. a \o z \in Seq(Octets) /\ Len(a \o z) = Len(a) + Len(z)
    BY <2>3, Concat
  <2>7. Bytes(x, d, Len(a \o z)) = a \o z
    <3> DEFINE y == a \o z
    <3>1. y \in Seq(Octets) /\ Holds(x, d, y)
      BY <2>5, <2>6
    <3> HIDE DEF y
    <3>2. Bytes(x, d, Len(y)) = y
      BY <3>1, HoldsBytes
    <3>3. QED
      BY <3>2 DEF y
  <2>8. QED
    BY <2>1, <2>2, <2>4, <2>6, <2>7 DEF a, z
<1>8. QED
  BY <1>5, <1>6, <1>7, WellFormedIs DEF PlainType

LEMMA PutRecordReads ==
    ASSUME NEW w \in Writer, Sound(w), NEW r, WellFormed(r), NEW compress \in BOOLEAN
    PROVE  /\ PutRecord(w, r, compress) \in Writer /\ Sound(PutRecord(w, r, compress))
           /\ \E s \in Seq(Octets) : PutRecord(w, r, compress).bytes = w.bytes \o s
           /\ PlainType(r) => \A s \in 2..4 :
                EntryIn(PutRecord(w, r, compress).bytes, s, r, Len(w.bytes),
                        Len(PutRecord(w, r, compress).bytes))
<1> DEFINE N == DataNames(w, r, compress)
           u == NameBytes(w.known, r.name, compress)
           m == Len(r.pre) + Len(N) + Len(r.post)
           f == RecordPart(r, m)
           w1 == Named(w, r, compress)
           w2 == WithPart(w, r, compress, m)
           w3 == WithPre(w, r, compress, m)
           w4 == WithNames(w, r, compress, m)
           w5 == WithPost(w, r, compress, m)
<1>1. r \in FewRecords /\ r \in RecordFormat
  BY WellFormedIs
<1>2. /\ r.name \in Names /\ r.type \in Words /\ r.class \in Words /\ r.ttl \in Longs
      /\ r.names \in Seq(Names)
  BY <1>1 DEF RecordFormat
<1>3. r.name \in Seq(Labels) /\ Len(r.name) <= PointerMax
  BY <1>2, NamesAre
<1>4. m \in Words /\ (r.names = <<>> => N = <<>>)
  BY DataFits
<1>5. PutRecord(w, r, compress) = w5
  BY <1>1, PutRecordIs
<1>6. RecordPut(w, r, f, N, u, w1, w2, w3, w4, w5)
  <2> HIDE DEF m
  <2>1. QED
    BY <1>1, <1>4, RecordSteps
<1>7. NameIn(w1.bytes, Len(w.bytes), Len(w1.bytes), r.name)
  BY <1>3, PutNameReads DEF Named
<1>8. ASSUME Len(r.names) = 1
      PROVE  NameIn(w4.bytes, Len(w3.bytes), Len(w4.bytes), r.names[1])
  <2>1. 1 \in 1..Len(r.names)
    BY <1>8
  <2>2. r.names[1] \in Names
    BY <1>2, <2>1, ElementOfSeq
  <2>3. r.names[1] \in Seq(Labels) /\ Len(r.names[1]) <= PointerMax
    BY <2>2, NamesAre
  <2>4. w3 \in Writer /\ Sound(w3)
    BY <1>6, Zenon DEF RecordPut
  <2>5. r.names \in Seq(Seq(Labels))
    <3>1. Names \subseteq Seq(Labels)
      BY NamesAre
    <3>2. QED
      BY <1>2, <3>1, SeqMonotonic
  <2>6. w4 = PutNames(w3, r.names, compress)
    BY DEF WithNames
  <2> HIDE DEF w3, w4
  <2>7. w4 = PutName(w3, r.names[1], compress)
    BY <1>8, <2>4, <2>5, <2>6, PutNamesIs
  <2>8. NameIn(PutName(w3, r.names[1], compress).bytes, Len(w3.bytes),
               Len(PutName(w3, r.names[1], compress).bytes), r.names[1])
    BY <2>3, <2>4, PutNameReads
  <2>9. QED
    BY <2>7, <2>8
<1> HIDE DEF N, u, f, w1, w2, w3, w4, w5
<1>9. w5 \in Writer /\ Sound(w5)
  BY <1>6, Zenon DEF RecordPut
<1>10. \E s \in Seq(Octets) : w5.bytes = w.bytes \o s
  <2> DEFINE b == w.bytes
             a == r.pre
             z == r.post
  <2>1. /\ b \in Seq(Octets) /\ u \in Seq(Octets) /\ f \in Seq(Octets) /\ a \in Seq(Octets)
        /\ N \in Seq(Octets) /\ z \in Seq(Octets)
    BY <1>6 DEF RecordPut, Writer
  <2>2. w5.bytes = ((((b \o u) \o f) \o a) \o N) \o z
    BY <1>6, Zenon DEF RecordPut
  <2> HIDE DEF b, a, z
  <2> DEFINE s1 == u \o f
             s2 == s1 \o a
             s3 == s2 \o N
             s4 == s3 \o z
  <2>3. s1 \in Seq(Octets) /\ s2 \in Seq(Octets) /\ s3 \in Seq(Octets) /\ s4 \in Seq(Octets)
    BY <2>1, ConcatProperties
  <2>4. (b \o u) \o f = b \o s1
    BY <2>1, Joined, SMTT(30)
  <2> HIDE DEF s1
  <2>5. (b \o s1) \o a = b \o s2
    <3>1. b \in Seq(Octets) /\ s1 \in Seq(Octets) /\ a \in Seq(Octets)
      BY <2>1, <2>3
    <3>2. QED
      BY <3>1, Joined
  <2> HIDE DEF s2
  <2>6. (b \o s2) \o N = b \o s3
    <3>1. b \in Seq(Octets) /\ s2 \in Seq(Octets) /\ N \in Seq(Octets)
      BY <2>1, <2>3
    <3>2. QED
      BY <3>1, Joined
  <2> HIDE DEF s3
  <2>9. (b \o s3) \o z = b \o s4
    <3>1. b \in Seq(Octets) /\ s3 \in Seq(Octets) /\ z \in Seq(Octets)
      BY <2>1, <2>3
    <3>2. QED
      BY <3>1, Joined
  <2> HIDE DEF s4
  <2>7. w5.bytes = b \o s4
    BY <2>2, <2>4, <2>5, <2>6, <2>9, Zenon
  <2>8. QED
    BY <2>3, <2>7 DEF b
<1>11. ASSUME PlainType(r), NEW x \in Seq(Octets), Same(w5.bytes, x, Len(w5.bytes))
       PROVE  msg_rr_from_buf(x, Len(w.bytes)) = [entry |-> Plain(2, r), next |-> Len(w5.bytes)]
  <2> DEFINE q == Len(w1.bytes)
             d == Len(w2.bytes)
  <2>1. /\ w1 \in Writer /\ Sound(w1) /\ w2 \in Writer /\ Sound(w2) /\ w3 \in Writer /\ Sound(w3)
        /\ w4 \in Writer /\ Sound(w4) /\ r.pre \in Seq(Octets) /\ r.post \in Seq(Octets)
        /\ f \in Seq(Octets) /\ N \in Seq(Octets)
        /\ w5.bytes = w4.bytes \o r.post /\ w4.bytes = w3.bytes \o N
        /\ w3.bytes = w2.bytes \o r.pre /\ w2.bytes = w1.bytes \o f
    BY <1>6, SMTT(30) DEF RecordPut
  <2>2. Same(w4.bytes, x, Len(w4.bytes)) /\ Holds(x, Len(w4.bytes), r.post)
    BY <1>11, <2>1, Behind
  <2>3. Same(w3.bytes, x, Len(w3.bytes))
    BY <2>1, <2>2, Behind
  <2>4. Same(w2.bytes, x, Len(w2.bytes)) /\ Holds(x, d, r.pre)
    BY <2>1, <2>3, Behind
  <2>5. Same(w1.bytes, x, q) /\ Holds(x, q, f)
    BY <2>1, <2>4, Behind
  <2>6. read_domain(x, Len(w.bytes)) = Literal(r.name) /\ Len(w.bytes) + NameOffset(x, Len(w.bytes)) = q
    BY <1>7, <2>5 DEF NameIn
  <2>7. /\ q \in Nat /\ d = q + 10 /\ d \in Nat /\ Len(r.pre) \in Nat /\ Len(r.post) \in Nat
        /\ Len(w3.bytes) = d + Len(r.pre)
    <3>1. q \in Nat /\ Len(r.pre) \in Nat /\ Len(r.post) \in Nat
      BY <2>1, LenProperties DEF Writer
    <3>2. d = q + 10 /\ Len(w3.bytes) = q + 10 + Len(r.pre)
      BY <1>6, Zenon DEF RecordPut
    <3> HIDE DEF q, d
    <3>3. QED
      BY <3>1, <3>2
  <2> HIDE DEF q, d
  <2>8. /\ u8n_to_u16h(x, q) = r.type /\ u8n_to_u16h(x, q + 2) = r.class
        /\ u8n_to_u32h(x, q + 4) = r.ttl /\ u8n_to_u16h(x, q + 8) = m
    <3> DEFINE t == r.type
               c == r.class
               l == r.ttl
    <3>1. t \in Words /\ c \in Words /\ l \in Longs /\ f = U16(t) \o U16(c) \o U32(l) \o U16(m)
      BY <1>2 DEF f, RecordPart
    <3> HIDE DEF t, c, l, m
    <3>2. Holds(x, q, U16(t) \o U16(c) \o U32(l) \o U16(m))
      BY <2>5, <3>1
    <3>3. /\ u8n_to_u16h(x, q) = t /\ u8n_to_u16h(x, q + 2) = c
          /\ u8n_to_u32h(x, q + 4) = l /\ u8n_to_u16h(x, q + 8) = m
      <4>1. \A y \in Seq(Octets), k \in Nat : Holds(y, k, U16(t) \o U16(c) \o U32(l) \o U16(m)) =>
              /\ u8n_to_u16h(y, k) = t /\ u8n_to_u16h(y, k + 2) = c
              /\ u8n_to_u32h(y, k + 4) = l /\ u8n_to_u16h(y, k + 8) = m
        BY <1>4, <3>1, RecordPartIs
      <4>2. QED
        BY <2>7, <3>2, <4>1
    <3>4. QED
      BY <3>3 DEF t, c, l
  <2>9. RData(x, d, r.type, m) = DataOf(r)
    <3>1. ASSUME r.names = <<>>
          PROVE  Holds(x, d + Len(r.pre), r.post) /\ m = Len(r.pre) + Len(r.post)
      <4>1. N = <<>>
        BY <1>4, <3>1
      <4>2. w4.bytes = w3.bytes
        BY <2>1, <4>1, ConcatEmptySeq DEF Writer
      <4>3. Holds(x, d + Len(r.pre), r.post)
        BY <2>2, <2>7, <4>2
      <4>4. m = Len(r.pre) + Len(r.post)
        <5> DEFINE lp == Len(r.pre)
                   lq == Len(r.post)
        <5>1. m = lp + 0 + lq /\ lp \in Nat /\ lq \in Nat
          BY <2>7, <4>1
        <5> HIDE DEF lp, lq, m
        <5>2. m = lp + lq
          BY <5>1
        <5>3. QED
          BY <5>2 DEF lp, lq
      <4>5. QED
        BY <4>3, <4>4
    <3>2. ASSUME Len(r.names) = 1 PROVE read_domain(x, d + Len(r.pre)) = Literal(r.names[1])
      <4>1. read_domain(x, Len(w3.bytes)) = Literal(r.names[1])
        BY <1>8, <2>2, <3>2 DEF NameIn
      <4>2. QED
        BY <2>7, <4>1
    <3> HIDE DEF m
    <3>3. QED
      BY <1>11, <2>4, <2>7, <3>1, <3>2, DataReads DEF d
  <2>10. Len(DataOf(r)) % 65536 = Len(DataOf(r))
    <3>1. Len(DataOf(r)) <= 512
      BY WellFormedIs DEF RR_BUF_SIZE
    <3>2. Len(DataOf(r)) \in Nat
      BY <1>1, DataType DEF DataParts, RecordFormat
    <3>3. QED
      BY <3>1, <3>2, SMT
  <2>11. q + 10 + m = Len(w5.bytes)
    <3>1. Len(w5.bytes) = d + m
      BY <1>6, SMTT(30) DEF RecordPut, d
    <3> HIDE DEF m
    <3>2. QED
      BY <2>7, <3>1
  <2>12. Plain(2, r) = [name |-> Literal(r.name), type |-> r.type, class |-> r.class, ttl |-> r.ttl,
                        rdlength |-> Len(DataOf(r)), rdata |-> DataOf(r)]
    BY DEF Plain
  <2> HIDE DEF m
  <2>13. msg_rr_from_buf(x, Len(w.bytes)) =
           [entry |-> [name |-> Literal(r.name), type |-> r.type, class |-> r.class, ttl |-> r.ttl,
                       rdlength |-> Len(DataOf(r)) % 65536, rdata |-> DataOf(r)],
            next |-> q + 10 + m]
    BY <2>6, <2>7, <2>8, <2>9, SMT DEF msg_rr_from_buf
  <2>14. QED
    BY <2>10, <2>11, <2>12, <2>13
<1>12. ASSUME PlainType(r), NEW s \in 2..4
       PROVE  EntryIn(w5.bytes, s, r, Len(w.bytes), Len(w5.bytes))
  <2>1. s # 1
    OBVIOUS
  <2>2. Plain(s, r) = Plain(2, r) /\ \A x : ReadAt(x, s, Len(w.bytes)) = msg_rr_from_buf(x, Len(w.bytes))
    BY <2>1 DEF Plain, ReadAt
  <2>3. QED
    BY <1>11, <1>12, <2>2 DEF EntryIn
<1>13. QED
  BY <1>5, <1>9, <1>10, <1>12

-----------------------------------------------------------------------------
(* The header *)

HeaderFormat == [id : Words, misc1 : Octets, misc2 : Octets, count : [1..4 -> Words]]

\* c is b and the number n.
WordPut(b, n, l, c) ==
    /\ c \in Seq(Octets) /\ Len(c) = l + 2
    /\ \A x \in Seq(Octets) : Holds(x, 0, c) => Holds(x, 0, b) /\ u8n_to_u16h(x, l) = n

\* Two more bytes.
LEMMA PutWord ==
    ASSUME NEW b \in Seq(Octets), NEW n \in Words, NEW l \in Nat, Len(b) = l,
           NEW c, c = b \o U16(n)
    PROVE  WordPut(b, n, l, c)
<1> DEFINE u == U16(n)
<1>1. u \in Seq(Octets) /\ Len(u) = 2
  BY U16Is
<1>2. c = b \o u
  OBVIOUS
<1> HIDE DEF u
<1>3. u \in Seq(Octets)
  BY <1>1
<1>4. b \o u \in Seq(Octets) /\ Len(b \o u) = Len(b) + Len(u)
  BY <1>3, Concat
<1>5. ASSUME NEW x \in Seq(Octets), Holds(x, 0, c)
      PROVE  Holds(x, 0, b) /\ u8n_to_u16h(x, l) = n
  <2>1. Holds(x, 0, b \o u)
    BY <1>2, <1>5
  <2>2. Holds(x, 0, b) /\ Holds(x, 0 + Len(b), u)
    BY <1>3, <2>1, HoldsConcat
  <2>3. 0 + Len(b) = l
    OBVIOUS
  <2>4. Holds(x, l, U16(n))
    BY <2>2, <2>3 DEF u
  <2>5. QED
    BY <2>2, <2>4, ReadU16
<1>6. QED
  BY <1>1, <1>2, <1>4, <1>5 DEF WordPut

LEMMA HeaderReads ==
    ASSUME NEW h \in HeaderFormat
    PROVE  /\ PutHeader(h).bytes \in Seq(Octets) /\ Len(PutHeader(h).bytes) = HeaderSize
           /\ msg_header_to_u8(h) = PutHeader(h).bytes
           /\ \A x \in Seq(Octets) : Holds(x, 0, PutHeader(h).bytes) => msg_header_from_buf(x) = h
<1> DEFINE b0 == U16(h.id)
           mm == <<h.misc1, h.misc2>>
           b1 == b0 \o mm
           b2 == b1 \o U16(h.count[1])
           b3 == b2 \o U16(h.count[2])
           b4 == b3 \o U16(h.count[3])
           b5 == b4 \o U16(h.count[4])
<1>1. /\ h.id \in Words /\ h.misc1 \in Octets /\ h.misc2 \in Octets
      /\ h.count[1] \in Words /\ h.count[2] \in Words /\ h.count[3] \in Words /\ h.count[4] \in Words
  BY DEF HeaderFormat
<1>2. PutHeader(h).bytes = b5
  BY DEF PutHeader
<1>3. msg_header_to_u8(h) = b5
  <2>1. \A n \in Words : u16h_to_u8n(n) = U16(n)
    BY U16Is
  <2>2. /\ u16h_to_u8n(h.id) = U16(h.id)
        /\ u16h_to_u8n(h.count[1]) = U16(h.count[1]) /\ u16h_to_u8n(h.count[2]) = U16(h.count[2])
        /\ u16h_to_u8n(h.count[3]) = U16(h.count[3]) /\ u16h_to_u8n(h.count[4]) = U16(h.count[4])
    BY <1>1, <2>1
  <2>3. QED
    BY <2>2 DEF msg_header_to_u8
<1>4. b0 \in Seq(Octets) /\ Len(b0) = 2 /\ mm \in Seq(Octets) /\ Len(mm) = 2
      /\ mm[1] = h.misc1 /\ mm[2] = h.misc2
  BY <1>1, U16Is
<1> HIDE DEF b0, mm
<1>5. b1 \in Seq(Octets) /\ Len(b1) = 4
  <2>1. b0 \in Seq(Octets) /\ mm \in Seq(Octets)
    BY <1>4
  <2>2. b1 \in Seq(Octets) /\ Len(b1) = Len(b0) + Len(mm)
    BY <2>1, Concat
  <2>3. QED
    BY <1>4, <2>2
<1>6. ASSUME NEW x \in Seq(Octets), Holds(x, 0, b1)
      PROVE  u8n_to_u16h(x, 0) = h.id /\ Byte(x, 2) = h.misc1 /\ Byte(x, 3) = h.misc2
  <2>1. Holds(x, 0, b0) /\ Holds(x, 0 + Len(b0), mm)
    BY <1>4, <1>6, HoldsConcat
  <2>2. u8n_to_u16h(x, 0) = h.id
    BY <1>1, <2>1, ReadU16 DEF b0
  <2>3. Holds(x, 2, mm)
    BY <1>4, <2>1
  <2>4. 1 \in 1..Len(mm) /\ 2 \in 1..Len(mm) /\ 2 + 1 - 1 = 2 /\ 2 + 2 - 1 = 3
    BY <1>4
  <2>5. Byte(x, 2 + 1 - 1) = mm[1] /\ Byte(x, 2 + 2 - 1) = mm[2]
    BY <2>3, <2>4 DEF Holds
  <2>6. QED
    BY <1>4, <2>2, <2>4, <2>5
<1> HIDE DEF b1
<1>7. /\ b2 \in Seq(Octets) /\ Len(b2) = 6
      /\ \A x \in Seq(Octets) : Holds(x, 0, b2) => Holds(x, 0, b1) /\ u8n_to_u16h(x, 4) = h.count[1]
  <2>1. b1 \in Seq(Octets) /\ Len(b1) = 4 /\ 4 \in Nat /\ h.count[1] \in Words
    BY <1>1, <1>5
  <2> DEFINE n == h.count[1]
             c == b2
             l == 4
  <2>2. n \in Words /\ l \in Nat /\ Len(b1) = l /\ c = b1 \o U16(n) /\ b1 \in Seq(Octets)
    BY <2>1
  <2>3. l + 2 = 6
    OBVIOUS
  <2> HIDE DEF n, c, l
  <2>4. WordPut(b1, n, l, c)
    BY <2>2, PutWord
  <2>5. QED
    BY <2>3, <2>4 DEF n, c, l, WordPut
<1> HIDE DEF b2
<1>8. /\ b3 \in Seq(Octets) /\ Len(b3) = 8
      /\ \A x \in Seq(Octets) : Holds(x, 0, b3) => Holds(x, 0, b2) /\ u8n_to_u16h(x, 6) = h.count[2]
  <2>1. b2 \in Seq(Octets) /\ Len(b2) = 6 /\ 6 \in Nat /\ h.count[2] \in Words
    BY <1>1, <1>7
  <2> DEFINE n == h.count[2]
             c == b3
             l == 6
  <2>2. n \in Words /\ l \in Nat /\ Len(b2) = l /\ c = b2 \o U16(n) /\ b2 \in Seq(Octets)
    BY <2>1
  <2>3. l + 2 = 8
    OBVIOUS
  <2> HIDE DEF n, c, l
  <2>4. WordPut(b2, n, l, c)
    BY <2>2, PutWord
  <2>5. QED
    BY <2>3, <2>4 DEF n, c, l, WordPut
<1> HIDE DEF b3
<1>9. /\ b4 \in Seq(Octets) /\ Len(b4) = 10
      /\ \A x \in Seq(Octets) : Holds(x, 0, b4) => Holds(x, 0, b3) /\ u8n_to_u16h(x, 8) = h.count[3]
  <2>1. b3 \in Seq(Octets) /\ Len(b3) = 8 /\ 8 \in Nat /\ h.count[3] \in Words
    BY <1>1, <1>8
  <2> DEFINE n == h.count[3]
             c == b4
             l == 8
  <2>2. n \in Words /\ l \in Nat /\ Len(b3) = l /\ c = b3 \o U16(n) /\ b3 \in Seq(Octets)
    BY <2>1
  <2>3. l + 2 = 10
    OBVIOUS
  <2> HIDE DEF n, c, l
  <2>4. WordPut(b3, n, l, c)
    BY <2>2, PutWord
  <2>5. QED
    BY <2>3, <2>4 DEF n, c, l, WordPut
<1> HIDE DEF b4
<1>10. /\ b5 \in Seq(Octets) /\ Len(b5) = 12
       /\ \A x \in Seq(Octets) : Holds(x, 0, b5) => Holds(x, 0, b4) /\ u8n_to_u16h(x, 10) = h.count[4]
  <2>1. b4 \in Seq(Octets) /\ Len(b4) = 10 /\ 10 \in Nat /\ h.count[4] \in Words
    BY <1>1, <1>9
  <2> DEFINE n == h.count[4]
             c == b5
             l == 10
  <2>2. n \in Words /\ l \in Nat /\ Len(b4) = l /\ c = b4 \o U16(n) /\ b4 \in Seq(Octets)
    BY <2>1
  <2>3. l + 2 = 12
    OBVIOUS
  <2> HIDE DEF n, c, l
  <2>4. WordPut(b4, n, l, c)
    BY <2>2, PutWord
  <2>5. QED
    BY <2>3, <2>4 DEF n, c, l, WordPut
<1> HIDE DEF b5
<1>11. ASSUME NEW x \in Seq(Octets), Holds(x, 0, b5) PROVE msg_header_from_buf(x) = h
  <2>1. /\ u8n_to_u16h(x, 0) = h.id /\ Byte(x, 2) = h.misc1 /\ Byte(x, 3) = h.misc2
        /\ u8n_to_u16h(x, 4) = h.count[1] /\ u8n_to_u16h(x, 6) = h.count[2]
        /\ u8n_to_u16h(x, 8) = h.count[3] /\ u8n_to_u16h(x, 10) = h.count[4]
    BY <1>6, <1>7, <1>8, <1>9, <1>10, <1>11
  <2>2. [s \in 1..4 |-> u8n_to_u16h(x, 2 + 2 * s)] = h.count
    <3>1. h.count = [s \in 1..4 |-> h.count[s]]
      BY DEF HeaderFormat
    <3>2. ASSUME NEW s \in 1..4 PROVE u8n_to_u16h(x, 2 + 2 * s) = h.count[s]
      <4>1. s = 1 \/ s = 2 \/ s = 3 \/ s = 4
        OBVIOUS
      <4>2. 2 + 2 * 1 = 4 /\ 2 + 2 * 2 = 6 /\ 2 + 2 * 3 = 8 /\ 2 + 2 * 4 = 10
        OBVIOUS
      <4>3. QED
        BY <2>1, <4>1, <4>2
    <3>3. QED
      BY <3>1, <3>2
  <2>3. h = [id |-> h.id, misc1 |-> h.misc1, misc2 |-> h.misc2, count |-> h.count]
    BY DEF HeaderFormat
  <2>4. QED
    BY <2>1, <2>2, <2>3 DEF msg_header_from_buf
<1>12. QED
  BY <1>2, <1>3, <1>10, <1>11 DEF HeaderSize

\* The message as it arrives: another header, and cut off at size.
Packet(b, h, size) ==
    SubSeq(PutHeader(h).bytes \o SubSeq(b, HeaderSize + 1, Len(b)), 1, size)
PacketOK(b, h, size, x) ==
    /\ x \in Seq(Octets) /\ Len(x) = size
    /\ Same(b, x, size)
    /\ size >= HeaderSize => msg_header_from_buf(x) = h

LEMMA Arrives ==
    ASSUME NEW b \in Seq(Octets), Len(b) >= HeaderSize, NEW h \in HeaderFormat,
           NEW size \in 0..Len(b), NEW x, x = Packet(b, h, size)
    PROVE  PacketOK(b, h, size, x)
<1> DEFINE H == PutHeader(h).bytes
           t == SubSeq(b, HeaderSize + 1, Len(b))
           y == H \o t
<1>1. H \in Seq(Octets) /\ Len(H) = HeaderSize
  BY HeaderReads
<1>2. Len(b) \in Nat /\ \A i \in 1..Len(b) : b[i] \in Octets
  BY LenProperties, ElementOfSeq
<1>3. /\ t \in Seq(Octets) /\ Len(t) = Len(b) - HeaderSize
      /\ \A i \in 1..Len(b) - HeaderSize : t[i] = b[HeaderSize + i]
  <2>1. \A i \in HeaderSize + 1..Len(b) : b[i] \in Octets
    BY <1>2 DEF HeaderSize
  <2>2. HeaderSize + 1 \in Int /\ Len(b) \in Int
    BY <1>2 DEF HeaderSize
  <2>3. /\ t \in Seq(Octets)
        /\ Len(t) = IF HeaderSize + 1 <= Len(b) THEN Len(b) - (HeaderSize + 1) + 1 ELSE 0
        /\ \A i \in 1..Len(b) - (HeaderSize + 1) + 1 : t[i] = b[(HeaderSize + 1) + i - 1]
    <3> DEFINE k == HeaderSize + 1
               l == Len(b)
    <3>1. k \in Int /\ l \in Int /\ \A i \in k..l : b[i] \in Octets
      BY <2>1, <2>2
    <3> HIDE DEF k, l
    <3>2. /\ SubSeq(b, k, l) \in Seq(Octets)
          /\ Len(SubSeq(b, k, l)) = IF k <= l THEN l - k + 1 ELSE 0
          /\ \A i \in 1..l - k + 1 : SubSeq(b, k, l)[i] = b[k + i - 1]
      BY <3>1, SubSeqProperties
    <3>3. QED
      BY <3>2 DEF k, l
  <2>4. Len(t) = Len(b) - HeaderSize /\ Len(b) - (HeaderSize + 1) + 1 = Len(b) - HeaderSize
    <3> DEFINE l == Len(b)
    <3>1. l \in Nat /\ l >= 12 /\ Len(t) = IF 12 + 1 <= l THEN l - (12 + 1) + 1 ELSE 0
      BY <1>2, <2>3 DEF HeaderSize
    <3> HIDE DEF l, t
    <3>2. Len(t) = l - 12 /\ l - (12 + 1) + 1 = l - 12
      BY <3>1
    <3>3. QED
      BY <3>2 DEF l, HeaderSize
  <2>5. ASSUME NEW i \in 1..Len(b) - HeaderSize PROVE t[i] = b[HeaderSize + i]
    <3>1. (HeaderSize + 1) + i - 1 = HeaderSize + i
      BY DEF HeaderSize
    <3>2. QED
      BY <2>3, <2>4, <3>1
  <2>6. QED
    BY <2>3, <2>4, <2>5
<1> HIDE DEF H, t
<1>4. /\ y \in Seq(Octets) /\ Len(y) = Len(H) + Len(t)
      /\ \A i \in 1..Len(H) : y[i] = H[i]
      /\ \A i \in 1..Len(t) : y[Len(H) + i] = t[i]
  <2>1. H \in Seq(Octets) /\ t \in Seq(Octets)
    BY <1>1, <1>3
  <2>2. QED
    BY <2>1, Concat
<1>5. x = SubSeq(y, 1, size)
  BY DEF H, t, Packet
<1> HIDE DEF y
<1>6. Len(y) = Len(b)
  BY <1>1, <1>2, <1>3, <1>4 DEF HeaderSize
<1>7. /\ x \in Seq(Octets) /\ Len(x) = size
      /\ \A i \in 1..size : x[i] = y[i]
  <2>1. size \in Int /\ 1 \in Int /\ \A i \in 1..size : y[i] \in Octets
    <3>1. \A i \in 1..Len(y) : y[i] \in Octets
      BY <1>4, ElementOfSeq
    <3>2. QED
      BY <1>2, <1>6, <3>1
  <2>2. /\ x \in Seq(Octets) /\ Len(x) = IF 1 <= size THEN size - 1 + 1 ELSE 0
        /\ \A i \in 1..size - 1 + 1 : x[i] = y[1 + i - 1]
    <3> DEFINE k == 1
    <3>1. k \in Int /\ size \in Int /\ \A i \in k..size : y[i] \in Octets
      BY <2>1
    <3> HIDE DEF k
    <3>2. /\ SubSeq(y, k, size) \in Seq(Octets)
          /\ Len(SubSeq(y, k, size)) = IF k <= size THEN size - k + 1 ELSE 0
          /\ \A i \in 1..size - k + 1 : SubSeq(y, k, size)[i] = y[k + i - 1]
      BY <3>1, SubSeqProperties
    <3>3. QED
      BY <1>5, <3>2 DEF k
  <2>3. Len(x) = size
    BY <2>2
  <2>4. ASSUME NEW i \in 1..size PROVE x[i] = y[i]
    <3>1. i \in 1..size - 1 + 1 /\ 1 + i - 1 = i
      OBVIOUS
    <3>2. QED
      BY <2>2, <3>1
  <2>5. QED
    BY <2>2, <2>3, <2>4
<1>8. Same(b, x, size)
  <2>1. ASSUME NEW i \in HeaderSize..size - 1 PROVE Byte(x, i) = Byte(b, i)
    <3> DEFINE j == i + 1 - HeaderSize
    <3>1. /\ j \in 1..Len(b) - HeaderSize /\ i < size /\ i < Len(b) /\ i + 1 \in 1..size
          /\ HeaderSize + j = i + 1 /\ i \in Nat
      BY <1>2 DEF HeaderSize
    <3> HIDE DEF j
    <3>2. x[i + 1] = b[i + 1]
      <4>1. x[i + 1] = y[i + 1]
        BY <1>7, <3>1
      <4>2. y[HeaderSize + j] = t[j]
        BY <1>1, <1>3, <1>4, <3>1
      <4>3. t[j] = b[HeaderSize + j]
        BY <1>3, <3>1
      <4>4. QED
        BY <3>1, <4>1, <4>2, <4>3
    <3>3. QED
      BY <1>7, <3>1, <3>2 DEF Byte
  <2>2. QED
    BY <2>1 DEF Same
<1>9. ASSUME size >= HeaderSize PROVE msg_header_from_buf(x) = h
  <2>1. ASSUME NEW i \in 1..Len(H) PROVE Byte(x, 0 + i - 1) = H[i]
    <3>1. 0 + i - 1 \in Nat /\ 0 + i - 1 < size /\ (0 + i - 1) + 1 = i /\ i \in 1..size
      BY <1>1, <1>9 DEF HeaderSize
    <3>2. Byte(x, 0 + i - 1) = x[i]
      BY <1>7, <3>1 DEF Byte
    <3>3. QED
      BY <1>4, <1>7, <3>1, <3>2
  <2>2. Holds(x, 0, H)
    BY <2>1 DEF Holds
  <2>3. QED
    BY <1>7, <2>2, HeaderReads DEF H
<1>10. QED
  BY <1>7, <1>8, <1>9 DEF PacketOK

-----------------------------------------------------------------------------
(* Messages: the one that is meant and the one in memory *)

AnyHeader == [id : Words, misc1 : Octets, misc2 : Octets, count : [1..4 -> Nat]]
AnyMessage(E) == [header : AnyHeader, section : [1..4 -> Seq(E)]]

\* A message with a longer section s.
Grown(m, u, s, e) ==
    /\ u.section[s] = Append(m.section[s], e)
    /\ \A t \in 1..4 : t # s => u.section[t] = m.section[t]

LEMMA MessageParts ==
    ASSUME NEW E, NEW h \in AnyHeader, NEW f \in [1..4 -> Seq(E)],
           NEW u, u = [header |-> h, section |-> f]
    PROVE  u.header = h /\ u.section = f /\ u \in AnyMessage(E)
  BY DEF AnyMessage

SectionGrown(E, m, u, s, e) == u \in AnyMessage(E) /\ Grown(m, u, s, e) /\ u.header = m.header
WithRead(m, s, e) == [m EXCEPT !.section[s] = Append(@, e)]

LEMMA GrowSection ==
    ASSUME NEW E, NEW m \in AnyMessage(E), NEW s \in 1..4, NEW e \in E,
           NEW u, u = WithRead(m, s, e)
    PROVE  SectionGrown(E, m, u, s, e)
<1>1. /\ DOMAIN m = {"header", "section"} /\ m.header \in AnyHeader
      /\ m.section \in [1..4 -> Seq(E)]
  BY DEF AnyMessage
<1> DEFINE f == [m.section EXCEPT ![s] = Append(m.section[s], e)]
<1>2. u = [m EXCEPT !["section"] = f]
  BY DEF WithRead
<1>3. u = [header |-> m.header, section |-> f]
  <2> HIDE DEF f
  <2>1. QED
    BY <1>1, <1>2
<1>4. m.section[s] \in Seq(E)
  BY <1>1
<1>5. Append(m.section[s], e) \in Seq(E)
  BY <1>4, AppendProperties
<1>6. f \in [1..4 -> Seq(E)] /\ f[s] = Append(m.section[s], e)
      /\ \A t \in 1..4 : t # s => f[t] = m.section[t]
  BY <1>1, <1>5
<1> HIDE DEF f
<1>7. u.header = m.header /\ u.section = f /\ u \in AnyMessage(E)
  <2>1. m.header \in AnyHeader /\ f \in [1..4 -> Seq(E)]
    BY <1>1, <1>6
  <2>2. QED
    BY <1>3, <2>1, MessageParts, SMTT(30)
<1>8. Grown(m, u, s, e)
  BY <1>6, <1>7 DEF Grown
<1>9. QED
  BY <1>7, <1>8 DEF SectionGrown

MessageGrown(E, m, u, s, e) ==
    /\ u \in AnyMessage(E) /\ Grown(m, u, s, e)
    /\ u.header = [m.header EXCEPT !.count = [m.header.count EXCEPT ![s] = m.header.count[s] + 1]]
    /\ u.header.count[s] = m.header.count[s] + 1
    /\ \A t \in 1..4 : t # s => u.header.count[t] = m.header.count[t]

WithEntry(m, s, e) == [m EXCEPT !.header.count[s] = @ + 1, !.section[s] = Append(@, e)]

LEMMA GrowMessage ==
    ASSUME NEW E, NEW m \in AnyMessage(E), NEW s \in 1..4, NEW e \in E,
           NEW u, u = WithEntry(m, s, e)
    PROVE  MessageGrown(E, m, u, s, e)
<1>1. /\ DOMAIN m = {"header", "section"} /\ m.header \in AnyHeader
      /\ m.section \in [1..4 -> Seq(E)]
  BY DEF AnyMessage
<1>2. /\ DOMAIN m.header = {"id", "misc1", "misc2", "count"}
      /\ m.header.id \in Words /\ m.header.misc1 \in Octets /\ m.header.misc2 \in Octets
      /\ m.header.count \in [1..4 -> Nat]
  BY <1>1 DEF AnyHeader
<1> DEFINE f == [m.section EXCEPT ![s] = Append(m.section[s], e)]
           c == [m.header.count EXCEPT ![s] = m.header.count[s] + 1]
           h == [m.header EXCEPT !["count"] = c]
<1>3. u = [[m EXCEPT !["header"] = h] EXCEPT !["section"] = f]
  BY DEF WithEntry
<1>4. h = [id |-> m.header.id, misc1 |-> m.header.misc1, misc2 |-> m.header.misc2, count |-> c]
  <2> HIDE DEF c
  <2>1. QED
    BY <1>2
<1>5. c \in [1..4 -> Nat] /\ c[s] = m.header.count[s] + 1
      /\ \A t \in 1..4 : t # s => c[t] = m.header.count[t]
  BY <1>2
<1>6. m.section[s] \in Seq(E)
  BY <1>1
<1>7. Append(m.section[s], e) \in Seq(E)
  BY <1>6, AppendProperties
<1>8. f \in [1..4 -> Seq(E)] /\ f[s] = Append(m.section[s], e)
      /\ \A t \in 1..4 : t # s => f[t] = m.section[t]
  BY <1>1, <1>7
<1> HIDE DEF f, c
<1>9. h \in AnyHeader /\ h.count = c
  BY <1>2, <1>4, <1>5 DEF AnyHeader
<1>10. h = [m.header EXCEPT !.count = c]
  OBVIOUS
<1> HIDE DEF h
<1>11. u = [header |-> h, section |-> f]
  BY <1>1, <1>3
<1>12. u.header = h /\ u.section = f /\ u \in AnyMessage(E)
  <2>1. h \in AnyHeader /\ f \in [1..4 -> Seq(E)]
    BY <1>8, <1>9
  <2>2. QED
    BY <1>11, <2>1, MessageParts, SMTT(30)
<1>13. Grown(m, u, s, e)
  BY <1>8, <1>12 DEF Grown
<1>14. QED
  BY <1>5, <1>9, <1>10, <1>12, <1>13 DEF c, MessageGrown

\* How the entries before a section add up.
LEMMA BeforeIs ==
    ASSUME NEW E, NEW m \in AnyMessage(E)
    PROVE  /\ Before(m, 1) = 0
           /\ \A s \in 1..5 : Before(m, s) \in Nat
           /\ \A s \in 1..4 : /\ Len(m.section[s]) \in Nat /\ m.section[s] \in Seq(E)
                              /\ Before(m, s + 1) = Before(m, s) + Len(m.section[s])
<1>1. \A s \in 1..4 : m.section[s] \in Seq(E)
  BY DEF AnyMessage
<1>2. \A s \in 1..4 : Len(m.section[s]) \in Nat
  BY <1>1, LenProperties
<1> DEFINE a == Len(m.section[1])
           b == Len(m.section[2])
           c == Len(m.section[3])
           d == Len(m.section[4])
           l == <<a, b, c, d>>
<1>3. a \in Nat /\ b \in Nat /\ c \in Nat /\ d \in Nat
  BY <1>2
<1>4. \A s : Before(m, s) = (IF 1 < s THEN a ELSE 0) + (IF 2 < s THEN b ELSE 0)
                              + (IF 3 < s THEN c ELSE 0) + (IF 4 < s THEN d ELSE 0)
  BY DEF Before
<1>5. \A s \in 1..4 : Len(m.section[s]) = IF s = 1 THEN a ELSE IF s = 2 THEN b ELSE IF s = 3 THEN c ELSE d
  OBVIOUS
<1> HIDE DEF a, b, c, d
<1>6. Before(m, 1) = 0 /\ Before(m, 2) = a /\ Before(m, 3) = a + b /\ Before(m, 4) = a + b + c
      /\ Before(m, 5) = a + b + c + d
  BY <1>3, <1>4
<1>7. \A s \in 1..5 : Before(m, s) \in Nat
  BY <1>3, <1>6
<1>8. \A s \in 1..4 : Before(m, s + 1) = Before(m, s) + Len(m.section[s])
  <2>1. 1 + 1 = 2 /\ 2 + 1 = 3 /\ 3 + 1 = 4 /\ 4 + 1 = 5
    OBVIOUS
  <2>2. /\ Before(m, 2) = Before(m, 1) + a /\ Before(m, 3) = Before(m, 2) + b
        /\ Before(m, 4) = Before(m, 3) + c /\ Before(m, 5) = Before(m, 4) + d
    BY <1>3, <1>6
  <2>3. ASSUME NEW s \in 1..4 PROVE Before(m, s + 1) = Before(m, s) + Len(m.section[s])
    <3>1. s = 1 \/ s = 2 \/ s = 3 \/ s = 4
      OBVIOUS
    <3>2. QED
      BY <2>1, <2>2, <3>1 DEF a, b, c, d
  <2>4. QED
    BY <2>3
<1>9. QED
  BY <1>1, <1>2, <1>6, <1>7, <1>8

Shifted(m, u, s) ==
    /\ Len(u.section[s]) = Len(m.section[s]) + 1
    /\ \A k \in 1..5 : Before(u, k) = Before(m, k) + (IF s < k THEN 1 ELSE 0)

LEMMA BeforeGrown ==
    ASSUME NEW E, NEW m \in AnyMessage(E), NEW u \in AnyMessage(E), NEW s \in 1..4, NEW e \in E,
           Grown(m, u, s, e)
    PROVE  Shifted(m, u, s)
<1>1. \A t \in 1..4 : Len(m.section[t]) \in Nat /\ m.section[t] \in Seq(E)
  BY BeforeIs
<1>2. Len(u.section[s]) = Len(m.section[s]) + 1
  <2>1. Len(Append(m.section[s], e)) = Len(m.section[s]) + 1
    BY <1>1, AppendProperties
  <2>2. QED
    BY <2>1 DEF Grown
<1>3. \A t \in 1..4 : t # s => Len(u.section[t]) = Len(m.section[t])
  BY DEF Grown
<1> DEFINE d(k) == IF s < k THEN 1 ELSE 0
<1>4. Before(u, 1) = Before(m, 1) + d(1)
  BY BeforeIs
<1>5. ASSUME NEW k \in 1..4, Before(u, k) = Before(m, k) + d(k)
      PROVE  Before(u, k + 1) = Before(m, k + 1) + d(k + 1)
  <2> DEFINE x == Before(m, k)
             y == Before(u, k)
             l == Len(m.section[k])
             j == Len(u.section[k])
  <2>1. x \in Nat /\ y \in Nat /\ l \in Nat /\ j \in Nat /\ Before(m, k + 1) = x + l /\ Before(u, k + 1) = y + j
    <3>1. k \in 1..5
      OBVIOUS
    <3>2. QED
      BY <3>1, BeforeIs
  <2>2. j = IF k = s THEN l + 1 ELSE l
    BY <1>2, <1>3
  <2>3. y = x + d(k)
    BY <1>5
  <2> HIDE DEF x, y, l, j
  <2>4. y + j = (x + l) + d(k + 1)
    BY <2>1, <2>2, <2>3
  <2>5. QED
    BY <2>1, <2>4
<1>6. \A k \in 1..5 : Before(u, k) = Before(m, k) + d(k)
  <2> DEFINE P(k) == Before(u, k) = Before(m, k) + d(k)
  <2>1. P(1) /\ \A k \in 1..4 : P(k) => P(k + 1)
    BY <1>4, <1>5
  <2> HIDE DEF P
  <2>2. 1 + 1 = 2 /\ 2 + 1 = 3 /\ 3 + 1 = 4 /\ 4 + 1 = 5
    OBVIOUS
  <2>3. P(1) /\ P(2) /\ P(3) /\ P(4) /\ P(5)
    BY <2>1, <2>2
  <2>4. ASSUME NEW k \in 1..5 PROVE P(k)
    <3>1. k = 1 \/ k = 2 \/ k = 3 \/ k = 4 \/ k = 5
      OBVIOUS
    <3>2. QED
      BY <2>3, <3>1
  <2>5. QED
    BY <2>4 DEF P
<1>7. QED
  BY <1>2, <1>6 DEF Shifted

\* Sections follow each other.
LEMMA BeforeOrder ==
    ASSUME NEW E, NEW m \in AnyMessage(E), NEW s \in 1..4
    PROVE  /\ Before(m, s) + Len(m.section[s]) <= Before(m, 5)
           /\ (\A t \in s + 1..4 : m.section[t] = <<>>) =>
                Before(m, 5) = Before(m, s) + Len(m.section[s])
<1>1. /\ \A k \in 1..5 : Before(m, k) \in Nat
      /\ \A k \in 1..4 : Len(m.section[k]) \in Nat /\ Before(m, k + 1) = Before(m, k) + Len(m.section[k])
  BY BeforeIs
<1> DEFINE b1 == Before(m, 1)
           b2 == Before(m, 2)
           b3 == Before(m, 3)
           b4 == Before(m, 4)
           b5 == Before(m, 5)
           l1 == Len(m.section[1])
           l2 == Len(m.section[2])
           l3 == Len(m.section[3])
           l4 == Len(m.section[4])
<1>2. /\ b1 \in Nat /\ b2 \in Nat /\ b3 \in Nat /\ b4 \in Nat /\ b5 \in Nat
      /\ l1 \in Nat /\ l2 \in Nat /\ l3 \in Nat /\ l4 \in Nat
  BY <1>1
<1>3. b2 = b1 + l1 /\ b3 = b2 + l2 /\ b4 = b3 + l3 /\ b5 = b4 + l4
  <2>1. 1 + 1 = 2 /\ 2 + 1 = 3 /\ 3 + 1 = 4 /\ 4 + 1 = 5
    OBVIOUS
  <2>2. Before(m, 1 + 1) = b1 + l1 /\ Before(m, 2 + 1) = b2 + l2
        /\ Before(m, 3 + 1) = b3 + l3 /\ Before(m, 4 + 1) = b4 + l4
    BY <1>1
  <2>3. QED
    BY <2>1, <2>2
<1>4. ASSUME \A t \in s + 1..4 : m.section[t] = <<>>
      PROVE  (s < 2 => l2 = 0) /\ (s < 3 => l3 = 0) /\ (s < 4 => l4 = 0)
  <2>1. Len(<<>>) = 0
    OBVIOUS
  <2>2. (s < 2 => 2 \in s + 1..4) /\ (s < 3 => 3 \in s + 1..4) /\ (s < 4 => 4 \in s + 1..4)
    OBVIOUS
  <2>3. QED
    BY <1>4, <2>1, <2>2
<1>5. /\ Before(m, s) = IF s = 1 THEN b1 ELSE IF s = 2 THEN b2 ELSE IF s = 3 THEN b3 ELSE b4
      /\ Len(m.section[s]) = IF s = 1 THEN l1 ELSE IF s = 2 THEN l2 ELSE IF s = 3 THEN l3 ELSE l4
  OBVIOUS
<1> DEFINE x == Before(m, s)
           l == Len(m.section[s])
<1>6. x = (IF s = 1 THEN b1 ELSE IF s = 2 THEN b2 ELSE IF s = 3 THEN b3 ELSE b4)
      /\ l = (IF s = 1 THEN l1 ELSE IF s = 2 THEN l2 ELSE IF s = 3 THEN l3 ELSE l4)
  BY <1>5
<1> HIDE DEF x, l, b1, b2, b3, b4, b5, l1, l2, l3, l4
<1>7. x + l <= b5
  BY <1>2, <1>3, <1>6
<1>8. (\A t \in s + 1..4 : m.section[t] = <<>>) => b5 = x + l
  BY <1>2, <1>3, <1>4, <1>6
<1>9. QED
  BY <1>7, <1>8 DEF x, l, b5

-----------------------------------------------------------------------------
(* What is on the wire *)

EntrySet(s) == IF s = 1 THEN Questions ELSE Records[s]
AnyEntry == QuestionFormat \cup RecordFormat
At(t, s, i) == Before(t, s) + i

\* The message t that is meant and the places where its entries begin.
TruthOK(t, st) ==
    /\ t \in AnyMessage(AnyEntry)
    /\ \A s \in 1..4 : t.section[s] \in Seq(EntrySet(s)) /\ t.header.count[s] = Len(t.section[s])
    /\ st \in Seq(Nat) /\ Len(st) = Before(t, 5) + 1 /\ Len(st) <= MaxEntries + 1
    /\ st[1] = HeaderSize
    /\ \A i, j \in 1..Len(st) : i <= j => st[i] <= st[j]

LEMMA EntriesAre ==
    ASSUME NEW s \in 1..4, NEW e \in EntrySet(s)
    PROVE  /\ e \in AnyEntry
           /\ s = 1 => e \in QuestionFormat
           /\ s # 1 => e \in RecordFormat /\ WellFormed(e) /\ s \in 2..4
<1>1. CASE s = 1
  BY <1>1, CodecAssumption DEF EntrySet, AnyEntry
<1>2. CASE s # 1
  <2>1. s \in 2..4 /\ e \in Records[s]
    BY <1>2 DEF EntrySet
  <2>2. WellFormed(e)
    BY <2>1, CodecAssumption
  <2>3. QED
    BY <1>2, <2>1, <2>2, WellFormedIs DEF AnyEntry
<1>3. QED
  BY <1>1, <1>2

LEMMA PlacesAre ==
    ASSUME NEW t, NEW st, TruthOK(t, st), NEW s \in 1..4, NEW i \in 1..Len(t.section[s])
    PROVE  /\ At(t, s, i) \in 1..Len(st) /\ At(t, s, i) + 1 \in 1..Len(st) /\ Len(st) \in 1..Len(st)
           /\ st[At(t, s, i)] \in Nat /\ st[At(t, s, i) + 1] \in Nat /\ st[Len(st)] \in Nat
           /\ st[At(t, s, i)] <= st[At(t, s, i) + 1]
           /\ st[At(t, s, i) + 1] <= st[Len(st)]
           /\ t.section[s][i] \in EntrySet(s)
<1>1. t \in AnyMessage(AnyEntry) /\ st \in Seq(Nat) /\ Len(st) = Before(t, 5) + 1
  BY DEF TruthOK
<1> DEFINE b == Before(t, s)
           l == Len(t.section[s])
           n == Before(t, 5)
           a == At(t, s, i)
<1>2. b \in Nat /\ n \in Nat /\ l \in Nat
  <2>1. s \in 1..5 /\ 5 \in 1..5
    OBVIOUS
  <2>2. QED
    BY <1>1, <2>1, BeforeIs
<1>3. b + l <= n
  BY <1>1, BeforeOrder
<1>4. a = b + i /\ i \in 1..l /\ Len(st) = n + 1
  BY <1>1 DEF At
<1> HIDE DEF b, l, n, a
<1>5. a \in 1..n + 1 /\ a + 1 \in 1..n + 1 /\ n + 1 \in 1..n + 1 /\ a <= a + 1 /\ a + 1 <= n + 1
  BY <1>2, <1>3, <1>4
<1>6. \A k \in 1..Len(st) : st[k] \in Nat
  BY <1>1, ElementOfSeq
<1>7. a \in 1..Len(st) /\ a + 1 \in 1..Len(st) /\ Len(st) \in 1..Len(st) /\ a <= a + 1 /\ a + 1 <= Len(st)
  BY <1>4, <1>5
<1>8. st[a] <= st[a + 1] /\ st[a + 1] <= st[Len(st)]
  BY <1>7 DEF TruthOK
<1>9. t.section[s][i] \in EntrySet(s)
  <2>1. t.section[s] \in Seq(EntrySet(s))
    BY DEF TruthOK
  <2>2. QED
    BY <2>1, ElementOfSeq
<1>10. QED
  BY <1>6, <1>7, <1>8, <1>9 DEF a

\* An entry is written.
PutEntry(s, w, e, compress) ==
    IF s = 1 THEN PutQuestion(w, e, compress) ELSE PutRecord(w, e, compress)
PlainEntry(s, e) == s = 1 \/ PlainType(e)
EntryPut(w, s, e, v) ==
    /\ v \in Writer /\ Sound(v)
    /\ \E x \in Seq(Octets) : v.bytes = w.bytes \o x
    /\ PlainEntry(s, e) => EntryIn(v.bytes, s, e, Len(w.bytes), Len(v.bytes))

LEMMA PutEntryReads ==
    ASSUME NEW w \in Writer, Sound(w), NEW s \in 1..4, NEW e \in EntrySet(s), NEW compress \in BOOLEAN
    PROVE  EntryPut(w, s, e, PutEntry(s, w, e, compress))
<1>1. CASE s = 1
  <2>1. e \in QuestionFormat
    BY <1>1, EntriesAre
  <2>2. PutEntry(s, w, e, compress) = PutQuestion(w, e, compress)
    BY <1>1 DEF PutEntry
  <2> DEFINE v == PutQuestion(w, e, compress)
  <2>3. v \in Writer /\ Sound(v) /\ (\E x \in Seq(Octets) : v.bytes = w.bytes \o x)
        /\ EntryIn(v.bytes, 1, e, Len(w.bytes), Len(v.bytes))
    BY <2>1, PutQuestionReads, Zenon
  <2> HIDE DEF v
  <2>4. QED
    BY <1>1, <2>2, <2>3 DEF v, EntryPut
<1>2. CASE s # 1
  <2>1. WellFormed(e) /\ s \in 2..4
    BY <1>2, EntriesAre
  <2>2. PutEntry(s, w, e, compress) = PutRecord(w, e, compress)
    BY <1>2 DEF PutEntry
  <2> DEFINE v == PutRecord(w, e, compress)
  <2>3. v \in Writer /\ Sound(v) /\ (\E x \in Seq(Octets) : v.bytes = w.bytes \o x)
        /\ (PlainType(e) => \A k \in 2..4 : EntryIn(v.bytes, k, e, Len(w.bytes), Len(v.bytes)))
    BY <2>1, PutRecordReads, Zenon
  <2> HIDE DEF v
  <2>4. PlainEntry(s, e) => EntryIn(v.bytes, s, e, Len(w.bytes), Len(v.bytes))
    BY <1>2, <2>1, <2>3 DEF PlainEntry
  <2>5. QED
    BY <2>2, <2>3, <2>4 DEF v, EntryPut
<1>3. QED
  BY <1>1, <1>2

\* What has been written stays as it is.
LEMMA EntryInOn ==
    ASSUME NEW b \in Seq(Octets), NEW y \in Seq(Octets), NEW s, NEW e, NEW p, NEW q \in Nat, q <= Len(b),
           EntryIn(b, s, e, p, q)
    PROVE  EntryIn(b \o y, s, e, p, q)
<1>1. /\ b \o y \in Seq(Octets) /\ Len(b \o y) = Len(b) + Len(y) /\ Len(b) \in Nat /\ Len(y) \in Nat
      /\ \A i \in 1..Len(b) : (b \o y)[i] = b[i]
  BY Concat
<1>2. ASSUME NEW x \in Seq(Octets), Same(b \o y, x, q) PROVE Same(b, x, q)
  <2>1. ASSUME NEW i \in HeaderSize..q - 1 PROVE Byte(b \o y, i) = Byte(b, i)
    <3> DEFINE l == Len(b)
               c == b \o y
    <3>1. l \in Nat /\ Len(c) \in Nat /\ Len(c) >= l /\ q <= l
      BY <1>1
    <3>2. \A k \in 1..l : c[k] = b[k]
      BY <1>1
    <3> HIDE DEF l, c
    <3>3. i < l /\ i < Len(c) /\ i + 1 \in 1..l
      BY <3>1 DEF HeaderSize
    <3>4. QED
      BY <3>2, <3>3 DEF Byte, l, c
  <2>2. QED
    BY <1>2, <2>1 DEF Same
<1>3. QED
  BY <1>2 DEF EntryIn

\* The message with one entry more, which ends at n.
Longer(t, st, s, e, n, u, su) ==
    /\ TruthOK(u, su) /\ Grown(t, u, s, e)
    /\ At(t, s, Len(t.section[s]) + 1) = Len(st)
    /\ Len(su) = Len(st) + 1 /\ su[Len(st) + 1] = n
    /\ \A i \in 1..Len(st) : su[i] = st[i]

LEMMA TruthGrows ==
    ASSUME NEW t, NEW st, TruthOK(t, st), Len(st) <= MaxEntries,
           NEW s \in 1..4, NEW e \in EntrySet(s), \A k \in s + 1..4 : t.section[k] = <<>>,
           NEW n \in Nat, st[Len(st)] <= n,
           NEW u, u = WithEntry(t, s, e), NEW su, su = Append(st, n)
    PROVE  Longer(t, st, s, e, n, u, su)
<1>1. /\ t \in AnyMessage(AnyEntry) /\ st \in Seq(Nat) /\ Len(st) = Before(t, 5) + 1
      /\ \A k \in 1..4 : t.section[k] \in Seq(EntrySet(k)) /\ t.header.count[k] = Len(t.section[k])
      /\ st[1] = HeaderSize /\ \A i, j \in 1..Len(st) : i <= j => st[i] <= st[j]
  BY DEF TruthOK
<1>2. e \in AnyEntry
  BY EntriesAre
<1>3. /\ u \in AnyMessage(AnyEntry) /\ Grown(t, u, s, e)
      /\ u.header.count[s] = t.header.count[s] + 1
      /\ \A k \in 1..4 : k # s => u.header.count[k] = t.header.count[k]
  <2>1. t \in AnyMessage(AnyEntry)
    BY <1>1
  <2>2. QED
    <3>1. MessageGrown(AnyEntry, t, u, s, e)
      BY <1>2, <2>1, GrowMessage
    <3>2. QED
      BY <3>1 DEF MessageGrown
<1>4. /\ su \in Seq(Nat) /\ Len(su) = Len(st) + 1 /\ su[Len(st) + 1] = n
      /\ \A i \in 1..Len(st) : su[i] = st[i]
  BY <1>1, AppendProperties
<1>5. Before(u, 5) = Before(t, 5) + 1 /\ Len(u.section[s]) = Len(t.section[s]) + 1
  <2>1. t \in AnyMessage(AnyEntry) /\ u \in AnyMessage(AnyEntry) /\ Grown(t, u, s, e)
    BY <1>1, <1>3
  <2>2. /\ Len(u.section[s]) = Len(t.section[s]) + 1
        /\ \A k \in 1..5 : Before(u, k) = Before(t, k) + (IF s < k THEN 1 ELSE 0)
    <3>1. Shifted(t, u, s)
      BY <1>2, <2>1, BeforeGrown
    <3>2. QED
      BY <3>1 DEF Shifted
  <2>3. 5 \in 1..5 /\ s < 5
    OBVIOUS
  <2>4. QED
    BY <2>2, <2>3
<1>6. Before(t, 5) \in Nat /\ Before(t, s) \in Nat /\ Len(t.section[s]) \in Nat
      /\ Before(t, 5) = Before(t, s) + Len(t.section[s])
  <2>1. s \in 1..5 /\ 5 \in 1..5
    OBVIOUS
  <2>2. Before(t, 5) \in Nat /\ Before(t, s) \in Nat /\ Len(t.section[s]) \in Nat
    BY <1>1, <2>1, BeforeIs
  <2>3. QED
    BY <1>1, <2>2, BeforeOrder
<1> DEFINE l == Len(st)
<1>7. l \in Nat /\ l >= 1 /\ Len(su) = Before(u, 5) + 1 /\ Len(su) <= MaxEntries + 1
  <2>1. l = Before(t, 5) + 1 /\ Len(su) = l + 1 /\ l <= MaxEntries
    BY <1>1, <1>4
  <2> HIDE DEF l
  <2>2. QED
    BY <1>5, <1>6, <2>1, CodecAssumption, SMTT(30)
<1>8. ASSUME NEW k \in 1..4
      PROVE  u.section[k] \in Seq(EntrySet(k)) /\ u.header.count[k] = Len(u.section[k])
  <2>1. CASE k = s
    <3>1. t.section[s] \in Seq(EntrySet(s)) /\ t.header.count[s] = Len(t.section[s])
      BY <1>1
    <3>2. Append(t.section[s], e) \in Seq(EntrySet(s))
      BY <3>1, AppendProperties
    <3>3. QED
      BY <1>3, <1>5, <2>1, <3>1, <3>2 DEF Grown
  <2>2. CASE k # s
    BY <1>1, <1>3, <2>2 DEF Grown
  <2>3. QED
    BY <2>1, <2>2
<1>9. \A i \in 1..l : st[i] \in Nat
  BY <1>1, ElementOfSeq
<1>10. ASSUME NEW i \in 1..Len(su), NEW j \in 1..Len(su), i <= j PROVE su[i] <= su[j]
  <2>1. /\ Len(su) = l + 1 /\ su[l + 1] = n /\ \A k \in 1..l : su[k] = st[k] /\ st[k] \in Nat
        /\ \A a, b \in 1..l : a <= b => st[a] <= st[b]
        /\ st[l] <= n
    BY <1>1, <1>4, <1>9
  <2> HIDE DEF l
  <2>2. l \in 1..l /\ i \in 1..l + 1 /\ j \in 1..l + 1
    BY <1>7, <2>1
  <2>3. CASE j <= l
    <3>1. i \in 1..l /\ j \in 1..l
      BY <1>7, <1>10, <2>2, <2>3
    <3>2. QED
      BY <1>10, <2>1, <3>1
  <2>4. CASE j = l + 1 /\ i <= l
    <3>1. i \in 1..l /\ st[i] <= st[l]
      BY <1>7, <2>1, <2>2, <2>4
    <3>2. su[i] = st[i] /\ st[i] \in Nat /\ st[l] \in Nat /\ su[j] = n
      BY <2>1, <2>2, <2>4, <3>1
    <3>3. QED
      BY <2>1, <3>1, <3>2
  <2>5. CASE j = l + 1 /\ i = l + 1
    BY <2>1, <2>5
  <2>6. QED
    BY <1>7, <1>10, <2>2, <2>3, <2>4, <2>5
<1>11. su[1] = HeaderSize
  <2>1. 1 \in 1..l
    BY <1>7
  <2>2. QED
    BY <1>1, <1>4, <2>1
<1>12. At(t, s, Len(t.section[s]) + 1) = Len(st)
  <2> DEFINE a == Before(t, s)
             b == Len(t.section[s])
             c == Before(t, 5)
  <2>1. a \in Nat /\ b \in Nat /\ c = a + b /\ Len(st) = c + 1
    BY <1>1, <1>6
  <2> HIDE DEF a, b, c
  <2>2. a + (b + 1) = Len(st)
    BY <2>1
  <2>3. QED
    BY <2>2 DEF a, b, At
<1>13. TruthOK(u, su)
  BY <1>3, <1>4, <1>7, <1>8, <1>10, <1>11 DEF TruthOK
<1>14. QED
  BY <1>3, <1>4, <1>12, <1>13 DEF Longer

\* The entries are where they begin.
EntriesIn(b, t, st) ==
    \A s \in 1..4 : \A i \in 1..Len(t.section[s]) :
        PlainEntry(s, t.section[s][i]) =>
            EntryIn(b, s, t.section[s][i], st[At(t, s, i)], st[At(t, s, i) + 1])

LEMMA EntriesGrow ==
    ASSUME NEW t, NEW st, TruthOK(t, st), NEW w \in Writer, EntriesIn(w.bytes, t, st),
           st[Len(st)] = Len(w.bytes), NEW s \in 1..4, NEW e \in EntrySet(s), NEW v,
           EntryPut(w, s, e, v), \A k \in s + 1..4 : t.section[k] = <<>>,
           NEW u, NEW su, Longer(t, st, s, e, Len(v.bytes), u, su)
    PROVE  EntriesIn(v.bytes, u, su)
<1>1. PICK y \in Seq(Octets) : v.bytes = w.bytes \o y
  BY DEF EntryPut
<1>2. w.bytes \in Seq(Octets) /\ Len(w.bytes) \in Nat
  BY LenProperties DEF Writer
<1>3. /\ TruthOK(u, su) /\ Grown(t, u, s, e)
      /\ At(t, s, Len(t.section[s]) + 1) = Len(st)
      /\ Len(su) = Len(st) + 1 /\ su[Len(st) + 1] = Len(v.bytes)
      /\ \A i \in 1..Len(st) : su[i] = st[i]
  BY DEF Longer
<1>4. t \in AnyMessage(AnyEntry) /\ u \in AnyMessage(AnyEntry) /\ e \in AnyEntry
  BY <1>3, EntriesAre DEF TruthOK
<1>5. /\ Len(u.section[s]) = Len(t.section[s]) + 1
      /\ \A k \in 1..5 : Before(u, k) = Before(t, k) + (IF s < k THEN 1 ELSE 0)
  <2>1. Shifted(t, u, s)
    BY <1>3, <1>4, BeforeGrown
  <2>2. QED
    BY <2>1 DEF Shifted
<1>6. ASSUME NEW k \in 1..4, k <= s, NEW i PROVE At(u, k, i) = At(t, k, i)
  <2>1. k \in 1..5 /\ ~(s < k)
    BY <1>6
  <2>2. Before(t, k) \in Nat
    BY <1>4, <2>1, BeforeIs
  <2>3. QED
    BY <1>5, <2>1, <2>2 DEF At
<1>7. ASSUME NEW k \in 1..4, NEW i \in 1..Len(t.section[k]), k <= s,
             u.section[k][i] = t.section[k][i], PlainEntry(k, t.section[k][i])
      PROVE  EntryIn(v.bytes, k, u.section[k][i], su[At(u, k, i)], su[At(u, k, i) + 1])
  <2> DEFINE a == At(t, k, i)
  <2>1. /\ a \in 1..Len(st) /\ a + 1 \in 1..Len(st) /\ st[a + 1] \in Nat /\ st[a + 1] <= Len(w.bytes)
    BY PlacesAre
  <2>2. EntryIn(w.bytes, k, t.section[k][i], st[a], st[a + 1])
    BY <1>7 DEF EntriesIn
  <2>3. At(u, k, i) = a
    BY <1>6, <1>7
  <2> HIDE DEF a
  <2>4. su[a] = st[a] /\ su[a + 1] = st[a + 1]
    BY <1>3, <2>1
  <2>5. EntryIn(w.bytes \o y, k, t.section[k][i], st[a], st[a + 1])
    <3> DEFINE q == st[a + 1]
               p == st[a]
               b == w.bytes
               f == t.section[k][i]
    <3>1. q \in Nat /\ q <= Len(b) /\ EntryIn(b, k, f, p, q) /\ b \in Seq(Octets)
      BY <1>2, <2>1, <2>2
    <3> HIDE DEF q, p, b, f
    <3>2. EntryIn(b \o y, k, f, p, q)
      BY <3>1, EntryInOn
    <3>3. QED
      BY <3>2 DEF q, p, b, f
  <2>6. QED
    BY <1>1, <1>7, <2>3, <2>4, <2>5
<1>8. ASSUME NEW k \in 1..4, NEW i \in 1..Len(u.section[k]), PlainEntry(k, u.section[k][i])
      PROVE  EntryIn(v.bytes, k, u.section[k][i], su[At(u, k, i)], su[At(u, k, i) + 1])
  <2>1. Len(t.section[k]) \in Nat /\ t.section[k] \in Seq(AnyEntry)
    BY <1>4, BeforeIs
  <2>2. CASE k > s
    <3>1. k \in s + 1..4 /\ k # s
      BY <2>2
    <3>2. u.section[k] = <<>>
      BY <1>3, <3>1 DEF Grown
    <3>3. QED
      BY <1>8, <3>2
  <2>3. CASE k < s
    <3>1. k # s /\ k <= s
      BY <2>3
    <3>2. u.section[k] = t.section[k]
      BY <1>3, <3>1 DEF Grown
    <3>3. QED
      BY <1>7, <1>8, <3>1, <3>2
  <2>4. CASE k = s
    <3>1. u.section[s] = Append(t.section[s], e) /\ t.section[s] \in Seq(AnyEntry)
      BY <1>3, <2>1, <2>4 DEF Grown
    <3>2. /\ \A j \in 1..Len(t.section[s]) : u.section[s][j] = t.section[s][j]
          /\ u.section[s][Len(t.section[s]) + 1] = e
      BY <1>4, <3>1, AppendProperties
    <3>3. CASE i \in 1..Len(t.section[s])
      <4>1. u.section[k][i] = t.section[k][i] /\ k <= s
        BY <2>4, <3>2, <3>3
      <4>2. QED
        BY <1>7, <1>8, <2>4, <3>3, <4>1
    <3>4. CASE i = Len(t.section[s]) + 1
      <4>1. u.section[k][i] = e /\ PlainEntry(s, e)
        BY <1>8, <2>4, <3>2, <3>4
      <4>2. At(u, k, i) = Len(st)
        BY <1>3, <1>6, <2>4, <3>4
      <4>3. EntryIn(v.bytes, s, e, Len(w.bytes), Len(v.bytes))
        BY <4>1 DEF EntryPut
      <4>4. Len(st) \in 1..Len(st)
        <5>1. st \in Seq(Nat) /\ Len(st) = Before(t, 5) + 1 /\ 5 \in 1..5
          BY DEF TruthOK
        <5>2. Before(t, 5) \in Nat
          BY <1>4, <5>1, BeforeIs
        <5>3. QED
          BY <5>1, <5>2
      <4>5. su[Len(st)] = Len(w.bytes) /\ su[Len(st) + 1] = Len(v.bytes)
        BY <1>3, <4>4
      <4>6. QED
        BY <2>4, <4>1, <4>2, <4>3, <4>5
    <3>5. QED
      BY <1>5, <1>8, <2>1, <2>4, <3>3, <3>4, SMTT(30)
  <2>5. QED
    BY <2>2, <2>3, <2>4
<1>9. QED
  BY <1>8 DEF EntriesIn

\* What of it has arrived is read as it was meant.
Arrived(x, n, t, st) ==
    \A s \in 1..4 : \A i \in 1..Len(t.section[s]) :
        PlainEntry(s, t.section[s][i]) /\ st[At(t, s, i) + 1] <= n =>
            ReadAt(x, s, st[At(t, s, i)]) =
                [entry |-> Plain(s, t.section[s][i]), next |-> st[At(t, s, i) + 1]]

LEMMA ArrivedFrom ==
    ASSUME NEW t, NEW st, TruthOK(t, st), NEW b, EntriesIn(b, t, st),
           NEW x \in Seq(Octets), NEW n \in Nat, Same(b, x, n)
    PROVE  Arrived(x, n, t, st)
<1>1. ASSUME NEW s \in 1..4, NEW i \in 1..Len(t.section[s]),
             PlainEntry(s, t.section[s][i]), st[At(t, s, i) + 1] <= n
      PROVE  ReadAt(x, s, st[At(t, s, i)]) =
                [entry |-> Plain(s, t.section[s][i]), next |-> st[At(t, s, i) + 1]]
  <2> DEFINE q == st[At(t, s, i) + 1]
  <2>1. q \in Nat /\ q <= n
    BY <1>1, PlacesAre
  <2>2. EntryIn(b, s, t.section[s][i], st[At(t, s, i)], q)
    BY <1>1 DEF EntriesIn
  <2> HIDE DEF q
  <2>3. \A k \in HeaderSize..q - 1 : k \in HeaderSize..n - 1
    BY <2>1 DEF HeaderSize
  <2>4. Same(b, x, q)
    BY <2>3 DEF Same
  <2>5. QED
    BY <2>2, <2>4 DEF EntryIn, q
<1>2. QED
  BY <1>1 DEF Arrived

-----------------------------------------------------------------------------
(* The message in memory *)

MemQuestion == [name : Seq(Octets), type : Words, class : Words]
MemRecord == [name : Seq(Octets), type : Words, class : Words, ttl : Longs,
              rdlength : Words, rdata : Seq(Octets)]
Mem(s) == IF s = 1 THEN MemQuestion ELSE MemRecord
AnyMem == MemQuestion \cup MemRecord

MemoryOK(m) ==
    /\ m \in AnyMessage(AnyMem) /\ m.header \in HeaderFormat
    /\ \A s \in 1..4 : m.section[s] \in Seq(Mem(s))

LEMMA MemIs ==
    ASSUME NEW s \in 1..4, NEW e \in Mem(s)
    PROVE  e \in AnyMem
  BY DEF Mem, AnyMem

LEMMA RDataType ==
    ASSUME NEW b \in Seq(Octets), NEW d \in Nat, NEW type, NEW n \in Nat
    PROVE  RData(b, d, type, n) \in Seq(Octets)
<1>0. <<0>> \in Seq(Octets)
  BY Bounds
<1> DEFINE nul == <<0>>
<1>1. nul \in Seq(Octets)
  BY <1>0
<1> HIDE DEF nul
<1>2. ASSUME NEW y \in Seq(Octets) PROVE y \o nul \in Seq(Octets)
  BY <1>1, ConcatProperties
<1>3. read_domain(b, d) \in Seq(Octets) /\ NameOffset(b, d) \in Nat
  BY ReadDomainType
<1>4. read_domain(b, d) \o nul \in Seq(Octets)
  BY <1>2, <1>3
<1>5. d + 2 \in Nat /\ 2 \in Nat
  OBVIOUS
<1>6. Bytes(b, d, 2) \o read_domain(b, d + 2) \o nul \in Seq(Octets)
  <2> DEFINE k == 2
             c == d + 2
  <2>1. k \in Nat /\ c \in Nat
    BY <1>5
  <2> HIDE DEF k, c
  <2>2. Bytes(b, d, k) \in Seq(Octets)
    BY <2>1, BytesIs
  <2>3. read_domain(b, c) \in Seq(Octets)
    BY <2>1, ReadDomainType
  <2>4. Bytes(b, d, k) \o read_domain(b, c) \in Seq(Octets)
    BY <2>2, <2>3, ConcatProperties
  <2>5. (Bytes(b, d, k) \o read_domain(b, c)) \o nul \in Seq(Octets)
    BY <1>2, <2>4
  <2>6. QED
    BY <2>5 DEF k, c
<1>7. Bytes(b, d, n) \in Seq(Octets)
  BY BytesIs
<1> DEFINE d2 == d + NameOffset(b, d)
<1>8. d2 \in Nat
  BY <1>3
<1> DEFINE c == d2 + NameOffset(b, d) + NameOffset(b, d2)
<1>9. read_domain(b, d2) \in Seq(Octets) /\ NameOffset(b, d2) \in Nat
  <2> HIDE DEF d2
  <2>1. QED
    BY <1>8, ReadDomainType
<1>10. c \in Nat /\ 20 \in Nat
  <2> HIDE DEF d2
  <2>1. QED
    BY <1>3, <1>8, <1>9
<1> HIDE DEF d2, c
<1>11. read_domain(b, d) \o nul \o read_domain(b, d2) \o nul \o Bytes(b, c, 20) \in Seq(Octets)
  <2> DEFINE k == 20
  <2>1. k \in Nat
    OBVIOUS
  <2> HIDE DEF k
  <2>2. Bytes(b, c, k) \in Seq(Octets)
    BY <1>10, <2>1, BytesIs
  <2>3. (read_domain(b, d) \o nul) \o read_domain(b, d2) \in Seq(Octets)
    BY <1>4, <1>9, ConcatProperties
  <2>4. ((read_domain(b, d) \o nul) \o read_domain(b, d2)) \o nul \in Seq(Octets)
    BY <1>2, <2>3
  <2>5. (((read_domain(b, d) \o nul) \o read_domain(b, d2)) \o nul) \o Bytes(b, c, k) \in Seq(Octets)
    BY <2>2, <2>4, ConcatProperties
  <2>6. QED
    BY <2>5 DEF k
<1>12. RData(b, d, type, n) \in
         {read_domain(b, d) \o nul \o read_domain(b, d2) \o nul \o Bytes(b, c, 20),
          Bytes(b, d, 2) \o read_domain(b, d + 2) \o nul,
          read_domain(b, d) \o nul, Bytes(b, d, n)}
  <2>1. CASE type = RRTYPE_SOA
    BY <2>1 DEF RData, nul, c, d2
  <2>2. CASE type # RRTYPE_SOA /\ type = RRTYPE_MX
    BY <2>2 DEF RData, nul, c, d2
  <2>3. CASE type # RRTYPE_SOA /\ type # RRTYPE_MX
             /\ type \in {RRTYPE_NS, RRTYPE_PTR, RRTYPE_TXT, RRTYPE_CNAME}
    BY <2>3 DEF RData, nul, c, d2
  <2>4. CASE type # RRTYPE_SOA /\ type # RRTYPE_MX
             /\ type \notin {RRTYPE_NS, RRTYPE_PTR, RRTYPE_TXT, RRTYPE_CNAME}
    BY <2>4 DEF RData, nul, c, d2
  <2>5. QED
    BY <2>1, <2>2, <2>3, <2>4
<1>13. QED
  BY <1>4, <1>6, <1>7, <1>11, <1>12

\* The length in memory is a uint16_t.
LEMMA LengthIsWord ==
    ASSUME NEW n \in Nat
    PROVE  n % 65536 \in Words
  BY SMT DEF Words

LEMMA ReadType ==
    ASSUME NEW b \in Seq(Octets), NEW p \in Nat, NEW s \in 1..4
    PROVE  ReadAt(b, s, p).entry \in Mem(s) /\ ReadAt(b, s, p).next \in Nat
<1> DEFINE q == p + NameOffset(b, p)
<1>1. read_domain(b, p) \in Seq(Octets) /\ q \in Nat
  <2>1. read_domain(b, p) \in Seq(Octets) /\ NameOffset(b, p) \in Nat
    BY ReadDomainType
  <2>2. QED
    BY <2>1
<1> HIDE DEF q
<1>2. q + 2 \in Nat /\ q + 4 \in Nat /\ q + 8 \in Nat /\ q + 10 \in Nat
  BY <1>1
<1>3. /\ u8n_to_u16h(b, q) \in Words /\ u8n_to_u16h(b, q + 2) \in Words
      /\ u8n_to_u32h(b, q + 4) \in Longs /\ u8n_to_u16h(b, q + 8) \in Nat
  BY <1>1, <1>2, NumberIs
<1>4. CASE s = 1
  <2>1. ReadAt(b, s, p) =
          [entry |-> [name |-> read_domain(b, p), type |-> u8n_to_u16h(b, q),
                      class |-> u8n_to_u16h(b, q + 2)], next |-> q + 4]
    BY <1>4 DEF ReadAt, msg_question_from_buf, q
  <2>2. QED
    BY <1>1, <1>2, <1>3, <1>4, <2>1 DEF Mem, MemQuestion
<1>5. CASE s # 1
  <2> DEFINE t == u8n_to_u16h(b, q)
             n == u8n_to_u16h(b, q + 8)
             r == RData(b, q + 10, t, n)
             l == Len(r) % 65536
  <2>1. n \in Nat /\ q + 10 \in Nat
    BY <1>2, <1>3
  <2>2. r \in Seq(Octets)
    <3> DEFINE d == q + 10
    <3>1. d \in Nat
      BY <2>1
    <3> HIDE DEF d, n, t
    <3>2. RData(b, d, t, n) \in Seq(Octets)
      BY <2>1, <3>1, RDataType
    <3>3. QED
      BY <3>2 DEF d
  <2>3. l \in Words
    <3> HIDE DEF r
    <3>1. Len(r) \in Nat
      BY <2>2, LenProperties
    <3>2. QED
      BY <3>1, LengthIsWord
  <2>4. ReadAt(b, s, p) =
          [entry |-> [name |-> read_domain(b, p), type |-> t, class |-> u8n_to_u16h(b, q + 2),
                      ttl |-> u8n_to_u32h(b, q + 4), rdlength |-> l, rdata |-> r],
           next |-> q + 10 + n]
    BY <1>5 DEF ReadAt, msg_rr_from_buf, q
  <2>5. t \in Words
    BY <1>3
  <2> HIDE DEF t, n, r, l
  <2>6. q + 10 + n \in Nat
    BY <2>1
  <2>7. QED
    BY <1>1, <1>3, <1>5, <2>2, <2>3, <2>4, <2>5, <2>6 DEF Mem, MemRecord
<1>6. QED
  BY <1>4, <1>5

EntryBytes(s, e) == IF s = 1 THEN msg_question_to_u8(e) ELSE msg_rr_to_u8(e)

LEMMA EntryBytesType ==
    ASSUME NEW s \in 1..4, NEW e \in Mem(s)
    PROVE  EntryBytes(s, e) \in Seq(Octets)
<1>0. <<0>> \in Seq(Octets)
  BY Bounds
<1> DEFINE nul == <<0>>
           name == e.name
           t == u16h_to_u8n(e.type)
           c == u16h_to_u8n(e.class)
<1>1. name \in Seq(Octets) /\ e.type \in Words /\ e.class \in Words
  BY DEF Mem, MemQuestion, MemRecord
<1>2. nul \in Seq(Octets) /\ t \in Seq(Octets) /\ c \in Seq(Octets)
  BY <1>0, <1>1, U16Is
<1> HIDE DEF nul, t, c, name
<1>3. ((name \o nul) \o t) \o c \in Seq(Octets)
  <2>1. name \o nul \in Seq(Octets)
    BY <1>1, <1>2, ConcatProperties
  <2>2. (name \o nul) \o t \in Seq(Octets)
    BY <1>2, <2>1, ConcatProperties
  <2>3. QED
    BY <1>2, <2>2, ConcatProperties
<1>4. CASE s = 1
  BY <1>3, <1>4 DEF EntryBytes, msg_question_to_u8, nul, name, t, c
<1>5. CASE s # 1
  <2>1. e.ttl \in Longs /\ e.rdlength \in Words /\ e.rdlength \in Nat /\ e.rdata \in Seq(Octets)
    BY <1>5 DEF Mem, MemRecord, Words
  <2> DEFINE y == u32h_to_u8n(e.ttl)
             z == u16h_to_u8n(e.rdlength)
             n == e.rdlength
             d == e.rdata
             v == Bytes(d, 0, n)
  <2>2. y \in Seq(Octets) /\ z \in Seq(Octets)
    BY <2>1, U16Is, U32Is
  <2>3. v \in Seq(Octets)
    <3>1. n \in Nat /\ d \in Seq(Octets) /\ 0 \in Nat
      BY <2>1
    <3> HIDE DEF n, d
    <3>2. QED
      BY <3>1, BytesIs
  <2> HIDE DEF y, z, v
  <2> DEFINE a == ((name \o nul) \o t) \o c
  <2>4. a \in Seq(Octets)
    BY <1>3
  <2> HIDE DEF a
  <2>5. a \o y \in Seq(Octets)
    BY <2>2, <2>4, ConcatProperties
  <2>6. (a \o y) \o z \in Seq(Octets)
    BY <2>2, <2>5, ConcatProperties
  <2>7. ((a \o y) \o z) \o v \in Seq(Octets)
    BY <2>3, <2>6, ConcatProperties
  <2>8. QED
    BY <1>5, <2>7 DEF EntryBytes, msg_rr_to_u8, a, nul, name, t, c, y, z, v
<1>6. QED
  BY <1>4, <1>5

LEMMA WrittenType ==
    ASSUME NEW dest \in Seq(Octets), NEW name, NEW bytes \in Seq(Octets)
    PROVE  Written(dest, name, bytes) \in Seq(Octets)
<1>1. Front(dest) \in Seq(Octets)
  <2> DEFINE k == 1
             l == Len(dest) - 1
  <2>1. Len(dest) \in Nat /\ \A i \in 1..Len(dest) : dest[i] \in Octets
    BY LenProperties, ElementOfSeq
  <2>2. k \in Int /\ l \in Int /\ \A i \in k..l : dest[i] \in Octets
    BY <2>1
  <2> HIDE DEF k, l
  <2>3. SubSeq(dest, k, l) \in Seq(Octets)
    BY <2>2, SubSeqProperties
  <2>4. QED
    BY <2>3 DEF Front, k, l
<1>2. dest \o bytes \in Seq(Octets)
  BY ConcatProperties
<1>3. QED
  BY <1>1, <1>2 DEF Written

\* The loop over a section: dest after so many of its entries.
Loop(f, dest, s, entries) ==
    /\ f \in [0..Len(entries) -> Seq(Octets)] /\ f[0] = dest
    /\ \A i \in 1..Len(entries) :
         f[i] = Written(f[i - 1], entries[i].name, EntryBytes(s, entries[i]))
    /\ SectionWritten(dest, s, entries) = f[Len(entries)]

LEMMA SectionLoop ==
    ASSUME NEW dest \in Seq(Octets), NEW s \in 1..4, NEW entries \in Seq(Mem(s))
    PROVE  \E f : Loop(f, dest, s, entries)
<1> DEFINE n == Len(entries)
           Step(g) == [i \in 0..n |->
                         IF i = 0 THEN dest
                         ELSE Written(g[i - 1], entries[i].name, EntryBytes(s, entries[i]))]
           G == [i \in 1..n |-> [v \in Seq(Octets) |->
                   Written(v, entries[i].name, EntryBytes(s, entries[i]))]]
           V == Seq(Octets)
           written == CHOOSE g : g = Step(g)
<1>1. n \in Nat /\ \A i \in 1..n : entries[i] \in Mem(s)
  BY LenProperties, ElementOfSeq
<1>2. G \in [1..n -> [V -> V]]
  <2>1. \A i \in 1..n : \A v \in V : Written(v, entries[i].name, EntryBytes(s, entries[i])) \in V
    BY <1>1, EntryBytesType, WrittenType
  <2> HIDE DEF n
  <2>2. QED
    BY <2>1
<1>3. PICK f : f \in Recursion(V, dest, n, G)
  <2>1. dest \in V
    OBVIOUS
  <2> HIDE DEF n, G, V
  <2>2. QED
    BY <1>1, <1>2, <2>1, RecursionExists
<1>4. /\ f \in [0..n -> V] /\ f[0] = dest
      /\ \A i \in 1..n : f[i] = G[i][f[i - 1]]
  <2> HIDE DEF n, G, V
  <2>1. QED
    BY <1>3 DEF Recursion
<1> HIDE DEF n
<1>5. ASSUME NEW i \in 0..n
      PROVE  f[i] = IF i = 0 THEN dest
                    ELSE Written(f[i - 1], entries[i].name, EntryBytes(s, entries[i]))
  <2>1. CASE i = 0
    BY <1>4, <2>1
  <2>2. CASE i # 0
    <3>1. i \in 1..n /\ i - 1 \in 0..n
      BY <1>1, <2>2
    <3>2. f[i - 1] \in V
      BY <1>4, <3>1
    <3>3. QED
      BY <1>4, <2>2, <3>1, <3>2
  <2>3. QED
    BY <2>1, <2>2
<1>6. f = Step(f)
  BY <1>4, <1>5
<1>7. written = Step(written)
  BY <1>6
<1>8. SectionWritten(dest, s, entries) = written[n]
  BY DEF SectionWritten, n, EntryBytes
<1> HIDE DEF written
<1>9. written \in [0..n -> V] /\ written = f
  <2>1. /\ DOMAIN written = 0..n
        /\ \A i \in 0..n : written[i] =
             IF i = 0 THEN dest ELSE Written(written[i - 1], entries[i].name, EntryBytes(s, entries[i]))
    BY <1>7
  <2>2. written[0] = f[0] /\ \A i \in 1..n : written[i - 1] = f[i - 1] => written[i] = f[i]
    <3>1. 0 \in 0..n /\ \A i \in 1..n : i \in 0..n /\ i # 0
      BY <1>1
    <3>2. QED
      BY <1>5, <2>1, <3>1
  <2>3. \A i \in 0..n : written[i] = f[i]
    <3>1. n \in Nat /\ SameSteps(n, written, f)
      BY <1>1, <2>2 DEF SameSteps
    <3>2. QED
      BY <3>1, RecursionUnique
  <2>4. written = f
    <3>1. written = [i \in 0..n |-> written[i]] /\ f = [i \in 0..n |-> f[i]]
      BY <1>4, <1>7
    <3>2. QED
      BY <2>3, <3>1
  <2>5. QED
    BY <1>4, <2>4
<1>10. \A i \in 1..n : i \in 0..n /\ i # 0
  BY <1>1
<1>11. Loop(f, dest, s, entries)
  BY <1>4, <1>5, <1>8, <1>9, <1>10 DEF Loop, n
<1>12. QED
  BY <1>11

LEMMA SectionType ==
    ASSUME NEW dest \in Seq(Octets), NEW s \in 1..4, NEW entries \in Seq(Mem(s))
    PROVE  SectionWritten(dest, s, entries) \in Seq(Octets)
<1>1. PICK f : Loop(f, dest, s, entries)
  BY SectionLoop
<1>2. Len(entries) \in 0..Len(entries)
  BY LenProperties
<1>3. QED
  BY <1>1, <1>2 DEF Loop

LEMMA MessageBytesType ==
    ASSUME NEW m, MemoryOK(m)
    PROVE  message_to_u8(m) \in Seq(Octets)
<1>1. /\ m.header \in HeaderFormat /\ m.section[1] \in Seq(Mem(1)) /\ m.section[2] \in Seq(Mem(2))
      /\ m.section[3] \in Seq(Mem(3)) /\ m.section[4] \in Seq(Mem(4))
  BY DEF MemoryOK
<1> DEFINE h == msg_header_to_u8(m.header)
           q == SectionWritten(h, 1, m.section[1])
           an == SectionWritten(q, 2, m.section[2])
           au == SectionWritten(an, 3, m.section[3])
<1>2. h \in Seq(Octets)
  BY <1>1, HeaderReads
<1> HIDE DEF h
<1>3. q \in Seq(Octets)
  <2>1. 1 \in 1..4
    OBVIOUS
  <2>2. QED
    BY <1>1, <1>2, <2>1, SectionType
<1> HIDE DEF q
<1>4. an \in Seq(Octets)
  <2>1. 2 \in 1..4
    OBVIOUS
  <2>2. QED
    BY <1>1, <1>3, <2>1, SectionType
<1> HIDE DEF an
<1>5. au \in Seq(Octets)
  <2>1. 3 \in 1..4
    OBVIOUS
  <2>2. QED
    BY <1>1, <1>4, <2>1, SectionType
<1> HIDE DEF au
<1>6. SectionWritten(au, 4, m.section[4]) \in Seq(Octets)
  <2>1. 4 \in 1..4
    OBVIOUS
  <2>2. QED
    BY <1>1, <1>5, <2>1, SectionType
<1>7. QED
  BY <1>6 DEF message_to_u8, h, q, an, au

-----------------------------------------------------------------------------
(* Changes of a message *)

LEMMA EmptyIs ==
    /\ \A E : EmptyMessage \in AnyMessage(E)
    /\ EmptyMessage.header \in HeaderFormat
    /\ \A s \in 1..4 : EmptyMessage.section[s] = <<>> /\ EmptyMessage.header.count[s] = 0
<1>1. 0 \in Words /\ 0 \in Octets
  BY Bounds DEF Words, Octets
<1> DEFINE c == [s \in 1..4 |-> 0]
           f == [s \in 1..4 |-> <<>>]
           h == [id |-> 0, misc1 |-> 0, misc2 |-> 0, count |-> c]
<1>2. EmptyMessage = [header |-> h, section |-> f]
  BY DEF EmptyMessage
<1>3. c \in [1..4 -> Words] /\ c \in [1..4 -> Nat] /\ \A E : f \in [1..4 -> Seq(E)]
  <2>1. \A E : <<>> \in Seq(E)
    BY EmptySeq
  <2>2. QED
    BY <1>1, <2>1
<1>4. (\A s \in 1..4 : c[s] = 0 /\ f[s] = <<>>)
  OBVIOUS
<1> HIDE DEF c, f
<1>5. h \in HeaderFormat /\ h \in AnyHeader /\ h.count = c
  BY <1>1, <1>3 DEF HeaderFormat, AnyHeader
<1> HIDE DEF h
<1>6. EmptyMessage.header = h /\ EmptyMessage.section = f
  BY <1>2
<1>7. \A E : EmptyMessage \in AnyMessage(E)
  BY <1>2, <1>3, <1>5 DEF AnyMessage
<1>8. QED
  BY <1>4, <1>5, <1>6, <1>7

LEMMA EmptyMemory == MemoryOK(EmptyMessage)
<1>1. \A s \in 1..4 : EmptyMessage.section[s] \in Seq(Mem(s))
  <2>1. \A s \in 1..4 : <<>> \in Seq(Mem(s))
    BY EmptySeq
  <2>2. QED
    BY <2>1, EmptyIs
<1>2. QED
  BY <1>1, EmptyIs DEF MemoryOK

LEMMA EmptyCounted == AtMostCounted(EmptyMessage)
<1>1. /\ EmptyMessage.header.count = [s \in 1..4 |-> 0]
      /\ EmptyMessage.section = [s \in 1..4 |-> <<>>]
  BY DEF EmptyMessage
<1>2. QED
  BY <1>1, EmptySeq DEF AtMostCounted

LEMMA EmptyTruth ==
    TruthOK(EmptyMessage, <<HeaderSize>>) /\ \A b : EntriesIn(b, EmptyMessage, <<HeaderSize>>)
<1> DEFINE m == EmptyMessage
           st == <<HeaderSize>>
<1>1. /\ m \in AnyMessage(AnyEntry)
      /\ \A s \in 1..4 : m.section[s] = <<>> /\ m.header.count[s] = 0
  BY EmptyIs
<1>2. Len(<<>>) = 0
  OBVIOUS
<1>3. \A s \in 1..4 : m.section[s] \in Seq(EntrySet(s)) /\ m.header.count[s] = Len(m.section[s])
  <2>1. \A s \in 1..4 : <<>> \in Seq(EntrySet(s))
    BY EmptySeq
  <2>2. QED
    BY <1>1, <1>2, <2>1
<1>4. st \in Seq(Nat) /\ Len(st) = 1 /\ st[1] = HeaderSize
  BY DEF HeaderSize
<1>5. Before(m, 5) = 0
  <2> HIDE DEF m
  <2>1. Len(m.section[1]) = 0 /\ Len(m.section[2]) = 0 /\ Len(m.section[3]) = 0 /\ Len(m.section[4]) = 0
    BY <1>1, <1>2
  <2>2. QED
    BY <2>1 DEF Before
<1>6. Len(st) <= MaxEntries + 1 /\ Len(st) = Before(m, 5) + 1
  BY <1>4, <1>5, CodecAssumption
<1>7. \A i, j \in 1..Len(st) : i <= j => st[i] <= st[j]
  BY <1>4 DEF HeaderSize
<1> HIDE DEF m, st
<1>8. TruthOK(m, st)
  BY <1>1, <1>3, <1>4, <1>6, <1>7 DEF TruthOK
<1>9. \A b : EntriesIn(b, m, st)
  <2>1. \A s \in 1..4 : 1..Len(m.section[s]) = {}
    BY <1>1, <1>2
  <2>2. QED
    BY <2>1 DEF EntriesIn
<1>10. QED
  BY <1>8, <1>9 DEF m, st

\* The counts are small.
LEMMA TruthHeader ==
    ASSUME NEW t, NEW st, TruthOK(t, st)
    PROVE  t.header \in HeaderFormat /\ t.header.count[4] + 1 \in Words
<1>1. /\ t \in AnyMessage(AnyEntry) /\ Len(st) = Before(t, 5) + 1 /\ Len(st) <= MaxEntries + 1
      /\ \A s \in 1..4 : t.header.count[s] = Len(t.section[s])
  BY DEF TruthOK
<1>2. ASSUME NEW s \in 1..4 PROVE t.header.count[s] \in Words /\ t.header.count[s] + 1 \in Words
  <2> DEFINE n == Before(t, 5)
             b == Before(t, s)
             l == Len(t.section[s])
  <2>1. n \in Nat /\ b \in Nat /\ l \in Nat
    <3>1. s \in 1..5 /\ 5 \in 1..5
      OBVIOUS
    <3>2. QED
      BY <1>1, <3>1, BeforeIs
  <2>2. b + l <= n
    BY <1>1, BeforeOrder
  <2>3. n + 1 <= MaxEntries + 1
    BY <1>1
  <2>4. t.header.count[s] = l
    BY <1>1
  <2> HIDE DEF n, b, l
  <2>5. l + 1 <= MaxEntries + 1
    BY <2>1, <2>2, <2>3, CodecAssumption
  <2>6. MaxEntries + 1 < 65536 /\ MaxEntries + 1 \in Nat
    BY CodecAssumption, SMT DEF Words
  <2>7. l < 65536 /\ l + 1 < 65536 /\ l + 1 \in Nat
    BY <2>1, <2>5, <2>6, SMT
  <2>8. l \in Words /\ l + 1 \in Words
    BY <2>1, <2>7, SMT DEF Words
  <2>9. QED
    BY <2>4, <2>8
<1>3. t.header \in AnyHeader
  BY <1>1 DEF AnyMessage
<1>4. t.header = [id |-> t.header.id, misc1 |-> t.header.misc1, misc2 |-> t.header.misc2,
                  count |-> t.header.count]
  BY <1>3 DEF AnyHeader
<1>5. /\ t.header.id \in Words /\ t.header.misc1 \in Octets /\ t.header.misc2 \in Octets
      /\ t.header.count \in [1..4 -> Nat]
  BY <1>3 DEF AnyHeader
<1>6. t.header.count \in [1..4 -> Words]
  BY <1>2, <1>5
<1>7. t.header \in HeaderFormat
  BY <1>4, <1>5, <1>6 DEF HeaderFormat
<1>8. QED
  BY <1>2, <1>7

\* Another header.
WithHeader(t, h) ==
    [t EXCEPT !.header = [id |-> h.id, misc1 |-> h.misc1, misc2 |-> h.misc2, count |-> t.header.count]]

LEMMA NewHeader ==
    ASSUME NEW t, NEW st, TruthOK(t, st), NEW h \in Headers, NEW u, u = WithHeader(t, h)
    PROVE  TruthOK(u, st) /\ u.section = t.section
<1>1. /\ t \in AnyMessage(AnyEntry) /\ st \in Seq(Nat) /\ Len(st) = Before(t, 5) + 1
      /\ Len(st) <= MaxEntries + 1 /\ st[1] = HeaderSize
      /\ \A i, j \in 1..Len(st) : i <= j => st[i] <= st[j]
      /\ \A s \in 1..4 : t.section[s] \in Seq(EntrySet(s)) /\ t.header.count[s] = Len(t.section[s])
  BY DEF TruthOK
<1>2. /\ DOMAIN t = {"header", "section"} /\ t.section \in [1..4 -> Seq(AnyEntry)]
      /\ t.header \in AnyHeader
  BY <1>1 DEF AnyMessage
<1> DEFINE g == [id |-> h.id, misc1 |-> h.misc1, misc2 |-> h.misc2, count |-> t.header.count]
<1>3. h.id \in Words /\ h.misc1 \in Octets /\ h.misc2 \in Octets /\ t.header.count \in [1..4 -> Nat]
  BY <1>2, CodecAssumption DEF AnyHeader
<1>4. g \in AnyHeader /\ g.count = t.header.count
  BY <1>3 DEF AnyHeader
<1>5. u = [t EXCEPT !["header"] = g]
  BY DEF WithHeader
<1> HIDE DEF g
<1>6. u = [header |-> g, section |-> t.section]
  BY <1>2, <1>5
<1>7. u.header = g /\ u.section = t.section /\ u \in AnyMessage(AnyEntry)
  <2>1. g \in AnyHeader /\ t.section \in [1..4 -> Seq(AnyEntry)]
    BY <1>2, <1>4
  <2>2. QED
    BY <1>6, <2>1, MessageParts, Zenon
<1>8. Before(u, 5) = Before(t, 5)
  BY <1>7 DEF Before
<1>9. TruthOK(u, st)
  BY <1>1, <1>4, <1>7, <1>8 DEF TruthOK
<1>10. QED
  BY <1>7, <1>9

LEMMA SameSections ==
    ASSUME NEW t, NEW u, u.section = t.section, NEW st
    PROVE  /\ \A b : EntriesIn(b, t, st) => EntriesIn(b, u, st)
           /\ \A s : Before(u, s) = Before(t, s)
<1>1. \A s : Before(u, s) = Before(t, s)
  BY DEF Before
<1>2. \A s, i : At(u, s, i) = At(t, s, i)
  BY <1>1 DEF At
<1>3. QED
  BY <1>1, <1>2 DEF EntriesIn

LEMMA MinIs ==
    ASSUME NEW S \in SUBSET Nat, S # {}
    PROVE  Min(S) \in S /\ \A y \in S : Min(S) <= y
<1>1. \E x \in S : \A y \in S : x <= y
  BY LeastExists
<1>2. QED
  BY <1>1 DEF Min

\* Another id in the header.
IdReplaced(E, m, u, id) ==
    /\ u \in AnyMessage(E) /\ u.section = m.section
    /\ u.header = [id |-> id, misc1 |-> m.header.misc1, misc2 |-> m.header.misc2,
                   count |-> m.header.count]

LEMMA ReplaceId ==
    ASSUME NEW E, NEW m \in AnyMessage(E), NEW id \in Words
    PROVE  IdReplaced(E, m, WithId(m, id), id)
<1> DEFINE u == WithId(m, id)
           h == [m.header EXCEPT !["id"] = id]
<1>1. /\ DOMAIN m = {"header", "section"} /\ m.section \in [1..4 -> Seq(E)] /\ m.header \in AnyHeader
  BY DEF AnyMessage
<1>2. u = [m EXCEPT !["header"] = h]
  BY DEF WithId
<1>3. h = [id |-> id, misc1 |-> m.header.misc1, misc2 |-> m.header.misc2, count |-> m.header.count]
  BY <1>1, SMTT(30) DEF AnyHeader
<1>4. h \in AnyHeader
  BY <1>1, <1>3 DEF AnyHeader
<1> HIDE DEF h, u
<1>5. u = [header |-> h, section |-> m.section]
  BY <1>1, <1>2
<1>6. u.header = h /\ u.section = m.section /\ u \in AnyMessage(E)
  <2>1. h \in AnyHeader /\ m.section \in [1..4 -> Seq(E)]
    BY <1>1, <1>4
  <2>2. QED
    BY <1>5, <2>1, MessageParts, SMTT(30)
<1>7. IdReplaced(E, m, u, id)
  BY <1>3, <1>6 DEF IdReplaced
<1>8. QED
  BY <1>7 DEF u

LEMMA WithIdOK ==
    ASSUME NEW m, MemoryOK(m), NEW id \in Words
    PROVE  MemoryOK(WithId(m, id)) /\ (AsCounted(m) => AsCounted(WithId(m, id)))
<1> DEFINE u == WithId(m, id)
<1>1. IdReplaced(AnyMem, m, u, id) /\ m.header \in HeaderFormat
      /\ \A s \in 1..4 : m.section[s] \in Seq(Mem(s))
  BY ReplaceId DEF MemoryOK
<1> HIDE DEF u
<1>2. u.header \in HeaderFormat /\ u.header.count = m.header.count /\ u.section = m.section
  BY <1>1 DEF IdReplaced, HeaderFormat
<1>3. MemoryOK(u) /\ (AsCounted(m) => AsCounted(u))
  BY <1>1, <1>2 DEF MemoryOK, IdReplaced, AsCounted
<1>4. QED
  BY <1>3 DEF u

\* Another ttl in record k of the last section.
WithTtl(m, k, c) == [m EXCEPT !.section[4][k].ttl = c]
TtlReplaced(E, m, u, k, c) ==
    /\ u \in AnyMessage(E) /\ u.header = m.header
    /\ \A t \in 1..4 : t # 4 => u.section[t] = m.section[t]
    /\ u.section[4] = [m.section[4] EXCEPT ![k] = [m.section[4][k] EXCEPT !.ttl = c]]

LEMMA ReplaceTtl ==
    ASSUME NEW E, NEW m \in AnyMessage(E), NEW k \in 1..Len(m.section[4]), NEW c,
           [m.section[4][k] EXCEPT !.ttl = c] \in E, NEW u, u = WithTtl(m, k, c)
    PROVE  TtlReplaced(E, m, u, k, c)
<1> DEFINE new == [m.section[4][k] EXCEPT !.ttl = c]
           g == [m.section[4] EXCEPT ![k] = new]
           f == [m.section EXCEPT ![4] = g]
<1>1. /\ DOMAIN m = {"header", "section"} /\ m.section \in [1..4 -> Seq(E)] /\ m.header \in AnyHeader
  BY DEF AnyMessage
<1>2. u = [m EXCEPT !["section"] = f]
  BY DEF WithTtl
<1>3. new \in E
  OBVIOUS
<1> HIDE DEF new
<1>4. m.section[4] \in Seq(E)
  BY <1>1
<1>5. g \in Seq(E)
  BY <1>3, <1>4, ExceptSeq
<1>6. g = [m.section[4] EXCEPT ![k] = new]
  OBVIOUS
<1> HIDE DEF g
<1>7. f \in [1..4 -> Seq(E)] /\ f[4] = g /\ \A t \in 1..4 : t # 4 => f[t] = m.section[t]
  BY <1>1, <1>5
<1> HIDE DEF f
<1>8. u = [header |-> m.header, section |-> f]
  BY <1>1, <1>2
<1>9. u.header = m.header /\ u.section = f /\ u \in AnyMessage(E)
  <2>1. m.header \in AnyHeader /\ f \in [1..4 -> Seq(E)]
    BY <1>1, <1>7
  <2>2. QED
    BY <1>8, <2>1, MessageParts, Zenon
<1>10. QED
  BY <1>6, <1>7, <1>9 DEF TtlReplaced, new

LEMMA OptsAre ==
    ASSUME NEW E, NEW m \in AnyMessage(E)
    PROVE  /\ m.section[4] \in Seq(E) /\ DOMAIN m.section[4] = 1..Len(m.section[4])
           /\ Opts(m) # {} => Min(Opts(m)) \in 1..Len(m.section[4]) /\ Min(Opts(m)) \in Opts(m)
<1>1. m.section[4] \in Seq(E)
  BY DEF AnyMessage
<1>2. DOMAIN m.section[4] = 1..Len(m.section[4]) /\ Len(m.section[4]) \in Nat
  BY <1>1, LenProperties
<1>3. Opts(m) \subseteq 1..Len(m.section[4])
  BY <1>2 DEF Opts
<1>4. Opts(m) \in SUBSET Nat
  <2> DEFINE l == Len(m.section[4])
  <2>1. Opts(m) \subseteq 1..l /\ l \in Nat
    BY <1>2, <1>3
  <2> HIDE DEF l
  <2>2. QED
    BY <2>1
<1>5. Opts(m) # {} => Min(Opts(m)) \in Opts(m)
  BY <1>4, MinIs
<1>6. QED
  BY <1>1, <1>2, <1>3, <1>5

LEMMA SizeIs == ClientBufferSize \in Words /\ ClientBufferSize \in Longs /\ 0 \in Longs /\ 0 \in Words
<1>1. ClientBufferSize \in Nat /\ ClientBufferSize < 65536
  BY CodecAssumption, SMT DEF Words
<1>2. ClientBufferSize \div 65536 = 0 /\ 0 \div 65536 = 0
  BY <1>1, SMT
<1>3. 0 \in Words
  BY SMT DEF Words
<1>4. QED
  BY <1>1, <1>2, <1>3, CodecAssumption DEF Longs

LEMMA NewOptIs == NewOpt \in Mem(4) /\ NewOpt \in AnyMem
<1>1. <<>> \in Seq(Octets)
  BY EmptySeq
<1>2. RRTYPE_OPT \in Words
  BY SMT DEF RRTYPE_OPT, Words
<1>3. NewOpt \in MemRecord
  BY <1>1, <1>2, SizeIs DEF NewOpt, MemRecord
<1>4. QED
  BY <1>3 DEF Mem, AnyMem

\* The two things that can happen to a request.
EdnsAdded(m, u) == Opts(m) = {} /\ u = WithEntry(m, 4, NewOpt)
EdnsChanged(m, u) == Opts(m) # {} /\ u = WithTtl(m, Min(Opts(m)), ClientBufferSize)

LEMMA WithEdnsIs ==
    ASSUME NEW m, NEW u, u = WithEdns(m)
    PROVE  EdnsAdded(m, u) \/ EdnsChanged(m, u)
<1>1. CASE Opts(m) = {}
  BY <1>1 DEF WithEdns, Opts, EdnsAdded, WithEntry
<1>2. CASE Opts(m) # {}
  BY <1>2 DEF WithEdns, Opts, EdnsChanged, WithTtl
<1>3. QED
  BY <1>1, <1>2

LEMMA WithEdnsOK ==
    ASSUME NEW m, MemoryOK(m), m.header.count[4] + 1 \in Words, NEW u, u = WithEdns(m)
    PROVE  MemoryOK(u) /\ (AsCounted(m) => AsCounted(u))
<1>1. /\ m \in AnyMessage(AnyMem) /\ m.header \in HeaderFormat
      /\ \A s \in 1..4 : m.section[s] \in Seq(Mem(s))
  BY DEF MemoryOK
<1>2. EdnsAdded(m, u) \/ EdnsChanged(m, u)
  BY WithEdnsIs
<1>3. CASE EdnsAdded(m, u)
  <2>1. MessageGrown(AnyMem, m, u, 4, NewOpt)
    <3>1. u = WithEntry(m, 4, NewOpt) /\ 4 \in 1..4
      BY <1>3 DEF EdnsAdded
    <3>2. QED
      BY <1>1, <3>1, NewOptIs, GrowMessage
  <2>2. /\ u \in AnyMessage(AnyMem) /\ Grown(m, u, 4, NewOpt)
        /\ u.header.count[4] = m.header.count[4] + 1
        /\ \A t \in 1..4 : t # 4 => u.header.count[t] = m.header.count[t]
        /\ u.header = [m.header EXCEPT !.count = [m.header.count EXCEPT ![4] = m.header.count[4] + 1]]
    BY <2>1 DEF MessageGrown
  <2>3. u.header \in HeaderFormat
    <3> DEFINE n == m.header.count[4] + 1
               c == [m.header.count EXCEPT ![4] = n]
    <3>1. n \in Words
      OBVIOUS
    <3> HIDE DEF n
    <3>2. /\ DOMAIN m.header = {"id", "misc1", "misc2", "count"}
          /\ m.header.id \in Words /\ m.header.misc1 \in Octets /\ m.header.misc2 \in Octets
          /\ m.header.count \in [1..4 -> Words]
      BY <1>1 DEF HeaderFormat
    <3>3. c \in [1..4 -> Words]
      BY <3>1, <3>2
    <3>4. u.header = [m.header EXCEPT !["count"] = c]
      BY <2>2 DEF n
    <3> HIDE DEF c
    <3>5. u.header = [id |-> m.header.id, misc1 |-> m.header.misc1, misc2 |-> m.header.misc2, count |-> c]
      BY <3>2, <3>4
    <3>6. QED
      BY <3>2, <3>3, <3>5 DEF HeaderFormat
  <2>4. ASSUME NEW s \in 1..4 PROVE u.section[s] \in Seq(Mem(s))
    <3>1. CASE s # 4
      BY <1>1, <2>2, <3>1 DEF Grown
    <3>2. CASE s = 4
      <4>1. m.section[4] \in Seq(Mem(4))
        BY <1>1
      <4>2. Append(m.section[4], NewOpt) \in Seq(Mem(4))
        BY <4>1, NewOptIs, AppendProperties
      <4>3. QED
        BY <2>2, <3>2, <4>2 DEF Grown
    <3>3. QED
      BY <3>1, <3>2
  <2>5. ASSUME AsCounted(m), NEW s \in 1..4 PROVE Len(u.section[s]) = u.header.count[s]
    <3>1. Len(m.section[s]) = m.header.count[s]
      BY <2>5 DEF AsCounted
    <3>2. CASE s # 4
      BY <2>2, <3>1, <3>2 DEF Grown
    <3>3. CASE s = 4
      <4>1. m.section[4] \in Seq(Mem(4))
        BY <1>1
      <4>2. Len(Append(m.section[4], NewOpt)) = Len(m.section[4]) + 1
        BY <4>1, NewOptIs, AppendProperties
      <4>3. QED
        BY <2>2, <3>1, <3>3, <4>2 DEF Grown
    <3>4. QED
      BY <3>2, <3>3
  <2>6. QED
    BY <2>2, <2>3, <2>4, <2>5 DEF MemoryOK, AsCounted
<1>4. CASE EdnsChanged(m, u)
  <2> DEFINE k == Min(Opts(m))
             r == m.section[4][k]
             new == [r EXCEPT !.ttl = ClientBufferSize]
  <2>1. k \in 1..Len(m.section[4])
    BY <1>1, <1>4, OptsAre DEF EdnsChanged
  <2>2. m.section[4] \in Seq(Mem(4)) /\ Mem(4) = MemRecord
    BY <1>1 DEF Mem
  <2>3. u = WithTtl(m, k, ClientBufferSize)
    BY <1>4 DEF EdnsChanged
  <2> HIDE DEF k
  <2>4. r \in MemRecord
    <3>1. r \in Mem(4)
      BY <2>1, <2>2, ElementOfSeq
    <3>2. QED
      BY <2>2, <3>1
  <2>5. new \in MemRecord
    <3> HIDE DEF r
    <3>1. QED
      BY <2>4, SizeIs DEF MemRecord
  <2>6. TtlReplaced(AnyMem, m, u, k, ClientBufferSize)
    <3>1. [m.section[4][k] EXCEPT !.ttl = ClientBufferSize] \in AnyMem
      BY <2>5 DEF AnyMem
    <3>2. QED
      BY <1>1, <2>1, <2>3, <3>1, ReplaceTtl
  <2>7. /\ u \in AnyMessage(AnyMem) /\ u.header = m.header
        /\ \A t \in 1..4 : t # 4 => u.section[t] = m.section[t]
        /\ u.section[4] = [m.section[4] EXCEPT ![k] = new]
    BY <2>6 DEF TtlReplaced
  <2> HIDE DEF new, r
  <2>8. u.section[4] \in Seq(MemRecord)
    <3>1. m.section[4] \in Seq(MemRecord)
      BY <2>2
    <3>2. [m.section[4] EXCEPT ![k] = new] \in Seq(MemRecord)
      BY <2>1, <2>5, <3>1, ExceptSeq
    <3>3. QED
      BY <2>7, <3>2
  <2>9. \A s \in 1..4 : u.section[s] \in Seq(Mem(s))
    BY <1>1, <2>2, <2>7, <2>8
  <2>10. Len(u.section[4]) = Len(m.section[4])
    BY <2>1, <2>2, <2>5, <2>7, ExceptSeq
  <2>11. AsCounted(m) => AsCounted(u)
    BY <2>7, <2>10 DEF AsCounted
  <2>12. QED
    BY <1>1, <2>7, <2>9, <2>11 DEF MemoryOK
<1>5. QED
  BY <1>2, <1>3, <1>4

\* An array whose count has not been reached may grow.
LEMMA GrowsWithinCount ==
    ASSUME NEW m, MemoryOK(m), NEW s \in 1..4, NEW e, NEW u, Grown(m, u, s, e),
           e \in Mem(s), u.header = m.header, AtMostCounted(m),
           Len(m.section[s]) < m.header.count[s]
    PROVE  AtMostCounted(u)
<1>1. ASSUME NEW t \in 1..4 PROVE Len(u.section[t]) <= u.header.count[t]
  <2>1. CASE t # s
    BY <2>1 DEF Grown, AtMostCounted
  <2>2. CASE t = s
    <3>1. m.section[s] \in Seq(Mem(s)) /\ m.header.count[s] \in Nat
      BY DEF MemoryOK, AnyMessage, AnyHeader
    <3>2. Len(u.section[s]) = Len(m.section[s]) + 1 /\ Len(m.section[s]) \in Nat
      BY <3>1, AppendProperties, LenProperties DEF Grown
    <3>3. QED
      BY <2>2, <3>1, <3>2
  <2>3. QED
    BY <2>1, <2>2
<1>2. QED
  BY <1>1 DEF AtMostCounted

\* Counted exactly is counted.
LEMMA CountedIs ==
    ASSUME NEW m, MemoryOK(m)
    PROVE  /\ AsCounted(m) => AtMostCounted(m)
           /\ \A s \in 1..4 : Len(m.section[s]) \in Nat /\ m.header.count[s] \in Nat
<1>1. \A s \in 1..4 : Len(m.section[s]) \in Nat /\ m.header.count[s] \in Nat
  <2>1. m \in AnyMessage(AnyMem) /\ m.header.count \in [1..4 -> Nat]
    BY DEF MemoryOK, AnyMessage, AnyHeader
  <2>2. QED
    BY <2>1, BeforeIs
<1>2. QED
  BY <1>1 DEF AsCounted, AtMostCounted

LEMMA ReadEntryOK ==
    ASSUME NEW m, MemoryOK(m), NEW s \in 1..4, NEW e \in Mem(s),
           NEW u, u = WithRead(m, s, e)
    PROVE  MemoryOK(u) /\ Grown(m, u, s, e) /\ u.header = m.header
<1>1. /\ m \in AnyMessage(AnyMem) /\ m.header \in HeaderFormat
      /\ \A k \in 1..4 : m.section[k] \in Seq(Mem(k))
  BY DEF MemoryOK
<1>2. e \in AnyMem
  BY MemIs
<1>3. u \in AnyMessage(AnyMem) /\ Grown(m, u, s, e) /\ u.header = m.header
  <2>1. m \in AnyMessage(AnyMem)
    BY <1>1
  <2>2. QED
    <3>1. SectionGrown(AnyMem, m, u, s, e)
      BY <1>2, <2>1, GrowSection
    <3>2. QED
      BY <3>1 DEF SectionGrown
<1>4. ASSUME NEW k \in 1..4 PROVE u.section[k] \in Seq(Mem(k))
  <2>1. CASE k # s
    BY <1>1, <1>3, <2>1 DEF Grown
  <2>2. CASE k = s
    <3>1. m.section[s] \in Seq(Mem(s))
      BY <1>1
    <3>2. Append(m.section[s], e) \in Seq(Mem(s))
      BY <3>1, AppendProperties
    <3>3. QED
      BY <1>3, <2>2, <3>2 DEF Grown
  <2>3. QED
    BY <2>1, <2>2
<1>5. QED
  BY <1>1, <1>3, <1>4 DEF MemoryOK

-----------------------------------------------------------------------------
(* The invariant *)

Writing == [bytes |-> wire, known |-> known]

\* What the sender has written so far can be read.
WireOK ==
    phase = "write" =>
        /\ Writing \in Writer /\ Sound(Writing)
        /\ starts[Len(starts)] = Len(wire)
        /\ EntriesIn(wire, truth, starts)

\* What has arrived can be read, and is read from the beginning.
ArrivalOK ==
    /\ phase \in {"write", "header"} => msg = EmptyMessage
    /\ phase = "header" /\ nrecv >= HeaderSize => msg_header_from_buf(wire) = truth.header
    /\ phase \in {"header", "read", "done"} => Arrived(wire, nrecv, truth, starts)
    /\ phase \in {"read", "done"} => msg.header = truth.header

WireInv == TypeOK /\ TruthOK(truth, starts) /\ MemoryOK(msg) /\ WireOK /\ ArrivalOK

FreshOK(p, w, n, k, t, st, ps, m, o) ==
    /\ p = "write" /\ w \in Seq(Octets) /\ o \in Seq(Octets) /\ n \in Nat /\ ps \in Nat
    /\ TruthOK(t, st) /\ MemoryOK(m) /\ m = EmptyMessage /\ AtMostCounted(m)
    /\ [bytes |-> w, known |-> k] \in Writer /\ Sound([bytes |-> w, known |-> k])
    /\ st[Len(st)] = Len(w) /\ EntriesIn(w, t, st)

LEMMA FreshIs ==
    ASSUME NEW p, NEW w, NEW n, NEW k, NEW t, NEW st, NEW ps, NEW m, NEW o,
           Fresh(p, w, n, k, t, st, ps, m, o)
    PROVE  FreshOK(p, w, n, k, t, st, ps, m, o)
<1>1. /\ p = "write" /\ w = [i \in 1..12 |-> 0] /\ n = 0 /\ k = {}
      /\ t = EmptyMessage /\ st = <<HeaderSize>> /\ ps = 0 /\ m = EmptyMessage /\ o = <<>>
  BY DEF Fresh, HeaderSize
<1>2. w \in Seq(Octets) /\ Len(w) = 12
  <2>1. 0 \in Octets
    BY Bounds DEF Octets
  <2>2. QED
    BY <1>1, <2>1
<1>3. o \in Seq(Octets) /\ n \in Nat /\ ps \in Nat
  BY <1>1, EmptySeq
<1>4. TruthOK(t, st) /\ EntriesIn(w, t, st) /\ MemoryOK(m) /\ AtMostCounted(m)
  BY <1>1, EmptyTruth, EmptyMemory, EmptyCounted
<1>5. Len(st) = 1 /\ st[1] = 12
  BY <1>1 DEF HeaderSize
<1> DEFINE v == [bytes |-> w, known |-> k]
<1>6. v.bytes = w /\ v.known = {}
  BY <1>1
<1>7. v \in Writer
  BY <1>1, <1>2 DEF Writer
<1>8. Sound(v)
  <2> HIDE DEF v
  <2>1. Len(v.bytes) = HeaderSize /\ v.known = {}
    <3>1. Len(w) = HeaderSize
      BY <1>2 DEF HeaderSize
    <3>2. QED
      BY <1>6, <3>1
  <2>2. HeaderSize >= HeaderSize
    BY DEF HeaderSize
  <2>3. QED
    BY <2>1, <2>2 DEF Sound
<1>9. st[Len(st)] = Len(w)
  BY <1>2, <1>5
<1>10. QED
  BY <1>1, <1>2, <1>3, <1>4, <1>7, <1>8, <1>9 DEF FreshOK

LEMMA InitInv == Init => WireInv
<1> SUFFICES ASSUME Init PROVE WireInv
  OBVIOUS
<1>1. FreshOK(phase, wire, nrecv, known, truth, starts, pos, msg, out)
  BY FreshIs DEF Init
<1>2. QED
  BY <1>1 DEF FreshOK, WireInv, TypeOK, WireOK, ArrivalOK, Writing

LEMMA WriteStep ==
    ASSUME WireInv, NEW s \in 1..4, NEW e \in EntrySet(s), NEW c \in BOOLEAN, Write(s, e, c)
    PROVE  WireInv'
<1> DEFINE w == [bytes |-> wire, known |-> known]
           v == PutEntry(s, w, e, c)
           n == Len(v.bytes)
<1>1. /\ phase = "write" /\ Len(starts) <= MaxEntries /\ \A k \in s + 1..4 : truth.section[k] = <<>>
      /\ wire' = v.bytes /\ known' = v.known /\ starts' = Append(starts, n)
      /\ truth' = WithEntry(truth, s, e)
      /\ UNCHANGED <<phase, nrecv, pos, msg, out>>
  BY DEF Write, PutEntry, WithEntry
<1>2. /\ TypeOK /\ TruthOK(truth, starts) /\ MemoryOK(msg) /\ msg = EmptyMessage
      /\ w \in Writer /\ Sound(w) /\ starts[Len(starts)] = Len(wire) /\ EntriesIn(wire, truth, starts)
  BY <1>1 DEF WireInv, WireOK, ArrivalOK, Writing
<1>3. EntryPut(w, s, e, v)
  <2> HIDE DEF w
  <2>1. QED
    BY <1>2, PutEntryReads
<1>4. w.bytes = wire
  OBVIOUS
<1> HIDE DEF w, v
<1>5. v \in Writer /\ Sound(v) /\ v.bytes \in Seq(Octets) /\ n \in Nat
  <2>1. v \in Writer /\ Sound(v)
    BY <1>3 DEF EntryPut
  <2>2. v.bytes \in Seq(Octets)
    BY <2>1 DEF Writer
  <2>3. QED
    BY <2>1, <2>2, LenProperties
<1>6. starts[Len(starts)] <= n
  <2>1. PICK y \in Seq(Octets) : v.bytes = wire \o y
    BY <1>3, <1>4 DEF EntryPut
  <2>2. wire \in Seq(Octets)
    BY <1>2 DEF TypeOK
  <2>3. Len(wire \o y) = Len(wire) + Len(y) /\ Len(wire) \in Nat /\ Len(y) \in Nat
    BY <2>2, Concat
  <2>4. QED
    BY <1>2, <2>1, <2>3
<1> HIDE DEF n
<1>7. Longer(truth, starts, s, e, n, truth', starts')
  BY <1>1, <1>2, <1>5, <1>6, TruthGrows
<1>8. EntriesIn(v.bytes, truth', starts')
  <2>1. Longer(truth, starts, s, e, Len(v.bytes), truth', starts')
    BY <1>7 DEF n
  <2>2. EntriesIn(w.bytes, truth, starts) /\ starts[Len(starts)] = Len(w.bytes)
    BY <1>2, <1>4
  <2>3. QED
    BY <1>1, <1>2, <1>3, <2>1, <2>2, EntriesGrow
<1>9. TruthOK(truth', starts') /\ Len(starts') = Len(starts) + 1 /\ starts'[Len(starts) + 1] = n
  BY <1>7 DEF Longer
<1>10. [bytes |-> wire', known |-> known'] = v
  <2>1. v = [bytes |-> v.bytes, known |-> v.known]
    BY <1>5 DEF Writer
  <2>2. QED
    BY <1>1, <2>1
<1>11. WireOK'
  BY <1>1, <1>5, <1>8, <1>9, <1>10 DEF WireOK, Writing, n
<1>12. TypeOK'
  BY <1>1, <1>2, <1>5 DEF TypeOK
<1>13. MemoryOK(msg') /\ msg' = EmptyMessage /\ phase' = "write"
  BY <1>1, <1>2
<1>14. ArrivalOK'
  BY <1>13 DEF ArrivalOK
<1>15. QED
  BY <1>9, <1>11, <1>12, <1>13, <1>14 DEF WireInv

LEMMA DeliverStep ==
    ASSUME WireInv, NEW h \in Headers,
           NEW size \in {Len(wire), Len(wire) - 1, HeaderSize - 1}, Deliver(h, size)
    PROVE  WireInv'
<1>1. /\ phase = "write" /\ phase' = "header" /\ truth' = WithHeader(truth, h) /\ nrecv' = size
      /\ wire' = SubSeq(PutHeader(truth'.header).bytes \o SubSeq(wire, HeaderSize + 1, Len(wire)), 1, size)
      /\ UNCHANGED <<known, starts, pos, msg, out>>
  BY DEF Deliver, WithHeader
<1>2. /\ TypeOK /\ TruthOK(truth, starts) /\ MemoryOK(msg) /\ msg = EmptyMessage
      /\ Sound(Writing) /\ EntriesIn(wire, truth, starts)
  BY <1>1 DEF WireInv, WireOK, ArrivalOK
<1>3. wire \in Seq(Octets) /\ Len(wire) \in Nat /\ Len(wire) >= HeaderSize
  <2>1. wire \in Seq(Octets)
    BY <1>2 DEF TypeOK
  <2>2. QED
    BY <1>2, <2>1, LenProperties DEF Sound, Writing
<1>4. size \in 0..Len(wire) /\ size \in Nat
  <2> DEFINE l == Len(wire)
  <2>1. l \in Nat /\ l >= 12 /\ (size = l \/ size = l - 1 \/ size = 12 - 1)
    BY <1>3 DEF HeaderSize
  <2> HIDE DEF l
  <2>2. size \in 0..l /\ size \in Nat
    BY <2>1
  <2>3. QED
    BY <2>2 DEF l
<1>5. TruthOK(truth', starts) /\ truth'.section = truth.section
  BY <1>1, <1>2, NewHeader
<1>6. truth'.header \in HeaderFormat
  BY <1>5, TruthHeader
<1>7. EntriesIn(wire, truth', starts)
  BY <1>2, <1>5, SameSections
<1>8. /\ wire' \in Seq(Octets) /\ Len(wire') = size
      /\ Same(wire, wire', size)
      /\ size >= HeaderSize => msg_header_from_buf(wire') = truth'.header
  <2> DEFINE g == truth'.header
             x == wire'
  <2>1. g \in HeaderFormat /\ x = Packet(wire, g, size)
    BY <1>1, <1>6 DEF Packet
  <2> HIDE DEF g, x
  <2>2. PacketOK(wire, g, size, x)
    BY <1>3, <1>4, <2>1, Arrives
  <2>3. QED
    BY <2>2 DEF g, x, PacketOK
<1>9. Arrived(wire', size, truth', starts)
  BY <1>4, <1>5, <1>7, <1>8, ArrivedFrom
<1>10. TypeOK'
  BY <1>1, <1>2, <1>4, <1>8 DEF TypeOK
<1>11. WireOK' /\ ArrivalOK'
  BY <1>1, <1>2, <1>8, <1>9 DEF WireOK, ArrivalOK
<1>12. QED
  BY <1>1, <1>2, <1>5, <1>10, <1>11 DEF WireInv

LEMMA ReadHeaderStep ==
    ASSUME WireInv, ReadHeader
    PROVE  WireInv'
<1>1. /\ phase = "header" /\ UNCHANGED <<wire, nrecv, known, truth, starts, out>>
  BY DEF ReadHeader
<1>2. /\ TypeOK /\ TruthOK(truth, starts) /\ MemoryOK(msg) /\ Arrived(wire, nrecv, truth, starts)
      /\ msg = EmptyMessage /\ (nrecv >= HeaderSize => msg_header_from_buf(wire) = truth.header)
  BY <1>1 DEF WireInv, ArrivalOK
<1>3. CASE nrecv < HeaderSize /\ phase' = "refused" /\ UNCHANGED <<msg, pos>>
  BY <1>1, <1>2, <1>3 DEF WireInv, TypeOK, WireOK, ArrivalOK
<1>4. CASE /\ nrecv >= HeaderSize
           /\ msg' = [msg EXCEPT !.header = msg_header_from_buf(wire)]
           /\ pos' = HeaderSize
           /\ phase' = IF _TC(msg'.header.misc1) = 1 THEN "refused" ELSE "read"
  <2>1. msg' = [msg EXCEPT !["header"] = truth.header]
    BY <1>2, <1>4
  <2>2. msg \in AnyMessage(AnyMem) /\ \A s \in 1..4 : msg.section[s] \in Seq(Mem(s))
    BY <1>2 DEF MemoryOK
  <2>3. /\ DOMAIN msg = {"header", "section"} /\ msg.section \in [1..4 -> Seq(AnyMem)]
    BY <2>2 DEF AnyMessage
  <2>4. truth.header \in HeaderFormat /\ truth.header \in AnyHeader
    BY <1>2, TruthHeader DEF TruthOK, AnyMessage
  <2>5. msg' = [header |-> truth.header, section |-> msg.section]
    BY <2>1, <2>3
  <2>6. msg'.header = truth.header /\ msg'.section = msg.section /\ msg' \in AnyMessage(AnyMem)
    BY <2>3, <2>4, <2>5 DEF AnyMessage
  <2>7. MemoryOK(msg')
    BY <2>2, <2>4, <2>6 DEF MemoryOK
  <2>8. phase' \in {"refused", "read"} /\ pos' \in Nat
    BY <1>4 DEF HeaderSize
  <2>9. AtMostCounted(msg')
    <3>1. \A s \in 1..4 : msg.section[s] = <<>>
      BY <1>2 DEF EmptyMessage
    <3>2. \A s \in 1..4 : Len(msg'.section[s]) = 0 /\ msg'.header.count[s] \in Nat
      BY <2>6, <2>7, <3>1, EmptySeq, CountedIs
    <3>3. QED
      BY <3>2 DEF AtMostCounted
  <2>10. TypeOK'
    BY <1>1, <1>2, <2>8, <2>9 DEF TypeOK, AtMostCounted
  <2>11. ArrivalOK' /\ WireOK'
    BY <1>1, <1>2, <2>6, <2>8 DEF ArrivalOK, WireOK
  <2>12. QED
    BY <1>1, <1>2, <2>7, <2>10, <2>11 DEF WireInv
<1>5. QED
  BY <1>3, <1>4 DEF ReadHeader

LEMMA ReadEntryStep ==
    ASSUME WireInv, NEW s \in 1..4, ReadEntry(s, ReadAt(wire, s, pos))
    PROVE  WireInv'
<1> DEFINE e == ReadAt(wire, s, pos).entry
           n == ReadAt(wire, s, pos).next
<1>1. /\ phase = "read" /\ msg' = WithRead(msg, s, e) /\ pos' = n
      /\ Unread # {} /\ s = Min(Unread)
      /\ UNCHANGED <<phase, wire, nrecv, known, truth, starts, out>>
  BY DEF ReadEntry, WithRead
<1>2. /\ TypeOK /\ TruthOK(truth, starts) /\ MemoryOK(msg) /\ Arrived(wire, nrecv, truth, starts)
      /\ msg.header = truth.header
  BY <1>1 DEF WireInv, ArrivalOK
<1>3. e \in Mem(s) /\ n \in Nat
  <2>1. wire \in Seq(Octets) /\ pos \in Nat
    BY <1>2 DEF TypeOK
  <2>2. QED
    BY <2>1, ReadType
<1> HIDE DEF e, n
<1>4. MemoryOK(msg') /\ msg'.header = msg.header /\ Grown(msg, msg', s, e)
  BY <1>1, <1>2, <1>3, ReadEntryOK
<1>5. Len(msg.section[s]) < msg.header.count[s]
  <2>1. Unread \in SUBSET Nat
    BY DEF Unread
  <2>2. s \in Unread
    BY <1>1, <2>1, MinIs
  <2>3. QED
    BY <2>2 DEF Unread
<1>6. AtMostCounted(msg')
  BY <1>2, <1>3, <1>4, <1>5, GrowsWithinCount DEF TypeOK
<1>7. TypeOK'
  BY <1>1, <1>2, <1>3, <1>6 DEF TypeOK, AtMostCounted
<1>8. WireOK' /\ ArrivalOK'
  BY <1>1, <1>2, <1>4 DEF WireOK, ArrivalOK
<1>9. QED
  BY <1>1, <1>2, <1>4, <1>7, <1>8 DEF WireInv

LEMMA ReadDoneStep ==
    ASSUME WireInv, ReadDone
    PROVE  WireInv'
<1>1. /\ phase = "read" /\ phase' = "done"
      /\ Unread = {} /\ UNCHANGED <<wire, nrecv, known, truth, starts, pos, msg, out>>
  BY DEF ReadDone
<1>2. AsCounted(msg)
  <2>1. AtMostCounted(msg) /\ \A s \in 1..4 : Len(msg.section[s]) \in Nat /\ msg.header.count[s] \in Nat
    BY CountedIs DEF WireInv, TypeOK
  <2>2. QED
    BY <1>1, <2>1, SMTT(30) DEF Unread, AtMostCounted, AsCounted
<1>3. QED
  BY <1>1, <1>2 DEF WireInv, TypeOK, WireOK, ArrivalOK, AsCounted, AtMostCounted

\* What is made of the message that was read.
Onward(m) == IF _QR(m.header.misc1) = 0 THEN WithEdns(m) ELSE m

LEMMA SendOnStep ==
    ASSUME WireInv, NEW id \in OtherIds, SendOn(id)
    PROVE  WireInv'
<1> DEFINE m == Onward(msg)
<1>1. /\ phase = "done" /\ phase' = "sent" /\ out' = message_to_u8(WithId(m, id))
      /\ (msg' = m \/ msg' = WithId(m, id))
      /\ UNCHANGED <<wire, nrecv, known, truth, starts, pos>>
  BY DEF SendOn, Onward
<1>2. /\ TypeOK /\ TruthOK(truth, starts) /\ MemoryOK(msg) /\ msg.header = truth.header
      /\ AsCounted(msg)
  BY <1>1 DEF WireInv, ArrivalOK, TypeOK
<1>3. msg.header.count[4] + 1 \in Words
  BY <1>2, TruthHeader
<1>4. m = WithEdns(msg) \/ m = msg
  BY DEF Onward
<1> HIDE DEF m
<1>5. MemoryOK(m) /\ AsCounted(m)
  BY <1>2, <1>3, <1>4, WithEdnsOK
<1>6. id \in Words
  BY CodecAssumption
<1>7. MemoryOK(WithId(m, id)) /\ AsCounted(WithId(m, id))
  BY <1>5, <1>6, WithIdOK
<1>8. out' \in Seq(Octets)
  BY <1>1, <1>7, MessageBytesType
<1>9. MemoryOK(msg') /\ AsCounted(msg') /\ AtMostCounted(msg')
  BY <1>1, <1>5, <1>7, CountedIs
<1>10. TypeOK'
  BY <1>1, <1>2, <1>8, <1>9 DEF TypeOK, AsCounted, AtMostCounted
<1>11. WireOK' /\ ArrivalOK'
  BY <1>1 DEF WireOK, ArrivalOK
<1>12. QED
  BY <1>1, <1>2, <1>9, <1>10, <1>11 DEF WireInv

LEMMA NextPacketStep ==
    ASSUME NextPacket
    PROVE  WireInv'
<1>1. FreshOK(phase', wire', nrecv', known', truth', starts', pos', msg', out')
  BY FreshIs DEF NextPacket
<1>2. QED
  BY <1>1 DEF FreshOK, WireInv, TypeOK, WireOK, ArrivalOK, Writing

\* Each step is one of these.
LEMMA NextIs ==
    ASSUME Next
    PROVE  \/ \E s \in 1..4 : \E e \in EntrySet(s), c \in BOOLEAN : Write(s, e, c)
           \/ \E h \in Headers :
                \E size \in {Len(wire), Len(wire) - 1, HeaderSize - 1} : Deliver(h, size)
           \/ ReadHeader
           \/ \E s \in 1..4 : ReadEntry(s, ReadAt(wire, s, pos))
           \/ ReadDone \/ (\E id \in OtherIds : SendOn(id)) \/ NextPacket
<1>1. ASSUME NEW q \in Questions, NEW c \in BOOLEAN, Write(1, q, c)
      PROVE  \E s \in 1..4 : \E e \in EntrySet(s), d \in BOOLEAN : Write(s, e, d)
  <2>1. 1 \in 1..4 /\ q \in EntrySet(1)
    BY DEF EntrySet
  <2>2. QED
    BY <1>1, <2>1
<1>2. ASSUME NEW s \in 2..4, NEW r \in Records[s], NEW c \in BOOLEAN, Write(s, r, c)
      PROVE  \E k \in 1..4 : \E e \in EntrySet(k), d \in BOOLEAN : Write(k, e, d)
  <2>1. s \in 1..4 /\ r \in EntrySet(s)
    BY DEF EntrySet
  <2>2. QED
    BY <1>2, <2>1
<1>3. ASSUME ReadQuestion PROVE \E s \in 1..4 : ReadEntry(s, ReadAt(wire, s, pos))
  <2>1. 1 \in 1..4 /\ ReadAt(wire, 1, pos) = msg_question_from_buf(wire, pos)
    BY DEF ReadAt
  <2>2. QED
    BY <1>3, <2>1 DEF ReadQuestion
<1>4. ASSUME NEW s \in 2..4, ReadRecord(s) PROVE \E k \in 1..4 : ReadEntry(k, ReadAt(wire, k, pos))
  <2>1. s \in 1..4 /\ ReadAt(wire, s, pos) = msg_rr_from_buf(wire, pos)
    BY DEF ReadAt
  <2>2. QED
    BY <1>4, <2>1 DEF ReadRecord
<1>5. QED
  BY <1>1, <1>2, <1>3, <1>4 DEF Next

LEMMA StepInv == WireInv /\ [Next]_vars => WireInv'
<1> SUFFICES ASSUME WireInv, [Next]_vars PROVE WireInv'
  OBVIOUS
<1>1. CASE UNCHANGED vars
  BY <1>1 DEF vars, WireInv, TypeOK, WireOK, ArrivalOK, Writing
<1>2. CASE Next
  <2>1. ASSUME NEW s \in 1..4, NEW e \in EntrySet(s), NEW c \in BOOLEAN, Write(s, e, c) PROVE WireInv'
    BY <2>1, WriteStep
  <2>2. ASSUME NEW h \in Headers, NEW size \in {Len(wire), Len(wire) - 1, HeaderSize - 1},
               Deliver(h, size)
        PROVE  WireInv'
    BY <2>2, DeliverStep
  <2>3. ASSUME NEW s \in 1..4, ReadEntry(s, ReadAt(wire, s, pos)) PROVE WireInv'
    BY <2>3, ReadEntryStep
  <2>4. QED
    BY <1>2, <2>1, <2>2, <2>3, NextIs, ReadHeaderStep, ReadDoneStep, SendOnStep, NextPacketStep
<1>3. QED
  BY <1>1, <1>2

LEMMA Invariance == Spec => []WireInv
BY InitInv, StepInv, PTL DEF Spec

\* Whatever is read and sent on, only bytes are written to the wire, where the
\* reader looks next is a position, and every array of the message is as long as
\* its count says when message_to_u8 loops over it (Codec, TypeOK).
THEOREM TypeCorrect == Spec => []TypeOK
<1>1. WireInv => TypeOK
  BY DEF WireInv
<1>2. QED
  BY <1>1, Invariance, PTL

-----------------------------------------------------------------------------
(* The reader *)

\* The types whose data message.c reads as it is written: not SOA and TXT.
PlainTypes == \A s \in 2..4 : \A r \in Records[s] : PlainType(r)

\* What of t has been read, p being where the reader is: the sections in their
\* order, and the entries that had arrived as they were meant.
ReadState(m, t, st, n, p) ==
    /\ \A s \in 1..4 : Len(m.section[s]) <= Len(t.section[s])
    /\ \A s, k \in 1..4 : s < k /\ m.section[k] # <<>> => Len(m.section[s]) = Len(t.section[s])
    /\ \A s \in 1..4 : \A i \in 1..Len(m.section[s]) :
         st[At(t, s, i) + 1] <= n => m.section[s][i] = Plain(s, t.section[s][i])
    /\ st[Before(m, 5) + 1] <= n => p = st[Before(m, 5) + 1]

LEMMA PlainEntries ==
    ASSUME PlainTypes, NEW t, NEW st, TruthOK(t, st), NEW s \in 1..4, NEW i \in 1..Len(t.section[s])
    PROVE  PlainEntry(s, t.section[s][i])
<1>1. t.section[s][i] \in EntrySet(s)
  BY PlacesAre
<1>2. CASE s = 1
  BY <1>2 DEF PlainEntry
<1>3. CASE s # 1
  <2>1. s \in 2..4 /\ t.section[s][i] \in Records[s]
    BY <1>1, <1>3 DEF EntrySet
  <2>2. QED
    BY <2>1 DEF PlainTypes, PlainEntry
<1>4. QED
  BY <1>2, <1>3

\* Sections of the same lengths before s.
LEMMA BeforeEqual ==
    ASSUME NEW E, NEW m \in AnyMessage(E), NEW F, NEW t \in AnyMessage(F), NEW s \in 1..5,
           \A k \in 1..4 : k < s => Len(m.section[k]) = Len(t.section[k])
    PROVE  Before(m, s) = Before(t, s)
<1> DEFINE n(x, k) == IF k < s THEN Len(x.section[k]) ELSE 0
<1>1. \A x : Before(x, s) = n(x, 1) + n(x, 2) + n(x, 3) + n(x, 4)
  BY DEF Before
<1>2. ASSUME NEW k \in 1..4 PROVE n(m, k) = n(t, k)
  OBVIOUS
<1>3. n(m, 1) = n(t, 1) /\ n(m, 2) = n(t, 2) /\ n(m, 3) = n(t, 3) /\ n(m, 4) = n(t, 4)
  <2> HIDE DEF n
  <2>1. QED
    BY <1>2
<1> HIDE DEF n
<1>4. QED
  BY <1>1, <1>3

UnreadOf(m) == {s \in 1..4 : Len(m.section[s]) < m.header.count[s]}

\* Where the reader is before the next entry.
NextEntry(m, t, s) ==
    /\ Len(m.section[s]) \in Nat /\ Len(m.section[s]) + 1 \in 1..Len(t.section[s])
    /\ \A k \in 1..4 : k < s => Len(m.section[k]) = Len(t.section[k])
    /\ \A k \in 1..4 : s < k => m.section[k] = <<>>
    /\ Before(m, 5) \in Nat
    /\ Before(m, 5) + 1 = At(t, s, Len(m.section[s]) + 1)

LEMMA NextEntryIs ==
    ASSUME NEW m, MemoryOK(m), NEW t, NEW st, TruthOK(t, st), m.header = t.header,
           NEW n, NEW p, ReadState(m, t, st, n, p),
           UnreadOf(m) # {}, NEW s, s = Min(UnreadOf(m))
    PROVE  s \in 1..4 /\ NextEntry(m, t, s)
<1>1. m \in AnyMessage(AnyMem) /\ t \in AnyMessage(AnyEntry)
      /\ \A k \in 1..4 : t.header.count[k] = Len(t.section[k])
  BY DEF MemoryOK, TruthOK
<1>2. \A k \in 1..4 : Len(m.section[k]) \in Nat /\ Len(t.section[k]) \in Nat
  BY <1>1, BeforeIs
<1>3. s \in UnreadOf(m) /\ \A k \in UnreadOf(m) : s <= k
  <2> DEFINE U == UnreadOf(m)
  <2>1. U \in SUBSET Nat /\ U # {}
    BY DEF UnreadOf
  <2> HIDE DEF U
  <2>2. Min(U) \in U /\ \A k \in U : Min(U) <= k
    BY <2>1, MinIs
  <2>3. QED
    BY <2>2 DEF U
<1>4. s \in 1..4 /\ Len(m.section[s]) < Len(t.section[s])
  BY <1>1, <1>3 DEF UnreadOf
<1>5. ASSUME NEW k \in 1..4, k < s PROVE Len(m.section[k]) = Len(t.section[k])
  <2>1. k \notin UnreadOf(m)
    BY <1>3, <1>4, <1>5
  <2>2. ~(Len(m.section[k]) < Len(t.section[k]))
    BY <1>1, <2>1 DEF UnreadOf
  <2>3. Len(m.section[k]) <= Len(t.section[k])
    BY DEF ReadState
  <2>4. QED
    BY <1>2, <2>2, <2>3, SMTT(30)
<1>6. ASSUME NEW k \in 1..4, s < k PROVE m.section[k] = <<>>
  <2>1. SUFFICES ASSUME m.section[k] # <<>> PROVE FALSE
    OBVIOUS
  <2>2. Len(m.section[s]) = Len(t.section[s])
    BY <1>4, <1>6, <2>1 DEF ReadState
  <2>3. QED
    BY <1>2, <1>4, <2>2
<1>7. Before(m, s) = Before(t, s)
  <2>1. s \in 1..5
    BY <1>4
  <2>2. QED
    BY <1>1, <1>5, <2>1, BeforeEqual
<1>8. Before(m, 5) = Before(m, s) + Len(m.section[s])
  <2>1. \A k \in s + 1..4 : m.section[k] = <<>>
    <3>1. ASSUME NEW k \in s + 1..4 PROVE m.section[k] = <<>>
      <4>1. k \in 1..4 /\ s < k
        BY <1>4
      <4>2. QED
        BY <1>6, <4>1
    <3>2. QED
      BY <3>1
  <2>2. QED
    BY <1>1, <1>4, <2>1, BeforeOrder
<1>9. Before(t, s) \in Nat /\ Before(m, 5) \in Nat
  <2>1. s \in 1..5 /\ 5 \in 1..5
    BY <1>4
  <2>2. QED
    BY <1>1, <2>1, BeforeIs
<1>10. Before(m, 5) + 1 = At(t, s, Len(m.section[s]) + 1)
  <2> DEFINE a == Before(t, s)
             l == Len(m.section[s])
  <2>1. a \in Nat /\ l \in Nat /\ Before(m, 5) = a + l
    BY <1>2, <1>4, <1>7, <1>8, <1>9
  <2> HIDE DEF a, l
  <2>2. Before(m, 5) + 1 = a + (l + 1)
    BY <2>1
  <2>3. QED
    BY <2>2 DEF At, a, l
<1>11. Len(m.section[s]) + 1 \in 1..Len(t.section[s])
  <2> DEFINE l == Len(m.section[s])
             k == Len(t.section[s])
  <2>1. l \in Nat /\ k \in Nat /\ l < k
    BY <1>2, <1>4
  <2> HIDE DEF l, k
  <2>2. l + 1 \in 1..k
    BY <2>1
  <2>3. QED
    BY <2>2 DEF l, k
<1>12. QED
  BY <1>2, <1>4, <1>5, <1>6, <1>9, <1>10, <1>11 DEF NextEntry

LEMMA ReadOne ==
    ASSUME PlainTypes, NEW m, MemoryOK(m), NEW t, NEW st, TruthOK(t, st),
           NEW x, NEW n \in Nat, Arrived(x, n, t, st), NEW p, ReadState(m, t, st, n, p),
           NEW s \in 1..4, NextEntry(m, t, s), NEW e \in Mem(s), e = ReadAt(x, s, p).entry,
           NEW q, q = ReadAt(x, s, p).next,
           NEW u, MemoryOK(u), Grown(m, u, s, e)
    PROVE  ReadState(u, t, st, n, q)
<1> DEFINE l == Len(m.section[s])
           a == At(t, s, l + 1)
<1>1. /\ l \in Nat /\ l + 1 \in 1..Len(t.section[s]) /\ Before(m, 5) + 1 = a /\ Before(m, 5) \in Nat
      /\ \A k \in 1..4 : k < s => Len(m.section[k]) = Len(t.section[k])
      /\ \A k \in 1..4 : s < k => m.section[k] = <<>>
  BY DEF NextEntry
<1>2. m \in AnyMessage(AnyMem) /\ u \in AnyMessage(AnyMem) /\ e \in AnyMem
  BY MemIs DEF MemoryOK
<1>3. Len(u.section[s]) = l + 1 /\ Before(u, 5) = Before(m, 5) + 1
  <2>1. Shifted(m, u, s)
    BY <1>2, BeforeGrown
  <2>2. 5 \in 1..5 /\ s < 5
    OBVIOUS
  <2>3. QED
    BY <2>1, <2>2 DEF Shifted
<1>4. \A k \in 1..4 : k # s => u.section[k] = m.section[k]
  BY DEF Grown
<1>5. /\ \A i \in 1..l : u.section[s][i] = m.section[s][i]
      /\ u.section[s][l + 1] = e
  <2>1. m.section[s] \in Seq(AnyMem) /\ u.section[s] = Append(m.section[s], e)
    BY <1>2 DEF AnyMessage, Grown
  <2>2. QED
    BY <1>2, <2>1, AppendProperties
<1>6. /\ st[a] \in Nat /\ st[a + 1] \in Nat /\ st[a] <= st[a + 1]
  BY <1>1, PlacesAre
<1>7. ASSUME st[a + 1] <= n PROVE e = Plain(s, t.section[s][l + 1]) /\ q = st[a + 1]
  <2>1. st[a] <= n
    BY <1>6, <1>7
  <2>2. p = st[a]
    BY <1>1, <2>1 DEF ReadState
  <2>3. PlainEntry(s, t.section[s][l + 1])
    BY <1>1, PlainEntries
  <2>4. ReadAt(x, s, st[a]) = [entry |-> Plain(s, t.section[s][l + 1]), next |-> st[a + 1]]
    BY <1>1, <1>7, <2>3 DEF Arrived
  <2>5. QED
    BY <2>2, <2>4
<1> HIDE DEF l, a
<1>8. ASSUME NEW k \in 1..4 PROVE Len(u.section[k]) <= Len(t.section[k])
  <2>1. CASE k # s
    BY <1>4, <2>1 DEF ReadState
  <2>2. CASE k = s
    BY <1>1, <1>3, <2>2
  <2>3. QED
    BY <2>1, <2>2
<1>9. ASSUME NEW k \in 1..4, NEW j \in 1..4, k < j, u.section[j] # <<>>
      PROVE  Len(u.section[k]) = Len(t.section[k])
  <2>1. j <= s
    <3>1. CASE s < j
      BY <1>1, <1>4, <1>9, <3>1, SMTT(30)
    <3>2. QED
      BY <3>1
  <2>2. k < s /\ k # s
    BY <1>9, <2>1
  <2>3. QED
    BY <1>1, <1>4, <2>2
<1>10. ASSUME NEW k \in 1..4, NEW i \in 1..Len(u.section[k]), st[At(t, k, i) + 1] <= n
       PROVE  u.section[k][i] = Plain(k, t.section[k][i])
  <2>1. CASE k # s
    <3>1. u.section[k] = m.section[k] /\ i \in 1..Len(m.section[k])
      BY <1>4, <1>10, <2>1
    <3>2. QED
      BY <1>10, <3>1 DEF ReadState
  <2>2. CASE k = s /\ i \in 1..l
    <3>1. u.section[k][i] = m.section[k][i] /\ i \in 1..Len(m.section[k])
      BY <1>5, <2>2 DEF l
    <3>2. QED
      BY <1>10, <3>1 DEF ReadState
  <2>3. CASE k = s /\ i = l + 1
    <3>1. u.section[k][i] = e /\ At(t, k, i) = a
      BY <1>5, <2>3 DEF a
    <3>2. QED
      BY <1>7, <1>10, <2>3, <3>1
  <2>4. QED
    BY <1>1, <1>3, <1>10, <2>1, <2>2, <2>3
<1>11. Before(u, 5) + 1 = a + 1
  BY <1>1, <1>3
<1>12. st[Before(u, 5) + 1] <= n => q = st[Before(u, 5) + 1]
  BY <1>7, <1>11
<1>13. QED
  BY <1>8, <1>9, <1>10, <1>12 DEF ReadState

-----------------------------------------------------------------------------
(* Sending on *)

SentQuestion == [name : Seq(Labels), type : Words, class : Words]
SentRecord ==
    {r \in [name : Seq(Labels), type : Words, class : Words, ttl : Longs,
            pre : Seq(Octets), names : Seq(Names), post : Seq(Octets)] :
       Len(r.names) \in {0, 1} /\ Len(DataOf(r)) \in Words}
Sent(s) == IF s = 1 THEN SentQuestion ELSE SentRecord

LEMMA EntrySent ==
    ASSUME NEW s \in 1..4, NEW e \in EntrySet(s), PlainEntry(s, e)
    PROVE  e \in Sent(s)
<1>1. CASE s = 1
  <2>1. e \in QuestionFormat
    BY <1>1, EntriesAre
  <2>2. e.name \in Seq(Labels)
    BY <2>1, NamesAre DEF QuestionFormat
  <2>3. QED
    BY <1>1, <2>1, <2>2 DEF Sent, SentQuestion, QuestionFormat
<1>2. CASE s # 1
  <2>1. e \in RecordFormat /\ WellFormed(e) /\ PlainType(e)
    BY <1>2, EntriesAre DEF PlainEntry
  <2>2. e.name \in Seq(Labels)
    BY <2>1, NamesAre DEF RecordFormat
  <2>3. Len(e.names) \in {0, 1}
    <3>1. e.type # RRTYPE_SOA /\ Len(<<>>) = 0
      BY <2>1 DEF PlainType
    <3>2. QED
      BY <2>1, <3>1, WellFormedIs
  <2>4. Len(DataOf(e)) \in Words
    <3>1. Len(DataOf(e)) <= 512
      BY <2>1, WellFormedIs DEF RR_BUF_SIZE
    <3>2. Len(DataOf(e)) \in Nat
      BY <2>1, DataType DEF DataParts, RecordFormat
    <3>3. QED
      BY <3>1, <3>2, SMT DEF Words
  <2>5. e \in [name : Seq(Labels), type : Words, class : Words, ttl : Longs,
               pre : Seq(Octets), names : Seq(Names), post : Seq(Octets)]
    BY <2>1, <2>2 DEF RecordFormat
  <2>6. QED
    BY <1>2, <2>3, <2>4, <2>5 DEF Sent, SentRecord
<1>3. QED
  BY <1>1, <1>2

LEMMA PutIs ==
    ASSUME NEW w \in Writer, NEW s \in Seq(Octets)
    PROVE  Put(w, s) \in Writer /\ Put(w, s).bytes = w.bytes \o s
<1>1. w.bytes \in Seq(Octets) /\ w.known \in SUBSET Place /\ DOMAIN w = {"bytes", "known"}
  BY DEF Writer
<1>2. Put(w, s) = [w EXCEPT !["bytes"] = w["bytes"] \o s]
  BY DEF Put
<1>3. Put(w, s) = [bytes |-> w.bytes \o s, known |-> w.known]
  BY <1>1, <1>2
<1>4. w.bytes \o s \in Seq(Octets)
  BY <1>1, ConcatProperties
<1>5. QED
  BY <1>1, <1>3, <1>4 DEF Writer

LEMMA PutPlainName ==
    ASSUME NEW w \in Writer, NEW n \in Seq(Labels)
    PROVE  /\ PutName(w, n, FALSE) \in Writer
           /\ PutName(w, n, FALSE).bytes = w.bytes \o (Literal(n) \o <<0>>)
           /\ Literal(n) \o <<0>> \in Seq(Octets)
<1> DEFINE c == FALSE
<1>1. c \in BOOLEAN /\ c = FALSE
  OBVIOUS
<1>2. w.known \in SUBSET Place
  BY DEF Writer
<1> HIDE DEF c
<1>3. PutName(w, n, c) \in Writer /\ PutName(w, n, c).bytes = w.bytes \o NameBytes(w.known, n, c)
  BY <1>1, PutNameIs
<1>4. NameBytes(w.known, n, c) \in Seq(Octets) /\ NameBytes(w.known, n, c) = Literal(n) \o <<0>>
  BY <1>1, <1>2, NameBytesIs
<1>5. QED
  BY <1>1, <1>3, <1>4

\* The names of a record as they are without pointers.
NamesLiteral(names) == IF Len(names) = 0 THEN <<>> ELSE Literal(names[1]) \o <<0>>

LEMMA PutPlainNames ==
    ASSUME NEW w \in Writer, NEW names \in Seq(Names), Len(names) \in {0, 1}
    PROVE  /\ PutNames(w, names, FALSE) \in Writer
           /\ PutNames(w, names, FALSE).bytes = w.bytes \o NamesLiteral(names)
           /\ NamesLiteral(names) \in Seq(Octets)
<1>1. \A i \in 1..Len(names) : names[i] \in Seq(Labels)
  BY ElementOfSeq, NamesAre
<1>2. names \in Seq(Seq(Labels)) /\ FALSE \in BOOLEAN
  BY <1>1, LenProperties, SeqDef
<1>3. w.bytes \in Seq(Octets)
  BY DEF Writer
<1>4. CASE Len(names) = 0
  <2>1. PutNames(w, names, FALSE) = w
    BY <1>2, <1>4, PutNamesIs
  <2>2. w.bytes \o <<>> = w.bytes /\ <<>> \in Seq(Octets)
    BY <1>3, ConcatEmptySeq, EmptySeq
  <2>3. QED
    BY <1>4, <2>1, <2>2 DEF NamesLiteral
<1>5. CASE Len(names) = 1
  <2>1. PutNames(w, names, FALSE) = PutName(w, names[1], FALSE)
    BY <1>2, <1>5, PutNamesIs
  <2>2. names[1] \in Seq(Labels) /\ Len(names) # 0
    BY <1>1, <1>5
  <2>3. NamesLiteral(names) = Literal(names[1]) \o <<0>>
    BY <2>2 DEF NamesLiteral
  <2>4. QED
    BY <2>1, <2>2, <2>3, PutPlainName
<1>6. QED
  BY <1>4, <1>5

LEMMA DataOfSent ==
    ASSUME NEW r \in SentRecord
    PROVE  DataOf(r) = (r.pre \o NamesLiteral(r.names)) \o r.post
<1>1. DataParts(r) /\ Len(r.names) \in {0, 1} /\ r.names \in Seq(Names) /\ r.pre \in Seq(Octets)
  BY DEF SentRecord, DataParts
<1>2. CASE Len(r.names) = 0
  <2>1. r.names = <<>>
    BY <1>1, <1>2, EmptySeq
  <2>2. DataOf(r) = r.pre \o r.post
    BY <1>1, <2>1, DataIs
  <2>3. r.pre \o <<>> = r.pre
    BY <1>1, ConcatEmptySeq
  <2>4. QED
    BY <1>2, <2>2, <2>3 DEF NamesLiteral
<1>3. CASE Len(r.names) = 1
  <2>1. DataOf(r) = r.pre \o (Literal(r.names[1]) \o <<0>>) \o r.post
    BY <1>1, <1>3, DataIs
  <2>2. Len(r.names) # 0
    BY <1>3
  <2>3. NamesLiteral(r.names) = Literal(r.names[1]) \o <<0>>
    BY <2>2 DEF NamesLiteral
  <2>4. QED
    BY <2>1, <2>3
<1>4. QED
  BY <1>1, <1>2, <1>3

Nothing == [bytes |-> <<>>, known |-> {}]
Alone(s, e) ==
    (IF s = 1 THEN PutQuestion(Nothing, e, FALSE) ELSE PutRecord(Nothing, e, FALSE)).bytes

LEMMA PutFirstName ==
    ASSUME NEW n \in Seq(Labels)
    PROVE  /\ PutName(Nothing, n, FALSE) \in Writer
           /\ PutName(Nothing, n, FALSE).bytes = Literal(n) \o <<0>>
           /\ Literal(n) \o <<0>> \in Seq(Octets)
<1>1. <<>> \in Seq(Octets)
  BY EmptySeq
<1>2. Nothing \in Writer /\ Nothing.bytes = <<>>
  BY <1>1 DEF Nothing, Writer
<1> DEFINE x == Literal(n) \o <<0>>
<1>3. PutName(Nothing, n, FALSE) \in Writer /\ PutName(Nothing, n, FALSE).bytes = <<>> \o x /\ x \in Seq(Octets)
  BY <1>2, PutPlainName
<1> HIDE DEF x
<1>4. <<>> \o x = x
  BY <1>3, ConcatEmptySeq
<1>5. QED
  BY <1>3, <1>4 DEF x

LEMMA QuestionAlone ==
    ASSUME NEW e \in SentQuestion
    PROVE  EntryBytes(1, Plain(1, e)) = Alone(1, e)
<1>1. e.name \in Seq(Labels) /\ e.type \in Words /\ e.class \in Words /\ DOMAIN e = {"name", "type", "class"}
  BY DEF SentQuestion
<1> DEFINE x == Literal(e.name) \o <<0>>
           t == U16(e.type)
           c == U16(e.class)
           w == PutName(Nothing, e.name, FALSE)
<1>2. w \in Writer /\ w.bytes = x /\ x \in Seq(Octets)
  BY <1>1, PutFirstName
<1>3. t \in Seq(Octets) /\ c \in Seq(Octets) /\ u16h_to_u8n(e.type) = t /\ u16h_to_u8n(e.class) = c
  BY <1>1, U16Is
<1>4. Plain(1, e) = [name |-> Literal(e.name), type |-> e.type, class |-> e.class]
  <2>1. Plain(1, e) = [e EXCEPT !["name"] = Literal(e.name)]
    BY DEF Plain
  <2>2. QED
    BY <1>1, <2>1
<1>5. EntryBytes(1, Plain(1, e)) = (x \o t) \o c
  <2> DEFINE p == Plain(1, e)
  <2>1. p.name = Literal(e.name) /\ p.type = e.type /\ p.class = e.class
    BY <1>4
  <2>2. EntryBytes(1, p) = p.name \o <<0>> \o u16h_to_u8n(p.type) \o u16h_to_u8n(p.class)
    BY DEF EntryBytes, msg_question_to_u8
  <2> HIDE DEF p
  <2>3. QED
    BY <1>3, <2>1, <2>2 DEF p
<1>6. Alone(1, e) = Put(w, t \o c).bytes
  BY DEF Alone, PutQuestion
<1> HIDE DEF x, t, c, w
<1>7. t \o c \in Seq(Octets) /\ (x \o t) \o c = x \o (t \o c)
  BY <1>2, <1>3, Joined
<1>8. Put(w, t \o c).bytes = w.bytes \o (t \o c)
  BY <1>2, <1>7, PutIs
<1>9. QED
  BY <1>2, <1>5, <1>6, <1>7, <1>8

\* Sequences joined from the left, and the first to the rest of them.
JoinedFirst(x, t, c, y, u) == (((x \o t) \o c) \o y) \o u = x \o (((t \o c) \o y) \o u)

LEMMA JoinedParts ==
    ASSUME NEW S, NEW x \in Seq(S), NEW t \in Seq(S), NEW c \in Seq(S), NEW y \in Seq(S), NEW u \in Seq(S)
    PROVE  JoinedFirst(x, t, c, y, u)
<1>1. t \o c \in Seq(S) /\ x \o t \in Seq(S) /\ (x \o t) \o c = x \o (t \o c)
  BY Joined, SMTT(30)
<1> DEFINE a == t \o c
<1>2. a \in Seq(S)
  BY <1>1
<1>3. (x \o t) \o c = x \o a
  BY <1>1
<1> HIDE DEF a
<1>4. (x \o a) \o y = x \o (a \o y) /\ a \o y \in Seq(S)
  BY <1>2, Joined, SMTT(30)
<1> DEFINE b == a \o y
<1>5. b \in Seq(S) /\ (x \o a) \o y = x \o b
  BY <1>4
<1> HIDE DEF b
<1>6. (x \o b) \o u = x \o (b \o u)
  BY <1>5, Joined, SMTT(30)
<1>7. QED
  BY <1>3, <1>5, <1>6 DEF a, b, JoinedFirst

\* A record without pointers: its fixed part f, its data.
LEMMA PlainRecordBytes ==
    ASSUME NEW r \in SentRecord, NEW w \in Writer, NEW n \in Words
    PROVE  /\ RecordPart(r, n) \in Seq(Octets)
           /\ Put(w, RecordPart(r, n)) \in Writer
           /\ Put(w, RecordPart(r, n)).bytes = w.bytes \o RecordPart(r, n)
           /\ Put(PutNames(Put(Put(w, RecordPart(r, n)), r.pre), r.names, FALSE), r.post).bytes
                = (w.bytes \o RecordPart(r, n)) \o DataOf(r)
           /\ DataOf(r) \in Seq(Octets)
<1>1. /\ r.type \in Words /\ r.class \in Words /\ r.ttl \in Longs
      /\ r.pre \in Seq(Octets) /\ r.post \in Seq(Octets) /\ r.names \in Seq(Names)
      /\ Len(r.names) \in {0, 1}
  BY DEF SentRecord
<1> DEFINE f == RecordPart(r, n)
           w1 == Put(w, f)
           w2 == Put(w1, r.pre)
           w3 == PutNames(w2, r.names, FALSE)
           w4 == Put(w3, r.post)
           N == NamesLiteral(r.names)
           p == r.pre
           z == r.post
<1>2. f \in Seq(Octets)
  BY <1>1, RecordPartIs DEF RecordPart
<1> HIDE DEF f
<1>3. w1 \in Writer /\ w1.bytes = w.bytes \o f
  BY <1>2, PutIs
<1> HIDE DEF w1
<1>4. w2 \in Writer /\ w2.bytes = w1.bytes \o p
  BY <1>1, <1>3, PutIs
<1> HIDE DEF w2
<1>5. w3 \in Writer /\ w3.bytes = w2.bytes \o N /\ N \in Seq(Octets)
  BY <1>1, <1>4, PutPlainNames
<1> HIDE DEF w3, N
<1>6. w4.bytes = w3.bytes \o z
  BY <1>1, <1>5, PutIs
<1> HIDE DEF w4
<1>7. p \in Seq(Octets) /\ z \in Seq(Octets)
  BY <1>1
<1>8. DataOf(r) = (p \o N) \o z
  BY DataOfSent DEF N
<1> HIDE DEF p, z
<1> DEFINE b == w.bytes \o f
<1>9. b \in Seq(Octets)
  <2>1. w.bytes \in Seq(Octets)
    BY DEF Writer
  <2>2. QED
    BY <1>2, <2>1, ConcatProperties
<1>10. w4.bytes = ((b \o p) \o N) \o z
  BY <1>3, <1>4, <1>5, <1>6
<1> HIDE DEF b
<1>11. (b \o p) \o N = b \o (p \o N) /\ p \o N \in Seq(Octets)
  BY <1>5, <1>7, <1>9, Joined
<1> DEFINE d == p \o N
<1>12. d \in Seq(Octets) /\ (b \o p) \o N = b \o d
  BY <1>11
<1> HIDE DEF d
<1>13. (b \o d) \o z = b \o (d \o z) /\ d \o z \in Seq(Octets)
  BY <1>7, <1>9, <1>12, Joined
<1>14. DataOf(r) = d \o z
  BY <1>8 DEF d
<1>15. w4.bytes = b \o DataOf(r) /\ DataOf(r) \in Seq(Octets)
  BY <1>10, <1>12, <1>13, <1>14
<1>16. QED
  BY <1>2, <1>3, <1>15 DEF f, w1, w2, w3, w4, p, z, b

LEMMA RecordAlone ==
    ASSUME NEW s \in 2..4, NEW r \in SentRecord
    PROVE  EntryBytes(s, Plain(s, r)) = Alone(s, r)
<1>1. /\ r.name \in Seq(Labels) /\ r.type \in Words /\ r.class \in Words /\ r.ttl \in Longs
      /\ Len(DataOf(r)) \in Words
  BY DEF SentRecord
<1> DEFINE x == Literal(r.name) \o <<0>>
           t == U16(r.type)
           c == U16(r.class)
           y == U32(r.ttl)
           l == Len(DataOf(r))
           u == U16(l)
           w == PutName(Nothing, r.name, FALSE)
           D == DataOf(r)
           fixed(n) == Put(w, RecordPart(r, n))
           whole(n) == Put(PutNames(Put(fixed(n), r.pre), r.names, FALSE), r.post)
<1>2. w \in Writer /\ w.bytes = x /\ x \in Seq(Octets)
  BY <1>1, PutFirstName
<1>3. t \in Seq(Octets) /\ c \in Seq(Octets) /\ u16h_to_u8n(r.type) = t /\ u16h_to_u8n(r.class) = c
      /\ u \in Seq(Octets) /\ u16h_to_u8n(l) = u /\ y \in Seq(Octets) /\ u32h_to_u8n(r.ttl) = y
  BY <1>1, U16Is, U32Is
<1>4. Alone(s, r) = whole(Len(whole(0).bytes) - Len(fixed(0).bytes)).bytes
  <2>1. s # 1
    OBVIOUS
  <2>2. QED
    BY <2>1 DEF Alone, PutRecord, RecordPart
<1> HIDE DEF w
<1>5. ASSUME NEW n \in Words
      PROVE  /\ RecordPart(r, n) \in Seq(Octets) /\ D \in Seq(Octets)
             /\ fixed(n).bytes = w.bytes \o RecordPart(r, n)
             /\ whole(n).bytes = (w.bytes \o RecordPart(r, n)) \o D
  BY <1>2, PlainRecordBytes
<1> HIDE DEF fixed, whole, D
<1>6. Len(whole(0).bytes) - Len(fixed(0).bytes) = l
  <2> DEFINE k == 0
             b == w.bytes \o RecordPart(r, k)
  <2>1. k \in Words
    BY SizeIs
  <2> HIDE DEF k
  <2>2. RecordPart(r, k) \in Seq(Octets) /\ D \in Seq(Octets) /\ fixed(k).bytes = b /\ whole(k).bytes = b \o D
    BY <1>5, <2>1
  <2>3. b \in Seq(Octets)
    <3>1. w.bytes \in Seq(Octets) /\ RecordPart(r, k) \in Seq(Octets)
      BY <1>2, <2>2
    <3>2. QED
      BY <3>1, ConcatProperties
  <2> HIDE DEF b
  <2>4. Len(b \o D) = Len(b) + Len(D) /\ Len(b) \in Nat /\ Len(D) \in Nat
    BY <2>2, <2>3, Concat
  <2> DEFINE i == Len(b)
             j == Len(D)
  <2>5. Len(whole(k).bytes) = i + j /\ Len(fixed(k).bytes) = i /\ i \in Nat /\ j \in Nat
    BY <2>2, <2>4
  <2>6. j = l
    BY DEF D
  <2> HIDE DEF i, j, l
  <2>7. Len(whole(k).bytes) - Len(fixed(k).bytes) = l
    BY <2>5, <2>6
  <2>8. QED
    BY <2>7 DEF k
<1>7. l \in Words /\ l \in Nat
  BY <1>1 DEF Words
<1>8. D \in Seq(Octets) /\ RecordPart(r, l) \in Seq(Octets)
      /\ Alone(s, r) = (w.bytes \o RecordPart(r, l)) \o D
  <2> HIDE DEF l
  <2>1. QED
    BY <1>4, <1>5, <1>6, <1>7
<1>9. RecordPart(r, l) = ((t \o c) \o y) \o u
  BY DEF RecordPart
<1>10. Bytes(D, 0, l) = D
  <2> DEFINE k == Len(D)
  <2>1. k = l /\ D \in Seq(Octets)
    BY <1>8 DEF D
  <2>2. k \in Nat
    BY <1>7, <2>1
  <2>3. /\ Bytes(D, 0, k) \in Seq(Octets) /\ Len(Bytes(D, 0, k)) = k
        /\ \A i \in 1..k : Bytes(D, 0, k)[i] = Byte(D, 0 + i - 1)
    <3> HIDE DEF k
    <3>1. QED
      BY <2>1, <2>2, BytesIs
  <2>4. ASSUME NEW i \in 1..k PROVE Byte(D, 0 + i - 1) = D[i]
    <3>1. 0 + i - 1 < Len(D) /\ (0 + i - 1) + 1 = i
      BY <2>2
    <3>2. QED
      BY <3>1 DEF Byte
  <2>5. Bytes(D, 0, k) = [i \in 1..k |-> Byte(D, 0 + i - 1)] /\ D = [i \in 1..k |-> D[i]]
    BY <2>1, LenProperties DEF Bytes
  <2>6. QED
    BY <2>1, <2>4, <2>5
<1>11. EntryBytes(s, Plain(s, r)) = ((((x \o t) \o c) \o y) \o u) \o D
  <2> DEFINE p == Plain(s, r)
  <2>1. s # 1
    OBVIOUS
  <2>2. p = [name |-> Literal(r.name), type |-> r.type, class |-> r.class, ttl |-> r.ttl,
             rdlength |-> l, rdata |-> D]
    BY <2>1 DEF Plain, D
  <2>3. EntryBytes(s, p) = p.name \o <<0>> \o u16h_to_u8n(p.type) \o u16h_to_u8n(p.class)
                             \o u32h_to_u8n(p.ttl) \o u16h_to_u8n(p.rdlength)
                             \o Bytes(p.rdata, 0, p.rdlength)
    BY <2>1 DEF EntryBytes, msg_rr_to_u8
  <2> HIDE DEF p, l
  <2>4. /\ p.name = Literal(r.name) /\ p.type = r.type /\ p.class = r.class /\ p.ttl = r.ttl
        /\ p.rdlength = l /\ p.rdata = D
    BY <2>2
  <2>5. QED
    BY <1>3, <1>10, <2>3, <2>4 DEF p
<1>12. (((x \o t) \o c) \o y) \o u = x \o (((t \o c) \o y) \o u)
  <2> HIDE DEF x, t, c, y, u
  <2>1. x \in Seq(Octets) /\ t \in Seq(Octets) /\ c \in Seq(Octets) /\ y \in Seq(Octets) /\ u \in Seq(Octets)
    BY <1>2, <1>3
  <2>2. JoinedFirst(x, t, c, y, u)
    BY <2>1, JoinedParts
  <2>3. QED
    BY <2>2 DEF JoinedFirst
<1>13. QED
  <2> HIDE DEF x, t, c, y, u, l
  <2>1. QED
    BY <1>2, <1>8, <1>9, <1>11, <1>12

LEMMA AloneIs ==
    ASSUME NEW s \in 1..4, NEW e \in Sent(s)
    PROVE  EntryBytes(s, Plain(s, e)) = Alone(s, e)
<1>1. CASE s = 1
  <2>1. e \in SentQuestion
    BY <1>1 DEF Sent
  <2>2. QED
    BY <1>1, <2>1, QuestionAlone
<1>2. CASE s # 1
  <2>1. e \in SentRecord /\ s \in 2..4
    BY <1>2 DEF Sent
  <2>2. QED
    BY <2>1, RecordAlone
<1>3. QED
  BY <1>1, <1>2

LEMMA WrittenIs ==
    ASSUME NEW dest, NEW name \in Seq(Octets), Len(name) < DomainLenMax, NEW bytes
    PROVE  Written(dest, name, bytes) = dest \o bytes
<1> DEFINE l == Len(name)
<1>1. l \in Nat /\ l < DomainLenMax
  BY LenProperties
<1>2. domain_len(name) = IF l + 1 > DomainLenMax THEN -1 ELSE l + 1
  BY DEF domain_len
<1> HIDE DEF l
<1>3. domain_len(name) # -1
  BY <1>1, <1>2, MessageAssumption
<1>4. QED
  BY <1>3 DEF Written

\* The entries M that are meant and the ones in memory.
SectionMeans(s, entries, M) ==
    /\ entries \in Seq(Mem(s)) /\ M \in Seq(Sent(s)) /\ Len(entries) = Len(M)
    /\ \A i \in 1..Len(M) : /\ entries[i] = Plain(s, M[i])
                            /\ Len(Literal(M[i].name)) < DomainLenMax
SectionAlone(s, M) == FlattenSeq([i \in DOMAIN M |-> Alone(s, M[i])])

LEMMA SentName ==
    ASSUME NEW s \in 1..4, NEW e \in Sent(s)
    PROVE  Plain(s, e).name = Literal(e.name)
<1>1. CASE s = 1
  <2>1. "name" \in DOMAIN e
    BY <1>1 DEF Sent, SentQuestion
  <2>2. Plain(s, e) = [e EXCEPT !["name"] = Literal(e.name)]
    BY <1>1 DEF Plain
  <2>3. QED
    BY <2>1, <2>2
<1>2. CASE s # 1
  BY <1>2 DEF Plain
<1>3. QED
  BY <1>1, <1>2

LEMMA SectionSent ==
    ASSUME NEW dest \in Seq(Octets), NEW s \in 1..4, NEW entries, NEW M, SectionMeans(s, entries, M)
    PROVE  /\ SectionWritten(dest, s, entries) = dest \o SectionAlone(s, M)
           /\ SectionWritten(dest, s, entries) \in Seq(Octets)
<1> DEFINE n == Len(M)
           q == [i \in 1..n |-> Alone(s, M[i])]
<1>1. /\ entries \in Seq(Mem(s)) /\ M \in Seq(Sent(s)) /\ Len(entries) = n /\ n \in Nat
      /\ DOMAIN M = 1..n
      /\ \A i \in 1..n : /\ entries[i] = Plain(s, M[i]) /\ Len(Literal(M[i].name)) < DomainLenMax
                         /\ M[i] \in Sent(s) /\ entries[i] \in Mem(s)
  BY LenProperties, ElementOfSeq DEF SectionMeans
<1>2. PICK f : Loop(f, dest, s, entries)
  BY <1>1, SectionLoop
<1>3. /\ f \in [0..n -> Seq(Octets)] /\ f[0] = dest
      /\ \A i \in 1..n : f[i] = Written(f[i - 1], entries[i].name, EntryBytes(s, entries[i]))
      /\ SectionWritten(dest, s, entries) = f[n]
  <2>1. Len(entries) = n
    BY <1>1
  <2> HIDE DEF n
  <2>2. QED
    BY <1>2, <2>1 DEF Loop
<1>4. SectionAlone(s, M) = FlattenSeq(q)
  BY <1>1 DEF SectionAlone
<1> HIDE DEF n
<1>5. ASSUME NEW i \in 1..n
      PROVE  /\ Alone(s, M[i]) \in Seq(Octets)
             /\ f[i] = f[i - 1] \o Alone(s, M[i])
  <2> DEFINE e == M[i]
             p == entries[i]
  <2>1. e \in Sent(s) /\ p \in Mem(s) /\ p = Plain(s, e) /\ Len(Literal(e.name)) < DomainLenMax
    BY <1>1
  <2>2. f[i] = Written(f[i - 1], p.name, EntryBytes(s, p))
    BY <1>3
  <2> HIDE DEF e, p
  <2>3. EntryBytes(s, p) = Alone(s, e)
    BY <2>1, AloneIs
  <2>4. EntryBytes(s, p) \in Seq(Octets)
    BY <2>1, EntryBytesType
  <2>5. p.name = Literal(e.name)
    BY <2>1, SentName
  <2>6. p.name \in Seq(Octets)
    BY <2>1 DEF Mem, MemQuestion, MemRecord
  <2> DEFINE m == p.name
             b == EntryBytes(s, p)
             v == f[i - 1]
  <2>7. m \in Seq(Octets) /\ Len(m) < DomainLenMax
    BY <2>1, <2>5, <2>6
  <2> HIDE DEF m, b, v
  <2>8. Written(v, m, b) = v \o b
    BY <2>7, WrittenIs
  <2>9. QED
    BY <2>2, <2>3, <2>4, <2>8 DEF e, m, b, v
<1>6. q \in Seq(Seq(Octets)) /\ Len(q) = n /\ \A i \in 1..n : q[i] = Alone(s, M[i]) /\ q[i] \in Seq(Octets)
  BY <1>1, <1>5
<1> HIDE DEF q
<1>7. PICK g \in [0..n -> Seq(Octets)] :
             /\ g[0] = <<>>
             /\ \A i \in 1..n : g[i] = g[i - 1] \o q[i]
             /\ FlattenSeq(q) = g[n]
  <2>1. \E g \in [0..Len(q) -> Seq(Octets)] :
             /\ g[0] = <<>>
             /\ \A i \in 1..Len(q) : g[i] = g[i - 1] \o q[i]
             /\ FlattenSeq(q) = g[Len(q)]
    BY <1>6, FlattenFunction
  <2>2. QED
    BY <1>6, <2>1
<1> DEFINE d == [i \in 0..n |-> dest \o g[i]]
<1>8. SameSteps(n, f, d)
  <2>1. f[0] = d[0]
    <3>1. 0 \in 0..n
      BY <1>1
    <3>2. dest \o <<>> = dest
      BY ConcatEmptySeq
    <3>3. QED
      BY <1>3, <1>7, <3>1, <3>2
  <2>2. ASSUME NEW i \in 1..n, f[i - 1] = d[i - 1] PROVE f[i] = d[i]
    <3>1. i \in 0..n /\ i - 1 \in 0..n
      BY <1>1
    <3> DEFINE v == g[i - 1]
               z == q[i]
    <3>2. v \in Seq(Octets) /\ z \in Seq(Octets)
      BY <1>6, <1>7, <3>1
    <3>3. g[i] = v \o z /\ d[i] = dest \o g[i] /\ d[i - 1] = dest \o v
      BY <1>7, <3>1
    <3>4. f[i] = f[i - 1] \o z
      BY <1>5, <1>6
    <3> HIDE DEF v, z, d
    <3>5. \A a, b, c \in Seq(Octets) : (a \o b) \o c = a \o (b \o c)
      BY Joined, SMTT(30)
    <3>6. (dest \o v) \o z = dest \o (v \o z)
      BY <3>2, <3>5, Zenon
    <3>7. QED
      BY <2>2, <3>3, <3>4, <3>6
  <2> HIDE DEF d
  <2>3. QED
    BY <2>1, <2>2 DEF SameSteps
<1>9. f[n] = d[n] /\ n \in 0..n
  <2> HIDE DEF d
  <2>1. n \in Nat /\ n \in 0..n
    BY <1>1
  <2>2. \A i \in 0..n : f[i] = d[i]
    BY <1>8, <2>1, RecursionUnique
  <2>3. QED
    BY <2>1, <2>2
<1>10. QED
  BY <1>3, <1>4, <1>7, <1>9

\* m in memory stands for M.
Means(m, M) ==
    /\ m.header \in HeaderFormat /\ m.header = M.header
    /\ \A s \in 1..4 : SectionMeans(s, m.section[s], M.section[s])

LEMMA MessageSent ==
    ASSUME NEW m, NEW M, Means(m, M)
    PROVE  message_to_u8(m) = Uncompressed(M)
<1> DEFINE h == PutHeader(M.header).bytes
           S(s) == SectionAlone(s, M.section[s])
           q == SectionWritten(h, 1, m.section[1])
           an == SectionWritten(q, 2, m.section[2])
           au == SectionWritten(an, 3, m.section[3])
           ad == SectionWritten(au, 4, m.section[4])
<1>1. /\ SectionMeans(1, m.section[1], M.section[1]) /\ SectionMeans(2, m.section[2], M.section[2])
      /\ SectionMeans(3, m.section[3], M.section[3]) /\ SectionMeans(4, m.section[4], M.section[4])
  BY DEF Means
<1>2. h \in Seq(Octets) /\ msg_header_to_u8(m.header) = h
  BY HeaderReads DEF Means
<1>3. message_to_u8(m) = ad
  BY <1>2 DEF message_to_u8
<1>4. Uncompressed(M) = (((h \o S(1)) \o S(2)) \o S(3)) \o S(4)
  BY DEF Uncompressed, SectionAlone, Alone, Nothing
<1>5. 1 \in 1..4 /\ 2 \in 1..4 /\ 3 \in 1..4 /\ 4 \in 1..4
  OBVIOUS
<1> HIDE DEF h
<1>6. q = h \o S(1) /\ q \in Seq(Octets)
  BY <1>1, <1>2, <1>5, SectionSent, ZenonT(60)
<1> HIDE DEF q
<1>7. an = q \o S(2) /\ an \in Seq(Octets)
  <2>1. q \in Seq(Octets)
    BY <1>6
  <2>2. QED
    BY <1>1, <1>5, <2>1, SectionSent
<1> HIDE DEF an
<1>8. au = an \o S(3) /\ au \in Seq(Octets)
  <2>1. an \in Seq(Octets)
    BY <1>7
  <2>2. QED
    BY <1>1, <1>5, <2>1, SectionSent
<1> HIDE DEF au
<1>9. ad = au \o S(4)
  <2>1. au \in Seq(Octets)
    BY <1>8
  <2>2. QED
    BY <1>1, <1>5, <2>1, SectionSent
<1> HIDE DEF ad, S
<1>10. QED
  BY <1>3, <1>4, <1>6, <1>7, <1>8, <1>9

\* A whole message that has been read to its end.
LegalMessage(t) ==
    \A s \in 1..4 : \A i \in DOMAIN t.section[s] : Len(Literal(t.section[s][i].name)) < DomainLenMax

LEMMA MeansTruth ==
    ASSUME PlainTypes, NEW m, MemoryOK(m), NEW t, NEW st, TruthOK(t, st), m.header = t.header,
           NEW p, ReadState(m, t, st, st[Len(st)], p), UnreadOf(m) = {}, LegalMessage(t)
    PROVE  Means(m, t)
<1>1. m \in AnyMessage(AnyMem) /\ t \in AnyMessage(AnyEntry) /\ m.header \in HeaderFormat
      /\ \A s \in 1..4 : /\ m.section[s] \in Seq(Mem(s)) /\ t.section[s] \in Seq(EntrySet(s))
                         /\ m.header.count[s] = Len(t.section[s])
  BY DEF MemoryOK, TruthOK
<1>2. ASSUME NEW s \in 1..4 PROVE SectionMeans(s, m.section[s], t.section[s])
  <2>1. Len(m.section[s]) \in Nat /\ Len(t.section[s]) \in Nat
    BY <1>1, BeforeIs
  <2>2. Len(m.section[s]) = Len(t.section[s])
    <3>1. ~(Len(m.section[s]) < Len(t.section[s]))
      BY <1>1 DEF UnreadOf
    <3>2. Len(m.section[s]) <= Len(t.section[s])
      BY DEF ReadState
    <3>3. QED
      BY <2>1, <3>1, <3>2
  <2>3. ASSUME NEW i \in 1..Len(t.section[s])
        PROVE  /\ m.section[s][i] = Plain(s, t.section[s][i])
               /\ Len(Literal(t.section[s][i].name)) < DomainLenMax
               /\ t.section[s][i] \in Sent(s)
    <3>1. st[At(t, s, i) + 1] <= st[Len(st)] /\ t.section[s][i] \in EntrySet(s)
      BY PlacesAre
    <3>2. m.section[s][i] = Plain(s, t.section[s][i])
      BY <2>2, <3>1 DEF ReadState
    <3>3. PlainEntry(s, t.section[s][i])
      BY PlainEntries
    <3>4. t.section[s][i] \in Sent(s)
      BY <3>1, <3>3, EntrySent
    <3>5. i \in DOMAIN t.section[s]
      BY <1>1, LenProperties
    <3>6. Len(Literal(t.section[s][i].name)) < DomainLenMax
      BY <3>5 DEF LegalMessage
    <3>7. QED
      BY <3>2, <3>4, <3>6
  <2>4. t.section[s] \in Seq(Sent(s))
    <3> DEFINE x == t.section[s]
    <3>1. x \in Seq(EntrySet(s)) /\ \A i \in 1..Len(x) : x[i] \in Sent(s)
      BY <1>1, <2>3
    <3> HIDE DEF x
    <3>2. x \in Seq(Sent(s))
      BY <3>1, LenProperties, SeqDef
    <3>3. QED
      BY <3>2 DEF x
  <2>5. QED
    BY <1>1, <2>2, <2>3, <2>4 DEF SectionMeans
<1>3. QED
  BY <1>1, <1>2 DEF Means

\* The record that is meant by NewOpt.
LEMMA MeantOptIs ==
    /\ MeantOpt \in Sent(4) /\ Plain(4, MeantOpt) = NewOpt
    /\ Len(Literal(MeantOpt.name)) < DomainLenMax
<1> DEFINE o == MeantOpt
<1>1. /\ o.name = <<>> /\ o.type = RRTYPE_OPT /\ o.class = ClientBufferSize /\ o.ttl = 0
      /\ o.pre = <<>> /\ o.names = <<>> /\ o.post = <<>>
  BY DEF MeantOpt
<1>2. <<>> \in Seq(Labels) /\ <<>> \in Seq(Octets) /\ <<>> \in Seq(Names) /\ Len(<<>>) = 0
  BY EmptySeq
<1>3. RRTYPE_OPT \in Words
  BY SMT DEF RRTYPE_OPT, Words
<1>4. o \in [name : Seq(Labels), type : Words, class : Words, ttl : Longs,
             pre : Seq(Octets), names : Seq(Names), post : Seq(Octets)]
  BY <1>2, <1>3, SizeIs DEF MeantOpt
<1> HIDE DEF o
<1>5. DataOf(o) = <<>>
  <2>1. DataOf(o) = o.pre \o o.post
    BY <1>1, <1>2, DataIs DEF DataParts
  <2>2. <<>> \o <<>> = <<>>
    BY <1>2, ConcatEmptySeq
  <2>3. QED
    BY <1>1, <2>1, <2>2
<1>6. o \in SentRecord
  BY <1>1, <1>2, <1>4, <1>5, SizeIs DEF SentRecord
<1>7. Literal(o.name) = <<>>
  BY <1>1, LiteralEmpty
<1>8. Plain(4, o) = NewOpt
  <2>1. Plain(4, o) = [name |-> Literal(o.name), type |-> o.type, class |-> o.class, ttl |-> o.ttl,
                       rdlength |-> Len(DataOf(o)), rdata |-> DataOf(o)]
    BY DEF Plain
  <2>2. QED
    BY <1>1, <1>2, <1>5, <1>7, <2>1 DEF NewOpt
<1>9. Len(Literal(o.name)) < DomainLenMax
  BY <1>2, <1>7, MessageAssumption
<1>10. QED
  BY <1>6, <1>8, <1>9 DEF o, Sent

LEMMA AppendMeans ==
    ASSUME NEW s \in 1..4, NEW x, NEW M, SectionMeans(s, x, M), NEW e \in Mem(s), NEW r \in Sent(s),
           e = Plain(s, r), Len(Literal(r.name)) < DomainLenMax
    PROVE  SectionMeans(s, Append(x, e), Append(M, r))
<1> DEFINE n == Len(M)
<1>1. /\ x \in Seq(Mem(s)) /\ M \in Seq(Sent(s)) /\ Len(x) = n
      /\ \A i \in 1..n : x[i] = Plain(s, M[i]) /\ Len(Literal(M[i].name)) < DomainLenMax
  BY DEF SectionMeans
<1>2. n \in Nat
  BY <1>1, LenProperties
<1>3. /\ Append(x, e) \in Seq(Mem(s)) /\ Len(Append(x, e)) = n + 1
      /\ \A i \in 1..n : Append(x, e)[i] = x[i]
      /\ Append(x, e)[n + 1] = e
  BY <1>1, AppendProperties
<1>4. /\ Append(M, r) \in Seq(Sent(s)) /\ Len(Append(M, r)) = n + 1
      /\ \A i \in 1..n : Append(M, r)[i] = M[i]
      /\ Append(M, r)[n + 1] = r
  BY <1>1, AppendProperties
<1> HIDE DEF n
<1>5. ASSUME NEW i \in 1..n + 1
      PROVE  /\ Append(x, e)[i] = Plain(s, Append(M, r)[i])
             /\ Len(Literal(Append(M, r)[i].name)) < DomainLenMax
  <2>1. CASE i \in 1..n
    BY <1>1, <1>3, <1>4, <2>1
  <2>2. CASE i = n + 1
    BY <1>3, <1>4, <2>2
  <2>3. i \in 1..n \/ i = n + 1
    BY <1>2
  <2>4. QED
    BY <2>1, <2>2, <2>3
<1>6. QED
  BY <1>3, <1>4, <1>5 DEF SectionMeans

AnySent == SentQuestion \cup SentRecord
\* The same records are OPT records.
LEMMA SameOpts ==
    ASSUME NEW m, NEW M, SectionMeans(4, m.section[4], M.section[4])
    PROVE  Opts(m) = Opts(M)
<1> DEFINE x == m.section[4]
           y == M.section[4]
<1>1. /\ x \in Seq(Mem(4)) /\ y \in Seq(Sent(4)) /\ Len(x) = Len(y)
      /\ \A i \in 1..Len(y) : x[i] = Plain(4, y[i])
  BY DEF SectionMeans
<1>2. Opts(m) = {i \in DOMAIN x : x[i].type = RRTYPE_OPT} /\ Opts(M) = {i \in DOMAIN y : y[i].type = RRTYPE_OPT}
  BY DEF Opts
<1> HIDE DEF x, y
<1>3. DOMAIN x = 1..Len(y) /\ DOMAIN y = 1..Len(y)
  BY <1>1, LenProperties
<1>4. \A r : Plain(4, r).type = r.type
  BY DEF Plain
<1>5. \A i \in 1..Len(y) : x[i].type = y[i].type
  BY <1>1, <1>4
<1>6. QED
  BY <1>2, <1>3, <1>5

LEMMA MeansEdns ==
    ASSUME NEW m, MemoryOK(m), NEW M, M \in AnyMessage(AnySent), Means(m, M),
           m.header.count[4] + 1 \in Words, Opts(M) = {},
           NEW u, u = WithEdns(m), NEW U, U = MeantWithEdns(M)
    PROVE  Means(u, U) /\ U \in AnyMessage(AnySent)
<1>1. /\ m \in AnyMessage(AnyMem) /\ m.header = M.header
      /\ \A s \in 1..4 : SectionMeans(s, m.section[s], M.section[s])
  BY DEF MemoryOK, Means
<1>2. u.header \in HeaderFormat
  <2>1. MemoryOK(u)
    BY WithEdnsOK
  <2>2. QED
    BY <2>1 DEF MemoryOK
<1>3. Opts(m) = {}
  <2>1. SectionMeans(4, m.section[4], M.section[4])
    BY <1>1
  <2>2. QED
    BY <2>1, SameOpts
<1>4. 4 \in 1..4 /\ u = WithEntry(m, 4, NewOpt) /\ U = WithEntry(M, 4, MeantOpt)
  BY <1>3 DEF WithEdns, MeantWithEdns, WithEntry
<1>5. MeantOpt \in Sent(4) /\ MeantOpt \in AnySent
  BY MeantOptIs DEF Sent, AnySent
<1>6. MessageGrown(AnyMem, m, u, 4, NewOpt)
  BY <1>1, <1>4, NewOptIs, GrowMessage
<1>7. MessageGrown(AnySent, M, U, 4, MeantOpt)
  BY <1>4, <1>5, GrowMessage
<1>8. u.header = U.header
  <2>1. u.header = [m.header EXCEPT !.count = [m.header.count EXCEPT ![4] = m.header.count[4] + 1]]
    BY <1>6 DEF MessageGrown
  <2>2. U.header = [M.header EXCEPT !.count = [M.header.count EXCEPT ![4] = M.header.count[4] + 1]]
    BY <1>7 DEF MessageGrown
  <2>3. QED
    BY <1>1, <2>1, <2>2
<1>9. /\ u.section[4] = Append(m.section[4], NewOpt) /\ U.section[4] = Append(M.section[4], MeantOpt)
      /\ \A t \in 1..4 : t # 4 => u.section[t] = m.section[t] /\ U.section[t] = M.section[t]
  BY <1>6, <1>7 DEF MessageGrown, Grown
<1>10. SectionMeans(4, Append(m.section[4], NewOpt), Append(M.section[4], MeantOpt))
  <2>1. SectionMeans(4, m.section[4], M.section[4]) /\ NewOpt = Plain(4, MeantOpt)
        /\ Len(Literal(MeantOpt.name)) < DomainLenMax
    BY <1>1, MeantOptIs
  <2>2. QED
    BY <1>4, <1>5, <2>1, NewOptIs, AppendMeans
<1>11. \A s \in 1..4 : SectionMeans(s, u.section[s], U.section[s])
  BY <1>1, <1>9, <1>10
<1>12. QED
  BY <1>2, <1>7, <1>8, <1>11 DEF Means, MessageGrown

\* Under the same id the one still means the other.
LEMMA MeansId ==
    ASSUME NEW m \in AnyMessage(AnyMem), NEW M \in AnyMessage(AnySent), Means(m, M),
           NEW id \in Words
    PROVE  Means(WithId(m, id), WithId(M, id))
<1> DEFINE u == WithId(m, id)
           U == WithId(M, id)
<1>1. IdReplaced(AnyMem, m, u, id) /\ IdReplaced(AnySent, M, U, id)
  BY ReplaceId
<1> HIDE DEF u, U
<1>2. /\ m.header \in HeaderFormat /\ m.header = M.header
      /\ \A s \in 1..4 : SectionMeans(s, m.section[s], M.section[s])
  BY DEF Means
<1>3. u.header = U.header /\ u.section = m.section /\ U.section = M.section
  BY <1>1, <1>2 DEF IdReplaced
<1>4. u.header \in HeaderFormat
  BY <1>1, <1>2 DEF IdReplaced, HeaderFormat
<1>5. Means(u, U)
  BY <1>2, <1>3, <1>4 DEF Means
<1>6. QED
  BY <1>5 DEF u, U

LEMMA SentMessage ==
    ASSUME NEW m, NEW t, NEW st, TruthOK(t, st), Means(m, t)
    PROVE  t \in AnyMessage(AnySent)
<1>1. t \in AnyMessage(AnyEntry) /\ \A s \in 1..4 : t.section[s] \in Seq(Sent(s))
  BY DEF TruthOK, Means, SectionMeans
<1>2. /\ t = [header |-> t.header, section |-> t.section] /\ t.header \in AnyHeader
      /\ DOMAIN t.section = 1..4 /\ t.section = [s \in 1..4 |-> t.section[s]]
  BY <1>1 DEF AnyMessage
<1>3. ASSUME NEW s \in 1..4 PROVE t.section[s] \in Seq(AnySent)
  <2> DEFINE x == t.section[s]
  <2>1. x \in Seq(Sent(s))
    BY <1>1
  <2> HIDE DEF x
  <2>2. \A e \in Sent(s) : e \in AnySent
    BY DEF Sent, AnySent
  <2>3. x \in Seq(AnySent)
    BY <2>1, <2>2, LenProperties, SeqDef
  <2>4. QED
    BY <2>3 DEF x
<1>4. t.section \in [1..4 -> Seq(AnySent)]
  BY <1>2, <1>3
<1>5. QED
  BY <1>2, <1>4 DEF AnyMessage

-----------------------------------------------------------------------------
(* The invariant of the reader *)

\* What has been read, and that nothing is left when it is done.
ReadOK ==
    /\ phase \in {"read", "done"} => ReadState(msg, truth, starts, nrecv, pos)
    /\ phase = "done" => UnreadOf(msg) = {}

ReadInv == WireInv /\ ReadOK /\ SentOnAsMeant

LEMMA ReadHeaderRead ==
    ASSUME WireInv, ReadHeader, phase' = "read"
    PROVE  ReadState(msg', truth', starts', nrecv', pos')
<1>1. /\ phase = "header" /\ UNCHANGED <<nrecv, truth, starts>>
      /\ msg' = [msg EXCEPT !.header = msg_header_from_buf(wire)] /\ pos' = HeaderSize
  BY DEF ReadHeader
<1>2. TruthOK(truth, starts) /\ msg = EmptyMessage
  BY <1>1 DEF WireInv, ArrivalOK
<1>3. msg'.section = [s \in 1..4 |-> <<>>]
  BY <1>1, <1>2 DEF EmptyMessage
<1>4. \A s \in 1..4 : msg'.section[s] = <<>> /\ Len(msg'.section[s]) = 0
  BY <1>3, EmptySeq
<1>5. \A s \in 1..4 : Len(truth.section[s]) \in Nat
  <2>1. truth \in AnyMessage(AnyEntry)
    BY <1>2 DEF TruthOK
  <2>2. QED
    BY <2>1, BeforeIs
<1>6. Before(msg', 5) = 0
  <2> DEFINE f == msg'.section
  <2>1. Len(f[1]) = 0 /\ Len(f[2]) = 0 /\ Len(f[3]) = 0 /\ Len(f[4]) = 0
    BY <1>4
  <2>2. Before(msg', 5) = Len(f[1]) + Len(f[2]) + Len(f[3]) + Len(f[4])
    BY DEF Before
  <2>3. QED
    BY <2>1, <2>2
<1>7. starts[1] = HeaderSize
  BY <1>2 DEF TruthOK
<1>8. /\ \A s \in 1..4 : Len(msg'.section[s]) <= Len(truth.section[s])
      /\ \A s \in 1..4 : \A i \in 1..Len(msg'.section[s]) : FALSE
  BY <1>4, <1>5, SMTT(30)
<1>9. starts[Before(msg', 5) + 1] = pos'
  BY <1>1, <1>6, <1>7
<1>10. QED
  BY <1>1, <1>4, <1>8, <1>9 DEF ReadState

LEMMA ReadEntryRead ==
    ASSUME PlainTypes, WireInv, ReadOK, NEW s \in 1..4, ReadEntry(s, ReadAt(wire, s, pos))
    PROVE  ReadState(msg', truth', starts', nrecv', pos')
<1> DEFINE e == ReadAt(wire, s, pos).entry
           n == ReadAt(wire, s, pos).next
<1>1. /\ phase = "read" /\ msg' = WithRead(msg, s, e) /\ pos' = n
      /\ UnreadOf(msg) # {} /\ s = Min(UnreadOf(msg))
      /\ UNCHANGED <<nrecv, truth, starts>>
  BY DEF ReadEntry, WithRead, Unread, UnreadOf
<1>2. /\ TypeOK /\ TruthOK(truth, starts) /\ MemoryOK(msg) /\ Arrived(wire, nrecv, truth, starts)
      /\ msg.header = truth.header /\ ReadState(msg, truth, starts, nrecv, pos)
  BY <1>1 DEF WireInv, ArrivalOK, ReadOK
<1>3. e \in Mem(s) /\ nrecv \in Nat
  <2>1. wire \in Seq(Octets) /\ pos \in Nat /\ nrecv \in Nat
    BY <1>2 DEF TypeOK
  <2>2. QED
    BY <2>1, ReadType
<1>4. e = ReadAt(wire, s, pos).entry /\ n = ReadAt(wire, s, pos).next
  OBVIOUS
<1> HIDE DEF e, n
<1>5. MemoryOK(msg') /\ Grown(msg, msg', s, e)
  BY <1>1, <1>2, <1>3, ReadEntryOK
<1>6. NextEntry(msg, truth, s)
  BY <1>1, <1>2, NextEntryIs
<1>7. ReadState(msg', truth, starts, nrecv, n)
  BY <1>2, <1>3, <1>4, <1>5, <1>6, ReadOne
<1>8. QED
  BY <1>1, <1>7

LEMMA SendOnMeant ==
    ASSUME PlainTypes, WireInv, ReadOK, NEW id \in OtherIds, SendOn(id)
    PROVE  SentOnAsMeant'
<1> DEFINE m == Onward(msg)
           request == _QR(truth.header.misc1) = 0
           meant == IF request THEN MeantWithEdns(truth) ELSE truth
<1>1. /\ phase = "done" /\ out' = message_to_u8(WithId(m, id))
      /\ UNCHANGED <<nrecv, truth, starts>>
  BY DEF SendOn, Onward
<1>2. /\ TruthOK(truth, starts) /\ MemoryOK(msg) /\ msg.header = truth.header
      /\ ReadState(msg, truth, starts, nrecv, pos) /\ UnreadOf(msg) = {}
  BY <1>1 DEF WireInv, ArrivalOK, ReadOK
<1>3. ASSUME LegalMessage(truth), nrecv = starts[Len(starts)], request => Opts(truth) = {}
      PROVE  out' = Uncompressed(WithId(meant, id))
  <2>1. ReadState(msg, truth, starts, starts[Len(starts)], pos)
    BY <1>2, <1>3
  <2>2. Means(msg, truth)
    BY <1>2, <1>3, <2>1, MeansTruth
  <2>3. truth \in AnyMessage(AnySent)
    BY <1>2, <2>2, SentMessage
  <2>4. msg.header.count[4] + 1 \in Words /\ id \in Words
    BY <1>2, TruthHeader, CodecAssumption
  <2>5. Means(m, meant) /\ meant \in AnyMessage(AnySent) /\ MemoryOK(m)
    <3>1. CASE request
      <4>1. m = WithEdns(msg) /\ meant = MeantWithEdns(truth)
        BY <1>2, <3>1 DEF Onward
      <4> HIDE DEF m, meant
      <4>2. QED
        BY <1>2, <1>3, <2>2, <2>3, <2>4, <3>1, <4>1, MeansEdns, WithEdnsOK
    <3>2. CASE ~request
      BY <1>2, <2>2, <2>3, <3>2 DEF Onward
    <3>3. QED
      BY <3>1, <3>2
  <2> HIDE DEF m, meant
  <2>6. Means(WithId(m, id), WithId(meant, id))
    BY <2>4, <2>5, MeansId DEF MemoryOK
  <2>7. QED
    BY <1>1, <2>6, MessageSent
<1> HIDE DEF m
<1>4. LegalNames' <=> LegalMessage(truth)
  BY <1>1 DEF LegalNames, LegalMessage
<1>5. Last(starts') = starts[Len(starts)] /\ nrecv' = nrecv
  BY <1>1 DEF Last
<1>6. ASSUME SentLegal' PROVE out' = Uncompressed(WithId(meant, id)) \/ (request /\ Opts(truth) # {})
  BY <1>3, <1>4, <1>5, <1>6 DEF SentLegal
<1>7. QED
  BY <1>1, <1>6 DEF SentOnAsMeant, SentAs

LEMMA ReadInit == Init => ReadInv
<1> SUFFICES ASSUME Init PROVE ReadInv
  OBVIOUS
<1>1. phase = "write"
  BY DEF Init, Fresh
<1>2. QED
  BY <1>1, InitInv DEF ReadInv, ReadOK, SentOnAsMeant, SentLegal

LEMMA ReadStep == PlainTypes /\ ReadInv /\ [Next]_vars => ReadInv'
<1> SUFFICES ASSUME PlainTypes, ReadInv, [Next]_vars PROVE ReadInv'
  OBVIOUS
<1>1. WireInv /\ ReadOK /\ SentOnAsMeant
  BY DEF ReadInv
<1>2. WireInv'
  BY <1>1, StepInv
<1>3. ASSUME phase' \in {"write", "header", "refused"} PROVE ReadInv'
  BY <1>2, <1>3 DEF ReadInv, ReadOK, SentOnAsMeant, SentLegal
<1>4. ASSUME phase' = "read", ReadState(msg', truth', starts', nrecv', pos') PROVE ReadInv'
  BY <1>2, <1>4 DEF ReadInv, ReadOK, SentOnAsMeant, SentLegal
<1>5. CASE UNCHANGED vars
  <2>1. ReadOK' /\ SentOnAsMeant'
    BY <1>1, <1>5 DEF vars, ReadOK, SentOnAsMeant, SentLegal, SentAs, LegalNames, NoSoa
  <2>2. QED
    BY <1>2, <2>1 DEF ReadInv
<1>6. ASSUME NEW s \in 1..4, NEW e \in EntrySet(s), NEW c \in BOOLEAN, Write(s, e, c) PROVE ReadInv'
  BY <1>3, <1>6 DEF Write
<1>7. ASSUME NEW h \in Headers, NEW size \in {Len(wire), Len(wire) - 1, HeaderSize - 1}, Deliver(h, size)
      PROVE  ReadInv'
  BY <1>3, <1>7 DEF Deliver
<1>8. CASE ReadHeader
  <2>1. phase' \in {"refused", "read"}
    BY <1>8 DEF ReadHeader
  <2>2. QED
    BY <1>1, <1>3, <1>4, <1>8, <2>1, ReadHeaderRead
<1>9. ASSUME NEW s \in 1..4, ReadEntry(s, ReadAt(wire, s, pos)) PROVE ReadInv'
  <2>1. phase' = "read"
    BY <1>9 DEF ReadEntry
  <2>2. QED
    BY <1>1, <1>4, <1>9, <2>1, ReadEntryRead
<1>10. CASE ReadDone
  <2>1. /\ phase = "read" /\ phase' = "done" /\ UnreadOf(msg) = {}
        /\ UNCHANGED <<nrecv, truth, starts, pos, msg>>
    BY <1>10 DEF ReadDone, Unread, UnreadOf
  <2>2. QED
    BY <1>1, <1>2, <2>1 DEF ReadInv, ReadOK, SentOnAsMeant, SentLegal
<1>11. ASSUME NEW id \in OtherIds, SendOn(id) PROVE ReadInv'
  <2>1. phase' = "sent" /\ SentOnAsMeant'
    BY <1>1, <1>11, SendOnMeant DEF SendOn
  <2>2. QED
    BY <1>2, <2>1 DEF ReadInv, ReadOK
<1>12. CASE NextPacket
  BY <1>3, <1>12 DEF NextPacket, Fresh
<1>13. QED
  BY <1>5, <1>6, <1>7, <1>8, <1>9, <1>10, <1>11, <1>12, NextIs

LEMMA ReadInvariance ==
    ASSUME PlainTypes
    PROVE  Spec => []ReadInv
<1>1. ReadInv /\ [Next]_vars => ReadInv'
  BY ReadStep
<1>2. QED
  BY ReadInit, <1>1, PTL DEF Spec

\* Unless it has SOA or TXT records, a packet is read as it was meant, however
\* its sender has compressed the names: each entry that has arrived whole is in
\* memory what its sender meant, and after it the reader is where the next one
\* begins (Codec, ReadAsWritten; message_from_buf).
THEOREM ReadsAsWritten ==
    ASSUME PlainTypes
    PROVE  Spec => []ReadAsWritten
<1>1. ReadInv => ReadAsWritten
  <2> SUFFICES ASSUME ReadInv, phase \in {"read", "done"} PROVE ReadAsWritten
    BY DEF ReadAsWritten
  <2>1. msg.header = truth.header /\ ReadState(msg, truth, starts, nrecv, pos)
    BY DEF ReadInv, WireInv, ArrivalOK, ReadOK
  <2>2. ASSUME NEW s \in 1..4, NEW i \in 1..Len(msg.section[s]), starts[At(truth, s, i) + 1] <= nrecv
        PROVE  AsMeant(s, msg.section[s][i], truth.section[s][i])
    <3>1. msg.section[s][i] = Plain(s, truth.section[s][i])
      BY <2>1, <2>2 DEF ReadState
    <3>2. i \in 1..Len(truth.section[s])
      BY <2>1 DEF ReadState
    <3>3. s = 1 \/ truth.section[s][i].type # RRTYPE_SOA
      BY <3>2, PlainEntries DEF ReadInv, WireInv, PlainEntry, PlainType
    <3>4. QED
      BY <3>1, <3>3 DEF AsMeant
  <2>3. QED
    BY <2>1, <2>2 DEF ReadAsWritten, ReadState, At
<1>2. QED
  BY <1>1, ReadInvariance, PTL

\* Unless it has SOA or TXT records, a message that has arrived whole and whose
\* names are no longer than allowed is sent on as its sender would have written
\* it without compression: a response under the client's id, a request without
\* an OPT record under the new id and with one (Codec, SentOnAsMeant;
\* send_question and message_to_u8).
THEOREM SendsOnAsMeant ==
    ASSUME PlainTypes
    PROVE  Spec => []SentOnAsMeant
<1>1. ReadInv => SentOnAsMeant
  BY DEF ReadInv
<1>2. QED
  BY <1>1, ReadInvariance, PTL
=============================================================================
