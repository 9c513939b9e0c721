--------------------------- MODULE ResolverProofs ---------------------------
(***************************************************************************)
(* Proofs about Resolver, for every set of workers, queries and records,   *)
(* every relay database and every external server that ResolverAssumption  *)
(* admits.                                                                 *)
(***************************************************************************)
EXTENDS Resolver, FiniteSetTheorems, SequenceTheorems, TLAPS

Entry == [rr : RRs, ttl : Nat, expire : Nat]
Keys == DOMAIN Upstream

\* The assumptions one by one, as the proofs cite them.
LEMMA Constants ==
    /\ AnCountMax \in Nat \ {0} /\ NoRR \notin Record
    /\ \A q \in Queries : q.id \in Ids /\ q.questions \in Seq(Keys)
    /\ \A k \in Keys :
         /\ select_database(k) \in Seq(Record)
         /\ \A i \in DOMAIN select_database(k) : select_database(k)[i].rr.key.name = k.name
    /\ \A k \in Keys : Upstream[k] \subseteq Seq(Record)
BY ResolverAssumption DEF ResolverAssumption, Keys, Record, select_database

\* The cardinality that Cache uses is the one of this module.
LEMMA SameCardinality == \A S : C!Cardinality(S) = Cardinality(S)
BY DEF C!Cardinality, Cardinality

-----------------------------------------------------------------------------
(* What the calls into the cache do to its records *)

\* A function on 1..n into S is a sequence over S of length n.
LEMMA FunctionIsSeq ==
    ASSUME NEW S, NEW n \in Nat, NEW f \in [1..n -> S]
    PROVE  f \in Seq(S) /\ Len(f) = n
OBVIOUS

\* The cache as the lemmas below see it.
LEMMA CacheFacts ==
    ASSUME C!TypeOK
    PROVE  /\ entries \in Seq(Entry) /\ Len(entries) \in Nat
           /\ now \in Nat /\ refreshed \in 0..now
           /\ C!Positions = 1..Len(entries)
           /\ \A k \in 1..Len(entries) :
                /\ entries[k] \in Entry /\ entries[k].rr \in RRs
                /\ entries[k].ttl \in Nat /\ entries[k].expire \in Nat
<1>1. /\ entries \in Seq(Entry) /\ Len(entries) \in Nat
      /\ now \in Nat /\ refreshed \in 0..now /\ C!Positions = 1..Len(entries)
  BY LenProperties DEF C!TypeOK, Entry, C!Positions
<1>2. \A k \in 1..Len(entries) : entries[k] \in Entry
  BY <1>1, ElementOfSeq
<1>3. QED
  BY <1>1, <1>2 DEF Entry

\* A put adds no record but its own.
LEMMA PutEffect ==
    ASSUME C!TypeOK, NEW r \in RRs, NEW t \in Nat, C!cache_put_rr(r, t)
    PROVE  /\ C!TypeOK'
           /\ now' = now
           /\ \A k \in 1..Len(entries') :
                \/ entries'[k].rr = r
                \/ \E i \in 1..Len(entries) : entries'[k].rr = entries[i].rr
<1>1. now' = now /\ refreshed' = refreshed
  BY DEF C!cache_put_rr
<1>2. ASSUME NEW k \in C!Positions, entries' = C!MoveToFront(entries, k)
      PROVE  /\ entries' \in Seq(Entry) /\ Len(entries') = Len(entries)
             /\ \A i \in 1..Len(entries) : \E j \in 1..Len(entries) : entries'[i] = entries[j]
  <2>1. k \in 1..Len(entries) /\ Len(entries) \in Nat
    BY CacheFacts
  <2>2. \A i \in 1..Len(entries) : \E j \in 1..Len(entries) :
           entries'[i] = entries[j] /\ entries[j] \in Entry
    BY <1>2, <2>1, CacheFacts DEF C!MoveToFront
  <2>3. entries' \in [1..Len(entries) -> Entry]
    BY <1>2, <2>1, <2>2 DEF C!MoveToFront
  <2>4. QED
    BY <2>1, <2>2, <2>3, FunctionIsSeq
<1>3. ASSUME entries' = C!Prepend(C!create_cache_node(r, t), entries)
      PROVE  /\ entries' \in Seq(Entry) /\ Len(entries') = Len(entries) + 1
             /\ entries'[1].rr = r
             /\ \A i \in 2..Len(entries) + 1 : entries'[i] = entries[i - 1]
  <2> DEFINE e == C!create_cache_node(r, t)
  <2>1. e \in Entry /\ e.rr = r
    BY CacheFacts DEF C!create_cache_node, Entry
  <2> HIDE DEF e
  <2>2. entries' = [i \in 1..Len(entries) + 1 |-> IF i = 1 THEN e ELSE entries[i - 1]]
    BY <1>3 DEF C!Prepend, e
  <2>3. Len(entries) \in Nat /\ \A k \in 1..Len(entries) : entries[k] \in Entry
    BY CacheFacts
  <2>4. entries' \in [1..Len(entries) + 1 -> Entry]
    BY <2>1, <2>2, <2>3
  <2>5. entries' \in Seq(Entry) /\ Len(entries') = Len(entries) + 1
    BY <2>3, <2>4, FunctionIsSeq
  <2>6. QED
    BY <2>1, <2>2, <2>3, <2>5
<1>4. entries' \in Seq(Entry)
  BY <1>2, <1>3 DEF C!cache_put_rr
<1>5. \A k \in 1..Len(entries') :
         \/ entries'[k].rr = r
         \/ \E i \in 1..Len(entries) : entries'[k].rr = entries[i].rr
  <2>1. CASE \E k \in C!Positions : entries' = C!MoveToFront(entries, k)
    BY <1>2, <2>1
  <2>2. CASE entries' = C!Prepend(C!create_cache_node(r, t), entries)
    <3>1. Len(entries) \in Nat
      BY CacheFacts
    <3>2. \A k \in 1..Len(entries') : k = 1 \/ (k \in 2..Len(entries) + 1 /\ k - 1 \in 1..Len(entries))
      BY <1>3, <2>2, <3>1
    <3>3. QED
      BY <1>3, <2>2, <3>2
  <2>3. QED
    BY <2>1, <2>2 DEF C!cache_put_rr
<1>6. QED
  BY <1>1, <1>4, <1>5, CacheFacts DEF C!TypeOK, Entry

\* The timer adds no record.
LEMMA TimerEffect ==
    ASSUME C!TypeOK, C!refresh_cache \/ C!Tick
    PROVE  /\ C!TypeOK'
           /\ \A k \in 1..Len(entries') :
                \E i \in 1..Len(entries) : entries'[k].rr = entries[i].rr
<1>1. CASE C!Tick
  BY <1>1, CacheFacts DEF C!Tick, C!TypeOK, Entry
<1>2. CASE C!refresh_cache
  <2> DEFINE n == Cardinality(C!Kept)
  <2>1. PICK g \in C!Increasing(C!Kept) :
           entries' = [i \in 1..n |-> C!Aged(entries[g[i]])]
    BY <1>2, SameCardinality DEF C!refresh_cache
  <2>2. C!Kept \in SUBSET (1..Len(entries)) /\ Len(entries) \in Nat
    BY CacheFacts DEF C!Kept
  <2>3. n \in Nat
    <3>1. IsFiniteSet(1..Len(entries))
      BY <2>2, FS_Interval
    <3>2. QED
      BY <2>2, <3>1, FS_Subset, FS_CardinalityType
  <2>4. g \in [1..n -> C!Kept]
    BY SameCardinality DEF C!Increasing
  <2>5. \A i \in 1..n : g[i] \in 1..Len(entries) /\ entries[g[i]].expire > now
    BY <2>2, <2>4 DEF C!Kept, C!Live
  <2>6. \A k \in 1..Len(entries) : entries[k].expire > now =>
           C!Aged(entries[k]) \in Entry /\ C!Aged(entries[k]).rr = entries[k].rr
    <3> SUFFICES ASSUME NEW k \in 1..Len(entries), entries[k].expire > now
                 PROVE  C!Aged(entries[k]) \in Entry /\ C!Aged(entries[k]).rr = entries[k].rr
      OBVIOUS
    <3>1. entries[k].expire - now \in Nat
      BY CacheFacts
    <3>2. QED
      BY <3>1, CacheFacts DEF C!Aged, Entry
  <2> HIDE DEF n
  <2>7. entries' \in [1..n -> Entry]
    BY <2>1, <2>5, <2>6
  <2>8. entries' \in Seq(Entry) /\ Len(entries') = n
    BY <2>3, <2>7, FunctionIsSeq
  <2>9. \A k \in 1..n : \E i \in 1..Len(entries) : entries'[k].rr = entries[i].rr
    BY <2>1, <2>5, <2>6
  <2>10. now' = now /\ refreshed' = now
    BY <1>2 DEF C!refresh_cache
  <2>11. QED
    BY <2>8, <2>9, <2>10, CacheFacts DEF C!TypeOK, Entry
<1>3. QED
  BY <1>1, <1>2

\* What cache_find_rr copies are entries of the cache that match the key.
LEMMA FindEffect ==
    ASSUME C!TypeOK, NEW key, NEW found \in C!cache_find_rr(key)
    PROVE  /\ Len(found) \in Nat /\ DOMAIN found = 1..Len(found)
           /\ \A i \in 1..Len(found) :
                \E k \in 1..Len(entries) : found[i] = entries[k] /\ entries[k].rr.key = key
<1> DEFINE M == {k \in C!Positions : entries[k].rr.key = key}
           n == Cardinality(M)
<1>1. PICK g \in C!Increasing(M) : found = [i \in 1..n |-> entries[g[i]]]
  BY SameCardinality DEF C!cache_find_rr
<1>2. M \in SUBSET (1..Len(entries)) /\ Len(entries) \in Nat
  BY CacheFacts
<1>3. n \in Nat
  <2> HIDE DEF M
  <2>1. IsFiniteSet(1..Len(entries))
    BY <1>2, FS_Interval
  <2>2. QED
    BY <1>2, <2>1, FS_Subset, FS_CardinalityType
<1>4. g \in [1..n -> M]
  BY SameCardinality DEF C!Increasing
<1>5. \A i \in 1..n : g[i] \in 1..Len(entries) /\ entries[g[i]].rr.key = key
  BY <1>2, <1>4
<1> HIDE DEF M, n
<1>6. found \in [1..n -> Entry]
  BY <1>1, <1>5, CacheFacts
<1>7. Len(found) = n /\ found \in Seq(Entry)
  BY <1>3, <1>6, FunctionIsSeq
<1>8. QED
  BY <1>1, <1>3, <1>5, <1>6, <1>7

-----------------------------------------------------------------------------
(* The inductive invariant *)

\* The labels at which a worker has a query, and those of the loop over its
\* questions.
Asking == {"find", "reput", "select", "respond", "send", "await", "store", "forward"}
InLoop == {"find", "reput", "select"}
Outside == {"send", "await", "store", "forward"}

\* The query may go to the external server: it is no standard query, or has a
\* name that the relay database does not know.
External(q) ==
    q.opcode # "query" \/ \E k \in DOMAIN q.questions : select_database(q.questions[k]) = <<>>

Belongs(rec, q) == \E k \in DOMAIN q.questions : Answers(rec, q.questions[k])

WorkerOK(w) ==
    /\ pc[w] \in Asking => query[w] \in Queries
    /\ pc[w] \in InLoop => qi[w] \in DOMAIN query[w].questions
    /\ pc[w] \in {"reput", "store"} => todo[w] # <<>>
    /\ pc[w] = "reput" => \A i \in 1..Len(todo[w]) : granted[todo[w][i].rr] >= 0
    /\ pc[w] \in Outside => External(query[w])
    /\ pc[w] \in Asking /\ hdrId[w] # query[w].id =>
         pc[w] = "respond" /\ External(query[w])
    /\ pc[w] \in Asking =>
         \A i \in 1..AnCountMax : buf[w][i] # NoRR => Belongs(buf[w][i], query[w])
    /\ pc[w] \in {"idle", "sent"} => buf[w] = EmptyBuffer

\* What a reply must be, whichever worker sent it.
ReplyOK(r) ==
    r # NoReply =>
        /\ r.source = "local" => \A i \in DOMAIN r.answers : Belongs(r.answers[i], r.query)
        /\ r.id # r.query.id => r.source = "local" /\ External(r.query)

Inv == /\ TypeOK /\ CacheHoldsUpstreamOnly
       /\ \A w \in Workers : WorkerOK(w) /\ ReplyOK(reply[w])

\* A step of w leaves what the other workers hold as it was, and takes no grant
\* back.
OthersUntouched(w) ==
    /\ \A v \in Workers \ {w} :
         /\ pc'[v] = pc[v] /\ query'[v] = query[v] /\ qi'[v] = qi[v]
         /\ buf'[v] = buf[v] /\ todo'[v] = todo[v] /\ hdrId'[v] = hdrId[v]
         /\ reply'[v] = reply[v]
    /\ \A r \in RRs : granted[r] >= 0 => granted'[r] >= 0

\* So only what the step does to its own worker has to be looked at.
LEMMA StepOfOne ==
    ASSUME Inv, NEW w \in Workers, OthersUntouched(w),
           TypeOK', CacheHoldsUpstreamOnly', WorkerOK(w)', ReplyOK(reply[w])'
    PROVE  Inv'
<1> SUFFICES ASSUME NEW v \in Workers \ {w}
             PROVE  WorkerOK(v)' /\ ReplyOK(reply[v])'
  BY DEF Inv
<1>1. /\ pc'[v] = pc[v] /\ query'[v] = query[v] /\ qi'[v] = qi[v]
      /\ buf'[v] = buf[v] /\ todo'[v] = todo[v] /\ hdrId'[v] = hdrId[v]
      /\ reply'[v] = reply[v]
  BY DEF OthersUntouched
<1>2. WorkerOK(v) /\ ReplyOK(reply[v]) /\ todo[v] \in Seq(Record)
  BY DEF Inv, TypeOK
<1>3. \A i \in 1..Len(todo[v]) : todo[v][i].rr \in RRs
  <2>1. \A i \in 1..Len(todo[v]) : todo[v][i] \in Record
    BY <1>2, ElementOfSeq
  <2>2. QED
    BY <2>1 DEF Record
<1>4. pc[v] = "reput" => \A i \in 1..Len(todo[v]) : granted'[todo[v][i].rr] >= 0
  BY <1>2, <1>3 DEF WorkerOK, OthersUntouched
<1>5. WorkerOK(v)'
  BY <1>1, <1>2, <1>4 DEF WorkerOK, External, Belongs, EmptyBuffer
<1>6. ReplyOK(reply[v])'
  BY <1>1, <1>2 DEF ReplyOK, External, Belongs
<1>7. QED
  BY <1>5, <1>6

\* The cache part of the invariant, when the step leaves the cache alone.
LEMMA CacheUntouched ==
    ASSUME Inv, UNCHANGED cacheVars, UNCHANGED granted
    PROVE  C!TypeOK' /\ CacheHoldsUpstreamOnly'
BY DEF Inv, TypeOK, cacheVars, C!TypeOK, CacheHoldsUpstreamOnly, C!Positions

\* What the invariant says of the worker that takes the step.
LEMMA OwnFacts ==
    ASSUME Inv, NEW w \in Workers
    PROVE  /\ TypeOK /\ C!TypeOK /\ WorkerOK(w) /\ ReplyOK(reply[w])
           /\ query[w] \in Queries \cup {NoReply}
           /\ qi[w] \in Nat /\ ansCnt[w] \in Nat
           /\ buf[w] \in [1..AnCountMax -> Record \cup {NoRR}]
           /\ todo[w] \in Seq(Record) /\ ans[w] \in Seq(Record)
           /\ hdrId[w] \in Ids \cup {0} /\ newId[w] \in Ids \cup {0}
           /\ reply[w] \in Replies \cup {NoReply}
BY DEF Inv, TypeOK

\* The question of a worker in the loop is a key of the relay database.
LEMMA QuestionIsKey ==
    ASSUME Inv, NEW w \in Workers, pc[w] \in InLoop
    PROVE  /\ query[w] \in Queries /\ query[w].questions \in Seq(Keys)
           /\ qi[w] \in 1..Len(query[w].questions)
           /\ Len(query[w].questions) \in Nat
           /\ DOMAIN query[w].questions = 1..Len(query[w].questions)
           /\ Question(w) \in Keys
<1>1. query[w] \in Queries /\ qi[w] \in DOMAIN query[w].questions
  BY DEF Inv, WorkerOK, Asking, InLoop
<1>2. query[w].questions \in Seq(Keys)
  BY <1>1, Constants
<1>3. QED
  BY <1>1, <1>2, LenProperties, ElementOfSeq DEF Question

-----------------------------------------------------------------------------
(* One lemma for each action *)

\* A new query finds an empty buffer, and the id of the header is its own.
LEMMA ReceiveQueryStep ==
    ASSUME Inv, NEW w \in Workers, NEW q \in Queries, ReceiveQuery(w, q)
    PROVE  Inv'
<1>1. /\ pc[w] = "idle" /\ query' = [query EXCEPT ![w] = q]
      /\ hdrId' = [hdrId EXCEPT ![w] = q.id] /\ qi' = [qi EXCEPT ![w] = 1]
      /\ \E l \in {"send", "respond", "find"} : pc' = [pc EXCEPT ![w] = l]
      /\ UNCHANGED <<cacheVars, buf, ansCnt, todo, ans, newId, reply, granted>>
  BY DEF ReceiveQuery, Goto
<1>2. q.id \in Ids /\ q.questions \in Seq(Keys)
  BY Constants
<1>3. TypeOK'
  BY <1>1, <1>2, CacheUntouched, OwnFacts DEF TypeOK
<1>4. OthersUntouched(w)
  BY <1>1, OwnFacts DEF TypeOK, OthersUntouched
<1>5. /\ pc'[w] \in {"send", "respond", "find"} /\ query'[w] = q
      /\ hdrId'[w] = q.id /\ qi'[w] = 1 /\ buf'[w] = EmptyBuffer
      /\ pc'[w] = "send" => q.opcode # "query"
      /\ pc'[w] = "find" => q.questions # <<>>
  BY <1>1, OwnFacts DEF TypeOK, ReceiveQuery, Goto, WorkerOK
<1>6. pc'[w] = "find" => 1 \in DOMAIN q.questions
  BY <1>2, <1>5, EmptySeq, LenProperties
<1>7. \A i \in 1..AnCountMax : buf'[w][i] = NoRR
  BY <1>5 DEF EmptyBuffer
<1>8. WorkerOK(w)'
  BY <1>5, <1>6, <1>7 DEF WorkerOK, Asking, InLoop, Outside, External
<1>9. ReplyOK(reply[w])'
  BY <1>1, OwnFacts DEF ReplyOK, External, Belongs
<1>10. QED
  BY <1>1, <1>3, <1>4, <1>8, <1>9, CacheUntouched, StepOfOne

\* All workers end: none of them has a query any more.
LEMMA AllDie ==
    ASSUME Inv, pc' = [v \in Workers |-> "dead"],
           UNCHANGED <<cacheVars, query, qi, buf, ansCnt, todo, ans, hdrId, newId, granted>>,
           reply' \in [Workers -> Replies \cup {NoReply}],
           \A v \in Workers : ReplyOK(reply'[v])
    PROVE  Inv'
<1>1. C!TypeOK' /\ CacheHoldsUpstreamOnly'
  BY CacheUntouched
<1>2. TypeOK'
  BY <1>1 DEF Inv, TypeOK
<1>3. \A v \in Workers : WorkerOK(v)'
  BY DEF WorkerOK, Asking, InLoop, Outside
<1>4. QED
  BY <1>1, <1>2, <1>3 DEF Inv, ReplyOK, External, Belongs

\* A reply that is followed by the end of the process is one like the others.
LEMMA ReplyAndAbortStep ==
    ASSUME Inv, NEW w \in Workers, pc[w] \in {"find", "respond"},
           NEW answers \in Seq(Record \cup {NoRR}), ReplyAndAbort(w, answers),
           \A i \in DOMAIN answers : Belongs(answers[i], query[w])
    PROVE  Inv'
<1> DEFINE r == [query |-> query[w], id |-> hdrId[w], source |-> "local", answers |-> answers]
<1>1. /\ query[w] \in Queries
      /\ hdrId[w] # query[w].id => External(query[w])
  BY OwnFacts DEF WorkerOK, Asking
<1>2. r \in Replies
  BY <1>1, OwnFacts DEF Replies
<1>3. ReplyOK(r)
  BY <1>1 DEF ReplyOK
<1>4. /\ pc' = [v \in Workers |-> "dead"] /\ reply' = [reply EXCEPT ![w] = r]
      /\ UNCHANGED <<cacheVars, query, qi, buf, ansCnt, todo, ans, hdrId, newId, granted>>
  BY DEF ReplyAndAbort
<1> HIDE DEF r
<1>5. /\ reply' \in [Workers -> Replies \cup {NoReply}]
      /\ \A v \in Workers : ReplyOK(reply'[v])
  BY <1>2, <1>3, <1>4 DEF Inv, TypeOK
<1>6. QED
  BY <1>4, <1>5, AllDie

\* The answer to a bad name has no records.
LEMMA BadQuestionStep ==
    ASSUME Inv, NEW w \in Workers, BadQuestion(w)
    PROVE  Inv'
<1>1. pc[w] = "find" /\ ReplyAndAbort(w, <<>>)
  BY DEF BadQuestion
<1>2. <<>> \in Seq(Record \cup {NoRR}) /\ DOMAIN <<>> = {}
  OBVIOUS
<1>3. QED
  BY <1>1, <1>2, ReplyAndAbortStep

\* The process ends over an empty slot: nothing is sent.
LEMMA SerialiseEmptySlotStep ==
    ASSUME Inv, NEW w \in Workers, SerialiseEmptySlot(w)
    PROVE  Inv'
<1>1. /\ pc' = [v \in Workers |-> "dead"] /\ reply' = reply
      /\ UNCHANGED <<cacheVars, query, qi, buf, ansCnt, todo, ans, hdrId, newId, granted>>
  BY DEF SerialiseEmptySlot
<1>2. /\ reply' \in [Workers -> Replies \cup {NoReply}]
      /\ \A v \in Workers : ReplyOK(reply'[v])
  BY <1>1 DEF Inv, TypeOK
<1>3. QED
  BY <1>1, <1>2, AllDie

\* A step that moves its worker, and may choose the new id, but nothing more.
LEMMA OnlyMoves ==
    ASSUME Inv, NEW w \in Workers,
           NEW l \in {"select", "send", "await", "respond", "dead"},
           pc' = [pc EXCEPT ![w] = l],
           newId' \in [Workers -> Ids \cup {0}],
           UNCHANGED <<cacheVars, query, qi, buf, ansCnt, todo, ans, hdrId, reply, granted>>,
           l # "dead" => pc[w] \in Asking,
           l = "select" => pc[w] \in InLoop,
           l \in {"send", "await"} => External(query[w]) /\ pc[w] # "respond",
           l = "respond" => pc[w] \in {"send", "await"}
    PROVE  Inv'
<1>1. TypeOK'
  BY CacheUntouched, OwnFacts DEF TypeOK
<1>2. OthersUntouched(w)
  BY OwnFacts DEF TypeOK, OthersUntouched
<1>3. pc'[w] = l /\ WorkerOK(w)
  BY OwnFacts DEF TypeOK
<1>4. WorkerOK(w)'
  BY <1>3 DEF WorkerOK, Asking, InLoop, Outside, External, Belongs
<1>5. ReplyOK(reply[w])'
  BY OwnFacts DEF ReplyOK, External, Belongs
<1>6. QED
  BY <1>1, <1>2, <1>4, <1>5, CacheUntouched, StepOfOne

\* The name is in the cache neither, so the relay database is looked at.
LEMMA FindMissStep ==
    ASSUME Inv, NEW w \in Workers, FindMiss(w)
    PROVE  Inv'
BY OnlyMoves DEF FindMiss, Goto, Asking, InLoop, Inv, TypeOK

\* Only a question without a record leads outside.
LEMMA SelectNoneStep ==
    ASSUME Inv, NEW w \in Workers, SelectNone(w)
    PROVE  Inv'
<1>1. pc[w] = "select" /\ External(query[w])
  BY QuestionIsKey DEF SelectNone, External, Question, InLoop
<1>2. /\ pc' = [pc EXCEPT ![w] = "send"]
      /\ newId' \in [Workers -> Ids \cup {0}]
      /\ UNCHANGED <<cacheVars, query, qi, buf, ansCnt, todo, ans, hdrId, reply, granted>>
  BY DEF SelectNone, Goto, Inv, TypeOK
<1>3. QED
  BY <1>1, <1>2, OnlyMoves DEF Asking

\* The worker ends without a socket.
LEMMA NoSocketStep ==
    ASSUME Inv, NEW w \in Workers, NoSocket(w)
    PROVE  Inv'
BY OnlyMoves DEF NoSocket, Goto, Inv, TypeOK

\* Without the timeout nothing is sent, and the worker answers with what it has.
LEMMA NoTimeoutOptionStep ==
    ASSUME Inv, NEW w \in Workers, NoTimeoutOption(w)
    PROVE  Inv'
BY OnlyMoves DEF NoTimeoutOption, Goto, Inv, TypeOK, Asking

\* The question goes out under a new id.
LEMMA SendQuestionStep ==
    ASSUME Inv, NEW w \in Workers, SendQuestion(w)
    PROVE  Inv'
<1>1. pc[w] = "send" /\ External(query[w])
  BY OwnFacts DEF SendQuestion, WorkerOK, Outside
<1>2. /\ pc' = [pc EXCEPT ![w] = "await"]
      /\ newId' \in [Workers -> Ids \cup {0}]
      /\ UNCHANGED <<cacheVars, query, qi, buf, ansCnt, todo, ans, hdrId, reply, granted>>
  BY DEF SendQuestion, Goto, Inv, TypeOK
<1>3. QED
  BY <1>1, <1>2, OnlyMoves DEF Asking

\* The worker answers with what it has found before it asked.
LEMMA NoAnswerStep ==
    ASSUME Inv, NEW w \in Workers, NoAnswer(w)
    PROVE  Inv'
BY OnlyMoves DEF NoAnswer, Goto, Inv, TypeOK, Asking

\* The id of the header is a foreign one, but the query was asked outside.
LEMMA RefusedAnswerStep ==
    ASSUME Inv, NEW w \in Workers, NEW id \in Ids, RefusedAnswer(w, id)
    PROVE  Inv'
<1>1. /\ pc[w] = "await" /\ hdrId' = [hdrId EXCEPT ![w] = id]
      /\ pc' = [pc EXCEPT ![w] = "respond"]
      /\ UNCHANGED <<cacheVars, query, qi, buf, ansCnt, todo, ans, newId, reply, granted>>
  BY DEF RefusedAnswer, Goto
<1>2. TypeOK'
  BY <1>1, CacheUntouched, OwnFacts DEF TypeOK
<1>3. OthersUntouched(w)
  BY <1>1, OwnFacts DEF TypeOK, OthersUntouched
<1>4. pc'[w] = "respond" /\ WorkerOK(w)
  BY <1>1, OwnFacts DEF TypeOK
<1>5. WorkerOK(w)'
  BY <1>1, <1>4 DEF WorkerOK, Asking, InLoop, Outside, External, Belongs
<1>6. ReplyOK(reply[w])'
  BY <1>1, OwnFacts DEF ReplyOK, External, Belongs
<1>7. QED
  BY <1>1, <1>2, <1>3, <1>5, <1>6, CacheUntouched, StepOfOne

\* What is found answers the question, and comes from the cache.
LEMMA FindHitEffect ==
    ASSUME Inv, NEW w \in Workers, FindHit(w)
    PROVE  \E n \in Nat \ {0} : \E recs \in [1..n -> Record] :
             /\ todo' = [todo EXCEPT ![w] = recs]
             /\ buf' = [buf EXCEPT ![w] = CopyTo(buf[w], recs)]
             /\ ansCnt' = [ansCnt EXCEPT ![w] = ansCnt[w] + n]
             /\ \A i \in 1..n : FromUpstream(recs[i], Question(w))
<1>1. PICK found \in C!cache_find_rr(Question(w)) :
        /\ found # <<>>
        /\ todo' = [todo EXCEPT ![w] = [i \in DOMAIN found |->
                                        [rr |-> found[i].rr, ttl |-> found[i].ttl]]]
        /\ buf' = [buf EXCEPT ![w] = CopyTo(buf[w], todo'[w])]
        /\ ansCnt' = [ansCnt EXCEPT ![w] = ansCnt[w] + Len(found)]
  BY DEF FindHit
<1> DEFINE n == Len(found)
           recs == [i \in 1..n |-> [rr |-> found[i].rr, ttl |-> found[i].ttl]]
           key == Question(w)
<1>2. C!TypeOK /\ n \in Nat /\ DOMAIN found = 1..n
  BY OwnFacts, FindEffect
<1>3. n # 0
  BY <1>1, <1>2
<1>4. \A i \in 1..n : \E k \in 1..Len(entries) :
         found[i] = entries[k] /\ entries[k].rr.key = key
  BY <1>2, FindEffect
<1>5. \A i \in 1..n : /\ found[i].rr \in RRs /\ found[i].ttl \in Nat
                      /\ found[i].rr.key = key /\ granted[found[i].rr] >= 0
  BY <1>2, <1>4, CacheFacts DEF Inv, CacheHoldsUpstreamOnly
<1>6. ansCnt' = [ansCnt EXCEPT ![w] = ansCnt[w] + n]
  BY <1>1
<1> HIDE DEF n
<1>7. \A i \in 1..n : recs[i] \in Record /\ FromUpstream(recs[i], key)
  BY <1>5 DEF Record, FromUpstream
<1>8. recs \in [1..n -> Record]
  BY <1>7
<1>9. todo' = [todo EXCEPT ![w] = recs]
  BY <1>1, <1>2
<1> HIDE DEF recs
<1>10. todo'[w] = recs
  BY <1>9, OwnFacts DEF TypeOK
<1>11. buf' = [buf EXCEPT ![w] = CopyTo(buf[w], recs)]
  BY <1>1, <1>10
<1>12. QED
  BY <1>2, <1>3, <1>6, <1>7, <1>8, <1>9, <1>11

\* So the buffer holds what belongs to the query, and the records to be put again
\* are ones upstream gave.
LEMMA FindHitStep ==
    ASSUME Inv, NEW w \in Workers, FindHit(w)
    PROVE  Inv'
<1>1. PICK n \in Nat \ {0} : \E recs \in [1..n -> Record] :
        /\ todo' = [todo EXCEPT ![w] = recs]
        /\ buf' = [buf EXCEPT ![w] = CopyTo(buf[w], recs)]
        /\ ansCnt' = [ansCnt EXCEPT ![w] = ansCnt[w] + n]
        /\ \A i \in 1..n : FromUpstream(recs[i], Question(w))
  BY FindHitEffect
<1>3. PICK recs \in [1..n -> Record] :
        /\ todo' = [todo EXCEPT ![w] = recs]
        /\ buf' = [buf EXCEPT ![w] = CopyTo(buf[w], recs)]
        /\ ansCnt' = [ansCnt EXCEPT ![w] = ansCnt[w] + n]
        /\ \A i \in 1..n : FromUpstream(recs[i], Question(w))
  BY <1>1
<1>2. /\ pc[w] = "find" /\ pc' = [pc EXCEPT ![w] = "reput"]
      /\ UNCHANGED <<cacheVars, query, qi, ans, hdrId, newId, reply, granted>>
  BY DEF FindHit, Goto
<1>4. n \in Nat /\ n # 0
  OBVIOUS
<1>7. \A i \in 1..n : /\ recs[i] \in Record /\ recs[i].rr.key = Question(w)
                      /\ granted[recs[i].rr] >= 0
  BY <1>3 DEF FromUpstream
<1>10. recs \in Seq(Record) /\ Len(recs) = n
  BY FunctionIsSeq
<1>11. todo'[w] = recs
  BY <1>3, OwnFacts DEF TypeOK
<1> DEFINE b == CopyTo(buf[w], recs)
<1>12. /\ b \in [1..AnCountMax -> Record \cup {NoRR}]
       /\ \A i \in 1..AnCountMax : b[i] = buf[w][i] \/ (i \in 1..n /\ b[i] = recs[i])
  BY <1>4, <1>7, <1>10, OwnFacts, Constants DEF CopyTo
<1>13. buf' = [buf EXCEPT ![w] = b]
  BY <1>3
<1> HIDE DEF b
<1>14. TypeOK'
  <2>1. C!TypeOK'
    BY <1>2, CacheUntouched
  <2>2. ansCnt' \in [Workers -> Nat]
    BY <1>3, <1>4, OwnFacts DEF TypeOK
  <2>3. QED
    BY <1>2, <1>3, <1>10, <1>12, <1>13, <2>1, <2>2, OwnFacts DEF TypeOK
<1>15. OthersUntouched(w)
  BY <1>2, <1>3, <1>13, OwnFacts DEF TypeOK, OthersUntouched
<1>16. pc'[w] = "reput" /\ buf'[w] = b /\ WorkerOK(w)
  BY <1>2, <1>13, OwnFacts DEF TypeOK
<1>17. \A i \in 1..AnCountMax : b[i] # NoRR => Belongs(b[i], query[w])
  <2>1. \A i \in 1..AnCountMax : buf[w][i] # NoRR => Belongs(buf[w][i], query[w])
    BY <1>2, <1>16 DEF WorkerOK, Asking
  <2>2. \A i \in 1..n : Belongs(recs[i], query[w])
    BY <1>2, <1>7, QuestionIsKey DEF Belongs, Answers, Question, InLoop
  <2>3. QED
    BY <1>12, <2>1, <2>2
<1>18. todo'[w] # <<>>
  BY <1>4, <1>10, <1>11
<1>19. WorkerOK(w)'
  <2>1. /\ (pc[w] \in Asking => query[w] \in Queries)'
        /\ (pc[w] \in InLoop => qi[w] \in DOMAIN query[w].questions)'
        /\ hdrId'[w] = query'[w].id
    BY <1>2, <1>16 DEF WorkerOK, Asking, InLoop
  <2>2. \A i \in 1..Len(todo'[w]) : granted'[todo'[w][i].rr] >= 0
    BY <1>2, <1>7, <1>10, <1>11
  <2>3. \A i \in 1..AnCountMax : buf'[w][i] # NoRR => Belongs(buf'[w][i], query'[w])
    BY <1>2, <1>16, <1>17
  <2>4. QED
    BY <1>16, <1>18, <2>1, <2>2, <2>3 DEF WorkerOK, Asking, InLoop, Outside, Belongs
<1>20. ReplyOK(reply[w])'
  BY <1>2, OwnFacts DEF ReplyOK, External, Belongs
<1>21. QED
  BY <1>2, <1>14, <1>15, <1>19, <1>20, CacheUntouched, StepOfOne

\* The loop goes on with a question that is there, or the worker responds.
LEMMA NextQuestionEffect ==
    ASSUME Inv, NEW w \in Workers, pc[w] \in InLoop, NextQuestion(w)
    PROVE  /\ \E l \in {"find", "respond"} : pc' = [pc EXCEPT ![w] = l]
           /\ qi' = [qi EXCEPT ![w] = qi[w] + 1]
           /\ pc'[w] = "find" => qi'[w] \in DOMAIN query[w].questions
<1>1. pc'[w] = IF qi[w] = Len(query[w].questions) THEN "respond" ELSE "find"
  BY DEF NextQuestion, Goto, Inv, TypeOK
<1>2. qi'[w] = qi[w] + 1
  BY DEF NextQuestion, Inv, TypeOK
<1>3. pc'[w] = "find" => qi'[w] \in DOMAIN query[w].questions
  BY <1>1, <1>2, QuestionIsKey
<1>4. QED
  BY <1>3 DEF NextQuestion, Goto

\* The record put into the cache was found there, so upstream gave it.
LEMMA PutFoundStep ==
    ASSUME Inv, NEW w \in Workers, PutFound(w)
    PROVE  Inv'
<1> DEFINE r == Head(todo[w])
<1>1. /\ pc[w] = "reput" /\ C!cache_put_rr(r.rr, r.ttl)
      /\ todo' = [todo EXCEPT ![w] = Tail(todo[w])]
      /\ UNCHANGED <<query, buf, ansCnt, ans, hdrId, newId, reply, granted>>
  BY DEF PutFound
<1>2. /\ WorkerOK(w) /\ todo[w] # <<>> /\ todo[w] \in Seq(Record)
      /\ \A i \in 1..Len(todo[w]) : granted[todo[w][i].rr] >= 0
  BY <1>1, OwnFacts DEF WorkerOK
<1>3. r \in Record /\ r = todo[w][1] /\ Len(todo[w]) \in Nat /\ Len(todo[w]) >= 1
  BY <1>2, HeadTailProperties, EmptySeq, LenProperties
<1>4. /\ Tail(todo[w]) \in Seq(Record) /\ Len(Tail(todo[w])) = Len(todo[w]) - 1
      /\ \A i \in 1..Len(Tail(todo[w])) : Tail(todo[w])[i] = todo[w][i + 1]
  BY <1>2, <1>3, HeadTailProperties
<1>5. r.rr \in RRs /\ r.ttl \in Nat /\ granted[r.rr] >= 0
  BY <1>2, <1>3 DEF Record
<1> HIDE DEF r
<1>6. /\ C!TypeOK'
      /\ \A k \in 1..Len(entries') :
           \/ entries'[k].rr = r.rr
           \/ \E i \in 1..Len(entries) : entries'[k].rr = entries[i].rr
  BY <1>1, <1>5, OwnFacts, PutEffect
<1>7. CacheHoldsUpstreamOnly'
  <2>1. \A i \in 1..Len(entries) : granted[entries[i].rr] >= 0
    BY OwnFacts, CacheFacts DEF Inv, CacheHoldsUpstreamOnly
  <2>2. \A k \in 1..Len(entries') : granted'[entries'[k].rr] >= 0
    BY <1>1, <1>5, <1>6, <2>1
  <2>3. QED
    BY <2>2 DEF CacheHoldsUpstreamOnly, C!Positions
<1>8. /\ pc' \in [Workers -> {"find", "respond", "reput"} \cup {pc[v] : v \in Workers}]
      /\ qi' \in [Workers -> Nat]
      /\ \A v \in Workers \ {w} : pc'[v] = pc[v] /\ qi'[v] = qi[v]
      /\ pc'[w] \in {"find", "respond", "reput"}
      /\ pc'[w] \in {"find", "reput"} => qi'[w] \in DOMAIN query[w].questions
      /\ pc'[w] = "reput" => Len(todo[w]) # 1
  <2>1. CASE Len(todo[w]) = 1
    <3>1. NextQuestion(w)
      BY <2>1 DEF PutFound
    <3>2. PICK l \in {"find", "respond"} : pc' = [pc EXCEPT ![w] = l]
      BY <1>1, <3>1, NextQuestionEffect DEF InLoop
    <3>3. /\ qi' = [qi EXCEPT ![w] = qi[w] + 1]
          /\ pc'[w] = "find" => qi'[w] \in DOMAIN query[w].questions
      BY <1>1, <3>1, NextQuestionEffect DEF InLoop
    <3>4. pc \in [Workers -> {pc[v] : v \in Workers}] /\ qi \in [Workers -> Nat] /\ pc'[w] = l
      BY <3>2 DEF Inv, TypeOK
    <3>5. QED
      BY <3>2, <3>3, <3>4
  <2>2. CASE Len(todo[w]) # 1
    <3>1. pc' = pc /\ qi' = qi
      BY <2>2 DEF PutFound
    <3>2. pc \in [Workers -> {pc[v] : v \in Workers}] /\ qi \in [Workers -> Nat]
      BY DEF Inv, TypeOK
    <3>3. QED
      BY <1>1, <1>2, <2>2, <3>1, <3>2 DEF WorkerOK, InLoop
  <2>3. QED
    BY <2>1, <2>2
<1>9. TypeOK'
  BY <1>1, <1>4, <1>6, <1>8, OwnFacts DEF TypeOK
<1>10. OthersUntouched(w)
  BY <1>1, <1>8, OwnFacts DEF TypeOK, OthersUntouched
<1>11. todo'[w] = Tail(todo[w])
  BY <1>1, OwnFacts DEF TypeOK
<1>12. pc'[w] = "reput" => todo'[w] # <<>>
  <2>1. pc'[w] = "reput" => Len(todo'[w]) # 0
    BY <1>3, <1>4, <1>8, <1>11
  <2>2. QED
    BY <2>1, EmptySeq
<1>13. \A i \in 1..Len(todo'[w]) : granted'[todo'[w][i].rr] >= 0
  BY <1>1, <1>2, <1>3, <1>4, <1>11
<1>14. /\ query[w] \in Queries /\ hdrId[w] = query[w].id
       /\ \A i \in 1..AnCountMax : buf[w][i] # NoRR => Belongs(buf[w][i], query[w])
  BY <1>1, <1>2 DEF WorkerOK, Asking
<1>15. WorkerOK(w)'
  BY <1>1, <1>8, <1>12, <1>13, <1>14 DEF WorkerOK, Asking, InLoop, Outside, Belongs
<1>16. ReplyOK(reply[w])'
  BY <1>1, OwnFacts DEF ReplyOK, External, Belongs
<1>17. QED
  BY <1>7, <1>9, <1>10, <1>15, <1>16, StepOfOne

\* The records of the relay database answer the question, blocked or not.
LEMMA SelectFoundStep ==
    ASSUME Inv, NEW w \in Workers, SelectFound(w)
    PROVE  Inv'
<1> DEFINE recs == select_database(Question(w))
           blocked == {i \in DOMAIN recs : check_blocked(recs[i])}
           freed == {i \in blocked : \A k \in blocked : i <= k}
           b == [i \in 1..AnCountMax |->
                  IF i \in freed THEN NoRR ELSE CopyTo(buf[w], recs)[i]]
           n == IF blocked = {} THEN Len(recs) ELSE 0
<1>1. /\ pc[w] = "select" /\ buf' = [buf EXCEPT ![w] = b]
      /\ ansCnt' = [ansCnt EXCEPT ![w] = n] /\ NextQuestion(w)
      /\ UNCHANGED <<cacheVars, query, todo, ans, hdrId, newId, reply, granted>>
  BY DEF SelectFound
<1>2. Question(w) \in Keys /\ query[w].questions[qi[w]] = Question(w)
      /\ qi[w] \in DOMAIN query[w].questions
  BY <1>1, QuestionIsKey DEF InLoop, Question
<1>3. recs \in Seq(Record) /\ \A i \in DOMAIN recs : Answers(recs[i], Question(w))
  BY <1>2, Constants DEF Answers
<1>4. Len(recs) \in Nat /\ DOMAIN recs = 1..Len(recs)
  BY <1>3, LenProperties
<1>5. \A i \in 1..Len(recs) : recs[i] \in Record
  BY <1>3, ElementOfSeq
<1> HIDE DEF recs
<1>6. \A i \in 1..AnCountMax :
         b[i] = NoRR \/ b[i] = buf[w][i] \/ (i \in 1..Len(recs) /\ b[i] = recs[i])
  BY <1>4, Constants DEF CopyTo
<1>7. n \in Nat
  BY <1>4
<1>8. b \in [1..AnCountMax -> Record \cup {NoRR}]
  BY <1>5, <1>6, OwnFacts
<1> HIDE DEF b, n, blocked, freed
<1>9. WorkerOK(w) /\ buf'[w] = b
  BY <1>1, OwnFacts DEF TypeOK
<1>10. \A i \in 1..AnCountMax : b[i] # NoRR => Belongs(b[i], query[w])
  <2>1. \A i \in 1..AnCountMax : buf[w][i] # NoRR => Belongs(buf[w][i], query[w])
    BY <1>1, <1>9 DEF WorkerOK, Asking
  <2>2. \A i \in 1..Len(recs) : Belongs(recs[i], query[w])
    BY <1>2, <1>3, <1>4 DEF Belongs
  <2>3. QED
    BY <1>6, <2>1, <2>2
<1>11. /\ \E l \in {"find", "respond"} : pc' = [pc EXCEPT ![w] = l]
       /\ qi' = [qi EXCEPT ![w] = qi[w] + 1]
       /\ pc'[w] = "find" => qi'[w] \in DOMAIN query[w].questions
  BY <1>1, NextQuestionEffect DEF InLoop
<1>12. pc'[w] \in {"find", "respond"}
  BY <1>11, OwnFacts DEF TypeOK
<1>13. TypeOK'
  <2>1. C!TypeOK'
    BY <1>1, CacheUntouched
  <2>2. /\ buf' \in [Workers -> [1..AnCountMax -> Record \cup {NoRR}]]
        /\ ansCnt' \in [Workers -> Nat] /\ qi' \in [Workers -> Nat]
    BY <1>1, <1>7, <1>8, <1>11, OwnFacts DEF TypeOK
  <2>3. QED
    BY <1>1, <1>11, <2>1, <2>2, OwnFacts DEF TypeOK
<1>14. OthersUntouched(w)
  BY <1>1, <1>11, OwnFacts DEF TypeOK, OthersUntouched
<1>15. query[w] \in Queries /\ hdrId[w] = query[w].id
  BY <1>1, <1>9 DEF WorkerOK, Asking
<1>16. WorkerOK(w)'
  BY <1>1, <1>9, <1>10, <1>11, <1>12, <1>15
    DEF WorkerOK, Asking, InLoop, Outside, Belongs
<1>17. ReplyOK(reply[w])'
  BY <1>1, OwnFacts DEF ReplyOK, External, Belongs
<1>18. QED
  BY <1>1, <1>13, <1>14, <1>16, <1>17, CacheUntouched, StepOfOne

\* An answer is taken with the id of the query put back.
LEMMA AnswerStep ==
    ASSUME Inv, NEW w \in Workers, Answer(w)
    PROVE  Inv'
<1>1. PICK a \in AnswersTo(query[w]) :
         /\ ans' = [ans EXCEPT ![w] = a] /\ todo' = [todo EXCEPT ![w] = a]
         /\ pc' = [pc EXCEPT ![w] = IF a = <<>> THEN "forward" ELSE "store"]
  BY DEF Answer, Goto
<1>2. /\ pc[w] = "await" /\ hdrId' = [hdrId EXCEPT ![w] = query[w].id]
      /\ UNCHANGED <<cacheVars, query, qi, buf, ansCnt, newId, reply, granted>>
  BY DEF Answer, RestoredId
<1>3. /\ WorkerOK(w) /\ query[w] \in Queries /\ External(query[w])
      /\ \A i \in 1..AnCountMax : buf[w][i] # NoRR => Belongs(buf[w][i], query[w])
  BY <1>2, OwnFacts DEF WorkerOK, Asking, Outside
<1>4. query[w].id \in Ids /\ query[w].questions \in Seq(Keys)
  BY <1>3, Constants
<1>5. a \in Seq(Record)
  <2>1. \A i \in DOMAIN query[w].questions : query[w].questions[i] \in Keys
    BY <1>4, LenProperties, ElementOfSeq
  <2>2. CASE a = <<>>
    BY <2>2
  <2>3. CASE \E i \in DOMAIN query[w].questions : a \in Upstream[query[w].questions[i]]
    BY <2>1, <2>3, Constants
  <2>4. QED
    BY <1>1, <2>2, <2>3 DEF AnswersTo
<1>6. /\ pc'[w] \in {"forward", "store"} /\ todo'[w] = a /\ hdrId'[w] = query[w].id
      /\ pc'[w] = "store" => a # <<>>
  BY <1>1, <1>2, OwnFacts DEF TypeOK
<1>7. TypeOK'
  <2>1. C!TypeOK'
    BY <1>2, CacheUntouched
  <2>2. QED
    BY <1>1, <1>2, <1>4, <1>5, <2>1, OwnFacts DEF TypeOK
<1>8. OthersUntouched(w)
  BY <1>1, <1>2, OwnFacts DEF TypeOK, OthersUntouched
<1>9. WorkerOK(w)'
  BY <1>2, <1>3, <1>6 DEF WorkerOK, Asking, InLoop, Outside, External, Belongs
<1>10. ReplyOK(reply[w])'
  BY <1>2, OwnFacts DEF ReplyOK, External, Belongs
<1>11. QED
  BY <1>2, <1>7, <1>8, <1>9, <1>10, CacheUntouched, StepOfOne

\* The record put into the cache is one upstream has just given.
LEMMA PutAnswerStep ==
    ASSUME Inv, NEW w \in Workers, PutAnswer(w)
    PROVE  Inv'
<1> DEFINE r == Head(todo[w])
           until == Later(granted[r.rr], now + r.ttl)
<1>1. /\ pc[w] = "store" /\ C!cache_put_rr(r.rr, r.ttl)
      /\ todo' = [todo EXCEPT ![w] = Tail(todo[w])]
      /\ granted' = [granted EXCEPT ![r.rr] = until]
      /\ pc' = [pc EXCEPT ![w] = IF Len(todo[w]) = 1 THEN "forward" ELSE "store"]
      /\ UNCHANGED <<query, qi, buf, ansCnt, ans, hdrId, newId, reply>>
  BY DEF PutAnswer, Goto
<1>2. /\ WorkerOK(w) /\ todo[w] # <<>> /\ todo[w] \in Seq(Record)
      /\ query[w] \in Queries /\ External(query[w]) /\ hdrId[w] = query[w].id
      /\ \A i \in 1..AnCountMax : buf[w][i] # NoRR => Belongs(buf[w][i], query[w])
  BY <1>1, OwnFacts DEF WorkerOK, Asking, Outside
<1>3. r \in Record /\ Len(todo[w]) \in Nat /\ Len(todo[w]) >= 1
      /\ Tail(todo[w]) \in Seq(Record) /\ Len(Tail(todo[w])) = Len(todo[w]) - 1
  BY <1>2, HeadTailProperties, EmptySeq, LenProperties
<1>4. r.rr \in RRs /\ r.ttl \in Nat
  BY <1>3 DEF Record
<1> HIDE DEF r
<1>5. now \in Nat /\ granted \in [RRs -> Nat \cup {-1}]
  BY OwnFacts, CacheFacts DEF TypeOK
<1>6. until \in Nat
  BY <1>4, <1>5 DEF Later
<1> HIDE DEF until
<1>7. /\ granted' \in [RRs -> Nat \cup {-1}] /\ granted'[r.rr] >= 0
      /\ \A s \in RRs : granted[s] >= 0 => granted'[s] >= 0
  BY <1>1, <1>4, <1>5, <1>6
<1>8. /\ C!TypeOK'
      /\ \A k \in 1..Len(entries') :
           \/ entries'[k].rr = r.rr
           \/ \E i \in 1..Len(entries) : entries'[k].rr = entries[i].rr
  BY <1>1, <1>4, OwnFacts, PutEffect
<1>9. CacheHoldsUpstreamOnly'
  <2>1. \A i \in 1..Len(entries) : entries[i].rr \in RRs /\ granted[entries[i].rr] >= 0
    BY OwnFacts, CacheFacts DEF Inv, CacheHoldsUpstreamOnly
  <2>2. \A k \in 1..Len(entries') : granted'[entries'[k].rr] >= 0
    BY <1>7, <1>8, <2>1
  <2>3. QED
    BY <2>2 DEF CacheHoldsUpstreamOnly, C!Positions
<1>10. /\ pc'[w] \in {"forward", "store"} /\ todo'[w] = Tail(todo[w])
       /\ pc'[w] = "store" => Len(todo[w]) # 1
  BY <1>1, OwnFacts DEF TypeOK
<1>11. pc'[w] = "store" => todo'[w] # <<>>
  <2>1. pc'[w] = "store" => Len(todo'[w]) # 0
    BY <1>3, <1>10
  <2>2. QED
    BY <2>1, EmptySeq
<1>12. TypeOK'
  BY <1>1, <1>3, <1>7, <1>8, OwnFacts DEF TypeOK
<1>13. OthersUntouched(w)
  BY <1>1, <1>7, OwnFacts DEF TypeOK, OthersUntouched
<1>14. WorkerOK(w)'
  BY <1>1, <1>2, <1>10, <1>11 DEF WorkerOK, Asking, InLoop, Outside, External, Belongs
<1>15. ReplyOK(reply[w])'
  BY <1>1, OwnFacts DEF ReplyOK, External, Belongs
<1>16. QED
  BY <1>9, <1>12, <1>13, <1>14, <1>15, StepOfOne

\* A reply frees all that the worker held.
LEMMA ReplyStep ==
    ASSUME Inv, NEW w \in Workers, pc[w] \in {"respond", "forward"},
           NEW source \in {"local", "upstream"},
           NEW answers \in Seq(Record \cup {NoRR}), Reply(w, source, answers),
           source = "local" => \A i \in DOMAIN answers : Belongs(answers[i], query[w]),
           source = "local" \/ pc[w] = "forward"
    PROVE  Inv'
<1> DEFINE r == [query |-> query[w], id |-> hdrId[w], source |-> source, answers |-> answers]
<1>1. /\ reply' = [reply EXCEPT ![w] = r] /\ pc' = [pc EXCEPT ![w] = "sent"]
      /\ query' = [query EXCEPT ![w] = NoReply] /\ qi' = [qi EXCEPT ![w] = 0]
      /\ buf' = [buf EXCEPT ![w] = EmptyBuffer] /\ ansCnt' = [ansCnt EXCEPT ![w] = 0]
      /\ ans' = [ans EXCEPT ![w] = <<>>] /\ hdrId' = [hdrId EXCEPT ![w] = 0]
      /\ newId' = [newId EXCEPT ![w] = 0] /\ UNCHANGED <<cacheVars, todo, granted>>
  BY DEF Reply, Goto
<1>2. /\ query[w] \in Queries
      /\ hdrId[w] # query[w].id => pc[w] = "respond" /\ External(query[w])
  BY OwnFacts DEF WorkerOK, Asking
<1>3. r \in Replies
  BY <1>2, OwnFacts DEF Replies
<1>4. ReplyOK(r)
  BY <1>2 DEF ReplyOK
<1> HIDE DEF r
<1>5. EmptyBuffer \in [1..AnCountMax -> Record \cup {NoRR}] /\ <<>> \in Seq(Record)
  BY DEF EmptyBuffer
<1>6. TypeOK'
  <2>1. C!TypeOK'
    BY <1>1, CacheUntouched
  <2>2. buf' \in [Workers -> [1..AnCountMax -> Record \cup {NoRR}]]
    BY <1>1, <1>5, OwnFacts DEF TypeOK
  <2>3. QED
    BY <1>1, <1>3, <1>5, <2>1, <2>2, OwnFacts DEF TypeOK
<1>7. OthersUntouched(w)
  BY <1>1, OwnFacts DEF TypeOK, OthersUntouched
<1>8. pc'[w] = "sent" /\ buf'[w] = EmptyBuffer /\ reply'[w] = r
  BY <1>1, OwnFacts DEF TypeOK
<1>9. WorkerOK(w)'
  BY <1>8 DEF WorkerOK, Asking, InLoop, Outside, EmptyBuffer
<1>10. ReplyOK(reply[w])'
  BY <1>4, <1>8 DEF ReplyOK, External, Belongs
<1>11. QED
  BY <1>1, <1>6, <1>7, <1>9, <1>10, CacheUntouched, StepOfOne

\* A local reply takes its records from the buffer.
LEMMA LocalAnswers ==
    ASSUME Inv, NEW w \in Workers, pc[w] = "respond", Filled(w)
    PROVE  LET answers == SubSeq(buf[w], 1, ansCnt[w]) IN
           /\ answers = [i \in 1..ansCnt[w] |-> buf[w][i]]
           /\ answers \in Seq(Record \cup {NoRR})
           /\ \A i \in DOMAIN answers : Belongs(answers[i], query[w])
<1> DEFINE n == ansCnt[w]
           answers == SubSeq(buf[w], 1, n)
<1>2. n \in Nat /\ buf[w] \in [1..AnCountMax -> Record \cup {NoRR}]
  BY OwnFacts
<1>3. \A i \in 1..n : i \in 1..AnCountMax /\ buf[w][i] # NoRR
  BY <1>2, Constants DEF Filled
<1>4. answers = [i \in 1..n |-> buf[w][i]]
  BY <1>2
<1> HIDE DEF answers, n
<1>5. answers \in [1..n -> Record \cup {NoRR}]
  BY <1>2, <1>3, <1>4
<1>6. answers \in Seq(Record \cup {NoRR})
  BY <1>2, <1>5, FunctionIsSeq
<1>7. \A i \in 1..AnCountMax : buf[w][i] # NoRR => Belongs(buf[w][i], query[w])
  BY OwnFacts DEF WorkerOK, Asking
<1>8. \A i \in DOMAIN answers : Belongs(answers[i], query[w])
  BY <1>3, <1>4, <1>7
<1>9. QED
  BY <1>4, <1>6, <1>8 DEF answers, n

\* The worker goes on,
LEMMA RespondLocallyStep ==
    ASSUME Inv, NEW w \in Workers, RespondLocally(w)
    PROVE  Inv'
<1>1. /\ pc[w] = "respond" /\ Filled(w)
      /\ Reply(w, "local", SubSeq(buf[w], 1, ansCnt[w]))
  BY DEF RespondLocally
<1>2. QED
  BY <1>1, LocalAnswers, ReplyStep

\* or the process ends over a name that is freed twice.
LEMMA RespondSharingStep ==
    ASSUME Inv, NEW w \in Workers, RespondSharing(w)
    PROVE  Inv'
<1>1. /\ pc[w] = "respond" /\ Filled(w)
      /\ ReplyAndAbort(w, SubSeq(buf[w], 1, ansCnt[w]))
  BY DEF RespondSharing
<1>2. QED
  BY <1>1, LocalAnswers, ReplyAndAbortStep

\* What upstream answered is sent on under the id of the query.
LEMMA ForwardStep ==
    ASSUME Inv, NEW w \in Workers, Forward(w)
    PROVE  Inv'
<1>1. ans[w] \in Seq(Record \cup {NoRR})
  <2>1. ans[w] \in Seq(Record)
    BY OwnFacts
  <2>2. QED
    BY <2>1, SeqDef
<1>2. QED
  BY <1>1, ReplyStep DEF Forward

\* The job returns with nothing left of it.
LEMMA JobReturnsStep ==
    ASSUME Inv, NEW w \in Workers, JobReturns(w)
    PROVE  Inv'
<1>1. /\ pc[w] = "sent" /\ pc' = [pc EXCEPT ![w] = "idle"]
      /\ reply' = [reply EXCEPT ![w] = NoReply]
      /\ UNCHANGED <<cacheVars, query, qi, buf, ansCnt, todo, ans, hdrId, newId, granted>>
  BY DEF JobReturns, Goto
<1>2. TypeOK'
  BY <1>1, CacheUntouched, OwnFacts DEF TypeOK
<1>3. OthersUntouched(w)
  BY <1>1, OwnFacts DEF TypeOK, OthersUntouched
<1>4. pc'[w] = "idle" /\ reply'[w] = NoReply /\ WorkerOK(w)
  BY <1>1, OwnFacts DEF TypeOK
<1>5. WorkerOK(w)' /\ ReplyOK(reply[w])'
  BY <1>1, <1>4 DEF WorkerOK, ReplyOK, Asking, InLoop, Outside, EmptyBuffer
<1>6. QED
  BY <1>1, <1>2, <1>3, <1>5, CacheUntouched, StepOfOne

\* The timer puts no record into the cache.
LEMMA TimerStep ==
    ASSUME Inv, Timer
    PROVE  Inv'
<1>1. /\ C!refresh_cache \/ C!Tick
      /\ UNCHANGED <<pc, query, qi, buf, ansCnt, todo, ans, hdrId, newId, reply, granted>>
  BY DEF Timer, localVars
<1>2. /\ C!TypeOK'
      /\ \A k \in 1..Len(entries') : \E i \in 1..Len(entries) : entries'[k].rr = entries[i].rr
  BY <1>1, TimerEffect DEF Inv, TypeOK
<1>3. CacheHoldsUpstreamOnly'
  <2>1. \A i \in 1..Len(entries) : granted[entries[i].rr] >= 0
    BY CacheFacts DEF Inv, TypeOK, CacheHoldsUpstreamOnly
  <2>2. QED
    BY <1>1, <1>2, <2>1 DEF CacheHoldsUpstreamOnly, C!Positions
<1>4. TypeOK'
  BY <1>1, <1>2 DEF Inv, TypeOK
<1>5. ASSUME NEW w \in Workers
      PROVE  WorkerOK(w)' /\ ReplyOK(reply[w])'
  <2>1. WorkerOK(w) /\ ReplyOK(reply[w])
    BY DEF Inv
  <2>2. WorkerOK(w)'
    BY <1>1, <2>1 DEF WorkerOK, External, Belongs, EmptyBuffer
  <2>3. ReplyOK(reply[w])'
    BY <1>1, <2>1 DEF ReplyOK, External, Belongs
  <2>4. QED
    BY <2>2, <2>3
<1>6. QED
  BY <1>3, <1>4, <1>5 DEF Inv

-----------------------------------------------------------------------------
(* The invariant holds in every state *)

\* The invariant holds at the start,
LEMMA InitInv == Init => Inv
<1> SUFFICES ASSUME Init
             PROVE  Inv
  OBVIOUS
<1>1. C!TypeOK /\ C!Positions = {}
  BY DEF Init, C!Init, C!init_cache, C!TypeOK, C!Positions
<1>2. TypeOK
  BY <1>1, Constants DEF Init, TypeOK, EmptyBuffer
<1>3. \A w \in Workers : WorkerOK(w) /\ ReplyOK(reply[w])
  BY DEF Init, WorkerOK, ReplyOK, Asking, InLoop, Outside, EmptyBuffer
<1>4. QED
  BY <1>1, <1>2, <1>3 DEF Inv, CacheHoldsUpstreamOnly

\* and every step keeps it,
LEMMA NextInv == Inv /\ [Next]_vars => Inv'
<1> SUFFICES ASSUME Inv, [Next]_vars
             PROVE  Inv'
  OBVIOUS
<1>1. ASSUME NEW w \in Workers, Resolve(w)
      PROVE  Inv'
  BY <1>1, BadQuestionStep, FindHitStep, FindMissStep, PutFoundStep, SelectFoundStep,
     SelectNoneStep, NoSocketStep, NoTimeoutOptionStep, SendQuestionStep, NoAnswerStep,
     PutAnswerStep, RespondLocallyStep, RespondSharingStep, SerialiseEmptySlotStep,
     ForwardStep, JobReturnsStep DEF Resolve
<1>2. ASSUME NEW w \in Workers, Receive(w)
      PROVE  Inv'
  BY <1>2, AnswerStep, RefusedAnswerStep DEF Receive
<1>3. ASSUME NEW w \in Workers, NEW q \in Queries, ReceiveQuery(w, q)
      PROVE  Inv'
  BY <1>3, ReceiveQueryStep
<1>4. CASE Timer
  BY <1>4, TimerStep
<1>5. CASE UNCHANGED vars
  BY <1>5 DEF Inv, TypeOK, C!TypeOK, CacheHoldsUpstreamOnly, C!Positions, WorkerOK,
     ReplyOK, External, Belongs, EmptyBuffer, vars, cacheVars, localVars
<1>6. QED
  BY <1>1, <1>3, <1>4, <1>5, <1>2 DEF Next

\* so it always holds.
LEMMA Invariance == Spec => []Inv
BY InitInv, NextInv, PTL DEF Spec

-----------------------------------------------------------------------------
(* The theorems *)

\* Every variable of the resolver keeps its type: no index or count leaves the
\* naturals, and every record on its way is one that was cached, given by the
\* external server or read from the relay file.
THEOREM TypeCorrect == Spec => []TypeOK
BY Invariance, PTL DEF Inv

\* No record of the relay database gets into the cache, whichever workers put
\* records at the same time: all that cache_put_rr is called with was given by
\* the external server, or found in the cache.
THEOREM OnlyUpstreamIsCached == Spec => []CacheHoldsUpstreamOnly
BY Invariance, PTL DEF Inv

\* What resolv_handle answers from local data has a name and a type of the query
\* it answers, and its class unless the relay's record has one class for all,
\* although the buffer is reused from question to question and the cache is
\* changed by other workers between the calls.
THEOREM LocalAnswersBelong == Spec => []AnswersBelongToQuery
<1>1. Inv => AnswersBelongToQuery
  BY DEF Inv, ReplyOK, AnswersBelongToQuery, Belongs
<1>2. QED
  BY <1>1, Invariance, PTL

\* Only an answer made here, of a query that was sent outside, can have another
\* id than its query; what is passed on has the id of the client.
THEOREM PassedOnWithItsId == Spec => []ForeignIdIsLocal
<1>1. Inv => ForeignIdIsLocal
  BY DEF Inv, ReplyOK, ForeignIdIsLocal, External
<1>2. QED
  BY <1>1, Invariance, PTL

-----------------------------------------------------------------------------
(* No empty slot in the answer to one question *)

\* All records of a name fit into ans_buffer.  cache_find_rr and select_database
\* do not test this, so the claim about slots is one under this condition.
FewRecords ==
    \A k \in Keys : /\ Len(select_database(k)) <= AnCountMax
                    /\ IsFiniteSet({r \in RRs : r.key = k})
                    /\ Cardinality({r \in RRs : r.key = k}) <= AnCountMax

\* Before its one question is answered a worker has counted no answer, and after
\* that each one it has counted is in its slot.
FillOK(w) ==
    /\ pc[w] \in {"idle", "sent"} => ansCnt[w] = 0
    /\ pc[w] \in Asking /\ Len(query[w].questions) = 1 =>
         IF pc[w] \in {"reput", "respond"} THEN Filled(w) ELSE ansCnt[w] = 0

FillInv == C!NoDuplicates /\ \A w \in Workers : FillOK(w)

\* A put never makes two entries the same record.
LEMMA PutKeepsDistinct ==
    ASSUME C!TypeOK, C!NoDuplicates, NEW r \in RRs, NEW t \in Nat, C!cache_put_rr(r, t)
    PROVE  C!NoDuplicates'
<1>0. /\ Len(entries) \in Nat /\ entries \in Seq(Entry)
      /\ \A k \in 1..Len(entries) : entries[k] \in Entry
      /\ C!Positions = 1..Len(entries) /\ C!Positions' = 1..Len(entries')
  BY CacheFacts DEF C!Positions
<1>1. ASSUME NEW k \in 1..Len(entries), entries' = C!MoveToFront(entries, k)
      PROVE  C!NoDuplicates'
  <2> DEFINE From(i) == IF i = 1 THEN k ELSE IF i <= k THEN i - 1 ELSE i
  <2>1. \A i \in 1..Len(entries) : /\ From(i) \in 1..Len(entries)
                                   /\ entries'[i] = entries[From(i)]
    BY <1>0, <1>1 DEF C!MoveToFront
  <2>2. \A i, j \in 1..Len(entries) : From(i) = From(j) => i = j
    BY <1>0
  <2>3. entries' \in [1..Len(entries) -> Entry]
    BY <1>0, <1>1 DEF C!MoveToFront
  <2>4. Len(entries') = Len(entries)
    BY <1>0, <2>3, FunctionIsSeq
  <2> HIDE DEF From
  <2>5. ASSUME NEW i \in 1..Len(entries), NEW j \in 1..Len(entries),
               C!rr_cmp(entries'[i].rr, entries'[j].rr)
        PROVE  i = j
    <3>1. From(i) \in 1..Len(entries) /\ From(j) \in 1..Len(entries)
          /\ C!rr_cmp(entries[From(i)].rr, entries[From(j)].rr)
      BY <2>1, <2>5
    <3>2. From(i) = From(j)
      BY <1>0, <3>1 DEF C!NoDuplicates
    <3>3. QED
      BY <2>2, <3>2
  <2>6. QED
    BY <1>0, <2>4, <2>5 DEF C!NoDuplicates
<1>2. ASSUME \A k \in C!Positions : ~C!rr_cmp(entries[k].rr, r),
             entries' = C!Prepend(C!create_cache_node(r, t), entries)
      PROVE  C!NoDuplicates'
  <2> DEFINE e == C!create_cache_node(r, t)
  <2>1. e \in Entry /\ e.rr = r
    BY CacheFacts DEF C!create_cache_node, Entry
  <2> HIDE DEF e
  <2>2. entries' = [i \in 1..Len(entries) + 1 |-> IF i = 1 THEN e ELSE entries[i - 1]]
    BY <1>2 DEF C!Prepend, e
  <2>3. entries' \in [1..Len(entries) + 1 -> Entry]
    BY <1>0, <2>1, <2>2
  <2>4. Len(entries') = Len(entries) + 1
    BY <1>0, <2>3, FunctionIsSeq
  <2>5. \A i \in 2..Len(entries) + 1 :
           i - 1 \in C!Positions /\ entries'[i] = entries[i - 1]
    BY <1>0, <2>2
  <2>6. \A i \in 2..Len(entries) + 1 :
           ~C!rr_cmp(entries'[i].rr, r) /\ ~C!rr_cmp(r, entries'[i].rr)
    <3>1. \A s : C!rr_cmp(r, s) => C!rr_cmp(s, r)
      BY DEF C!rr_cmp, C!SameBytes
    <3>2. QED
      BY <1>2, <2>5, <3>1
  <2>7. entries'[1].rr = r
    BY <1>0, <2>1, <2>2
  <2>8. ASSUME NEW i \in 1..Len(entries) + 1, NEW j \in 1..Len(entries) + 1,
               C!rr_cmp(entries'[i].rr, entries'[j].rr)
        PROVE  i = j
    <3>1. CASE i = 1 \/ j = 1
      BY <1>0, <2>6, <2>7, <2>8, <3>1
    <3>2. CASE i # 1 /\ j # 1
      <4>1. i \in 2..Len(entries) + 1 /\ j \in 2..Len(entries) + 1
        BY <1>0, <3>2
      <4>2. i - 1 = j - 1
        BY <2>5, <2>8, <4>1 DEF C!NoDuplicates
      <4>3. QED
        BY <1>0, <4>1, <4>2
    <3>3. QED
      BY <3>1, <3>2
  <2>9. QED
    BY <1>0, <2>4, <2>8 DEF C!NoDuplicates
<1>3. QED
  BY <1>0, <1>1, <1>2 DEF C!cache_put_rr

\* Nor does the timer.
LEMMA TimerKeepsDistinct ==
    ASSUME C!TypeOK, C!NoDuplicates, C!refresh_cache \/ C!Tick
    PROVE  C!NoDuplicates'
<1>1. CASE C!Tick
  BY <1>1 DEF C!Tick, C!NoDuplicates, C!Positions
<1>2. CASE C!refresh_cache
  <2> DEFINE n == Cardinality(C!Kept)
  <2>1. PICK g \in C!Increasing(C!Kept) :
           entries' = [i \in 1..n |-> C!Aged(entries[g[i]])]
    BY <1>2, SameCardinality DEF C!refresh_cache
  <2>2. C!Kept \in SUBSET (1..Len(entries)) /\ Len(entries) \in Nat
    BY CacheFacts DEF C!Kept
  <2>3. n \in Nat
    <3>1. IsFiniteSet(1..Len(entries))
      BY <2>2, FS_Interval
    <3>2. QED
      BY <2>2, <3>1, FS_Subset, FS_CardinalityType
  <2>4. g \in [1..n -> C!Kept] /\ \A i, j \in 1..n : i < j => g[i] < g[j]
    BY SameCardinality DEF C!Increasing
  <2>5. \A k \in 1..Len(entries) : C!Aged(entries[k]).rr = entries[k].rr
    BY CacheFacts DEF C!Aged, Entry
  <2> HIDE DEF n
  <2>6. \A i \in 1..n : g[i] \in 1..Len(entries) /\ entries'[i].rr = entries[g[i]].rr
    BY <2>1, <2>2, <2>4, <2>5
  <2>7. Len(entries') = n
    BY <2>1, <2>3
  <2>8. ASSUME NEW i \in 1..n, NEW j \in 1..n, C!rr_cmp(entries'[i].rr, entries'[j].rr)
        PROVE  i = j
    <3>1. g[i] = g[j] /\ g[i] \in Int /\ i \in Int /\ j \in Int
      BY <2>2, <2>3, <2>6, <2>8, CacheFacts DEF C!NoDuplicates
    <3>2. ~(i < j) /\ ~(j < i)
      BY <2>4, <3>1
    <3>3. QED
      BY <3>1, <3>2
  <2>9. QED
    BY <2>7, <2>8 DEF C!NoDuplicates, C!Positions
<1>3. QED
  BY <1>1, <1>2

\* So what is found of a name is no more than it has records.
LEMMA FindFits ==
    ASSUME FewRecords, C!TypeOK, C!NoDuplicates, NEW key \in Keys,
           NEW found \in C!cache_find_rr(key)
    PROVE  Len(found) <= AnCountMax
<1> DEFINE M == {k \in C!Positions : entries[k].rr.key = key}
           R == {r \in RRs : r.key = key}
           n == Cardinality(M)
           f == [k \in M |-> entries[k].rr]
<1>1. PICK g \in C!Increasing(M) : found = [i \in 1..n |-> entries[g[i]]]
  BY SameCardinality DEF C!cache_find_rr
<1>2. M \in SUBSET (1..Len(entries)) /\ Len(entries) \in Nat
  BY CacheFacts
<1>3. \A k \in M : entries[k].rr \in R
  BY CacheFacts
<1>4. \A i, j \in M : entries[i].rr = entries[j].rr => i = j
  <2>1. \A r : C!rr_cmp(r, r)
    BY DEF C!rr_cmp, C!SameBytes
  <2>2. QED
    BY <2>1 DEF C!NoDuplicates
<1>5. IsFiniteSet(R) /\ Cardinality(R) <= AnCountMax
  BY DEF FewRecords
<1> HIDE DEF M, R
<1>6. IsFiniteSet(M)
  <2>1. IsFiniteSet(1..Len(entries))
    BY <1>2, FS_Interval
  <2>2. QED
    BY <1>2, <2>1, FS_Subset
<1>7. n \in Nat /\ Cardinality(R) \in Nat
  BY <1>5, <1>6, FS_CardinalityType
<1>8. f \in Injection(M, R)
  BY <1>3, <1>4 DEF Injection, IsInjective
<1>9. n <= Cardinality(R)
  BY <1>5, <1>6, <1>8, FS_Injection
<1> HIDE DEF n, f
<1>10. Len(found) = n
  BY <1>1, <1>7
<1>11. QED
  BY <1>5, <1>7, <1>9, <1>10, Constants

\* A worker whose place, query, count and buffer a step does not touch.
LEMMA FillFrame ==
    ASSUME NEW v \in Workers, FillOK(v), pc'[v] = pc[v], query'[v] = query[v],
           ansCnt'[v] = ansCnt[v], buf'[v] = buf[v]
    PROVE  FillOK(v)'
BY DEF FillOK, Filled, Asking

\* No count, no slot that could be empty.
LEMMA NothingCounted ==
    ASSUME NEW w \in Workers, ansCnt[w] = 0
    PROVE  Filled(w)
BY DEF Filled

\* A step that changes neither count nor buffer, and does not go back from an
\* answer to a question.
LEMMA FillKept ==
    ASSUME Inv, FillInv, NEW w \in Workers, pc[w] \in Asking, pc'[w] # "idle",
           \A v \in Workers \ {w} : pc'[v] = pc[v],
           UNCHANGED <<query, ansCnt, buf>>, C!NoDuplicates',
           \/ pc[w] \notin {"reput", "respond"} /\ pc'[w] # "sent"
           \/ pc'[w] \in {"reput", "respond", "dead"}
           \/ Len(query[w].questions) # 1 /\ pc'[w] # "sent"
    PROVE  FillInv'
<1>1. ASSUME NEW v \in Workers \ {w} PROVE FillOK(v)'
  BY <1>1, FillFrame DEF FillInv
<1>2. FillOK(w)'
  <2>1. FillOK(w)
    BY DEF FillInv
  <2>2. Filled(w)' <=> Filled(w)
    BY DEF Filled
  <2>3. QED
    BY <2>1, <2>2, NothingCounted DEF FillOK, Asking
<1>3. QED
  BY <1>1, <1>2 DEF FillInv

\* With one question the loop ends after its first turn.
LEMMA OneTurn ==
    ASSUME Inv, NEW w \in Workers, pc[w] \in InLoop, NextQuestion(w),
           Len(query[w].questions) = 1
    PROVE  pc'[w] = "respond"
<1>1. qi[w] \in 1..1
  BY QuestionIsKey
<1>2. QED
  BY <1>1 DEF NextQuestion, Goto, Inv, TypeOK

\* What the cache gives for one question is counted and copied.
LEMMA FindHitFills ==
    ASSUME FewRecords, Inv, FillInv, NEW w \in Workers, FindHit(w)
    PROVE  FillInv'
<1>1. PICK found \in C!cache_find_rr(Question(w)) :
        /\ todo' = [todo EXCEPT ![w] = [i \in DOMAIN found |->
                                        [rr |-> found[i].rr, ttl |-> found[i].ttl]]]
        /\ buf' = [buf EXCEPT ![w] = CopyTo(buf[w], todo'[w])]
        /\ ansCnt' = [ansCnt EXCEPT ![w] = ansCnt[w] + Len(found)]
  BY DEF FindHit
<1>2. /\ pc[w] = "find" /\ pc' = [pc EXCEPT ![w] = "reput"]
      /\ UNCHANGED <<cacheVars, query>>
  BY DEF FindHit, Goto
<1>3. C!NoDuplicates'
  BY <1>2 DEF FillInv, cacheVars, C!NoDuplicates, C!Positions
<1>4. ASSUME NEW v \in Workers \ {w} PROVE FillOK(v)'
  BY <1>1, <1>2, <1>4, FillFrame DEF FillInv, Inv, TypeOK
<1> DEFINE n == Len(found)
           recs == [i \in 1..n |-> [rr |-> found[i].rr, ttl |-> found[i].ttl]]
<1>5. n \in Nat /\ DOMAIN found = 1..n /\ C!TypeOK
  BY OwnFacts, FindEffect
<1>6. n <= AnCountMax
  BY <1>2, <1>5, FindFits, QuestionIsKey DEF FillInv, InLoop
<1>7. \A i \in 1..n : recs[i] \in Record
  <2>1. \A i \in 1..n : \E k \in 1..Len(entries) : found[i] = entries[k]
    BY <1>5, FindEffect
  <2>2. \A i \in 1..n : found[i].rr \in RRs /\ found[i].ttl \in Nat
    BY <1>5, <2>1, CacheFacts
  <2>3. QED
    BY <2>2 DEF Record
<1> HIDE DEF n
<1>8. todo' = [todo EXCEPT ![w] = recs]
  BY <1>1, <1>5
<1>9. recs \in [1..n -> Record]
  BY <1>7
<1> HIDE DEF recs
<1>10. Len(recs) = n
  BY <1>5, <1>9, FunctionIsSeq
<1>11. todo'[w] = recs
  BY <1>8 DEF Inv, TypeOK
<1>12. buf'[w] = CopyTo(buf[w], recs) /\ pc'[w] = "reput"
       /\ ansCnt'[w] = ansCnt[w] + n
  BY <1>1, <1>2, <1>11 DEF Inv, TypeOK, n
<1>13. \A i \in 1..n : i \in 1..AnCountMax /\ buf'[w][i] = recs[i] /\ recs[i] # NoRR
  BY <1>5, <1>6, <1>7, <1>10, <1>12, Constants DEF CopyTo
<1>14. Len(query[w].questions) = 1 => ansCnt[w] = 0
  BY <1>2 DEF FillInv, FillOK, Asking
<1>15. Len(query'[w].questions) = 1 => Filled(w)'
  <2> SUFFICES ASSUME Len(query[w].questions) = 1
               PROVE  Filled(w)'
    BY <1>2
  <2>1. ansCnt'[w] = n
    BY <1>5, <1>12, <1>14
  <2>2. \A i \in 1..n : i <= AnCountMax /\ buf'[w][i] # NoRR
    BY <1>13, Constants
  <2>3. QED
    BY <2>1, <2>2 DEF Filled
<1>16. FillOK(w)'
  BY <1>12, <1>15 DEF FillOK, Asking
<1>17. QED
  BY <1>3, <1>4, <1>16 DEF FillInv

\* A blocked record frees its slot, and then none is counted.
LEMMA SelectFoundFills ==
    ASSUME FewRecords, Inv, FillInv, NEW w \in Workers, SelectFound(w)
    PROVE  FillInv'
<1> DEFINE recs == select_database(Question(w))
           blocked == {i \in DOMAIN recs : check_blocked(recs[i])}
           freed == {i \in blocked : \A k \in blocked : i <= k}
           b == [i \in 1..AnCountMax |->
                  IF i \in freed THEN NoRR ELSE CopyTo(buf[w], recs)[i]]
           n == IF blocked = {} THEN Len(recs) ELSE 0
<1>1. /\ pc[w] = "select" /\ buf' = [buf EXCEPT ![w] = b]
      /\ ansCnt' = [ansCnt EXCEPT ![w] = n] /\ NextQuestion(w)
      /\ UNCHANGED <<cacheVars, query>>
  BY DEF SelectFound
<1>2. Question(w) \in Keys
  BY <1>1, QuestionIsKey DEF InLoop
<1>3. recs \in Seq(Record) /\ Len(recs) <= AnCountMax
  BY <1>2, Constants DEF FewRecords
<1>4. Len(recs) \in Nat /\ \A i \in 1..Len(recs) : recs[i] \in Record
  BY <1>3, LenProperties, ElementOfSeq
<1> HIDE DEF recs
<1>5. \A i \in 1..n : i \in 1..AnCountMax /\ b[i] # NoRR
  <2>1. CASE blocked = {}
    <3>1. n = Len(recs) /\ freed = {}
      BY <2>1
    <3> HIDE DEF n, blocked, freed
    <3>2. QED
      BY <1>3, <1>4, <3>1, Constants DEF CopyTo
  <2>2. CASE blocked # {}
    <3>1. n = 0
      BY <2>2
    <3>2. QED
      BY <3>1
  <2>3. QED
    BY <2>1, <2>2
<1>6. n \in Nat
  BY <1>4
<1> HIDE DEF b, n, blocked, freed
<1>7. C!NoDuplicates'
  BY <1>1 DEF FillInv, cacheVars, C!NoDuplicates, C!Positions
<1>8. /\ \E l \in {"find", "respond"} : pc' = [pc EXCEPT ![w] = l]
      /\ buf'[w] = b /\ ansCnt'[w] = n
  BY <1>1, NextQuestionEffect DEF InLoop, Inv, TypeOK
<1>9. ASSUME NEW v \in Workers \ {w} PROVE FillOK(v)'
  BY <1>1, <1>8, <1>9, FillFrame DEF FillInv, Inv, TypeOK
<1>10. Filled(w)'
  BY <1>5, <1>6, <1>8, Constants DEF Filled
<1>11. pc'[w] \in {"find", "respond"}
  BY <1>8 DEF Inv, TypeOK
<1>12. Len(query'[w].questions) = 1 => pc'[w] = "respond"
  BY <1>1, OneTurn DEF InLoop
<1>13. FillOK(w)'
  BY <1>10, <1>11, <1>12 DEF FillOK, Asking
<1>14. QED
  BY <1>7, <1>9, <1>13 DEF FillInv

\* The loop goes on only when there is another question.
LEMMA PutFoundFills ==
    ASSUME Inv, FillInv, NEW w \in Workers, PutFound(w)
    PROVE  FillInv'
<1> DEFINE r == Head(todo[w])
<1>1. /\ pc[w] = "reput" /\ C!cache_put_rr(r.rr, r.ttl)
      /\ UNCHANGED <<query, buf, ansCnt>>
  BY DEF PutFound
<1>2. todo[w] # <<>> /\ todo[w] \in Seq(Record)
  BY <1>1, OwnFacts DEF WorkerOK
<1>3. r \in Record
  BY <1>2, HeadTailProperties
<1>4. r.rr \in RRs /\ r.ttl \in Nat
  BY <1>3 DEF Record
<1> HIDE DEF r
<1>5. C!NoDuplicates'
  BY <1>1, <1>4, OwnFacts, PutKeepsDistinct DEF FillInv
<1>6. /\ \A v \in Workers \ {w} : pc'[v] = pc[v]
      /\ pc'[w] \in {"reput", "respond", "find"}
      /\ pc'[w] = "find" => Len(query[w].questions) # 1
  <2>1. CASE NextQuestion(w)
    <3>1. PICK l \in {"find", "respond"} : pc' = [pc EXCEPT ![w] = l]
      BY <1>1, <2>1, NextQuestionEffect DEF InLoop
    <3>2. pc'[w] = l /\ \A v \in Workers \ {w} : pc'[v] = pc[v]
      BY <3>1 DEF Inv, TypeOK
    <3>3. Len(query[w].questions) = 1 => l = "respond"
      BY <1>1, <2>1, <3>2, OneTurn DEF InLoop
    <3>4. QED
      BY <3>2, <3>3
  <2>2. CASE pc' = pc
    BY <1>1, <2>2
  <2>3. QED
    BY <2>1, <2>2 DEF PutFound
<1>7. QED
  BY <1>1, <1>5, <1>6, FillKept DEF Asking

\* Storing what came in touches no buffer.
LEMMA PutAnswerFills ==
    ASSUME Inv, FillInv, NEW w \in Workers, PutAnswer(w)
    PROVE  FillInv'
<1> DEFINE r == Head(todo[w])
<1>1. /\ pc[w] = "store" /\ C!cache_put_rr(r.rr, r.ttl)
      /\ pc' = [pc EXCEPT ![w] = IF Len(todo[w]) = 1 THEN "forward" ELSE "store"]
      /\ UNCHANGED <<query, buf, ansCnt>>
  BY DEF PutAnswer, Goto
<1>2. todo[w] # <<>> /\ todo[w] \in Seq(Record)
  BY <1>1, OwnFacts DEF WorkerOK
<1>3. r \in Record
  BY <1>2, HeadTailProperties
<1>4. r.rr \in RRs /\ r.ttl \in Nat
  BY <1>3 DEF Record
<1> HIDE DEF r
<1>5. C!NoDuplicates'
  BY <1>1, <1>4, OwnFacts, PutKeepsDistinct DEF FillInv
<1>6. pc'[w] \in {"forward", "store"} /\ \A v \in Workers \ {w} : pc'[v] = pc[v]
  BY <1>1 DEF Inv, TypeOK
<1>7. QED
  BY <1>1, <1>5, <1>6, FillKept DEF Asking

\* The other steps of a worker neither count nor copy, or reset both.
LEMMA OtherStepsFill ==
    ASSUME Inv, FillInv, NEW w \in Workers,
           \/ BadQuestion(w) \/ FindMiss(w) \/ SelectNone(w) \/ NoSocket(w)
           \/ NoTimeoutOption(w) \/ SendQuestion(w) \/ NoAnswer(w)
           \/ \E id \in Ids : RefusedAnswer(w, id)
           \/ Answer(w) \/ RespondLocally(w) \/ RespondSharing(w)
           \/ SerialiseEmptySlot(w) \/ Forward(w)
           \/ JobReturns(w) \/ \E q \in Queries : ReceiveQuery(w, q)
    PROVE  FillInv'
<1>1. UNCHANGED cacheVars
  BY DEF BadQuestion, FindMiss, SelectNone, NoSocket, NoTimeoutOption, SendQuestion,
     NoAnswer, RefusedAnswer, Answer, RespondLocally, RespondSharing, ReplyAndAbort,
     SerialiseEmptySlot, Forward, Reply, JobReturns, ReceiveQuery
<1>2. C!NoDuplicates'
  BY <1>1 DEF FillInv, cacheVars, C!NoDuplicates, C!Positions
<1>3. CASE BadQuestion(w) \/ RespondSharing(w) \/ SerialiseEmptySlot(w)
  <2>1. \A v \in Workers : pc'[v] = "dead"
    BY <1>3 DEF BadQuestion, RespondSharing, ReplyAndAbort, SerialiseEmptySlot
  <2>2. QED
    BY <1>2, <2>1 DEF FillInv, FillOK, Asking
<1>4. CASE \/ FindMiss(w) \/ SelectNone(w) \/ NoSocket(w)
           \/ NoTimeoutOption(w) \/ SendQuestion(w) \/ NoAnswer(w)
           \/ (\E id \in Ids : RefusedAnswer(w, id)) \/ Answer(w)
  <2>1. /\ pc[w] \in {"find", "select", "send", "await"}
        /\ \E l \in {"select", "send", "dead", "await", "respond", "forward", "store"} :
             pc' = [pc EXCEPT ![w] = l]
        /\ UNCHANGED <<query, buf, ansCnt>>
    BY <1>4 DEF FindMiss, SelectNone, NoSocket, NoTimeoutOption, SendQuestion,
       NoAnswer, RefusedAnswer, Answer, Goto
  <2>2. /\ pc'[w] \in {"select", "send", "dead", "await", "respond", "forward", "store"}
        /\ \A v \in Workers \ {w} : pc'[v] = pc[v]
    BY <2>1 DEF Inv, TypeOK
  <2>3. QED
    BY <1>2, <2>1, <2>2, FillKept DEF Asking
<1>5. CASE RespondLocally(w) \/ Forward(w)
  <2>1. /\ pc' = [pc EXCEPT ![w] = "sent"] /\ query' = [query EXCEPT ![w] = NoReply]
        /\ buf' = [buf EXCEPT ![w] = EmptyBuffer] /\ ansCnt' = [ansCnt EXCEPT ![w] = 0]
    BY <1>5 DEF RespondLocally, Forward, Reply, Goto
  <2>2. ASSUME NEW v \in Workers \ {w} PROVE FillOK(v)'
    BY <2>1, <2>2, FillFrame DEF FillInv, Inv, TypeOK
  <2>3. pc'[w] = "sent" /\ ansCnt'[w] = 0
    BY <2>1 DEF Inv, TypeOK
  <2>4. FillOK(w)'
    BY <2>3 DEF FillOK, Asking
  <2>5. QED
    BY <1>2, <2>2, <2>4 DEF FillInv
<1>6. CASE JobReturns(w) \/ \E q \in Queries : ReceiveQuery(w, q)
  <2>1. /\ pc[w] \in {"sent", "idle"} /\ UNCHANGED <<buf, ansCnt>>
        /\ \E l \in {"idle", "send", "respond", "find"} : pc' = [pc EXCEPT ![w] = l]
        /\ query' = query \/ \E q \in Queries : query' = [query EXCEPT ![w] = q]
    BY <1>6 DEF JobReturns, ReceiveQuery, Goto
  <2>2. ASSUME NEW v \in Workers \ {w} PROVE FillOK(v)'
    BY <2>1, <2>2, FillFrame DEF FillInv, Inv, TypeOK
  <2>3. ansCnt'[w] = 0
    BY <2>1 DEF FillInv, FillOK
  <2>4. Filled(w)'
    BY <2>3 DEF Filled
  <2>5. FillOK(w)'
    BY <2>3, <2>4 DEF FillOK, Asking
  <2>6. QED
    BY <1>2, <2>2, <2>5 DEF FillInv
<1>7. QED
  BY <1>3, <1>4, <1>5, <1>6

\* FillInv is kept by every step.
LEMMA NextFills ==
    ASSUME FewRecords, Inv, FillInv, [Next]_vars
    PROVE  FillInv'
<1>1. ASSUME NEW w \in Workers, Resolve(w) \/ Receive(w)
      PROVE  FillInv'
  BY <1>1, FindHitFills, SelectFoundFills, PutFoundFills, PutAnswerFills,
     OtherStepsFill DEF Resolve, Receive
<1>2. ASSUME NEW w \in Workers, NEW q \in Queries, ReceiveQuery(w, q)
      PROVE  FillInv'
  BY <1>2, OtherStepsFill
<1>3. CASE Timer
  <2>1. C!NoDuplicates' /\ UNCHANGED <<pc, query, buf, ansCnt>>
    BY <1>3, TimerKeepsDistinct DEF Timer, localVars, FillInv, Inv, TypeOK
  <2>2. QED
    BY <2>1, FillFrame DEF FillInv
<1>4. CASE UNCHANGED vars
  <2>1. UNCHANGED <<entries, pc, query, buf, ansCnt>>
    BY <1>4 DEF vars, cacheVars, localVars
  <2>2. C!NoDuplicates'
    BY <2>1 DEF FillInv, C!NoDuplicates, C!Positions
  <2>3. QED
    BY <2>1, <2>2, FillFrame DEF FillInv
<1>5. QED
  BY <1>1, <1>2, <1>3, <1>4 DEF Next

\* When all records of a name fit into ans_buffer, the serialiser never meets an
\* empty slot in the answer to one question: what cache_find_rr or
\* select_database counted has been copied, and a blocked name counts nothing.
THEOREM OneQuestionHasNoEmptySlot ==
    ASSUME FewRecords
    PROVE  Spec => []OneQuestionIsFilled
<1>1. Init => FillInv
  <2> SUFFICES ASSUME Init PROVE FillInv
    OBVIOUS
  <2>1. C!NoDuplicates
    BY DEF Init, C!Init, C!init_cache, C!NoDuplicates, C!Positions
  <2>2. QED
    BY <2>1 DEF Init, FillInv, FillOK, Asking
<1>2. Inv /\ FillInv /\ [Next]_vars => FillInv'
  BY NextFills
<1>3. FillInv => OneQuestionIsFilled
  BY DEF FillInv, FillOK, OneQuestionIsFilled, Asking
<1>4. QED
  BY <1>1, <1>2, <1>3, Invariance, PTL DEF Spec

-----------------------------------------------------------------------------
(* A name of the relay database is answered here *)

\* What a worker will answer of the relay name k: what the database says of it,
\* or records upstream gave for it.
SlotsOK(w, k) ==
    \/ /\ ansCnt[w] = Len(RelayAnswer(k))
       /\ \A i \in 1..ansCnt[w] : i <= AnCountMax => buf[w][i] = RelayAnswer(k)[i]
    \/ \A i \in 1..ansCnt[w] : i <= AnCountMax =>
         buf[w][i] \in Record /\ FromUpstream(buf[w][i], k)

\* Before it has found an answer it has counted none.
RelayOK(w) ==
    /\ pc[w] \in {"idle", "sent"} => ansCnt[w] = 0
    /\ pc[w] \in Asking /\ AsksRelayName(query[w]) =>
         /\ pc[w] \in {"find", "select"} => ansCnt[w] = 0
         /\ pc[w] \in {"reput", "respond"} => SlotsOK(w, query[w].questions[1])

RelayReplyOK(r) ==
    r # NoReply /\ AsksRelayName(r.query) =>
        /\ r.source = "local"
        /\ \/ r.answers = RelayAnswer(r.query.questions[1])
           \/ \A i \in DOMAIN r.answers :
                r.answers[i] \in Record /\ FromUpstream(r.answers[i], r.query.questions[1])

RelayInv == \A w \in Workers : RelayOK(w) /\ RelayReplyOK(reply[w])

GrantsKept == \A r \in RRs : granted[r] >= 0 => granted'[r] >= 0

\* What upstream gave it has given.
LEMMA StillFromUpstream ==
    ASSUME GrantsKept, NEW rec \in Record, NEW k, FromUpstream(rec, k)
    PROVE  FromUpstream(rec, k)'
BY DEF GrantsKept, FromUpstream, Record

\* A reply stays what it was.
LEMMA RelayReplyFrame ==
    ASSUME GrantsKept, NEW r, RelayReplyOK(r)
    PROVE  RelayReplyOK(r)'
<1> SUFFICES ASSUME r # NoReply, AsksRelayName(r.query)
             PROVE  /\ r.source = "local"
                    /\ \/ r.answers = RelayAnswer(r.query.questions[1])
                       \/ \A i \in DOMAIN r.answers :
                            /\ r.answers[i] \in Record
                            /\ FromUpstream(r.answers[i], r.query.questions[1])'
  BY DEF RelayReplyOK, AsksRelayName, RelayAnswer, select_database, check_blocked
<1>1. QED
  BY StillFromUpstream DEF RelayReplyOK

\* Nor do the slots change.
LEMMA SlotsFrame ==
    ASSUME GrantsKept, NEW v \in Workers, NEW k, SlotsOK(v, k),
           ansCnt'[v] = ansCnt[v], buf'[v] = buf[v]
    PROVE  SlotsOK(v, k)'
<1>1. CASE /\ ansCnt[v] = Len(RelayAnswer(k))
           /\ \A i \in 1..ansCnt[v] : i <= AnCountMax => buf[v][i] = RelayAnswer(k)[i]
  BY <1>1 DEF SlotsOK
<1>2. CASE \A i \in 1..ansCnt[v] : i <= AnCountMax =>
             buf[v][i] \in Record /\ FromUpstream(buf[v][i], k)
  BY <1>2 DEF SlotsOK, FromUpstream, GrantsKept, Record
<1>3. QED
  BY <1>1, <1>2 DEF SlotsOK

\* A worker whose place, query, count and buffer a step does not touch.
LEMMA RelayFrame ==
    ASSUME GrantsKept, NEW v \in Workers, RelayOK(v), RelayReplyOK(reply[v]),
           pc'[v] = pc[v], query'[v] = query[v], ansCnt'[v] = ansCnt[v],
           buf'[v] = buf[v], reply'[v] = reply[v]
    PROVE  RelayOK(v)' /\ RelayReplyOK(reply[v])'
<1>1. ASSUME NEW k, k = query[v].questions[1], SlotsOK(v, k)
      PROVE  SlotsOK(v, query[v].questions[1])'
  <2>1. SlotsOK(v, k)'
    BY <1>1, SlotsFrame
  <2>2. QED
    BY <1>1, <2>1
<1>2. SlotsOK(v, query[v].questions[1]) => SlotsOK(v, query[v].questions[1])'
  BY <1>1
<1>3. RelayOK(v)'
  BY <1>2 DEF RelayOK, AsksRelayName, select_database
<1>4. RelayReplyOK(reply[v])'
  BY RelayReplyFrame DEF RelayReplyOK, FromUpstream
<1>5. QED
  BY <1>3, <1>4

\* A query for one relay name has nothing to ask for outside.
LEMMA RelayNameIsInside ==
    ASSUME NEW q \in Queries, AsksRelayName(q)
    PROVE  ~External(q) /\ DOMAIN q.questions = {1}
<1>1. q.questions \in Seq(Keys) /\ Len(q.questions) = 1
  BY Constants DEF AsksRelayName
<1>2. DOMAIN q.questions = {1}
  BY <1>1, LenProperties
<1>3. QED
  BY <1>2 DEF External, AsksRelayName

\* The only question is the first one.
LEMMA OnlyQuestion ==
    ASSUME Inv, NEW w \in Workers, pc[w] \in InLoop, AsksRelayName(query[w])
    PROVE  Question(w) = query[w].questions[1] /\ Len(query[w].questions) = 1
<1>1. qi[w] \in 1..1 /\ Len(query[w].questions) = 1
  BY QuestionIsKey DEF AsksRelayName
<1>2. QED
  BY <1>1 DEF Question

\* Only the worker that takes the step has to be looked at.
LEMMA RelayStepOfOne ==
    ASSUME Inv, RelayInv, NEW w \in Workers, OthersUntouched(w), RelayOK(w)',
           RelayReplyOK(reply[w])', \A v \in Workers \ {w} : ansCnt'[v] = ansCnt[v]
    PROVE  RelayInv'
<1>1. GrantsKept
  BY DEF OthersUntouched, GrantsKept
<1>2. ASSUME NEW v \in Workers \ {w} PROVE RelayOK(v)' /\ RelayReplyOK(reply[v])'
  BY <1>1, <1>2, RelayFrame DEF OthersUntouched, RelayInv
<1>3. QED
  BY <1>2 DEF RelayInv

\* What the cache has of a relay name upstream gave.
LEMMA FindHitRelays ==
    ASSUME Inv, RelayInv, NEW w \in Workers, FindHit(w)
    PROVE  RelayInv'
<1>1. PICK n \in Nat \ {0} : \E recs \in [1..n -> Record] :
        /\ todo' = [todo EXCEPT ![w] = recs]
        /\ buf' = [buf EXCEPT ![w] = CopyTo(buf[w], recs)]
        /\ ansCnt' = [ansCnt EXCEPT ![w] = ansCnt[w] + n]
        /\ \A i \in 1..n : FromUpstream(recs[i], Question(w))
  BY FindHitEffect
<1>2. PICK recs \in [1..n -> Record] :
        /\ todo' = [todo EXCEPT ![w] = recs]
        /\ buf' = [buf EXCEPT ![w] = CopyTo(buf[w], recs)]
        /\ ansCnt' = [ansCnt EXCEPT ![w] = ansCnt[w] + n]
        /\ \A i \in 1..n : FromUpstream(recs[i], Question(w))
  BY <1>1
<1>3. /\ pc[w] = "find" /\ pc' = [pc EXCEPT ![w] = "reput"]
      /\ UNCHANGED <<query, qi, hdrId, reply, granted>>
  BY DEF FindHit, Goto
<1>4. OthersUntouched(w) /\ \A v \in Workers \ {w} : ansCnt'[v] = ansCnt[v]
  BY <1>2, <1>3, OwnFacts DEF TypeOK, OthersUntouched
<1>5. /\ pc'[w] = "reput" /\ buf'[w] = CopyTo(buf[w], recs)
      /\ ansCnt'[w] = ansCnt[w] + n
  BY <1>2, <1>3, OwnFacts DEF TypeOK
<1>6. n \in Nat /\ Len(recs) = n
  BY FunctionIsSeq
<1>7. ASSUME AsksRelayName(query[w])
      PROVE  \A i \in 1..ansCnt'[w] : i <= AnCountMax =>
               /\ buf'[w][i] \in Record
               /\ FromUpstream(buf'[w][i], query[w].questions[1])
  <2>1. Question(w) = query[w].questions[1]
    BY <1>3, <1>7, OnlyQuestion DEF InLoop
  <2>2. ansCnt'[w] = n
    BY <1>3, <1>5, <1>6, <1>7 DEF RelayInv, RelayOK, Asking
  <2>3. \A i \in 1..n : i <= AnCountMax => buf'[w][i] = recs[i]
    BY <1>5, <1>6, Constants DEF CopyTo
  <2>4. QED
    BY <1>2, <2>1, <2>2, <2>3
<1>8. RelayOK(w)'
  BY <1>3, <1>5, <1>7 DEF RelayOK, SlotsOK, Asking, FromUpstream, AsksRelayName,
     select_database
<1>9. RelayReplyOK(reply[w])'
  BY <1>3, RelayReplyFrame DEF RelayInv, RelayReplyOK, FromUpstream, GrantsKept
<1>10. QED
  BY <1>4, <1>8, <1>9, RelayStepOfOne

\* The database gives all of its records, or none when one of them blocks.
LEMMA SelectFoundRelays ==
    ASSUME Inv, RelayInv, NEW w \in Workers, SelectFound(w)
    PROVE  RelayInv'
<1> DEFINE recs == select_database(Question(w))
           blocked == {i \in DOMAIN recs : check_blocked(recs[i])}
           freed == {i \in blocked : \A k \in blocked : i <= k}
           b == [i \in 1..AnCountMax |->
                  IF i \in freed THEN NoRR ELSE CopyTo(buf[w], recs)[i]]
           n == IF blocked = {} THEN Len(recs) ELSE 0
<1>1. /\ pc[w] = "select" /\ buf' = [buf EXCEPT ![w] = b]
      /\ ansCnt' = [ansCnt EXCEPT ![w] = n] /\ NextQuestion(w)
      /\ UNCHANGED <<query, todo, hdrId, reply, granted>>
  BY DEF SelectFound
<1>2. recs \in Seq(Record) /\ Len(recs) \in Nat
  BY <1>1, QuestionIsKey, Constants, LenProperties DEF InLoop
<1>3. n = Len(RelayAnswer(Question(w)))
  BY DEF RelayAnswer
<1>4. \A i \in 1..n : i <= AnCountMax => b[i] = RelayAnswer(Question(w))[i]
  <2>1. CASE blocked = {}
    <3>1. n = Len(recs) /\ freed = {} /\ RelayAnswer(Question(w)) = recs
      BY <2>1 DEF RelayAnswer
    <3> HIDE DEF n, blocked, freed, recs
    <3>2. QED
      BY <1>2, <3>1, Constants DEF CopyTo
  <2>2. CASE blocked # {}
    <3>1. n = 0
      BY <2>2
    <3>2. QED
      BY <3>1
  <2>3. QED
    BY <2>1, <2>2
<1> HIDE DEF recs, blocked, freed, b, n
<1>5. /\ \E l \in {"find", "respond"} : pc' = [pc EXCEPT ![w] = l]
      /\ qi' = [qi EXCEPT ![w] = qi[w] + 1]
  BY <1>1, NextQuestionEffect DEF InLoop
<1>6. OthersUntouched(w) /\ \A v \in Workers \ {w} : ansCnt'[v] = ansCnt[v]
  BY <1>1, <1>5, OwnFacts DEF TypeOK, OthersUntouched
<1>7. buf'[w] = b /\ ansCnt'[w] = n /\ pc'[w] \in {"find", "respond"}
  BY <1>1, <1>5, OwnFacts DEF TypeOK
<1>8. ASSUME AsksRelayName(query[w])
      PROVE  /\ pc'[w] = "respond"
             /\ ansCnt'[w] = Len(RelayAnswer(query[w].questions[1]))
             /\ \A i \in 1..ansCnt'[w] : i <= AnCountMax =>
                  buf'[w][i] = RelayAnswer(query[w].questions[1])[i]
  <2>1. Question(w) = query[w].questions[1] /\ Len(query[w].questions) = 1
    BY <1>1, <1>8, OnlyQuestion DEF InLoop
  <2>2. pc'[w] = "respond"
    BY <1>1, <2>1, OneTurn DEF InLoop
  <2>3. QED
    BY <1>3, <1>4, <1>7, <2>1, <2>2
<1>9. RelayOK(w)'
  BY <1>1, <1>7, <1>8 DEF RelayOK, SlotsOK, Asking, AsksRelayName, select_database,
     RelayAnswer, check_blocked
<1>10. RelayReplyOK(reply[w])'
  BY <1>1, RelayReplyFrame DEF RelayInv, RelayReplyOK, FromUpstream, GrantsKept
<1>11. QED
  BY <1>6, <1>9, <1>10, RelayStepOfOne

\* A step that changes neither count nor buffer nor reply, and goes to an answer
\* only from an answer or from outside.
LEMMA RelayMoves ==
    ASSUME Inv, RelayInv, NEW w \in Workers, GrantsKept,
           \A v \in Workers \ {w} : pc'[v] = pc[v],
           UNCHANGED <<query, ansCnt, buf, reply>>,
           pc[w] \in Asking, pc'[w] \notin {"idle", "sent"},
           \/ pc'[w] \in {"reput", "respond"} => pc[w] \in {"reput"} \cup Outside
           \/ pc'[w] = "dead",
           pc'[w] \in {"find", "select"} => pc[w] = "find" \/ Len(query[w].questions) # 1
    PROVE  RelayInv'
<1>1. ASSUME NEW v \in Workers \ {w} PROVE RelayOK(v)' /\ RelayReplyOK(reply[v])'
  BY <1>1, RelayFrame DEF RelayInv
<1>2. RelayReplyOK(reply[w])'
  BY RelayReplyFrame DEF RelayInv, RelayReplyOK, FromUpstream
<1>3. ASSUME AsksRelayName(query[w])
      PROVE  /\ pc'[w] \in {"find", "select"} => ansCnt'[w] = 0
             /\ pc'[w] \in {"reput", "respond"} => SlotsOK(w, query[w].questions[1])'
  <2>1. query[w] \in Queries /\ (pc[w] \in Outside => External(query[w]))
    BY OwnFacts DEF WorkerOK
  <2>2. pc[w] \notin Outside
    BY <1>3, <2>1, RelayNameIsInside
  <2>3. pc'[w] \in {"find", "select"} => ansCnt'[w] = 0
    BY <1>3 DEF RelayInv, RelayOK, Asking, AsksRelayName
  <2>4. ASSUME pc'[w] \in {"reput", "respond"}, NEW k, k = query[w].questions[1]
        PROVE  SlotsOK(w, query[w].questions[1])'
    <3>1. SlotsOK(w, k)
      BY <1>3, <2>2, <2>4 DEF RelayInv, RelayOK, Asking
    <3>2. SlotsOK(w, k)'
      BY <3>1, SlotsFrame
    <3>3. QED
      BY <2>4, <3>2
  <2>5. QED
    BY <2>3, <2>4
<1>4. RelayOK(w)'
  BY <1>3 DEF RelayOK, AsksRelayName, select_database
<1>5. QED
  BY <1>1, <1>2, <1>4 DEF RelayInv

\* The loop goes on only when there is another question.
LEMMA PutFoundRelays ==
    ASSUME Inv, RelayInv, NEW w \in Workers, PutFound(w)
    PROVE  RelayInv'
<1>1. pc[w] = "reput" /\ UNCHANGED <<query, ansCnt, buf, reply, granted>>
  BY DEF PutFound
<1>2. /\ \A v \in Workers \ {w} : pc'[v] = pc[v]
      /\ pc'[w] \in {"reput", "respond", "find"}
      /\ pc'[w] = "find" => Len(query[w].questions) # 1
  <2>1. CASE NextQuestion(w)
    <3>1. PICK l \in {"find", "respond"} : pc' = [pc EXCEPT ![w] = l]
      BY <1>1, <2>1, NextQuestionEffect DEF InLoop
    <3>2. pc'[w] = l /\ \A v \in Workers \ {w} : pc'[v] = pc[v]
      BY <3>1 DEF Inv, TypeOK
    <3>3. Len(query[w].questions) = 1 => l = "respond"
      BY <1>1, <2>1, <3>2, OneTurn DEF InLoop
    <3>4. QED
      BY <3>2, <3>3
  <2>2. CASE pc' = pc
    BY <1>1, <2>2
  <2>3. QED
    BY <2>1, <2>2 DEF PutFound
<1>3. QED
  BY <1>1, <1>2, RelayMoves DEF Asking, GrantsKept

\* A record that upstream gives is granted time, and none is taken back.
LEMMA PutAnswerRelays ==
    ASSUME Inv, RelayInv, NEW w \in Workers, PutAnswer(w)
    PROVE  RelayInv'
<1> DEFINE r == Head(todo[w])
<1>1. /\ pc[w] = "store"
      /\ granted' = [granted EXCEPT ![r.rr] = Later(granted[r.rr], now + r.ttl)]
      /\ pc' = [pc EXCEPT ![w] = IF Len(todo[w]) = 1 THEN "forward" ELSE "store"]
      /\ UNCHANGED <<query, ansCnt, buf, reply>>
  BY DEF PutAnswer, Goto
<1>2. todo[w] # <<>> /\ todo[w] \in Seq(Record)
  BY <1>1, OwnFacts DEF WorkerOK
<1>3. r \in Record
  BY <1>2, HeadTailProperties
<1>4. r.rr \in RRs /\ r.ttl \in Nat /\ now \in Nat /\ granted \in [RRs -> Nat \cup {-1}]
  BY <1>3, OwnFacts, CacheFacts DEF Record, TypeOK
<1> HIDE DEF r
<1>5. GrantsKept
  BY <1>1, <1>4 DEF GrantsKept, Later
<1>6. pc'[w] \in {"forward", "store"} /\ \A v \in Workers \ {w} : pc'[v] = pc[v]
  BY <1>1 DEF Inv, TypeOK
<1>7. QED
  BY <1>1, <1>5, <1>6, RelayMoves DEF Asking

\* The steps that only lead on.
LEMMA MovesRelay ==
    ASSUME Inv, RelayInv, NEW w \in Workers,
           \/ FindMiss(w) \/ SelectNone(w) \/ NoSocket(w) \/ NoTimeoutOption(w)
           \/ SendQuestion(w) \/ NoAnswer(w) \/ Receive(w)
    PROVE  RelayInv'
<1>1. /\ \/ pc[w] = "find" /\ pc' = [pc EXCEPT ![w] = "select"]
         \/ pc[w] = "select" /\ pc' = [pc EXCEPT ![w] = "send"]
         \/ /\ pc[w] \in {"send", "await"}
            /\ \E l \in {"dead", "respond", "await", "forward", "store"} : pc' = [pc EXCEPT ![w] = l]
      /\ UNCHANGED <<query, ansCnt, buf, reply, granted>>
  BY DEF FindMiss, SelectNone, NoSocket, NoTimeoutOption, SendQuestion, NoAnswer,
     Receive, RefusedAnswer, Answer, Goto
<1>2. /\ \A v \in Workers \ {w} : pc'[v] = pc[v]
      /\ \/ pc[w] = "find" /\ pc'[w] = "select"
         \/ pc[w] = "select" /\ pc'[w] = "send"
         \/ /\ pc[w] \in {"send", "await"}
            /\ pc'[w] \in {"dead", "respond", "await", "forward", "store"}
  BY <1>1 DEF Inv, TypeOK
<1>3. QED
  BY <1>1, <1>2, RelayMoves DEF Asking, Outside, GrantsKept

\* A new query finds nothing counted.
LEMMA ReceiveQueryRelays ==
    ASSUME Inv, RelayInv, NEW w \in Workers, NEW q \in Queries, ReceiveQuery(w, q)
    PROVE  RelayInv'
<1>1. /\ pc[w] = "idle" /\ query' = [query EXCEPT ![w] = q]
      /\ hdrId' = [hdrId EXCEPT ![w] = q.id] /\ qi' = [qi EXCEPT ![w] = 1]
      /\ pc' = [pc EXCEPT ![w] = IF q.opcode # "query" THEN "send"
                                 ELSE IF q.questions = <<>> THEN "respond" ELSE "find"]
      /\ UNCHANGED <<buf, ansCnt, todo, reply, granted>>
  BY DEF ReceiveQuery, Goto
<1>2. OthersUntouched(w) /\ \A v \in Workers \ {w} : ansCnt'[v] = ansCnt[v]
  BY <1>1, OwnFacts DEF TypeOK, OthersUntouched
<1>3. /\ query'[w] = q /\ ansCnt'[w] = 0
      /\ pc'[w] \in {"send", "respond", "find"}
      /\ pc'[w] = "respond" => q.questions = <<>>
  BY <1>1, OwnFacts DEF TypeOK, RelayInv, RelayOK
<1>4. pc'[w] = "respond" => ~AsksRelayName(q)
  BY <1>3 DEF AsksRelayName
<1>5. RelayOK(w)'
  BY <1>3, <1>4 DEF RelayOK, Asking, AsksRelayName, select_database
<1>6. RelayReplyOK(reply[w])'
  BY <1>1, RelayReplyFrame DEF RelayInv, RelayReplyOK, FromUpstream, GrantsKept
<1>7. QED
  BY <1>2, <1>5, <1>6, RelayStepOfOne

\* What is in the slots is what is sent.
LEMMA SlotsAreAnswered ==
    ASSUME Inv, NEW w \in Workers, pc[w] = "respond", Filled(w),
           NEW k \in Keys, SlotsOK(w, k),
           NEW answers, answers = [i \in 1..ansCnt[w] |-> buf[w][i]]
    PROVE  \/ answers = RelayAnswer(k)
           \/ \A i \in DOMAIN answers : answers[i] \in Record /\ FromUpstream(answers[i], k)
<1>1. /\ ansCnt[w] \in Nat /\ DOMAIN answers = 1..ansCnt[w]
      /\ \A i \in 1..ansCnt[w] : i <= AnCountMax /\ answers[i] = buf[w][i]
  BY OwnFacts DEF Filled
<1>2. CASE \A i \in 1..ansCnt[w] : i <= AnCountMax =>
             buf[w][i] \in Record /\ FromUpstream(buf[w][i], k)
  BY <1>1, <1>2
<1>3. CASE /\ ansCnt[w] = Len(RelayAnswer(k))
           /\ \A i \in 1..ansCnt[w] : i <= AnCountMax => buf[w][i] = RelayAnswer(k)[i]
  <2>1. RelayAnswer(k) \in Seq(Record)
    BY Constants, EmptySeq DEF RelayAnswer
  <2>2. \A i \in 1..ansCnt[w] : answers[i] = RelayAnswer(k)[i]
    BY <1>1, <1>3
  <2>3. RelayAnswer(k) = [i \in 1..ansCnt[w] |-> RelayAnswer(k)[i]]
    BY <1>3, <2>1, LenProperties
  <2>4. QED
    BY <2>2, <2>3
<1>4. QED
  BY <1>2, <1>3 DEF SlotsOK

\* The worker answers,
LEMMA RespondLocallyRelays ==
    ASSUME Inv, RelayInv, NEW w \in Workers, RespondLocally(w)
    PROVE  RelayInv'
<1> DEFINE answers == SubSeq(buf[w], 1, ansCnt[w])
           r == [query |-> query[w], id |-> hdrId[w], source |-> "local", answers |-> answers]
<1>1. /\ pc[w] = "respond" /\ Filled(w) /\ pc' = [pc EXCEPT ![w] = "sent"]
      /\ reply' = [reply EXCEPT ![w] = r]
      /\ ansCnt' = [ansCnt EXCEPT ![w] = 0]
      /\ query' = [query EXCEPT ![w] = NoReply] /\ qi' = [qi EXCEPT ![w] = 0]
      /\ buf' = [buf EXCEPT ![w] = EmptyBuffer] /\ hdrId' = [hdrId EXCEPT ![w] = 0]
      /\ UNCHANGED <<todo, granted>>
  BY DEF RespondLocally, Reply, Goto
<1>2. OthersUntouched(w) /\ \A v \in Workers \ {w} : ansCnt'[v] = ansCnt[v]
  <2> HIDE DEF r
  <2>1. QED
    BY <1>1, OwnFacts DEF TypeOK, OthersUntouched
<1>3. pc'[w] = "sent" /\ ansCnt'[w] = 0 /\ reply'[w] = r
  <2> HIDE DEF r
  <2>1. QED
    BY <1>1, OwnFacts DEF TypeOK
<1>4. RelayOK(w)'
  BY <1>3 DEF RelayOK, Asking
<1>5. ASSUME AsksRelayName(query[w])
      PROVE  \/ answers = RelayAnswer(query[w].questions[1])
             \/ \A i \in DOMAIN answers :
                  answers[i] \in Record /\ FromUpstream(answers[i], query[w].questions[1])
  <2>1. query[w] \in Queries
    BY <1>1, OwnFacts DEF WorkerOK, Asking
  <2>2. query[w].questions[1] \in Keys
    BY <1>5, <2>1, Constants, RelayNameIsInside, ElementOfSeq DEF AsksRelayName
  <2>3. SlotsOK(w, query[w].questions[1])
    BY <1>1, <1>5 DEF RelayInv, RelayOK, Asking
  <2>4. answers = [i \in 1..ansCnt[w] |-> buf[w][i]]
    BY <1>1, LocalAnswers
  <2> HIDE DEF answers
  <2>5. QED
    BY <1>1, <2>2, <2>3, <2>4, SlotsAreAnswered
<1>6. RelayReplyOK(r)
  <2> HIDE DEF answers
  <2>1. QED
    BY <1>5 DEF RelayReplyOK
<1>7. RelayReplyOK(reply[w])'
  <2> HIDE DEF r
  <2>1. QED
    BY <1>1, <1>3, <1>6, RelayReplyFrame DEF RelayReplyOK, FromUpstream, GrantsKept
<1>8. QED
  BY <1>2, <1>4, <1>7, RelayStepOfOne

\* or passes on an answer to another question.
LEMMA ForwardRelays ==
    ASSUME Inv, RelayInv, NEW w \in Workers, Forward(w)
    PROVE  RelayInv'
<1> DEFINE r == [query |-> query[w], id |-> hdrId[w], source |-> "upstream", answers |-> ans[w]]
<1>1. /\ pc[w] = "forward" /\ pc' = [pc EXCEPT ![w] = "sent"]
      /\ reply' = [reply EXCEPT ![w] = r]
      /\ ansCnt' = [ansCnt EXCEPT ![w] = 0]
      /\ query' = [query EXCEPT ![w] = NoReply] /\ qi' = [qi EXCEPT ![w] = 0]
      /\ buf' = [buf EXCEPT ![w] = EmptyBuffer] /\ hdrId' = [hdrId EXCEPT ![w] = 0]
      /\ UNCHANGED <<todo, granted>>
  BY DEF Forward, Reply, Goto
<1>2. ~AsksRelayName(r.query)
  BY <1>1, OwnFacts, RelayNameIsInside DEF WorkerOK, Asking, Outside
<1> HIDE DEF r
<1>3. OthersUntouched(w) /\ \A v \in Workers \ {w} : ansCnt'[v] = ansCnt[v]
  BY <1>1, OwnFacts DEF TypeOK, OthersUntouched
<1>4. pc'[w] = "sent" /\ ansCnt'[w] = 0 /\ reply'[w] = r
  BY <1>1, OwnFacts DEF TypeOK
<1>5. RelayOK(w)'
  BY <1>4 DEF RelayOK, Asking
<1>6. RelayReplyOK(reply[w])'
  BY <1>2, <1>4 DEF RelayReplyOK, AsksRelayName, select_database
<1>7. QED
  BY <1>3, <1>5, <1>6, RelayStepOfOne

\* When the process ends over a name that is too long, that name was asked for.
LEMMA EndRelays ==
    ASSUME Inv, RelayInv, NEW w \in Workers,
           BadQuestion(w) \/ RespondSharing(w) \/ SerialiseEmptySlot(w)
    PROVE  RelayInv'
<1>1. pc' = [v \in Workers |-> "dead"] /\ UNCHANGED granted
  BY DEF BadQuestion, RespondSharing, SerialiseEmptySlot, ReplyAndAbort
<1>2. \A v \in Workers : RelayOK(v)'
  BY <1>1 DEF RelayOK, Asking
<1>3. \A v \in Workers : reply'[v] = reply[v] => RelayReplyOK(reply[v])'
  BY <1>1, RelayReplyFrame DEF RelayInv, RelayReplyOK, FromUpstream, GrantsKept
<1>4. CASE SerialiseEmptySlot(w)
  BY <1>2, <1>3, <1>4 DEF RelayInv, SerialiseEmptySlot
<1>5. ASSUME BadQuestion(w) \/ RespondSharing(w) PROVE RelayInv'
  <2>1. pc[w] \in {"find", "respond"} /\ \E a : ReplyAndAbort(w, a)
    BY <1>5 DEF BadQuestion, RespondSharing
  <2>2. query[w] \in Queries
    BY <2>1, OwnFacts DEF WorkerOK, Asking
  <2>3. \E k \in DOMAIN query[w].questions : query[w].questions[k] \in BadNames
    <3>1. CASE BadQuestion(w)
      BY <3>1, OwnFacts DEF BadQuestion, Question, WorkerOK, InLoop
    <3>2. CASE RespondSharing(w)
      BY <3>2 DEF RespondSharing, SharesName
    <3>3. QED
      BY <1>5, <3>1, <3>2
  <2>4. ~AsksRelayName(query[w])
    BY <2>2, <2>3, RelayNameIsInside DEF AsksRelayName
  <2>5. PICK a : reply' = [reply EXCEPT ![w] = [query |-> query[w], id |-> hdrId[w],
                                               source |-> "local", answers |-> a]]
    BY <2>1 DEF ReplyAndAbort
  <2>6. reply'[w].query = query[w] /\ \A v \in Workers \ {w} : reply'[v] = reply[v]
    BY <2>5, OwnFacts DEF TypeOK
  <2>7. RelayReplyOK(reply[w])'
    BY <2>4, <2>6 DEF RelayReplyOK, AsksRelayName, select_database
  <2>8. QED
    BY <1>2, <1>3, <2>6, <2>7 DEF RelayInv
<1>6. QED
  BY <1>4, <1>5

\* Nothing is counted when the job has returned.
LEMMA JobReturnsRelays ==
    ASSUME Inv, RelayInv, NEW w \in Workers, JobReturns(w)
    PROVE  RelayInv'
<1>1. /\ pc[w] = "sent" /\ pc' = [pc EXCEPT ![w] = "idle"]
      /\ reply' = [reply EXCEPT ![w] = NoReply]
      /\ UNCHANGED <<query, qi, buf, ansCnt, todo, hdrId, granted>>
  BY DEF JobReturns, Goto
<1>2. OthersUntouched(w) /\ \A v \in Workers \ {w} : ansCnt'[v] = ansCnt[v]
  BY <1>1, OwnFacts DEF TypeOK, OthersUntouched
<1>3. pc'[w] = "idle" /\ ansCnt'[w] = 0 /\ reply'[w] = NoReply
  BY <1>1, OwnFacts DEF TypeOK, RelayInv, RelayOK
<1>4. RelayOK(w)' /\ RelayReplyOK(reply[w])'
  BY <1>3 DEF RelayOK, RelayReplyOK, Asking
<1>5. QED
  BY <1>2, <1>4, RelayStepOfOne

\* Every step keeps what the workers will answer.
LEMMA NextRelays ==
    ASSUME Inv, RelayInv, [Next]_vars
    PROVE  RelayInv'
<1>1. ASSUME NEW w \in Workers, Resolve(w) PROVE RelayInv'
  BY <1>1, EndRelays, FindHitRelays, PutFoundRelays, SelectFoundRelays, MovesRelay,
     PutAnswerRelays, RespondLocallyRelays, ForwardRelays, JobReturnsRelays DEF Resolve
<1>2. ASSUME NEW w \in Workers, Receive(w) PROVE RelayInv'
  BY <1>2, MovesRelay
<1>3. ASSUME NEW w \in Workers, NEW q \in Queries, ReceiveQuery(w, q) PROVE RelayInv'
  BY <1>3, ReceiveQueryRelays
<1>4. ASSUME UNCHANGED <<localVars, reply, granted>> PROVE RelayInv'
  <2>1. GrantsKept /\ UNCHANGED <<pc, query, buf, ansCnt, reply>>
    BY <1>4 DEF GrantsKept, localVars
  <2>2. ASSUME NEW v \in Workers PROVE RelayOK(v)' /\ RelayReplyOK(reply[v])'
    BY <2>1, RelayFrame DEF RelayInv
  <2>3. QED
    BY <2>2 DEF RelayInv
<1>5. QED
  BY <1>1, <1>2, <1>3, <1>4 DEF Next, Timer, vars

\* A query for one name that the relay database has is always answered here and
\* under its own id, with the relay's records, with none when one of them blocks
\* the name, or with records the external server gave for this very question.
\* The buffer of an earlier query, the external server's failures and the other
\* workers' puts into the cache add nothing to that and take nothing away.
THEOREM RelayNamesAnsweredHere == Spec => []RelayNameAnsweredHere
<1>1. Init => RelayInv
  BY DEF Init, RelayInv, RelayOK, RelayReplyOK, Asking
<1>2. Inv /\ RelayInv /\ [Next]_vars => RelayInv'
  BY NextRelays
<1>3. Inv /\ RelayInv => RelayNameAnsweredHere
  <2> SUFFICES ASSUME Inv, RelayInv, NEW w \in Workers, reply[w] # NoReply,
                      AsksRelayName(reply[w].query)
               PROVE  /\ reply[w].source = "local" /\ reply[w].id = reply[w].query.id
                      /\ \/ reply[w].answers = RelayAnswer(reply[w].query.questions[1])
                         \/ \A i \in DOMAIN reply[w].answers :
                              FromUpstream(reply[w].answers[i], reply[w].query.questions[1])
    BY DEF RelayNameAnsweredHere
  <2>1. reply[w].query \in Queries
    BY OwnFacts DEF Replies
  <2>2. reply[w].id = reply[w].query.id
    BY <2>1, OwnFacts, RelayNameIsInside DEF ReplyOK
  <2>3. QED
    BY <2>2 DEF RelayInv, RelayReplyOK
<1>4. QED
  BY <1>1, <1>2, <1>3, Invariance, PTL DEF Spec
=============================================================================
