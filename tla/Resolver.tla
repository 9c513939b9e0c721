------------------------------ MODULE Resolver ------------------------------
(***************************************************************************)
(* resolv_handle (src/socket/resolv.c) and send_question                   *)
(* (src/socket/client.c): how a worker answers a query from the cache, the *)
(* relay database or the external server, while the other workers and the  *)
(* cache's timer do the same to the same cache.                            *)
(*                                                                         *)
(* Each call into the cache is one action (Cache); nothing holds the lock  *)
(* from one call to the next.  The relay database does not change after    *)
(* the start and is a constant.  The network is modelled by what recvfrom  *)
(* may give: nothing for four seconds, or a message with any id.           *)
(*                                                                         *)
(*   pc[w]  idle     no query               send     no local answer       *)
(*          find     cache_find_rr          await    in recvfrom           *)
(*          reput    putting what was found store    putting what came     *)
(*          select   select_database        forward  upstream's answer     *)
(*          respond  local answer           sent     the answer is out     *)
(*                                          dead     the thread has ended  *)
(***************************************************************************)
EXTENDS Integers, Sequences, FiniteSets

CONSTANTS Workers,
          Queries,      \* [id, opcode, questions]; a question is a key, that
                        \* is [name, class] with name for the name and the type
          Ids,          \* values of the 16-bit message id
          DB,           \* DB[name]: the records of the relay database
          Upstream,     \* Upstream[key]: the answers the server may give
          BadNames,     \* keys for which domain_len is negative
          Faults,       \* what may go wrong on the way to the server
          AnCountMax,   \* ANCOUNT_MAX
          NoRR, NoReply,
          RRs, TTLs, CacheSizeMax, MaxTime  \* as in Cache

ASSUME ResolverAssumption ==
    /\ Faults \subseteq {"socket", "option", "truncated", "id"}
    /\ AnCountMax \in Nat \ {0}
    /\ NoRR \notin [rr : RRs, ttl : Nat]
    /\ \A q \in Queries : q.id \in Ids /\ q.questions \in Seq(DOMAIN Upstream)
    /\ \A k \in DOMAIN Upstream :
         k.name \in DOMAIN DB /\ Upstream[k] \subseteq Seq([rr : RRs, ttl : Nat])
    /\ \A n \in DOMAIN DB : /\ DB[n] \in Seq([rr : RRs, ttl : Nat])
                            /\ \A i \in DOMAIN DB[n] : DB[n][i].rr.key.name = n

VARIABLES entries, now, refreshed,  \* the cache
          pc, query, qi,            \* the query, the index of its question
          buf, ansCnt,              \* ans_buffer and ans_cnt
          todo,                     \* the records still to be put
          ans, hdrId, newId,        \* ans.answer, ans.header.id, new_id
          reply,                    \* history: what the worker sent last
          granted                   \* history: until when upstream let each
                                    \* record live, -1 if it never gave it

C == INSTANCE Cache

cacheVars == <<entries, now, refreshed>>
localVars == <<pc, query, qi, buf, ansCnt, todo, ans, hdrId, newId>>
vars == <<cacheVars, localVars, reply, granted>>

EmptyBuffer == [i \in 1..AnCountMax |-> NoRR]
Question(w) == query[w].questions[qi[w]]

\* The records recs, copied to the start of the buffer b.
CopyTo(b, recs) ==
    [i \in 1..AnCountMax |-> IF i <= Len(recs) THEN recs[i] ELSE b[i]]

\* select_database looks for the name and the type; the class of the question
\* is not compared with that of the records.
select_database(k) == DB[k.name]

Goto(w, label) == pc' = [pc EXCEPT ![w] = label]

-----------------------------------------------------------------------------
(* The job starts with a query that was parsed.  A message that is not a
   request is dropped at once and changes nothing, so it is no action here. *)

ReceiveQuery(w, q) ==
    /\ pc[w] = "idle"
    /\ query' = [query EXCEPT ![w] = q]
    /\ hdrId' = [hdrId EXCEPT ![w] = q.id]
    /\ qi' = [qi EXCEPT ![w] = 1]
    /\ Goto(w, IF q.opcode # "query" THEN "send"
               ELSE IF q.questions = <<>> THEN "respond" ELSE "find")
    /\ UNCHANGED <<cacheVars, buf, ansCnt, todo, ans, newId, reply, granted>>

NextQuestion(w) ==
    /\ qi' = [qi EXCEPT ![w] = qi[w] + 1]
    /\ Goto(w, IF qi[w] = Len(query[w].questions) THEN "respond" ELSE "find")

\* For a name that is too long mq_copy makes the answer share the query's qname.
SharesName(q) == \E k \in DOMAIN q.questions : q.questions[k] \in BadNames

\* The shared qname is freed with the answer and, after the reply, with the query:
\* the process is aborted.
ReplyAndAbort(w, answers) ==
    /\ reply' = [reply EXCEPT ![w] = [query |-> query[w], id |-> hdrId[w],
                                      source |-> "local", answers |-> answers]]
    /\ pc' = [v \in Workers |-> "dead"]
    /\ UNCHANGED <<cacheVars, query, qi, buf, ansCnt, todo, ans, hdrId, newId, granted>>

\* failure_flag = RCODE_FORMAT_ERROR: an answer without records.
BadQuestion(w) ==
    pc[w] = "find" /\ Question(w) \in BadNames /\ ReplyAndAbort(w, <<>>)

FindHit(w) ==
    /\ pc[w] = "find"
    /\ Question(w) \notin BadNames
    /\ \E found \in C!cache_find_rr(Question(w)) :
         /\ found # <<>>
         /\ todo' = [todo EXCEPT ![w] = [i \in DOMAIN found |->
                                         [rr |-> found[i].rr, ttl |-> found[i].ttl]]]
         /\ buf' = [buf EXCEPT ![w] = CopyTo(buf[w], todo'[w])]
         /\ ansCnt' = [ansCnt EXCEPT ![w] = ansCnt[w] + Len(found)]
    /\ Goto(w, "reput")
    /\ UNCHANGED <<cacheVars, query, qi, ans, hdrId, newId, reply, granted>>

FindMiss(w) ==
    /\ pc[w] = "find"
    /\ Question(w) \notin BadNames
    /\ <<>> \in C!cache_find_rr(Question(w))
    /\ Goto(w, "select")
    /\ UNCHANGED <<cacheVars, query, qi, buf, ansCnt, todo, ans, hdrId, newId, reply, granted>>

\* Each record that was found is put again, to move it to the front.
PutFound(w) ==
    /\ pc[w] = "reput"
    /\ C!cache_put_rr(Head(todo[w]).rr, Head(todo[w]).ttl)
    /\ todo' = [todo EXCEPT ![w] = Tail(todo[w])]
    /\ IF Len(todo[w]) = 1 THEN NextQuestion(w) ELSE UNCHANGED <<qi, pc>>
    /\ UNCHANGED <<query, buf, ansCnt, ans, hdrId, newId, reply, granted>>

check_blocked(rec) == \A i \in 1..4 : rec.rr.rdata[i] = 0

\* Mutant: a blocked name is looked up at the external server.
SelectFound_AskAnyway(w) ==
    /\ pc[w] = "select"
    /\ \E i \in DOMAIN select_database(Question(w)) : check_blocked(select_database(Question(w))[i])
    /\ Goto(w, "send")
    /\ UNCHANGED <<cacheVars, query, qi, buf, ansCnt, todo, ans, hdrId, newId, reply, granted>>
\* Mutant: a record of the relay database is put into the cache as well.
SelectFound_Cached(w) ==
    LET recs == select_database(Question(w)) IN
    /\ pc[w] = "select"
    /\ recs # <<>>
    /\ buf' = [buf EXCEPT ![w] = CopyTo(buf[w], recs)]
    /\ ansCnt' = [ansCnt EXCEPT ![w] = Len(recs)]
    /\ C!cache_put_rr(recs[1].rr, recs[1].ttl)
    /\ NextQuestion(w)
    /\ UNCHANGED <<query, todo, ans, hdrId, newId, reply, granted>>
\* Mutant: a blocked record frees its slot and the answers stay counted.
SelectFound_Counted(w) ==
    LET recs == select_database(Question(w))
        blocked == {i \in DOMAIN recs : check_blocked(recs[i])}
    IN
    /\ pc[w] = "select"
    /\ recs # <<>>
    /\ buf' = [buf EXCEPT ![w] = [i \in 1..AnCountMax |->
                  IF i \in blocked THEN NoRR ELSE CopyTo(buf[w], recs)[i]]]
    /\ ansCnt' = [ansCnt EXCEPT ![w] = Len(recs)]
    /\ NextQuestion(w)
    /\ UNCHANGED <<cacheVars, query, todo, ans, hdrId, newId, reply, granted>>
\* One blocked record frees its own slot and takes back all answers so far.
SelectFound(w) ==
    LET recs == select_database(Question(w))
        blocked == {i \in DOMAIN recs : check_blocked(recs[i])}
        freed == {i \in blocked : \A k \in blocked : i <= k}
    IN
    /\ pc[w] = "select"
    /\ recs # <<>>
    /\ buf' = [buf EXCEPT ![w] = [i \in 1..AnCountMax |->
                  IF i \in freed THEN NoRR ELSE CopyTo(buf[w], recs)[i]]]
    /\ ansCnt' = [ansCnt EXCEPT ![w] = IF blocked = {} THEN Len(recs) ELSE 0]
    /\ NextQuestion(w)
    /\ UNCHANGED <<cacheVars, query, todo, ans, hdrId, newId, reply, granted>>

SelectNone(w) ==
    /\ pc[w] = "select"
    /\ select_database(Question(w)) = <<>>
    /\ Goto(w, "send")
    /\ UNCHANGED <<cacheVars, query, qi, buf, ansCnt, todo, ans, hdrId, newId, reply, granted>>

-----------------------------------------------------------------------------
(* send_question *)

NoSocket(w) ==
    /\ pc[w] = "send"
    /\ "socket" \in Faults
    /\ Goto(w, "dead")
    /\ UNCHANGED <<cacheVars, query, qi, buf, ansCnt, todo, ans, hdrId, newId, reply, granted>>

\* setsockopt refuses the receive timeout: nothing is sent.
NoTimeoutOption(w) ==
    /\ pc[w] = "send"
    /\ "option" \in Faults
    /\ Goto(w, "respond")
    /\ UNCHANGED <<cacheVars, query, qi, buf, ansCnt, todo, ans, hdrId, newId, reply, granted>>

\* new_id is rand(), which may be any id, the old one too.
SendQuestion(w) ==
    /\ pc[w] = "send"
    /\ \E id \in Ids : newId' = [newId EXCEPT ![w] = id]
    /\ Goto(w, "await")
    /\ UNCHANGED <<cacheVars, query, qi, buf, ansCnt, todo, ans, hdrId, reply, granted>>

\* Mutant: the socket has no receive timeout.
NoAnswer_Blocks(w) == FALSE
\* recvfrom gives nothing within the four seconds of the receive timeout, or less
\* than a header; the header of the answer stays as it was set up.
NoAnswer(w) ==
    /\ pc[w] = "await"
    /\ Goto(w, "respond")
    /\ UNCHANGED <<cacheVars, query, qi, buf, ansCnt, todo, ans, hdrId, newId, reply, granted>>

\* A message with the TC bit, or with another id than new_id: its header has
\* been read into the answer before it is refused.
RefusedAnswer(w, id) ==
    /\ pc[w] = "await"
    /\ "truncated" \in Faults \/ ("id" \in Faults /\ id # newId[w])
    /\ hdrId' = [hdrId EXCEPT ![w] = id]
    /\ Goto(w, "respond")
    /\ UNCHANGED <<cacheVars, query, qi, buf, ansCnt, todo, ans, newId, reply, granted>>

\* The server may answer any of the questions of the query, or none.
AnswersTo(q) ==
    {<<>>} \cup UNION {Upstream[q.questions[i]] : i \in DOMAIN q.questions}

\* Mutant: the id of the query is not put back into the answer.
RestoredId_Forgotten(w) == newId[w]
RestoredId(w) == query[w].id

Answer(w) ==
    /\ pc[w] = "await"
    /\ \E a \in AnswersTo(query[w]) :
         /\ ans' = [ans EXCEPT ![w] = a]
         /\ todo' = [todo EXCEPT ![w] = a]
         /\ Goto(w, IF a = <<>> THEN "forward" ELSE "store")
    /\ hdrId' = [hdrId EXCEPT ![w] = RestoredId(w)]
    /\ UNCHANGED <<cacheVars, query, qi, buf, ansCnt, newId, reply, granted>>

Later(a, b) == IF a < b THEN b ELSE a

PutAnswer(w) ==
    LET r == Head(todo[w]) IN
    /\ pc[w] = "store"
    /\ C!cache_put_rr(r.rr, r.ttl)
    /\ todo' = [todo EXCEPT ![w] = Tail(todo[w])]
    /\ granted' = [granted EXCEPT ![r.rr] = Later(granted[r.rr], now + r.ttl)]
    /\ Goto(w, IF Len(todo[w]) = 1 THEN "forward" ELSE "store")
    /\ UNCHANGED <<query, qi, buf, ansCnt, ans, hdrId, newId, reply>>

-----------------------------------------------------------------------------
(* The answer is serialised and sent, and all that the worker held is freed;
   then the job returns. *)

Reply(w, source, answers) ==
    /\ reply' = [reply EXCEPT ![w] =
                   [query |-> query[w], id |-> hdrId[w],
                    source |-> source, answers |-> answers]]
    /\ Goto(w, "sent")
    /\ query' = [query EXCEPT ![w] = NoReply]
    /\ qi' = [qi EXCEPT ![w] = 0]
    /\ buf' = [buf EXCEPT ![w] = EmptyBuffer]
    /\ ansCnt' = [ansCnt EXCEPT ![w] = 0]
    /\ ans' = [ans EXCEPT ![w] = <<>>]
    /\ hdrId' = [hdrId EXCEPT ![w] = 0]
    /\ newId' = [newId EXCEPT ![w] = 0]
    /\ UNCHANGED <<cacheVars, todo, granted>>

Filled(w) == \A i \in 1..ansCnt[w] : i <= AnCountMax /\ buf[w][i] # NoRR

RespondLocally(w) ==
    /\ pc[w] = "respond" /\ Filled(w) /\ ~SharesName(query[w])
    /\ Reply(w, "local", SubSeq(buf[w], 1, ansCnt[w]))

\* The loop did not come to the name that is too long: the query is no standard
\* query, or an earlier name was asked for outside in vain.
RespondSharing(w) ==
    /\ pc[w] = "respond" /\ Filled(w) /\ SharesName(query[w])
    /\ ReplyAndAbort(w, SubSeq(buf[w], 1, ansCnt[w]))

\* A slot that was never written has a NULL name; message_to_u8 reads it and
\* the process ends.
SerialiseEmptySlot(w) ==
    /\ pc[w] = "respond"
    /\ ~Filled(w)
    /\ pc' = [v \in Workers |-> "dead"]
    /\ UNCHANGED <<cacheVars, query, qi, buf, ansCnt, todo, ans, hdrId, newId, reply, granted>>

Forward(w) ==
    pc[w] = "forward" /\ Reply(w, "upstream", ans[w])

JobReturns(w) ==
    /\ pc[w] = "sent"
    /\ Goto(w, "idle")
    /\ reply' = [reply EXCEPT ![w] = NoReply]
    /\ UNCHANGED <<cacheVars, query, qi, buf, ansCnt, todo, ans, hdrId, newId, granted>>

-----------------------------------------------------------------------------
Init ==
    /\ C!Init
    /\ pc = [w \in Workers |-> "idle"]
    /\ query = [w \in Workers |-> NoReply]
    /\ qi = [w \in Workers |-> 0]
    /\ buf = [w \in Workers |-> EmptyBuffer]
    /\ ansCnt = [w \in Workers |-> 0]
    /\ todo = [w \in Workers |-> <<>>]
    /\ ans = [w \in Workers |-> <<>>]
    /\ hdrId = [w \in Workers |-> 0]
    /\ newId = [w \in Workers |-> 0]
    /\ reply = [w \in Workers |-> NoReply]
    /\ granted = [r \in RRs |-> -1]

\* What a worker with a query does by itself,
Resolve(w) ==
    \/ BadQuestion(w) \/ FindHit(w) \/ FindMiss(w) \/ PutFound(w)
    \/ SelectFound(w) \/ SelectNone(w)
    \/ NoSocket(w) \/ NoTimeoutOption(w) \/ SendQuestion(w) \/ NoAnswer(w)
    \/ PutAnswer(w) \/ RespondLocally(w) \/ RespondSharing(w)
    \/ SerialiseEmptySlot(w) \/ Forward(w) \/ JobReturns(w)

\* and what happens to it when the external server sends something.
Receive(w) ==
    Answer(w) \/ \E id \in Ids : RefusedAnswer(w, id)

Timer ==
    /\ C!refresh_cache \/ C!Tick
    /\ UNCHANGED <<localVars, reply, granted>>

Next ==
    \/ \E w \in Workers : Resolve(w) \/ Receive(w)
    \/ \E w \in Workers, q \in Queries : ReceiveQuery(w, q)
    \/ Timer

Spec == Init /\ [][Next]_vars

(* A worker with a query goes on with it.  Nothing is assumed of the external
   server: recvfrom returns by the receive timeout if by nothing else. *)
FairSpec == Spec /\ \A w \in Workers : WF_vars(Resolve(w))

-----------------------------------------------------------------------------
(* Properties *)

Record == [rr : RRs, ttl : Nat]
Replies == [query : Queries, id : Ids \cup {0}, source : {"local", "upstream"},
            answers : Seq(Record \cup {NoRR})]

\* The type of every variable.
TypeOK ==
    /\ C!TypeOK
    /\ pc \in [Workers -> {"idle", "find", "reput", "select", "respond", "send",
                           "await", "store", "forward", "sent", "dead"}]
    /\ query \in [Workers -> Queries \cup {NoReply}]
    /\ qi \in [Workers -> Nat]
    /\ buf \in [Workers -> [1..AnCountMax -> Record \cup {NoRR}]]
    /\ ansCnt \in [Workers -> Nat]
    /\ todo \in [Workers -> Seq(Record)]
    /\ ans \in [Workers -> Seq(Record)]
    /\ hdrId \in [Workers -> Ids \cup {0}]
    /\ newId \in [Workers -> Ids \cup {0}]
    /\ reply \in [Workers -> Replies \cup {NoReply}]
    /\ granted \in [RRs -> Nat \cup {-1}]

\* Whatever is in the cache was once given by the external server: no record
\* of the relay database, which has no time to live, ever gets there.
CacheHoldsUpstreamOnly ==
    \A k \in C!Positions : granted[entries[k].rr] >= 0

\* The record answers the question k.
Answers(rec, k) ==
    /\ rec.rr.key.name = k.name
    /\ rec.rr.key = k \/ \E i \in DOMAIN select_database(k) : select_database(k)[i] = rec

\* A reply from local data holds records of the names and types of its own query,
\* also when the external server failed after some were found; of the class that
\* was asked for too, unless they are the relay's, which has one for all classes.
AnswersBelongToQuery ==
    \A w \in Workers : reply[w] # NoReply /\ reply[w].source = "local" =>
        \A i \in DOMAIN reply[w].answers :
            \E k \in DOMAIN reply[w].query.questions :
                Answers(reply[w].answers[i], reply[w].query.questions[k])

\* A standard query for one name that the relay database has.
AsksRelayName(q) ==
    /\ q.opcode = "query" /\ Len(q.questions) = 1
    /\ q.questions[1] \notin BadNames /\ select_database(q.questions[1]) # <<>>

\* What the relay database says of it.
RelayAnswer(k) ==
    LET recs == select_database(k) IN
    IF \E i \in DOMAIN recs : check_blocked(recs[i]) THEN <<>> ELSE recs

\* A record that the external server once gave for the question k.
FromUpstream(rec, k) == rec.rr.key = k /\ granted[rec.rr] >= 0

\* A name of the relay database is answered here and under the id of the query:
\* with all of the relay's records, with none if one of them blocks it, or with
\* what the external server gave for this very question before, for the cache is
\* asked first.  Nothing of an earlier query or question gets in between.
RelayNameAnsweredHere ==
    \A w \in Workers : reply[w] # NoReply /\ AsksRelayName(reply[w].query) =>
        LET k == reply[w].query.questions[1] IN
        /\ reply[w].source = "local" /\ reply[w].id = reply[w].query.id
        /\ \/ reply[w].answers = RelayAnswer(k)
           \/ \A i \in DOMAIN reply[w].answers : FromUpstream(reply[w].answers[i], k)

\* Every reply carries the id of its query.
ReplyHasQueryId ==
    \A w \in Workers : reply[w] # NoReply => reply[w].id = reply[w].query.id

\* A reply under another id than its query's is made here, of a query with a name
\* that had to be asked for outside: an answer that is passed on has the id of
\* the client, and not the one send_question made up.
ForeignIdIsLocal ==
    \A w \in Workers :
        reply[w] # NoReply /\ reply[w].id # reply[w].query.id =>
            /\ reply[w].source = "local"
            /\ \/ reply[w].query.opcode # "query"
               \/ \E k \in DOMAIN reply[w].query.questions :
                    select_database(reply[w].query.questions[k]) = <<>>

\* A query of one question never makes the serialiser meet an empty slot: each
\* of the ancount answers has its record.
OneQuestionIsFilled ==
    \A w \in Workers :
        pc[w] = "respond" /\ Len(query[w].questions) = 1 => Filled(w)

\* Every query a worker takes is answered, unless the worker ends with it.
QueryIsAnswered ==
    \A w \in Workers :
        (pc[w] # "idle") ~> (pc[w] = "dead" \/ reply[w] # NoReply)

\* cache.h:30, "ttl = 0 will be removed": no record stays in the cache for
\* longer than the external server allowed.
NoRecordOutlivesTtl ==
    \A k \in C!Positions : entries[k].expire <= granted[entries[k].rr]
=============================================================================
