---------------------------- MODULE ServerProofs ----------------------------
(***************************************************************************)
(* Proofs about Server, for every set of workers, clients, packets and     *)
(* descriptors and every size of the ring that ServerAssumption admits.    *)
(***************************************************************************)
EXTENDS Server, NumberLemmas, SequenceTheorems

Messages == [from : Clients, kind : Kinds]
Replies == {"answer", "empty", "garbled", "format error"}
\* The arguments of a job: a UDP job has the packet of its own client.
Arguments ==
    {a \in [client : Clients, packet : Packets \cup {None}, fd : Fds \cup {0}] :
        a.fd = 0 => a.packet \in Packets /\ a.packet.from = a.client}

\* The assumptions one by one, as the proofs cite them.
LEMMA Constants ==
    /\ Packets \subseteq Messages
    /\ MaxFd \in Nat \ {0} /\ MaxSize \in Nat \ {0} /\ Capacity \in Nat
    /\ IsFiniteSet(Workers) /\ IsFiniteSet(Jobs)
    /\ Cardinality(Jobs) >= Capacity + Cardinality(Workers)
    /\ NoJob \notin Jobs /\ None \notin Clients
BY ServerAssumption DEF ServerAssumption, Messages

-----------------------------------------------------------------------------
(* The pool: a job is in one place of the queue or in the hands of one worker *)

PoolType ==
    /\ pending \in Seq(Jobs) /\ Len(pending) <= Capacity
    /\ running \in [Workers -> Jobs \cup {NoJob}]
    /\ gone \subseteq Workers

OnePlace ==
    /\ \A i, k \in 1..Len(pending) : pending[i] = pending[k] => i = k
    /\ \A v, w \in Workers : running[v] = running[w] /\ running[v] # NoJob => v = w
    /\ \A i \in 1..Len(pending), w \in Workers : pending[i] # running[w]

PoolInv == PoolType /\ OnePlace

\* When the queue is not full there is a name left for a new job.
LEMMA NewJobExists ==
    ASSUME PoolType, Len(pending) < Capacity
    PROVE  NewJob \in Jobs /\ NewJob \notin JQ!Queued \cup JQ!Held
<1>1. Len(pending) \in Nat /\ pending \in [1..Len(pending) -> Jobs]
  BY LenProperties DEF PoolType
<1>2. IsFiniteSet(1..Len(pending)) /\ Cardinality(1..Len(pending)) = Len(pending)
  BY <1>1, FS_Interval
<1>3. IsFiniteSet(JQ!Queued) /\ Cardinality(JQ!Queued) <= Len(pending)
  <2>1. JQ!Queued = {pending[i] : i \in 1..Len(pending)}
    BY <1>1 DEF JQ!Queued
  <2>2. pending \in Surjection(1..Len(pending), JQ!Queued)
    BY <1>1, <2>1 DEF Surjection
  <2>3. QED
    BY <1>2, <2>2, FS_Surjection
<1>4. IsFiniteSet(JQ!Held) /\ Cardinality(JQ!Held) <= Cardinality(Workers)
  <2>1. IsFiniteSet(Workers) /\ Cardinality(Workers) \in Nat
    BY Constants, FS_CardinalityType
  <2> DEFINE All == {running[w] : w \in Workers}
  <2>2. running \in Surjection(Workers, All)
    BY DEF Surjection, PoolType
  <2>3. IsFiniteSet(All) /\ Cardinality(All) <= Cardinality(Workers)
    BY <2>1, <2>2, FS_Surjection
  <2>4. JQ!Held \in SUBSET All
    BY DEF JQ!Held
  <2>5. IsFiniteSet(JQ!Held) /\ Cardinality(JQ!Held) <= Cardinality(All)
    <3> HIDE DEF All
    <3>1. QED
      BY <2>3, <2>4, FS_Subset
  <2>6. Cardinality(All) \in Nat /\ Cardinality(JQ!Held) \in Nat
    BY <2>3, <2>5, FS_CardinalityType
  <2>7. QED
    BY <2>1, <2>3, <2>5, <2>6
<1> DEFINE Busy == JQ!Queued \cup JQ!Held
<1>5. IsFiniteSet(Busy) /\ Cardinality(Busy) < Cardinality(Jobs)
  <2>1. /\ IsFiniteSet(Busy)
        /\ Cardinality(Busy) = Cardinality(JQ!Queued) + Cardinality(JQ!Held)
                                 - Cardinality(JQ!Queued \cap JQ!Held)
    BY <1>3, <1>4, FS_Union
  <2>2. Cardinality(JQ!Queued \cap JQ!Held) \in Nat
    BY <1>3, FS_Intersection, FS_CardinalityType
  <2>3. /\ Cardinality(JQ!Queued) \in Nat /\ Cardinality(JQ!Held) \in Nat
        /\ Cardinality(Workers) \in Nat /\ Cardinality(Jobs) \in Nat
    BY <1>3, <1>4, Constants, FS_CardinalityType
  <2>4. QED
    BY <1>1, <1>3, <1>4, <2>1, <2>2, <2>3, Constants
<1>6. ~(Jobs \subseteq Busy)
  <2>1. SUFFICES ASSUME Jobs \in SUBSET Busy PROVE FALSE
    OBVIOUS
  <2>2. Cardinality(Jobs) <= Cardinality(Busy)
    <3> HIDE DEF Busy
    <3>1. QED
      BY <1>5, <2>1, FS_Subset
  <2>3. Cardinality(Jobs) \in Nat /\ Cardinality(Busy) \in Nat
    BY <1>5, Constants, FS_CardinalityType
  <2>4. QED
    BY <1>5, <2>2, <2>3
<1>7. \E j \in Jobs : j \notin JQ!Queued \cup JQ!Held
  BY <1>6
<1>8. QED
  BY <1>7 DEF NewJob

-----------------------------------------------------------------------------
(* The inductive invariant *)

\* The labels at which a worker has a job whose arguments it may still use, and
\* those among them that only a TLS job gets to.
Serving == Labels \ {"idle", "return"}
TlsOnly == {"accept", "size", "body", "spin", "close"}

Types ==
    /\ TypeOK
    /\ alive \in BOOLEAN
    /\ sent \in [Workers -> [to : Clients, about : Messages, what : Replies] \cup {None}]

\* The worker has read its message, and is not gone.
HasMessage(w) ==
    /\ w \notin gone
    /\ \/ pc[w] \in {"resolve", "send"}
       \/ pc[w] = "parse" /\ IsTls(w)

WorkerOK(w) ==
    /\ pc[w] = "idle" <=> running[w] = NoJob
    /\ w \in gone => pc[w] = "resolve"
    /\ pc[w] \in Serving => Args(w) \in Arguments
    /\ pc[w] \in TlsOnly => IsTls(w)
    /\ HasMessage(w) => msg[w] \in Messages /\ msg[w].from = Args(w).client

ArgsOK == \A j \in JQ!Queued : args[j] \in Arguments

\* What was given up is still open, so that accept does not return it again.
LeftIsOpen == \A f \in left : conn[f] # None

Inv == /\ Types /\ PoolInv /\ ArgsOK /\ LeftIsOpen
       /\ \A w \in Workers : WorkerOK(w)
       /\ ReplyToAsker /\ SessionOwnsItsFd /\ OrphansExplained

-----------------------------------------------------------------------------
(* What the operations of the pool do to the queue and to the invariant *)

\* A job that is accepted joins the end of the queue and nothing else moves.
LEMMA AcceptStep ==
    ASSUME PoolInv, NEW j \in Jobs, JQ!Accept(j)
    PROVE  /\ PoolInv'
           /\ JQ!Queued' = JQ!Queued \cup {j}
           /\ j \notin JQ!Queued /\ \A w \in Workers : running[w] # j
           /\ running' = running /\ gone' = gone
<1>1. pending \in Seq(Jobs) /\ Len(pending) \in Nat
  BY LenProperties DEF PoolInv, PoolType
<1>2. /\ pending' = Append(pending, j) /\ running' = running /\ gone' = gone
      /\ j \notin JQ!Queued \cup JQ!Held /\ Len(pending) < Capacity
  BY DEF JQ!Accept
<1>3. /\ pending' \in Seq(Jobs) /\ Len(pending') = Len(pending) + 1
      /\ \A i \in 1..Len(pending) : pending'[i] = pending[i]
      /\ pending'[Len(pending) + 1] = j
  BY <1>1, <1>2, AppendProperties
<1>4. DOMAIN pending = 1..Len(pending) /\ DOMAIN pending' = 1..(Len(pending) + 1)
  BY <1>1, <1>3, LenProperties
<1>5. JQ!Queued' = JQ!Queued \cup {j}
  BY <1>1, <1>3, <1>4 DEF JQ!Queued
<1>6. \A w \in Workers : running[w] # j
  BY <1>2, Constants DEF JQ!Held
<1>7. \A i \in 1..Len(pending) : pending[i] # j
  BY <1>2, <1>4 DEF JQ!Queued
<1>8. PoolType'
  BY <1>1, <1>2, <1>3, Constants DEF PoolInv, PoolType
<1>9. OnePlace'
  <2>1. ASSUME NEW i \in 1..Len(pending'), NEW k \in 1..Len(pending'),
               pending'[i] = pending'[k]
        PROVE  i = k
    BY <1>1, <1>3, <1>7, <2>1 DEF PoolInv, OnePlace
  <2>2. ASSUME NEW i \in 1..Len(pending'), NEW w \in Workers
        PROVE  pending'[i] # running'[w]
    BY <1>1, <1>2, <1>3, <1>6 DEF PoolInv, OnePlace
  <2>3. QED
    BY <1>2, <2>1, <2>2 DEF PoolInv, OnePlace
<1>10. QED
  BY <1>2, <1>5, <1>6, <1>8, <1>9 DEF PoolInv

\* A worker that starts a job takes it out of the queue.
LEMMA StartStep ==
    ASSUME PoolInv, NEW w \in Workers, JQ!Start(w)
    PROVE  /\ PoolInv'
           /\ Head(pending) \in JQ!Queued /\ Head(pending) \in Jobs
           /\ JQ!Queued' = JQ!Queued \ {Head(pending)}
           /\ running[w] = NoJob /\ w \notin gone
           /\ running' = [running EXCEPT ![w] = Head(pending)] /\ gone' = gone
<1>1. pending \in Seq(Jobs) /\ Len(pending) \in Nat /\ pending # <<>>
      /\ running \in [Workers -> Jobs \cup {NoJob}]
  BY LenProperties DEF PoolInv, PoolType, JQ!Start
<1>2. /\ pending' = Tail(pending) /\ gone' = gone
      /\ running[w] = NoJob /\ w \notin gone
      /\ running' = [running EXCEPT ![w] = Head(pending)]
  BY DEF JQ!Start
<1>3. /\ Len(pending) >= 1 /\ Head(pending) = pending[1] /\ Head(pending) \in Jobs
      /\ pending' \in Seq(Jobs) /\ Len(pending') = Len(pending) - 1
      /\ \A i \in 1..Len(pending') : pending'[i] = pending[i + 1]
  BY <1>1, <1>2, HeadTailProperties, EmptySeq
<1>4. DOMAIN pending = 1..Len(pending) /\ DOMAIN pending' = 1..(Len(pending) - 1)
  BY <1>1, <1>3, LenProperties
<1>5. \A i, k \in 1..Len(pending) : pending[i] = pending[k] => i = k
  BY DEF PoolInv, OnePlace
<1>6. JQ!Queued' = JQ!Queued \ {Head(pending)}
  <2>1. ASSUME NEW j \in JQ!Queued' PROVE j \in JQ!Queued /\ j # Head(pending)
    <3>1. PICK i \in 1..(Len(pending) - 1) : j = pending'[i]
      BY <1>4 DEF JQ!Queued
    <3>2. j = pending[i + 1] /\ i + 1 \in 1..Len(pending) /\ 1 \in 1..Len(pending) /\ i + 1 # 1
      BY <1>1, <1>3, <3>1
    <3>3. QED
      BY <1>3, <1>4, <1>5, <3>2 DEF JQ!Queued
  <2>2. ASSUME NEW j \in JQ!Queued, j # Head(pending) PROVE j \in JQ!Queued'
    <3>1. PICK i \in 1..Len(pending) : j = pending[i]
      BY <1>4 DEF JQ!Queued
    <3>2. i - 1 \in 1..(Len(pending) - 1) /\ pending'[i - 1] = j
      BY <1>1, <1>3, <2>2, <3>1
    <3>3. QED
      BY <1>4, <3>2 DEF JQ!Queued
  <2>3. QED
    BY <2>1, <2>2
<1>7. PoolType'
  BY <1>1, <1>2, <1>3, Constants DEF PoolInv, PoolType
<1>8. OnePlace'
  <2>1. \A i, k \in 1..Len(pending') : pending'[i] = pending'[k] => i = k
    BY <1>1, <1>3, <1>5
  <2>2. \A i \in 1..Len(pending), v \in Workers : pending[i] # running[v]
    BY DEF PoolInv, OnePlace
  <2>3. \A i \in 1..Len(pending'), v \in Workers : pending'[i] # running'[v]
    BY <1>1, <1>2, <1>3, <1>5, <2>2
  <2>4. \A v \in Workers : running[v] # Head(pending)
    BY <1>1, <1>3, <2>2
  <2>5. \A u, v \in Workers : running[u] = running[v] /\ running[u] # NoJob => u = v
    BY DEF PoolInv, OnePlace
  <2>6. \A u, v \in Workers : running'[u] = running'[v] /\ running'[u] # NoJob => u = v
    BY <1>1, <1>2, <2>4, <2>5
  <2>7. QED
    BY <2>1, <2>3, <2>6 DEF OnePlace
<1>9. Head(pending) \in JQ!Queued
  BY <1>1, <1>3, <1>4 DEF JQ!Queued
<1>10. QED
  BY <1>2, <1>3, <1>6, <1>7, <1>8, <1>9 DEF PoolInv

\* A worker that finishes holds no job.
LEMMA FinishStep ==
    ASSUME PoolInv, NEW w \in Workers, JQ!Finish(w)
    PROVE  /\ PoolInv' /\ JQ!Queued' = JQ!Queued /\ gone' = gone
           /\ running[w] \in Jobs /\ w \notin gone
           /\ running' = [running EXCEPT ![w] = NoJob]
<1>1. /\ pending' = pending /\ gone' = gone
      /\ running[w] # NoJob /\ w \notin gone
      /\ running' = [running EXCEPT ![w] = NoJob]
  BY DEF JQ!Finish
<1>2. running \in [Workers -> Jobs \cup {NoJob}] /\ pending \in [1..Len(pending) -> Jobs]
  BY LenProperties DEF PoolInv, PoolType
<1>3. PoolType'
  BY <1>1, <1>2 DEF PoolInv, PoolType
<1>4. OnePlace'
  BY <1>1, <1>2, Constants DEF PoolInv, OnePlace
<1>5. QED
  BY <1>1, <1>2, <1>3, <1>4 DEF PoolInv, JQ!Queued

\* A worker that is gone keeps what it held and takes nothing more.
LEMMA DieStep ==
    ASSUME PoolInv, NEW w \in Workers, JQ!Die(w)
    PROVE  /\ PoolInv' /\ JQ!Queued' = JQ!Queued /\ running' = running
           /\ gone' = gone \cup {w} /\ w \notin gone
BY DEF PoolInv, PoolType, OnePlace, JQ!Die, JQ!Queued

\* A step outside the pool keeps the pool part of the invariant.
LEMMA PoolUntouched ==
    ASSUME PoolInv, UNCHANGED poolVars
    PROVE  /\ PoolInv' /\ JQ!Queued' = JQ!Queued
           /\ running' = running /\ gone' = gone /\ pending' = pending
BY DEF PoolInv, PoolType, OnePlace, poolVars, JQ!Queued

-----------------------------------------------------------------------------
(* Sessions *)

\* A session is a job in the queue or in the hands of a worker that serves it,
\* with a descriptor.
LEMMA SessionCases ==
    ASSUME Types, NEW j
    PROVE  j \in Sessions <=>
             \/ j \in JQ!Queued /\ args[j].fd # 0
             \/ \E w \in Workers \ gone :
                  pc[w] \in Serving /\ running[w] = j /\ args[j].fd # 0
BY DEF Sessions, IsTls, Args, Serving, Types, TypeOK

\* The same after a step.
LEMMA SessionCasesNext ==
    ASSUME Types', NEW j
    PROVE  j \in Sessions' <=>
             \/ j \in JQ!Queued' /\ args'[j].fd # 0
             \/ \E w \in Workers \ gone' :
                  pc'[w] \in Serving /\ running'[w] = j /\ args'[j].fd # 0
BY DEF Sessions, IsTls, Args, Serving, Types, TypeOK

\* A session is a job whose arguments have a descriptor.
LEMMA SessionType ==
    ASSUME Inv, NEW j \in Sessions
    PROVE  j \in Jobs /\ args[j] \in Arguments /\ args[j].fd \in Fds
<1>1. Types /\ PoolType /\ ArgsOK /\ \A w \in Workers : WorkerOK(w)
  BY DEF Inv, PoolInv
<1>2. DOMAIN pending = 1..Len(pending) /\ pending \in [1..Len(pending) -> Jobs]
  BY <1>1, LenProperties DEF PoolType
<1>3. j \in Jobs /\ args[j] \in Arguments /\ args[j].fd # 0
  <2>1. CASE j \in JQ!Queued /\ args[j].fd # 0
    BY <1>1, <1>2, <2>1 DEF ArgsOK, JQ!Queued
  <2>2. ASSUME NEW w \in Workers \ gone,
               pc[w] \in Serving, running[w] = j, args[j].fd # 0
        PROVE  j \in Jobs /\ args[j] \in Arguments /\ args[j].fd # 0
    <3>1. pc[w] # "idle"
      BY <2>2 DEF Serving
    <3>2. QED
      BY <1>1, <2>2, <3>1 DEF WorkerOK, Args, PoolType
  <2>3. QED
    BY <1>1, <2>1, <2>2, SessionCases
<1>4. QED
  BY <1>3 DEF Arguments

\* A worker that serves holds a job that is neither queued nor another's.
LEMMA OwnJob ==
    ASSUME Inv, NEW w \in Workers, pc[w] # "idle"
    PROVE  /\ running[w] \in Jobs
           /\ running[w] \notin JQ!Queued
           /\ \A v \in Workers : running[v] = running[w] => v = w
<1>1. PoolType /\ OnePlace /\ WorkerOK(w)
  BY DEF Inv, PoolInv
<1>2. running[w] \in Jobs /\ running[w] # NoJob
  BY <1>1, Constants DEF PoolType, WorkerOK
<1>3. DOMAIN pending = 1..Len(pending)
  BY <1>1, LenProperties DEF PoolType
<1>4. QED
  BY <1>1, <1>2, <1>3 DEF OnePlace, JQ!Queued

\* A worker that goes on with its job keeps its session.
LEMMA SessionGoesOn ==
    ASSUME Inv, Types', NEW w \in Workers, NEW l \in Serving,
           UNCHANGED <<poolVars, args>>,
           pc[w] \in Serving, pc' = [pc EXCEPT ![w] = l]
    PROVE  Sessions' = Sessions
<1>1. Types /\ PoolInv /\ pc \in [Workers -> Labels]
  BY DEF Inv, Types, TypeOK
<1>2. JQ!Queued' = JQ!Queued /\ running' = running /\ gone' = gone /\ args' = args
  BY <1>1, PoolUntouched
<1>3. \A v \in Workers : pc'[v] \in Serving <=> pc[v] \in Serving
  BY <1>1
<1>4. ASSUME NEW j PROVE j \in Sessions' <=> j \in Sessions
  BY <1>1, <1>2, <1>3, SessionCases, SessionCasesNext
<1>5. QED
  BY <1>4

\* A worker that is done with its job, or exits in it, ends the session if its
\* job had one; the arguments of other jobs stay.
LEMMA SessionEnds ==
    ASSUME Inv, Types', NEW w \in Workers \ gone, pc[w] \in Serving,
           JQ!Queued' = JQ!Queued, running' = running,
           \/ gone' = gone /\ pc' = [pc EXCEPT ![w] = "return"]
           \/ gone' = gone \cup {w} /\ pc' = pc,
           \A j \in Jobs : j # running[w] => args'[j] = args[j]
    PROVE  /\ Sessions' = Sessions \ {running[w]}
           /\ \A j \in Sessions' : args'[j] = args[j]
<1>1. Types /\ pc \in [Workers -> Labels] /\ PoolType
  BY DEF Inv, Types, TypeOK, PoolInv
<1>2. pc[w] # "idle"
  BY DEF Serving
<1>3. /\ running[w] \in Jobs /\ running[w] \notin JQ!Queued
      /\ \A v \in Workers : running[v] = running[w] => v = w
  BY <1>2, OwnJob
<1>4. \A v \in Workers : v \notin gone' /\ pc'[v] \in Serving <=>
                          v # w /\ v \notin gone /\ pc[v] \in Serving
  BY <1>1 DEF Serving
<1>5. \A j \in Sessions : j \in Jobs
  BY SessionType
<1>6. ASSUME NEW j \in Sessions' PROVE j \in Sessions /\ j # running[w]
  <2>1. j \in Jobs /\ j # running[w]
    <3>1. JQ!Queued \subseteq Jobs
      BY <1>1, LenProperties DEF PoolType, JQ!Queued
    <3>2. \A v \in Workers : pc[v] \in Serving => running[v] \in Jobs
      BY OwnJob DEF Serving
    <3>3. QED
      BY <1>3, <1>4, <3>1, <3>2, SessionCasesNext
  <2>2. args'[j] = args[j]
    BY <2>1
  <2>3. QED
    BY <1>1, <1>4, <2>1, <2>2, SessionCases, SessionCasesNext
<1>7. ASSUME NEW j \in Sessions, j # running[w] PROVE j \in Sessions'
  <2>1. args'[j] = args[j]
    BY <1>5, <1>7
  <2>2. QED
    BY <1>1, <1>4, <1>7, <2>1, SessionCases, SessionCasesNext
<1>8. QED
  BY <1>5, <1>6, <1>7

-----------------------------------------------------------------------------
(* Descriptors *)

FdInv == SessionOwnsItsFd /\ OrphansExplained /\ LeftIsOpen

\* What the steps below start from.
LEMMA FdFacts ==
    ASSUME Inv
    PROVE  /\ \A j \in Sessions :
                /\ args[j].fd \in Fds
                /\ conn[args[j].fd] = args[j].client /\ args[j].client \in Clients
                /\ args[j].fd \notin left
                /\ \A k \in Sessions : args[k].fd = args[j].fd => k = j
           /\ \A f \in Fds : conn[f] # None =>
                f \in left \/ \E j \in Sessions : args[j].fd = f
           /\ \A f \in left : f \in Fds /\ conn[f] # None
           /\ conn \in [Fds -> Clients \cup {None}]
<1>1. \A j \in Sessions : args[j].fd \in Fds /\ args[j].client \in Clients
  BY SessionType DEF Arguments
<1>2. QED
  BY <1>1 DEF Inv, Types, TypeOK, SessionOwnsItsFd, OrphansExplained, LeftIsOpen

\* A step that opens and closes nothing, and keeps the sessions.
LEMMA FdsKept ==
    ASSUME Inv, Sessions' = Sessions, \A j \in Sessions : args'[j] = args[j],
           conn' = conn, left' = left
    PROVE  FdInv'
BY FdFacts DEF FdInv, SessionOwnsItsFd, OrphansExplained, LeftIsOpen

\* A session that ends without closing its descriptor leaves it to nobody.
LEMMA FdGivenUp ==
    ASSUME Inv, NEW j \in Sessions, Sessions' = Sessions \ {j},
           \A k \in Sessions' : args'[k] = args[k],
           conn' = conn, left' = left \cup {args[j].fd}
    PROVE  FdInv'
<1>1. SessionOwnsItsFd' /\ OrphansExplained'
  BY FdFacts DEF SessionOwnsItsFd, OrphansExplained
<1>2. LeftIsOpen'
  BY FdFacts, Constants DEF LeftIsOpen
<1>3. QED
  BY <1>1, <1>2 DEF FdInv

\* A session that closes its descriptor and ends.
LEMMA FdClosed ==
    ASSUME Inv, NEW j \in Sessions, Sessions' = Sessions \ {j},
           \A k \in Sessions' : args'[k] = args[k],
           conn' = [conn EXCEPT ![args[j].fd] = None], left' = left
    PROVE  FdInv'
<1>1. SessionOwnsItsFd'
  BY FdFacts DEF SessionOwnsItsFd
<1>2. OrphansExplained'
  BY FdFacts DEF OrphansExplained
<1>3. LeftIsOpen'
  BY FdFacts DEF LeftIsOpen
<1>4. QED
  BY <1>1, <1>2, <1>3 DEF FdInv

\* A new connection whose job was accepted.
LEMMA FdOpened ==
    ASSUME Inv, NEW j, j \notin Sessions, NEW f \in Fds, NEW c \in Clients,
           conn[f] = None, conn' = [conn EXCEPT ![f] = c], left' = left,
           Sessions' = Sessions \cup {j}, \A k \in Sessions : args'[k] = args[k],
           args'[j].fd = f, args'[j].client = c
    PROVE  FdInv'
<1>1. f \notin left /\ \A k \in Sessions : args[k].fd # f
  BY FdFacts, Constants
<1>2. SessionOwnsItsFd'
  BY <1>1, FdFacts DEF SessionOwnsItsFd
<1>3. OrphansExplained'
  BY FdFacts DEF OrphansExplained
<1>4. LeftIsOpen'
  BY FdFacts, <1>1 DEF LeftIsOpen
<1>5. QED
  BY <1>2, <1>3, <1>4 DEF FdInv

\* A connection whose job the pool refuses is nobody's from the start.
LEMMA FdRefused ==
    ASSUME Inv, NEW f \in Fds, NEW c \in Clients,
           conn[f] = None, conn' = [conn EXCEPT ![f] = c], left' = left \cup {f},
           Sessions' = Sessions, args' = args
    PROVE  FdInv'
<1>1. f \notin left /\ \A k \in Sessions : args[k].fd # f
  BY FdFacts, Constants
<1>2. SessionOwnsItsFd'
  BY <1>1, FdFacts DEF SessionOwnsItsFd
<1>3. OrphansExplained'
  BY FdFacts DEF OrphansExplained
<1>4. LeftIsOpen'
  BY FdFacts, <1>1, Constants DEF LeftIsOpen
<1>5. QED
  BY <1>2, <1>3, <1>4 DEF FdInv

-----------------------------------------------------------------------------
(* Workers *)

\* A step that leaves a worker and its job alone leaves it in order.
LEMMA OtherWorkerOK ==
    ASSUME Inv, NEW v \in Workers,
           running'[v] = running[v], v \in gone' <=> v \in gone,
           pc'[v] = pc[v], msg'[v] = msg[v],
           pc[v] # "idle" => args'[running[v]] = args[running[v]]
    PROVE  WorkerOK(v)'
<1>1. WorkerOK(v)
  BY DEF Inv
<1>2. CASE pc[v] = "idle"
  BY <1>1, <1>2 DEF WorkerOK, HasMessage, IsTls, Args, Serving, TlsOnly
<1>3. CASE pc[v] # "idle"
  BY <1>1, <1>3 DEF WorkerOK, HasMessage, IsTls, Args
<1>4. QED
  BY <1>2, <1>3

\* A step of worker w on its own variables and its own job.
OwnStep(w) ==
    /\ \A v \in Workers : v # w => /\ pc'[v] = pc[v] /\ msg'[v] = msg[v]
                                   /\ running'[v] = running[v]
                                   /\ v \in gone' <=> v \in gone
    /\ \A j \in Jobs : j # running[w] => args'[j] = args[j]

\* A step of w alone leaves all other workers in order.
LEMMA OthersOK ==
    ASSUME Inv, NEW w \in Workers, OwnStep(w), pc[w] # "idle"
    PROVE  \A v \in Workers : v # w => WorkerOK(v)'
<1> SUFFICES ASSUME NEW v \in Workers, v # w PROVE WorkerOK(v)'
  OBVIOUS
<1>1. pc[v] # "idle" => running[v] \in Jobs /\ running[v] # running[w]
  BY OwnJob
<1>2. QED
  BY <1>1, OtherWorkerOK DEF OwnStep

-----------------------------------------------------------------------------
(* One lemma for each way a step may go *)

SentOK(w) == sent[w] # None => sent[w].about.from = sent[w].to

\* main, a crash, or nothing.
LEMMA ProcessStep ==
    ASSUME Inv, UNCHANGED <<poolVars, args, conn, sessionVars, left>>, Types'
    PROVE  Inv'
<1>1. Types /\ PoolInv
  BY DEF Inv
<1>2. /\ args' = args /\ conn' = conn /\ pc' = pc /\ msg' = msg /\ sent' = sent
      /\ left' = left
  BY DEF sessionVars
<1>3. /\ PoolInv' /\ JQ!Queued' = JQ!Queued /\ running' = running /\ gone' = gone
  BY <1>1, PoolUntouched
<1>4. Sessions' = Sessions
  <2>1. ASSUME NEW j PROVE j \in Sessions' <=> j \in Sessions
    BY <1>1, <1>2, <1>3, SessionCases, SessionCasesNext
  <2>2. QED
    BY <2>1
<1>5. FdInv'
  BY <1>2, <1>4, FdsKept
<1>6. \A w \in Workers : WorkerOK(w)'
  BY <1>2, <1>3, OtherWorkerOK
<1>7. ArgsOK' /\ ReplyToAsker'
  BY <1>2, <1>3 DEF Inv, ArgsOK, ReplyToAsker
<1>8. QED
  BY <1>3, <1>5, <1>6, <1>7 DEF Inv, FdInv

\* A worker goes from one label of its job to the next.
LEMMA JobGoesOn ==
    ASSUME Inv, Types', NEW w \in Workers, NEW l \in Serving, w \notin gone,
           UNCHANGED <<poolVars, args, conn, left>>,
           pc[w] \in Serving, pc' = [pc EXCEPT ![w] = l],
           \A v \in Workers : v # w => msg'[v] = msg[v] /\ sent'[v] = sent[v],
           WorkerOK(w)', SentOK(w)'
    PROVE  Inv'
<1>1. Types /\ PoolInv /\ pc \in [Workers -> Labels]
  BY DEF Inv, Types, TypeOK
<1>2. /\ PoolInv' /\ JQ!Queued' = JQ!Queued /\ running' = running /\ gone' = gone
  BY <1>1, PoolUntouched
<1>3. Sessions' = Sessions
  BY SessionGoesOn
<1>4. FdInv'
  BY <1>3, FdsKept
<1>5. pc[w] # "idle" /\ OwnStep(w)
  BY <1>1, <1>2 DEF OwnStep, Serving
<1>6. \A v \in Workers : WorkerOK(v)'
  BY <1>5, OthersOK
<1>7. ArgsOK' /\ ReplyToAsker'
  BY <1>2 DEF Inv, ArgsOK, ReplyToAsker, SentOK
<1>8. QED
  BY <1>2, <1>4, <1>6, <1>7 DEF Inv, FdInv

\* A worker leaves its job, with the arguments freed or not.
LEMMA JobEnds ==
    ASSUME Inv, Types', PoolInv', NEW w \in Workers, w \notin gone,
           pc[w] \in Serving,
           JQ!Queued' = JQ!Queued, running' = running,
           \/ gone' = gone /\ pc' = [pc EXCEPT ![w] = "return"]
           \/ gone' = gone \cup {w} /\ pc' = pc /\ pc[w] = "resolve"
                /\ args'[running[w]] = args[running[w]],
           \A j \in Jobs : j # running[w] => args'[j] = args[j],
           \A v \in Workers : v # w => msg'[v] = msg[v] /\ sent'[v] = sent[v],
           SentOK(w)', FdInv'
    PROVE  Inv'
<1>1. Types /\ PoolInv /\ pc \in [Workers -> Labels] /\ WorkerOK(w)
  BY DEF Inv, Types, TypeOK
<1>2. pc[w] # "idle" /\ OwnStep(w)
  BY <1>1 DEF OwnStep, Serving
<1>3. running[w] \in Jobs /\ running[w] \notin JQ!Queued
  BY <1>2, OwnJob
<1>4. WorkerOK(w)'
  <2>1. running'[w] # NoJob
    BY <1>3, Constants
  <2>2. CASE gone' = gone /\ pc' = [pc EXCEPT ![w] = "return"]
    <3>1. pc'[w] = "return" /\ w \notin gone'
      BY <1>1, <2>2
    <3>2. QED
      BY <2>1, <3>1 DEF WorkerOK, HasMessage, Serving, TlsOnly
  <2>3. CASE gone' = gone \cup {w} /\ pc' = pc /\ pc[w] = "resolve"
                /\ args'[running[w]] = args[running[w]]
    BY <1>1, <2>1, <2>3 DEF WorkerOK, HasMessage, Serving, TlsOnly, Args
  <2>4. QED
    BY <2>2, <2>3
<1>5. \A v \in Workers : WorkerOK(v)'
  BY <1>2, <1>4, OthersOK
<1>6. ArgsOK'
  <2>1. \A j \in JQ!Queued : j \in Jobs
    BY <1>1, LenProperties DEF PoolInv, PoolType, JQ!Queued
  <2>2. QED
    BY <1>3, <2>1 DEF Inv, ArgsOK
<1>7. ReplyToAsker'
  BY DEF Inv, ReplyToAsker, SentOK
<1>8. QED
  BY <1>5, <1>6, <1>7 DEF Inv, FdInv

-----------------------------------------------------------------------------
(* The actions *)

\* What the worker of a step is known to be.
LEMMA WorkerFacts ==
    ASSUME Inv, NEW w \in Workers, NEW l \in Serving, At(w, l)
    PROVE  /\ w \notin gone /\ pc[w] = l /\ pc[w] \in Serving
           /\ running[w] \in Jobs /\ Args(w) \in Arguments
           /\ l \in TlsOnly => IsTls(w)
           /\ IsTls(w) => /\ running[w] \in Sessions /\ Args(w).fd \in Fds
                          /\ conn[Args(w).fd] = Args(w).client
           /\ ~IsTls(w) => Args(w).packet \in Packets
                             /\ Args(w).packet.from = Args(w).client
           /\ HasMessage(w) => msg[w] \in Messages /\ msg[w].from = Args(w).client
           /\ Args(w).client \in Clients
<1>1. Types /\ WorkerOK(w) /\ w \notin gone /\ pc[w] = l
  BY DEF Inv, At
<1>2. running[w] \in Jobs
  BY <1>1, OwnJob DEF Serving
<1>3. Args(w) \in Arguments
  BY <1>1 DEF WorkerOK
<1>4. IsTls(w) => running[w] \in Sessions
  BY <1>1, SessionCases DEF IsTls, Args
<1>5. IsTls(w) => Args(w).fd \in Fds /\ conn[Args(w).fd] = Args(w).client
  BY <1>4, FdFacts DEF Args
<1>6. ~IsTls(w) => Args(w).packet \in Packets /\ Args(w).packet.from = Args(w).client
  BY <1>3 DEF IsTls, Arguments
<1>7. Args(w).client \in Clients
  BY <1>3 DEF Arguments
<1>8. QED
  BY <1>1, <1>2, <1>3, <1>4, <1>5, <1>6, <1>7 DEF WorkerOK

\* The types of the variables, as the steps below use them.
LEMMA TypesOf ==
    ASSUME Inv
    PROVE  /\ args \in [Jobs -> [client : Clients, packet : Packets \cup {None},
                                 fd : Fds \cup {0}] \cup {None}]
           /\ conn \in [Fds -> Clients \cup {None}]
           /\ pc \in [Workers -> Labels]
           /\ rest \in [Workers -> -MaxSize..MaxSize]
           /\ msg \in [Workers -> Messages \cup {None}]
           /\ serving \in {{}, {"udp"}, {"udp", "tls"}}
           /\ left \subseteq Fds
           /\ alive \in BOOLEAN
           /\ sent \in [Workers -> [to : Clients, about : Messages, what : Replies]
                                     \cup {None}]
BY DEF Inv, Types, TypeOK, Messages

\* A worker that goes from label l to label m of its job, having read a message
\* if m needs one.
LEMMA NextLabel ==
    ASSUME Inv, NEW w \in Workers, NEW l \in Serving, NEW m \in Serving, At(w, l),
           pc' = [pc EXCEPT ![w] = m],
           UNCHANGED <<poolVars, args, conn, alive, serving, left>>,
           rest' \in [Workers -> -MaxSize..MaxSize],
           msg' \in [Workers -> Messages \cup {None}],
           sent' \in [Workers -> [to : Clients, about : Messages, what : Replies]
                                   \cup {None}],
           \A v \in Workers : v # w => msg'[v] = msg[v] /\ sent'[v] = sent[v],
           m \in TlsOnly => IsTls(w),
           m \in {"resolve", "send"} \/ (m = "parse" /\ IsTls(w)) =>
               msg'[w] \in Messages /\ msg'[w].from = Args(w).client,
           SentOK(w)'
    PROVE  Inv'
<1>1. /\ pc[w] \in Serving /\ w \notin gone /\ running[w] \in Jobs
      /\ Args(w) \in Arguments
  BY WorkerFacts
<1>2. m \in Labels
  BY DEF Serving
<1>3. Types'
  BY <1>2, TypesOf DEF Types, TypeOK, Messages
<1>4. pc'[w] = m /\ running' = running /\ args' = args /\ gone' = gone
  BY TypesOf DEF poolVars
<1>5. WorkerOK(w)'
  <2>1. pc'[w] # "idle" /\ running'[w] # NoJob
    BY <1>1, <1>4, Constants DEF Serving
  <2>2. Args(w)' = Args(w) /\ IsTls(w)' = IsTls(w)
    BY <1>4 DEF IsTls, Args
  <2>3. QED
    BY <1>1, <1>4, <2>1, <2>2 DEF WorkerOK, HasMessage
<1>6. QED
  BY <1>1, <1>3, <1>5, JobGoesOn

\* SSL_accept succeeds.
LEMMA HandshakeStep ==
    ASSUME Inv, NEW w \in Workers, Handshake(w)
    PROVE  Inv'
<1>1. At(w, "accept") /\ {"accept", "size"} \subseteq Serving
  BY DEF Handshake, Serving, Labels
<1>2. IsTls(w)
  BY <1>1, WorkerFacts DEF TlsOnly
<1>3. SentOK(w)'
  BY DEF Handshake, SentOK, Inv, ReplyToAsker
<1>4. QED
  BY <1>1, <1>2, <1>3, TypesOf, NextLabel DEF Handshake, Goto

\* The length in front of the message has been read.
LEMMA ReadSizeStep ==
    ASSUME Inv, NEW w \in Workers, NEW n \in 0..MaxSize, ReadSize(w, n)
    PROVE  Inv'
<1>1. At(w, "size") /\ {"size", "parse", "body"} \subseteq Serving
  BY DEF ReadSize, Serving, Labels
<1>2. /\ IsTls(w) /\ conn[Args(w).fd] = Args(w).client /\ Args(w).client \in Clients
  BY <1>1, WorkerFacts DEF TlsOnly
<1>3. SentOK(w)'
  BY DEF ReadSize, SentOK, Inv, ReplyToAsker
<1>4. rest' \in [Workers -> -MaxSize..MaxSize]
  BY TypesOf, Constants DEF ReadSize
<1> DEFINE empty == [from |-> conn[Args(w).fd], kind |-> "short"]
<1>5. empty \in Messages /\ empty.from = Args(w).client
  BY <1>2 DEF Messages, Kinds
<1>6. CASE n = 0
  <2>1. msg' = [msg EXCEPT ![w] = empty] /\ pc' = [pc EXCEPT ![w] = "parse"]
        /\ UNCHANGED <<poolVars, args, conn, alive, serving, left>> /\ sent' = sent
    BY <1>6 DEF ReadSize, Goto
  <2>2. /\ msg' \in [Workers -> Messages \cup {None}] /\ msg'[w] = empty
        /\ \A v \in Workers : v # w => msg'[v] = msg[v]
    <3> HIDE DEF empty
    <3>1. QED
      BY <1>5, <2>1, TypesOf
  <2>3. QED
    BY <1>1, <1>2, <1>3, <1>4, <1>5, <2>1, <2>2, TypesOf, NextLabel DEF TlsOnly
<1>7. CASE n # 0
  <2>1. msg' = [msg EXCEPT ![w] = None] /\ pc' = [pc EXCEPT ![w] = "body"]
        /\ UNCHANGED <<poolVars, args, conn, alive, serving, left>> /\ sent' = sent
    BY <1>7 DEF ReadSize, Goto
  <2>2. QED
    BY <1>1, <1>2, <1>3, <1>4, <2>1, TypesOf, NextLabel
<1>8. QED
  BY <1>6, <1>7

\* A part of the message has been read.
LEMMA ReadBodyStep ==
    ASSUME Inv, NEW w \in Workers, NEW k \in 1..MaxSize, ReadBody(w, k)
    PROVE  Inv'
<1>1. At(w, "body") /\ {"parse", "body"} \subseteq Serving
  BY DEF ReadBody, Serving, Labels
<1>2. IsTls(w) /\ conn[Args(w).fd] = Args(w).client /\ pc[w] = "body"
  BY <1>1, WorkerFacts DEF TlsOnly
<1>3. SentOK(w)'
  BY DEF ReadBody, SentOK, Inv, ReplyToAsker
<1>4. rest' \in [Workers -> -MaxSize..MaxSize]
  BY TypesOf, Constants DEF ReadBody
<1>5. CASE rest[w] = k
  <2>1. PICK p \in Packets : p.from = conn[Args(w).fd] /\ msg' = [msg EXCEPT ![w] = p]
    BY <1>5 DEF ReadBody
  <2>2. p \in Messages /\ p.from = Args(w).client
    BY <1>2, <2>1, Constants
  <2>3. QED
    BY <1>1, <1>3, <1>4, <1>5, <2>1, <2>2, TypesOf, NextLabel DEF ReadBody, Goto, TlsOnly
<1>6. CASE rest[w] # k
  <2>1. pc' = [pc EXCEPT ![w] = "body"] /\ msg' = msg
    BY <1>2, <1>6, TypesOf DEF ReadBody
  <2>2. QED
    BY <1>1, <1>2, <1>3, <1>4, <2>1, TypesOf, NextLabel DEF ReadBody
<1>7. QED
  BY <1>5, <1>6

\* The read of the message fails, or the client has closed.
LEMMA BodyEndsStep ==
    ASSUME Inv, NEW w \in Workers, BodyFails(w) \/ BodyClosed(w)
    PROVE  Inv'
<1>1. At(w, "body") /\ {"body", "close", "spin"} \subseteq Serving
  BY DEF BodyFails, BodyClosed, Serving, Labels
<1>2. IsTls(w)
  BY <1>1, WorkerFacts DEF TlsOnly
<1>3. SentOK(w)'
  BY DEF BodyFails, BodyClosed, SentOK, Inv, ReplyToAsker
<1>4. rest' \in [Workers -> -MaxSize..MaxSize]
  BY TypesOf, Constants DEF BodyFails, BodyClosed
<1>5. CASE BodyFails(w)
  BY <1>1, <1>2, <1>3, <1>4, <1>5, TypesOf, NextLabel DEF BodyFails, Goto
<1>6. CASE BodyClosed(w)
  BY <1>1, <1>2, <1>3, <1>4, <1>6, TypesOf, NextLabel DEF BodyClosed, Goto
<1>7. QED
  BY <1>5, <1>6

\* resolv_handle returns.
LEMMA ResolveStep ==
    ASSUME Inv, NEW w \in Workers, resolv_handle(w)
    PROVE  Inv'
<1>1. At(w, "resolve") /\ {"resolve", "send"} \subseteq Serving
  BY DEF resolv_handle, Serving, Labels
<1>2. msg[w] \in Messages /\ msg[w].from = Args(w).client
  BY <1>1, WorkerFacts DEF HasMessage
<1>3. SentOK(w)'
  BY DEF resolv_handle, SentOK, Inv, ReplyToAsker
<1>4. QED
  BY <1>1, <1>2, <1>3, TypesOf, NextLabel DEF resolv_handle, Goto, TlsOnly

\* A reply is about the message of the client it goes to.
LEMMA ReplySent ==
    ASSUME Inv, NEW w \in Workers, NEW l \in Serving, At(w, l),
           NEW what \in Replies, Reply(w, what),
           msg'[w] \in Messages, msg'[w].from = Args(w).client
    PROVE  /\ sent' \in [Workers -> [to : Clients, about : Messages, what : Replies]
                                      \cup {None}]
           /\ \A v \in Workers : v # w => sent'[v] = sent[v]
           /\ SentOK(w)'
<1> DEFINE to == IF IsTls(w) THEN conn[Args(w).fd] ELSE Args(w).client
           r == [to |-> to, about |-> msg'[w], what |-> what]
<1>1. to = Args(w).client /\ to \in Clients
  BY WorkerFacts
<1>2. r \in [to : Clients, about : Messages, what : Replies] /\ r.about.from = r.to
  BY <1>1
<1>3. sent' = [sent EXCEPT ![w] = r]
  BY DEF Reply
<1>4. QED
  <2> HIDE DEF r
  <2>1. QED
    BY <1>2, <1>3, TypesOf DEF SentOK

\* The message from a session is parsed.
LEMMA TlsParseStep ==
    ASSUME Inv, NEW w \in Workers, TlsParse(w)
    PROVE  Inv'
<1>1. At(w, "parse") /\ {"parse", "resolve", "close"} \subseteq Serving
  BY DEF TlsParse, Serving, Labels
<1>2. /\ IsTls(w) /\ msg' = msg
      /\ UNCHANGED <<poolVars, args, conn, rest, alive, serving, left>>
  BY DEF TlsParse
<1>3. msg[w] \in Messages /\ msg[w].from = Args(w).client
  <2>1. HasMessage(w)
    BY <1>1, <1>2, WorkerFacts DEF HasMessage
  <2>2. QED
    BY <1>1, <2>1, WorkerFacts
<1>4. CASE dns_recv_handle(msg[w]) < 0
  <2>1. Reply(w, "garbled") /\ pc' = [pc EXCEPT ![w] = "close"]
    BY <1>4 DEF TlsParse, Goto
  <2>2. /\ sent' \in [Workers -> [to : Clients, about : Messages, what : Replies]
                                   \cup {None}]
        /\ \A v \in Workers : v # w => sent'[v] = sent[v]
        /\ SentOK(w)'
    <3>1. msg'[w] \in Messages /\ msg'[w].from = Args(w).client /\ "garbled" \in Replies
      BY <1>2, <1>3 DEF Replies
    <3>2. QED
      BY <1>1, <2>1, <3>1, ReplySent
  <2>3. QED
    BY <1>1, <1>2, <1>3, <2>1, <2>2, TypesOf, NextLabel
<1>5. CASE ~(dns_recv_handle(msg[w]) < 0)
  <2>1. sent' = sent /\ pc' = [pc EXCEPT ![w] = "resolve"]
    BY <1>5 DEF TlsParse, Goto
  <2>2. SentOK(w)'
    BY <2>1 DEF SentOK, Inv, ReplyToAsker
  <2>3. QED
    BY <1>1, <1>2, <1>3, <2>1, <2>2, TypesOf, NextLabel DEF TlsOnly
<1>6. QED
  BY <1>4, <1>5

\* SSL_write of the reply.
LEMMA TlsSendStep ==
    ASSUME Inv, NEW w \in Workers, TlsSend(w)
    PROVE  Inv'
<1>1. At(w, "send") /\ {"send", "close"} \subseteq Serving
  BY DEF TlsSend, Serving, Labels
<1>2. /\ IsTls(w) /\ msg' = msg /\ pc' = [pc EXCEPT ![w] = "close"]
      /\ UNCHANGED <<poolVars, args, conn, rest, alive, serving, left>>
  BY DEF TlsSend, Goto
<1>3. msg[w] \in Messages /\ msg[w].from = Args(w).client
  BY <1>1, WorkerFacts DEF HasMessage
<1>4. /\ sent' \in [Workers -> [to : Clients, about : Messages, what : Replies]
                                 \cup {None}]
      /\ \A v \in Workers : v # w => sent'[v] = sent[v]
      /\ SentOK(w)'
  <2>1. CASE Reply(w, "answer")
    <3>1. msg'[w] \in Messages /\ msg'[w].from = Args(w).client /\ "answer" \in Replies
      BY <1>2, <1>3 DEF Replies
    <3>2. QED
      BY <1>1, <2>1, <3>1, ReplySent
  <2>2. CASE UNCHANGED sent
    BY <2>2, TypesOf DEF SentOK, Inv, ReplyToAsker
  <2>3. QED
    BY <2>1, <2>2 DEF TlsSend
<1>5. QED
  BY <1>1, <1>2, <1>3, <1>4, TypesOf, NextLabel

\* A job that ends with its arguments freed or not, and the descriptor of a TLS
\* job given up or closed.
LEMMA LastLabel ==
    ASSUME Inv, NEW w \in Workers, NEW l \in Serving, At(w, l),
           pc' = [pc EXCEPT ![w] = "return"],
           args' = args \/ args' = [args EXCEPT ![running[w]] = None],
           \/ conn' = conn /\ left' = left /\ ~IsTls(w)
           \/ conn' = conn /\ left' = left \cup {Args(w).fd} /\ IsTls(w)
           \/ conn' = [conn EXCEPT ![Args(w).fd] = None] /\ left' = left /\ IsTls(w),
           UNCHANGED <<poolVars, rest, alive, serving>>,
           msg' \in [Workers -> Messages \cup {None}],
           sent' \in [Workers -> [to : Clients, about : Messages, what : Replies]
                                   \cup {None}],
           \A v \in Workers : v # w => msg'[v] = msg[v] /\ sent'[v] = sent[v],
           SentOK(w)'
    PROVE  Inv'
<1>1. /\ pc[w] \in Serving /\ w \notin gone /\ running[w] \in Jobs
      /\ IsTls(w) => running[w] \in Sessions /\ Args(w).fd \in Fds
  BY WorkerFacts
<1>2. PoolInv /\ Types
  BY DEF Inv
<1>3. PoolInv' /\ JQ!Queued' = JQ!Queued /\ running' = running /\ gone' = gone
  BY <1>2, PoolUntouched
<1>4. Types'
  <2>1. args' \in [Jobs -> [client : Clients, packet : Packets \cup {None},
                            fd : Fds \cup {0}] \cup {None}]
    BY TypesOf
  <2>2. conn' \in [Fds -> Clients \cup {None}] /\ left' \subseteq Fds
    BY <1>1, TypesOf
  <2>3. pc' \in [Workers -> Labels]
    BY TypesOf DEF Labels
  <2>4. QED
    BY <2>1, <2>2, <2>3, TypesOf DEF Types, TypeOK, Messages
<1>5. \A j \in Jobs : j # running[w] => args'[j] = args[j]
  BY <1>1, TypesOf
<1>6. /\ Sessions' = Sessions \ {running[w]}
      /\ \A j \in Sessions' : args'[j] = args[j]
  BY <1>1, <1>3, <1>4, <1>5, SessionEnds
<1>7. FdInv'
  <2>1. CASE ~IsTls(w)
    <3>1. running[w] \notin Sessions
      <4>1. running[w] \notin JQ!Queued
        BY <1>1, OwnJob DEF Serving
      <4>2. QED
        BY <1>2, <2>1, <4>1, SessionCases DEF IsTls, Args
    <3>2. QED
      BY <1>6, <2>1, <3>1, FdsKept
  <2>2. CASE IsTls(w) /\ conn' = conn /\ left' = left \cup {Args(w).fd}
    BY <1>1, <1>6, <2>2, FdGivenUp DEF Args
  <2>3. CASE IsTls(w) /\ conn' = [conn EXCEPT ![Args(w).fd] = None] /\ left' = left
    BY <1>1, <1>6, <2>3, FdClosed DEF Args
  <2>4. QED
    BY <2>1, <2>2, <2>3
<1>8. QED
  BY <1>1, <1>3, <1>4, <1>5, <1>7, JobEnds

\* The exits of a session that leave its descriptor open.
LEMMA SessionFailsStep ==
    ASSUME Inv, NEW w \in Workers, HandshakeFails(w) \/ NoSize(w)
    PROVE  Inv'
<1>1. At(w, "accept") \/ At(w, "size")
  BY DEF HandshakeFails, NoSize
<1>2. {"accept", "size"} \subseteq Serving
  BY DEF Serving, Labels
<1>3. IsTls(w)
  BY <1>1, <1>2, WorkerFacts DEF TlsOnly
<1>4. /\ pc' = [pc EXCEPT ![w] = "return"]
      /\ args' = args \/ args' = [args EXCEPT ![running[w]] = None]
      /\ left' = left \cup {Args(w).fd}
      /\ UNCHANGED <<poolVars, conn, rest, msg, alive, serving, sent>>
  BY DEF HandshakeFails, NoSize, Goto
<1>5. SentOK(w)'
  BY <1>4 DEF SentOK, Inv, ReplyToAsker
<1>6. QED
  BY <1>1, <1>2, <1>3, <1>4, <1>5, TypesOf, LastLabel

\* cleanup_session closes the descriptor.
LEMMA CleanupStep ==
    ASSUME Inv, NEW w \in Workers, cleanup_session(w)
    PROVE  Inv'
<1>1. At(w, "close") /\ "close" \in Serving
  BY DEF cleanup_session, Serving, Labels
<1>2. IsTls(w)
  BY <1>1, WorkerFacts DEF TlsOnly
<1>3. SentOK(w)'
  BY DEF cleanup_session, SentOK, Inv, ReplyToAsker
<1>4. QED
  BY <1>1, <1>2, <1>3, TypesOf, LastLabel DEF cleanup_session, Goto

\* sendto of the reply.
LEMMA UdpSendStep ==
    ASSUME Inv, NEW w \in Workers, UdpSend(w)
    PROVE  Inv'
<1>1. At(w, "send") /\ "send" \in Serving
  BY DEF UdpSend, Serving, Labels
<1>2. msg' = msg /\ msg[w] \in Messages /\ msg[w].from = Args(w).client
  BY <1>1, WorkerFacts DEF HasMessage, UdpSend
<1>3. PICK what \in Replies : Reply(w, what)
  BY DEF UdpSend, Replies
<1>4. /\ sent' \in [Workers -> [to : Clients, about : Messages, what : Replies]
                                 \cup {None}]
      /\ \A v \in Workers : v # w => sent'[v] = sent[v]
      /\ SentOK(w)'
  BY <1>1, <1>2, <1>3, ReplySent
<1>5. QED
  BY <1>1, <1>2, <1>4, TypesOf, LastLabel DEF UdpSend, Goto

\* The packet is parsed.
LEMMA UdpParseStep ==
    ASSUME Inv, NEW w \in Workers, UdpParse(w)
    PROVE  Inv'
<1>1. At(w, "parse") /\ {"parse", "resolve"} \subseteq Serving
  BY DEF UdpParse, Serving, Labels
<1>2. /\ ~IsTls(w) /\ msg' = [msg EXCEPT ![w] = Args(w).packet]
      /\ UNCHANGED <<poolVars, conn, rest, alive, serving, left>>
  BY DEF UdpParse
<1>3. Args(w).packet \in Messages /\ Args(w).packet.from = Args(w).client
  BY <1>1, <1>2, WorkerFacts, Constants
<1>4. /\ msg'[w] \in Messages /\ msg'[w].from = Args(w).client
      /\ msg' \in [Workers -> Messages \cup {None}]
      /\ \A v \in Workers : v # w => msg'[v] = msg[v]
  BY <1>2, <1>3, TypesOf
<1>5. CASE dns_recv_handle(msg'[w]) < -1
  <2>1. /\ Reply(w, "format error") /\ args' = [args EXCEPT ![running[w]] = None]
        /\ pc' = [pc EXCEPT ![w] = "return"] /\ "format error" \in Replies
    BY <1>5 DEF UdpParse, Goto, Replies
  <2>2. /\ sent' \in [Workers -> [to : Clients, about : Messages, what : Replies]
                                   \cup {None}]
        /\ \A v \in Workers : v # w => sent'[v] = sent[v]
        /\ SentOK(w)'
    BY <1>1, <1>4, <2>1, ReplySent
  <2>3. QED
    BY <1>1, <1>2, <1>4, <2>1, <2>2, LastLabel
<1>6. CASE ~(dns_recv_handle(msg'[w]) < -1)
  <2>1. sent' = sent /\ args' = args /\ pc' = [pc EXCEPT ![w] = "resolve"]
    BY <1>6 DEF UdpParse, Goto
  <2>2. SentOK(w)'
    BY <2>1 DEF SentOK, Inv, ReplyToAsker
  <2>3. QED
    BY <1>1, <1>2, <1>4, <2>1, <2>2, TypesOf, NextLabel DEF TlsOnly
<1>7. QED
  BY <1>5, <1>6

\* resolv_handle drops what is no request.
LEMMA NotARequestStep ==
    ASSUME Inv, NEW w \in Workers, NotARequest(w)
    PROVE  Inv'
<1>1. At(w, "resolve") /\ {"resolve", "close"} \subseteq Serving
  BY DEF NotARequest, Serving, Labels
<1>2. UNCHANGED <<poolVars, conn, rest, msg, alive, serving, sent, left>>
  BY DEF NotARequest
<1>3. SentOK(w)'
  BY <1>2 DEF SentOK, Inv, ReplyToAsker
<1>4. CASE IsTls(w)
  <2>1. pc' = [pc EXCEPT ![w] = "close"] /\ args' = args
    BY <1>4 DEF NotARequest, Goto
  <2>2. QED
    BY <1>1, <1>2, <1>3, <1>4, <2>1, TypesOf, NextLabel
<1>5. CASE ~IsTls(w)
  <2>1. pc' = [pc EXCEPT ![w] = "return"] /\ args' = [args EXCEPT ![running[w]] = None]
    BY <1>5 DEF NotARequest, Goto
  <2>2. QED
    BY <1>1, <1>2, <1>3, <1>5, <2>1, TypesOf, LastLabel
<1>6. QED
  BY <1>4, <1>5

\* pthread_exit in send_question ends the worker in its job.
LEMMA ThreadExitsStep ==
    ASSUME Inv, NEW w \in Workers, ThreadExits(w)
    PROVE  Inv'
<1>1. At(w, "resolve") /\ "resolve" \in Serving
  BY DEF ThreadExits, Serving, Labels
<1>2. /\ pc[w] = "resolve" /\ w \notin gone
      /\ IsTls(w) => running[w] \in Sessions /\ Args(w).fd \in Fds
  BY <1>1, WorkerFacts
<1>3. /\ JQ!Die(w) /\ left' = (IF IsTls(w) THEN left \cup {Args(w).fd} ELSE left)
      /\ msg' = [msg EXCEPT ![w] = None]
      /\ args' = args /\ conn' = conn /\ pc' = pc /\ sent' = sent
      /\ UNCHANGED <<rest, alive, serving>>
  BY DEF ThreadExits
<1>4. PoolInv /\ Types
  BY DEF Inv
<1>5. /\ PoolInv' /\ JQ!Queued' = JQ!Queued /\ running' = running
      /\ gone' = gone \cup {w}
  BY <1>3, <1>4, DieStep
<1>6. Types'
  <2>1. left' \subseteq Fds
    BY <1>2, <1>3, TypesOf
  <2>2. QED
    BY <1>3, <2>1, TypesOf DEF Types, TypeOK, Messages
<1>7. /\ Sessions' = Sessions \ {running[w]}
      /\ \A j \in Sessions' : args'[j] = args[j]
  BY <1>1, <1>2, <1>3, <1>5, <1>6, SessionEnds
<1>8. FdInv'
  <2>1. CASE ~IsTls(w)
    <3>1. running[w] \notin JQ!Queued
      BY <1>2, OwnJob
    <3>2. running[w] \notin Sessions
      BY <1>4, <2>1, <3>1, SessionCases DEF IsTls, Args
    <3>3. QED
      BY <1>3, <1>7, <2>1, <3>2, FdsKept
  <2>2. CASE IsTls(w)
    BY <1>2, <1>3, <1>7, <2>2, FdGivenUp DEF Args
  <2>3. QED
    BY <2>1, <2>2
<1>9. SentOK(w)'
  BY <1>3 DEF SentOK, Inv, ReplyToAsker
<1>10. \A v \in Workers : v # w => msg'[v] = msg[v] /\ sent'[v] = sent[v]
  BY <1>3, TypesOf
<1>11. QED
  BY <1>1, <1>2, <1>3, <1>5, <1>6, <1>8, <1>9, <1>10, JobEnds

\* A worker pulls a job.
LEMMA TakeStep ==
    ASSUME Inv, NEW w \in Workers, Take(w)
    PROVE  Inv'
<1> DEFINE h == Head(pending)
           label == IF args[h].fd = 0 THEN "parse" ELSE "accept"
<1>1. /\ pc[w] = "idle" /\ JQ!Start(w) /\ pc' = [pc EXCEPT ![w] = label]
      /\ args' = args /\ conn' = conn /\ msg' = msg /\ sent' = sent /\ left' = left
      /\ UNCHANGED <<rest, alive, serving>>
  BY DEF Take, At, Goto
<1>2. PoolInv /\ Types /\ ArgsOK
  BY DEF Inv
<1>3. /\ PoolInv' /\ h \in JQ!Queued /\ h \in Jobs /\ JQ!Queued' = JQ!Queued \ {h}
      /\ w \notin gone /\ gone' = gone /\ running[w] = NoJob
      /\ running' = [running EXCEPT ![w] = h]
  BY <1>1, <1>2, StartStep
<1>4. running \in [Workers -> Jobs \cup {NoJob}] /\ pc \in [Workers -> Labels]
  BY <1>2, TypesOf DEF PoolInv, PoolType
<1>5. running'[w] = h /\ pc'[w] = label /\ label \in Serving
      /\ \A v \in Workers : v # w => running'[v] = running[v] /\ pc'[v] = pc[v]
  BY <1>1, <1>3, <1>4 DEF Serving, Labels
<1> HIDE DEF h
<1>6. Types'
  <2>1. pc' \in [Workers -> Labels]
    BY <1>1, <1>4, <1>5 DEF Serving
  <2>2. QED
    BY <1>1, <2>1, TypesOf DEF Types, TypeOK, Messages
<1>7. Sessions' = Sessions
  <2>1. pc[w] \notin Serving
    BY <1>1 DEF Serving
  <2>2. ASSUME NEW j PROVE j \in Sessions' <=> j \in Sessions
    BY <1>1, <1>2, <1>3, <1>5, <1>6, <2>1, SessionCases, SessionCasesNext
  <2>3. QED
    BY <2>2
<1>8. FdInv'
  BY <1>1, <1>7, FdsKept
<1>9. WorkerOK(w)'
  <2>1. args[h] \in Arguments
    BY <1>2, <1>3 DEF ArgsOK
  <2>2. running'[w] # NoJob /\ pc'[w] # "idle" /\ w \notin gone'
    BY <1>3, <1>5, Constants
  <2>3. QED
    BY <1>1, <1>5, <2>1, <2>2 DEF WorkerOK, HasMessage, IsTls, Args, Serving, TlsOnly
<1>10. \A v \in Workers : WorkerOK(v)'
  BY <1>1, <1>3, <1>5, <1>9, OtherWorkerOK
<1>11. ArgsOK' /\ ReplyToAsker'
  BY <1>1, <1>3 DEF Inv, ArgsOK, ReplyToAsker
<1>12. QED
  BY <1>3, <1>6, <1>8, <1>10, <1>11 DEF Inv, FdInv

\* The job returns to thread_work.
LEMMA JobReturnsStep ==
    ASSUME Inv, NEW w \in Workers, JobReturns(w)
    PROVE  Inv'
<1>1. /\ pc[w] = "return" /\ JQ!Finish(w) /\ pc' = [pc EXCEPT ![w] = "idle"]
      /\ rest' = [rest EXCEPT ![w] = 0] /\ msg' = [msg EXCEPT ![w] = None]
      /\ sent' = [sent EXCEPT ![w] = None]
      /\ args' = [args EXCEPT ![running[w]] = None]
      /\ conn' = conn /\ left' = left /\ UNCHANGED <<alive, serving>>
  BY DEF JobReturns, At, Goto
<1>2. PoolInv /\ Types
  BY DEF Inv
<1>3. /\ PoolInv' /\ JQ!Queued' = JQ!Queued /\ gone' = gone /\ w \notin gone
      /\ running[w] \in Jobs /\ running' = [running EXCEPT ![w] = NoJob]
  BY <1>1, <1>2, FinishStep
<1>4. Types'
  <2>1. rest' \in [Workers -> -MaxSize..MaxSize]
    BY <1>1, TypesOf, Constants
  <2>2. QED
    BY <1>1, <2>1, TypesOf DEF Types, TypeOK, Messages, Labels
<1>5. /\ running[w] \notin JQ!Queued
      /\ \A v \in Workers : running[v] = running[w] => v = w
  BY <1>1, OwnJob
<1>6. running \in [Workers -> Jobs \cup {NoJob}]
  BY <1>2 DEF PoolInv, PoolType
<1>7. \A j \in Jobs : j # running[w] => args'[j] = args[j]
  BY <1>1, TypesOf
<1>8. /\ pc'[w] = "idle" /\ running'[w] = NoJob
      /\ \A v \in Workers : v # w => /\ pc'[v] = pc[v] /\ running'[v] = running[v]
                                     /\ msg'[v] = msg[v] /\ sent'[v] = sent[v]
  BY <1>1, <1>3, <1>6, TypesOf
<1>9. Sessions' = Sessions
  <2>1. "return" \notin Serving /\ "idle" \notin Serving
    BY DEF Serving
  <2>2. \A j \in JQ!Queued : j \in Jobs /\ j # running[w]
    BY <1>2, <1>5, LenProperties DEF PoolInv, PoolType, JQ!Queued
  <2>3. \A v \in Workers : pc[v] \in Serving => running[v] \in Jobs /\ running[v] # running[w]
    BY <1>1, <1>5, <2>1, OwnJob DEF Serving
  <2>4. ASSUME NEW j PROVE j \in Sessions' <=> j \in Sessions
    <3>1. CASE j \in Jobs /\ j # running[w]
      BY <1>1, <1>2, <1>3, <1>4, <1>7, <1>8, <2>1, <3>1, SessionCases, SessionCasesNext
    <3>2. CASE ~(j \in Jobs /\ j # running[w])
      <4>1. j \notin Sessions
        BY <1>2, <2>2, <2>3, <3>2, SessionCases
      <4>2. j \notin Sessions'
        BY <1>3, <1>4, <1>8, <2>1, <2>2, <2>3, <3>2, SessionCasesNext
      <4>3. QED
        BY <4>1, <4>2
    <3>3. QED
      BY <3>1, <3>2
  <2>5. QED
    BY <2>4
<1>10. \A j \in Sessions : args'[j] = args[j]
  <2>1. running[w] \notin Sessions
    BY <1>1, <1>2, <1>5, SessionCases DEF Serving
  <2>2. QED
    BY <1>7, <2>1, SessionType
<1>11. FdInv'
  BY <1>1, <1>9, <1>10, FdsKept
<1>12. WorkerOK(w)'
  BY <1>3, <1>8 DEF WorkerOK, HasMessage, Serving, TlsOnly
<1>13. \A v \in Workers : WorkerOK(v)'
  <2>1. OwnStep(w)
    BY <1>3, <1>7, <1>8 DEF OwnStep
  <2>2. QED
    BY <1>1, <1>12, <2>1, OthersOK
<1>14. ArgsOK'
  <2>1. \A j \in JQ!Queued : j \in Jobs /\ j # running[w]
    BY <1>2, <1>5, LenProperties DEF PoolInv, PoolType, JQ!Queued
  <2>2. QED
    BY <1>3, <1>7, <2>1 DEF Inv, ArgsOK
<1>15. ReplyToAsker'
  BY <1>1, <1>8, TypesOf DEF Inv, ReplyToAsker
<1>16. QED
  BY <1>3, <1>4, <1>11, <1>13, <1>14, <1>15 DEF Inv, FdInv

\* A job that is accepted has a name and arguments of its own.
LEMMA JobAccepted ==
    ASSUME Inv, Types', NEW new \in Arguments, Len(pending) < Capacity,
           JQ!Accept(NewJob), args' = create_resolv_args(NewJob, new),
           UNCHANGED sessionVars
    PROVE  /\ PoolInv' /\ ArgsOK' /\ ReplyToAsker' /\ \A v \in Workers : WorkerOK(v)'
           /\ NewJob \notin Sessions /\ args'[NewJob] = new
           /\ \A j \in Sessions : args'[j] = args[j]
           /\ Sessions' = Sessions \cup (IF new.fd = 0 THEN {} ELSE {NewJob})
<1> DEFINE n == NewJob
<1>1. PoolInv /\ PoolType /\ Types /\ n \in Jobs
  BY NewJobExists DEF Inv, PoolInv
<1> HIDE DEF n
<1>2. JQ!Accept(n) /\ args' = [args EXCEPT ![n] = new]
  BY DEF n, create_resolv_args
<1>3. /\ PoolInv' /\ JQ!Queued' = JQ!Queued \cup {n} /\ n \notin JQ!Queued
      /\ \A w \in Workers : running[w] # n
      /\ running' = running /\ gone' = gone
  BY <1>1, <1>2, AcceptStep
<1>4. pc' = pc /\ msg' = msg /\ sent' = sent
  BY DEF sessionVars
<1>5. args'[n] = new /\ \A j \in Jobs : j # n => args'[j] = args[j]
  BY <1>1, <1>2, TypesOf
<1>6. \A v \in Workers : pc[v] # "idle" => running[v] \in Jobs /\ running[v] # n
  BY <1>3, OwnJob
<1>7. \A v \in Workers : WorkerOK(v)'
  BY <1>3, <1>4, <1>5, <1>6, OtherWorkerOK
<1>8. \A j \in JQ!Queued : j \in Jobs /\ j # n
  BY <1>1, <1>3, LenProperties DEF PoolType, JQ!Queued
<1>9. ArgsOK'
  BY <1>3, <1>5, <1>8 DEF Inv, ArgsOK
<1>10. ReplyToAsker'
  BY <1>4 DEF Inv, ReplyToAsker
<1>11. n \notin Sessions
  BY <1>1, <1>3, SessionCases
<1>12. \A j \in Sessions : args'[j] = args[j]
  BY <1>5, <1>11, SessionType
<1>13. \A v \in Workers : pc[v] \in Serving => running[v] \in Jobs /\ running[v] # n
  BY <1>6 DEF Serving
<1>14. ASSUME NEW j PROVE j \in Sessions' <=> j \in Sessions \/ (j = n /\ new.fd # 0)
  <2>1. CASE j = n
    BY <1>1, <1>3, <1>4, <1>5, <1>11, <2>1, SessionCasesNext
  <2>2. CASE j # n /\ j \in Jobs
    <3>1. args'[j] = args[j]
      BY <1>5, <2>2
    <3>2. QED
      BY <1>1, <1>3, <1>4, <2>2, <3>1, SessionCases, SessionCasesNext
  <2>3. CASE j \notin Jobs
    <3>1. j \notin Sessions
      BY <2>3, SessionType
    <3>2. j \notin Sessions'
      BY <1>1, <1>3, <1>4, <1>8, <1>13, <2>3, SessionCasesNext
    <3>3. QED
      BY <1>1, <2>3, <3>1, <3>2
  <2>4. QED
    BY <2>1, <2>2, <2>3
<1>15. Sessions' = Sessions \cup (IF new.fd = 0 THEN {} ELSE {n})
  BY <1>14
<1>16. QED
  BY <1>3, <1>5, <1>7, <1>9, <1>10, <1>11, <1>12, <1>15 DEF n

\* One turn of the UDP responder.
LEMMA UdpResponderStep ==
    ASSUME Inv, NEW p \in Packets, udp_responder(p)
    PROVE  Inv'
<1>1. UNCHANGED <<conn, sessionVars, alive, serving, left>>
  BY DEF udp_responder
<1>2. CASE UNCHANGED <<poolVars, args>>
  <2>1. Types'
    BY <1>1, <1>2, TypesOf DEF Types, TypeOK, Messages, sessionVars
  <2>2. QED
    BY <1>1, <1>2, <2>1, ProcessStep
<1>3. CASE /\ Len(pending) < Capacity /\ JQ!Accept(NewJob)
           /\ args' = create_resolv_args(NewJob,
                        [client |-> p.from, packet |-> p, fd |-> 0])
  <2> DEFINE new == [client |-> p.from, packet |-> p, fd |-> 0]
  <2>1. p.from \in Clients
    BY Constants DEF Messages
  <2>2. new \in Arguments /\ new.fd = 0
    BY <2>1 DEF Arguments
  <2> HIDE DEF new
  <2>3. args' = create_resolv_args(NewJob, new)
    BY <1>3 DEF new
  <2>4. Types'
    <3>1. args' \in [Jobs -> [client : Clients, packet : Packets \cup {None},
                              fd : Fds \cup {0}] \cup {None}]
      BY <2>2, <2>3, TypesOf DEF create_resolv_args, Arguments
    <3>2. QED
      BY <1>1, <3>1, TypesOf DEF Types, TypeOK, Messages, sessionVars
  <2>5. /\ PoolInv' /\ ArgsOK' /\ ReplyToAsker' /\ \A v \in Workers : WorkerOK(v)'
        /\ \A j \in Sessions : args'[j] = args[j]
        /\ Sessions' = Sessions
    BY <1>1, <1>3, <2>2, <2>3, <2>4, JobAccepted
  <2>6. FdInv'
    BY <1>1, <2>5, FdsKept
  <2>7. QED
    BY <2>4, <2>5, <2>6 DEF Inv, FdInv
<1>4. QED
  BY <1>2, <1>3 DEF udp_responder

\* accept returns a descriptor that is closed.
LEMMA NewFdIsFree ==
    ASSUME FreeFds # {}
    PROVE  NewFd \in Fds /\ conn[NewFd] = None
<1>1. FreeFds \in SUBSET Nat
  BY Constants DEF FreeFds, Fds
<1>2. PICK f \in FreeFds : \A g \in FreeFds : f <= g
  BY <1>1, LeastExists
<1>3. NewFd \in FreeFds
  BY <1>2 DEF NewFd, Min
<1>4. QED
  BY <1>3 DEF FreeFds

\* One turn of the TLS responder.
LEMMA TlsResponderStep ==
    ASSUME Inv, NEW c \in Clients, tls_responder(c)
    PROVE  Inv'
<1> DEFINE f == NewFd
<1>1. f \in Fds /\ conn[f] = None /\ f # 0
  BY NewFdIsFree DEF tls_responder, Fds
<1>2. conn' = [conn EXCEPT ![f] = c] /\ UNCHANGED <<sessionVars, alive, serving>>
  BY DEF tls_responder
<1>3. conn' \in [Fds -> Clients \cup {None}]
  BY <1>2, TypesOf
<1> HIDE DEF f
<1>4. CASE left' = left \cup {f} /\ UNCHANGED <<poolVars, args>>
  <2>1. Types'
    BY <1>1, <1>2, <1>3, <1>4, TypesOf DEF Types, TypeOK, Messages, sessionVars
  <2>2. PoolInv /\ Types
    BY DEF Inv
  <2>3. PoolInv' /\ JQ!Queued' = JQ!Queued /\ running' = running /\ gone' = gone
    BY <1>4, <2>2, PoolUntouched
  <2>4. args' = args /\ pc' = pc /\ msg' = msg /\ sent' = sent
    BY <1>2, <1>4 DEF sessionVars
  <2>5. Sessions' = Sessions
    <3>1. ASSUME NEW j PROVE j \in Sessions' <=> j \in Sessions
      BY <2>1, <2>2, <2>3, <2>4, SessionCases, SessionCasesNext
    <3>2. QED
      BY <3>1
  <2>6. FdInv'
    BY <1>1, <1>2, <1>4, <2>4, <2>5, FdRefused
  <2>7. \A w \in Workers : WorkerOK(w)'
    BY <2>3, <2>4, OtherWorkerOK
  <2>8. ArgsOK' /\ ReplyToAsker'
    BY <2>3, <2>4 DEF Inv, ArgsOK, ReplyToAsker
  <2>9. QED
    BY <2>1, <2>3, <2>6, <2>7, <2>8 DEF Inv, FdInv
<1>5. CASE /\ Len(pending) < Capacity /\ JQ!Accept(NewJob) /\ left' = left
           /\ args' = create_resolv_args(NewJob,
                        [client |-> c, packet |-> None, fd |-> f])
  <2> DEFINE new == [client |-> c, packet |-> None, fd |-> f]
  <2>1. new \in Arguments /\ new.fd = f /\ new.client = c
    BY <1>1 DEF Arguments
  <2> HIDE DEF new
  <2>2. args' = create_resolv_args(NewJob, new)
    BY <1>5 DEF new
  <2>3. Types'
    <3>1. args' \in [Jobs -> [client : Clients, packet : Packets \cup {None},
                              fd : Fds \cup {0}] \cup {None}]
      BY <2>1, <2>2, TypesOf DEF create_resolv_args, Arguments
    <3>2. QED
      BY <1>2, <1>3, <1>5, <3>1, TypesOf DEF Types, TypeOK, Messages, sessionVars
  <2>4. /\ PoolInv' /\ ArgsOK' /\ ReplyToAsker' /\ \A v \in Workers : WorkerOK(v)'
        /\ NewJob \notin Sessions /\ args'[NewJob] = new
        /\ \A j \in Sessions : args'[j] = args[j]
        /\ Sessions' = Sessions \cup {NewJob}
    BY <1>1, <1>2, <1>5, <2>1, <2>2, <2>3, JobAccepted
  <2>5. FdInv'
    BY <1>1, <1>2, <1>5, <2>1, <2>4, FdOpened
  <2>6. QED
    BY <2>3, <2>4, <2>5 DEF Inv, FdInv
<1>6. QED
  BY <1>4, <1>5 DEF tls_responder, f

-----------------------------------------------------------------------------
(* The theorems *)

\* The invariant holds at the start,
LEMMA InitInv == Init => Inv
<1> SUFFICES ASSUME Init PROVE Inv
  OBVIOUS
<1>1. /\ pending = <<>> /\ running = [w \in Workers |-> NoJob] /\ gone = {}
      /\ args = [j \in Jobs |-> None] /\ conn = [f \in Fds |-> None]
      /\ pc = [w \in Workers |-> "idle"] /\ rest = [w \in Workers |-> 0]
      /\ msg = [w \in Workers |-> None] /\ alive = TRUE /\ serving = {}
      /\ sent = [w \in Workers |-> None] /\ left = {}
  BY DEF Init, JQ!Init
<1>2. Types
  <2>1. rest \in [Workers -> -MaxSize..MaxSize]
    BY <1>1, Constants
  <2>2. QED
    BY <1>1, <2>1 DEF Types, TypeOK, Labels
<1>3. PoolInv
  BY <1>1, Constants, EmptySeq DEF PoolInv, PoolType, OnePlace
<1>4. JQ!Queued = {}
  BY <1>1 DEF JQ!Queued
<1>5. \A w \in Workers : WorkerOK(w)
  BY <1>1 DEF WorkerOK, HasMessage, Serving, TlsOnly
<1>6. Sessions = {}
  BY <1>1, <1>2, <1>4, SessionCases DEF Serving
<1>7. QED
  BY <1>1, <1>2, <1>3, <1>4, <1>5, <1>6
     DEF Inv, ArgsOK, LeftIsOpen, ReplyToAsker, SessionOwnsItsFd, OrphansExplained

\* and every step keeps it,
LEMMA NextInv ==
    ASSUME Inv, [Next]_vars
    PROVE  Inv'
<1>1. CASE start_udp_server \/ start_tls_server \/ StartFails \/ UNCHANGED vars
  <2>1. UNCHANGED <<poolVars, args, conn, sessionVars, left>>
    BY <1>1 DEF start_udp_server, start_tls_server, StartFails, vars
  <2>2. alive' \in BOOLEAN /\ serving' \in {{}, {"udp"}, {"udp", "tls"}}
    BY <1>1, TypesOf DEF start_udp_server, start_tls_server, StartFails, vars
  <2>3. Types'
    BY <2>1, <2>2, TypesOf DEF Types, TypeOK, Messages, sessionVars
  <2>4. QED
    BY <2>1, <2>3, ProcessStep
<1>2. ASSUME NEW w \in Workers, Crash(w) PROVE Inv'
  <2>1. UNCHANGED <<poolVars, args, conn, sessionVars, left, serving>> /\ alive' = FALSE
    BY <1>2 DEF Crash
  <2>2. Types'
    BY <2>1, TypesOf DEF Types, TypeOK, Messages, sessionVars
  <2>3. QED
    BY <2>1, <2>2, ProcessStep
<1>3. ASSUME NEW p \in Packets, udp_responder(p) PROVE Inv'
  BY <1>3, UdpResponderStep
<1>4. ASSUME NEW c \in Clients, tls_responder(c) PROVE Inv'
  BY <1>4, TlsResponderStep
<1>5. ASSUME NEW w \in Workers, Work(w) PROVE Inv'
  BY <1>2, <1>5, TakeStep, SessionFailsStep, BodyEndsStep, UdpParseStep, TlsParseStep,
     ResolveStep, NotARequestStep, ThreadExitsStep, UdpSendStep, TlsSendStep,
     CleanupStep, JobReturnsStep DEF Work
<1>6. ASSUME NEW w \in Workers, Client(w) PROVE Inv'
  BY <1>6, HandshakeStep, SessionFailsStep, BodyEndsStep, ReadSizeStep, ReadBodyStep
     DEF Client
<1>7. QED
  BY <1>1, <1>3, <1>4, <1>5, <1>6 DEF Next, Terminated

\* so it always holds.
LEMMA Invariance == Spec => []Inv
BY InitInv, NextInv, PTL DEF Spec

\* The arguments, descriptors and buffers of the jobs keep their types whatever
\* the clients send and whichever way a job ends.
THEOREM TypeCorrect == Spec => []TypeOK
<1>1. Inv => TypeOK
  BY DEF Inv, Types
<1>2. QED
  BY <1>1, Invariance, PTL

\* Every reply, over UDP or TLS, goes to the client whose message it is about,
\* for any number of workers, clients and descriptors.
THEOREM RepliesReachTheirAsker == Spec => []ReplyToAsker
<1>1. Inv => ReplyToAsker
  BY DEF Inv
<1>2. QED
  BY <1>1, Invariance, PTL

\* A job uses no descriptor that was closed, given up or is another job's: from
\* accept to cleanup_session it has its own client at the other end.
THEOREM SessionsOwnTheirFds == Spec => []SessionOwnsItsFd
<1>1. Inv => SessionOwnsItsFd
  BY DEF Inv
<1>2. QED
  BY <1>1, Invariance, PTL

\* The four exits that give a descriptor up are the only leaks.
THEOREM OtherExitsClose == Spec => []OrphansExplained
<1>1. Inv => OrphansExplained
  BY DEF Inv
<1>2. QED
  BY <1>1, Invariance, PTL
=============================================================================
