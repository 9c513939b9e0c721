-------------------------- MODULE ThreadPoolProofs --------------------------
(***************************************************************************)
(* Proofs about ThreadPool, for every set of workers, every set of jobs    *)
(* and every size of the ring that PoolAssumption admits.                  *)
(***************************************************************************)
EXTENDS ThreadPool, FiniteSetTheorems, SequenceTheorems, TLAPS

Labels == {"none", "pull", "wait", "got", "run", "done", "dead"}

-----------------------------------------------------------------------------
(* Arithmetic of the ring *)

\* The size of the ring as a number, apart from the rest of PoolAssumption.
LEMMA RingSize == NThreadsMax \in Nat \ {0} /\ NThreadsMax < 256
BY PoolAssumption DEF PoolAssumption

\* The number of threads of the pool fits in the uint8_t that counts them.
LEMMA NThreadsType == NThreads \in Nat /\ NThreads < 256
<1>1. NThreads \in Nat
  BY PoolAssumption, FS_CardinalityType DEF PoolAssumption, NThreads
<1>2. NThreads <= NThreadsMax
  BY PoolAssumption DEF PoolAssumption, NThreads
<1>3. QED
  BY <1>1, <1>2, RingSize

\* A remainder is a slot number.
LEMMA ModRange ==
  ASSUME NEW n \in Nat \ {0}, NEW x \in Nat
  PROVE  x % n \in 0..n-1
OBVIOUS

\* A number below the modulus is its own remainder.
LEMMA ModLow ==
  ASSUME NEW n \in Nat \ {0}, NEW x \in 0..n-1
  PROVE  x % n = x
OBVIOUS

\* A number on the second lap loses one modulus.
LEMMA ModHigh ==
  ASSUME NEW n \in Nat \ {0}, NEW x \in n..n+n-1
  PROVE  x % n = x - n
OBVIOUS

\* The slot after the k-th one counted from f is the (k+1)-th.
LEMMA NextSlot ==
  ASSUME NEW n \in Nat \ {0}, NEW f \in 0..n-1, NEW k \in 1..n
  PROVE  (((f + k - 1) % n) + 1) % n = (f + k) % n
<1>1. CASE f + k - 1 < n
  <2>1. f + k - 1 \in 0..n-1
    BY <1>1
  <2>2. QED
    BY <2>1, ModLow
<1>2. CASE f + k - 1 >= n
  <2>1. f + k - 1 \in n..n+n-1 /\ f + k \in n..n+n-1 /\ f + k - n \in 0..n-1
    BY <1>2
  <2>2. (f + k - 1) % n = f + k - 1 - n
    BY <2>1, ModHigh
  <2>3. (f + k) % n = f + k - n
    BY <2>1, ModHigh
  <2>4. (f + k - n) % n = f + k - n
    BY <2>1, ModLow
  <2>5. (f + k - 1 - n) + 1 = f + k - n
    OBVIOUS
  <2>6. QED
    BY <2>2, <2>3, <2>4, <2>5
<1>3. QED
  BY <1>1, <1>2

\* Counting k-1 slots from the slot after f is counting k slots from f.
LEMMA ShiftedSlot ==
  ASSUME NEW n \in Nat \ {0}, NEW f \in 0..n-1, NEW k \in 1..n
  PROVE  (f + k) % n = (((f + 1) % n) + (k - 1)) % n
<1>1. CASE f + 1 < n
  <2>1. (f + 1) % n = f + 1
    BY <1>1, ModLow
  <2>2. (f + 1) + (k - 1) = f + k
    OBVIOUS
  <2>3. QED
    BY <2>1, <2>2
<1>2. CASE f + 1 >= n
  <2>1. f + 1 = n /\ k - 1 \in 0..n-1 /\ f + k \in n..n+n-1 /\ n \in n..n+n-1
    BY <1>2
  <2>2. (f + 1) % n = 0
    BY <2>1, ModHigh
  <2>3. (f + k) % n = k - 1
    BY <2>1, ModHigh
  <2>4. (0 + (k - 1)) % n = k - 1
    BY <2>1, ModLow
  <2>5. QED
    BY <2>2, <2>3, <2>4
<1>3. QED
  BY <1>1, <1>2

\* QINDEX_INC maps slots to slots.
LEMMA IncInSlots ==
  ASSUME NEW x \in Slots
  PROVE  QINDEX_INC(x) \in Slots
BY RingSize, ModRange DEF QINDEX_INC, Slots

-----------------------------------------------------------------------------
(* Type correctness *)

\* pthread_cond_signal keeps every worker at some label of thread_work.
LEMMA SignalType ==
  ASSUME NEW f \in [Workers -> Labels], Signal(f)
  PROVE  pc' \in [Workers -> Labels]
BY DEF Signal, Labels

\* Every step of init_threadpool, of the responders and of the workers keeps
\* each field of the pool inside its C type and the indices inside the ring.
THEOREM TypeCorrect == Spec => []TypeOK
<1>1. Init => TypeOK
  BY PoolAssumption DEF PoolAssumption, Init, queue_init, TypeOK, Slots, U8
<1>2. TypeOK /\ [Next]_vars => TypeOK'
  <2> SUFFICES ASSUME TypeOK, [Next]_vars PROVE TypeOK'
    OBVIOUS
  <2> USE DEF TypeOK
  <2>0. pc \in [Workers -> Labels]
    BY DEF Labels
  <2>1. CASE init_threadpool
    <3>1. NThreads \in U8
      BY NThreadsType DEF U8
    <3>2. QED
      BY <2>1, <3>1 DEF init_threadpool
  <2>2. ASSUME NEW w \in Workers, CreateThread(w) \/ SpuriousWakeup(w)
        PROVE  TypeOK'
    BY <2>2 DEF CreateThread, SpuriousWakeup
  <2>3. ASSUME NEW j \in Jobs, threadpool_add_job(j)
        PROVE  TypeOK'
    <3>1. back' \in Slots
      BY <2>3, IncInSlots DEF threadpool_add_job, Enqueue
    <3>2. len' \in 0..NThreadsMax
      BY <2>3, PoolAssumption DEF PoolAssumption, threadpool_add_job, Enqueue, QueueFull
    <3>3. queue' \in [Slots -> Jobs \cup {NoJob}]
      BY <2>3, <3>1 DEF threadpool_add_job, Enqueue
    <3>4. pc' \in [Workers -> Labels]
      BY <2>3, <2>0, SignalType DEF threadpool_add_job, AfterPush
    <3>5. QED
      BY <2>3, <3>1, <3>2, <3>3, <3>4 DEF threadpool_add_job, Enqueue, Labels
  <2>4. ASSUME NEW j \in Jobs, RejectJob(j)
        PROVE  TypeOK'
    <3>1. pc' \in [Workers -> Labels]
      BY <2>4, <2>0, SignalType DEF RejectJob
    <3>2. QED
      BY <2>4, <3>1 DEF RejectJob, Labels
  <2>5. ASSUME NEW w \in Workers, pull_job(w)
        PROVE  TypeOK'
    <3>1. front' \in Slots
      BY <2>5, IncInSlots DEF pull_job, queue_pop
    <3>2. len' \in 0..NThreadsMax
      BY <2>5, PoolAssumption DEF PoolAssumption, pull_job, queue_pop
    <3>3. QED
      BY <2>5, <3>1, <3>2 DEF pull_job, queue_pop
  <2>6. ASSUME NEW w \in Workers, WaitForJob(w) \/ JobReturns(w) \/ JobExits(w)
        PROVE  TypeOK'
    BY <2>6 DEF WaitForJob, JobReturns, JobExits
  <2>7. ASSUME NEW w \in Workers, BeginJob(w)
        PROVE  TypeOK'
    <3>1. nThreadsFree' \in U8
      BY <2>7 DEF BeginJob, U8
    <3>2. QED
      BY <2>7, <3>1 DEF BeginJob
  <2>8. ASSUME NEW w \in Workers, EndJob(w)
        PROVE  TypeOK'
    <3>1. nThreadsFree' \in U8
      BY <2>8 DEF EndJob, U8
    <3>2. [pc EXCEPT ![w] = "pull"] \in [Workers -> Labels]
      BY <2>0 DEF Labels
    <3>3. pc' \in [Workers -> Labels]
      BY <2>8, <3>2, SignalType DEF EndJob
    <3>4. QED
      BY <2>8, <3>1, <3>3 DEF EndJob, Labels
  <2>9. CASE UNCHANGED vars
    BY <2>9 DEF vars
  <2>10. QED
    BY <2>1, <2>2, <2>3, <2>4, <2>5, <2>6, <2>7, <2>8, <2>9 DEF Next, Worker
<1>3. QED
  BY <1>1, <1>2, PTL DEF Spec

-----------------------------------------------------------------------------
(* What a push and a pop do to the contents of the ring *)

\* The slot of the i-th job of a ring whose oldest job is in slot f.
Pos(f, i) == (f + i - 1) % NThreadsMax

\* A live slot lies on the first or on the second lap.
LEMMA PosLap ==
  ASSUME NEW f \in Slots, NEW i \in 1..NThreadsMax
  PROVE  /\ Pos(f, i) \in Slots
         /\ f + i - 1 < NThreadsMax => Pos(f, i) = f + i - 1
         /\ f + i - 1 >= NThreadsMax => Pos(f, i) = f + i - 1 - NThreadsMax
<1>1. CASE f + i - 1 < NThreadsMax
  <2>1. f + i - 1 \in 0..NThreadsMax-1
    BY <1>1, RingSize DEF Slots
  <2>2. Pos(f, i) = f + i - 1
    BY <2>1, RingSize, ModLow DEF Pos
  <2>3. QED
    BY <2>1, <2>2, RingSize DEF Slots
<1>2. CASE f + i - 1 >= NThreadsMax
  <2>1. f + i - 1 \in NThreadsMax..NThreadsMax+NThreadsMax-1
    BY <1>2, RingSize DEF Slots
  <2>2. Pos(f, i) = f + i - 1 - NThreadsMax
    BY <2>1, RingSize, ModHigh DEF Pos, Slots
  <2>3. QED
    BY <2>1, <2>2, RingSize DEF Slots
<1>3. QED
  BY <1>1, <1>2, RingSize DEF Slots

\* Different places in the queue are different slots of the ring.
LEMMA PosInjective ==
  ASSUME NEW f \in Slots, NEW i \in 1..NThreadsMax, NEW k \in 1..NThreadsMax,
         Pos(f, i) = Pos(f, k)
  PROVE  i = k
<1>1. \/ Pos(f, i) = f + i - 1
      \/ Pos(f, i) = f + i - 1 - NThreadsMax
  BY PosLap, RingSize DEF Slots
<1>2. \/ Pos(f, k) = f + k - 1
      \/ Pos(f, k) = f + k - 1 - NThreadsMax
  BY PosLap, RingSize DEF Slots
<1>3. QED
  BY <1>1, <1>2, RingSize DEF Slots

\* The place after the first is the first place of the ring without its head.
LEMMA PosShift ==
  ASSUME NEW f \in Slots, NEW i \in 1..NThreadsMax-1
  PROVE  Pos(QINDEX_INC(f), i) = Pos(f, i + 1)
<1>1. i \in 1..NThreadsMax /\ i + 1 \in 1..NThreadsMax
  BY RingSize
<1>2. QINDEX_INC(f) = IF f + 1 < NThreadsMax THEN f + 1 ELSE 0
  <2>1. CASE f + 1 < NThreadsMax
    BY <2>1, RingSize, ModLow DEF QINDEX_INC, Slots
  <2>2. CASE f + 1 >= NThreadsMax
    <3>1. f + 1 = NThreadsMax /\ f + 1 \in NThreadsMax..NThreadsMax+NThreadsMax-1
      BY <2>2, RingSize DEF Slots
    <3>2. QED
      BY <3>1, RingSize, ModHigh DEF QINDEX_INC
  <2>3. QED
    BY <2>1, <2>2, RingSize DEF Slots
<1>3. QINDEX_INC(f) \in Slots
  BY IncInSlots
<1>4. QED
  BY <1>1, <1>2, <1>3, PosLap, RingSize DEF Slots

\* The contents of a well-typed ring are a sequence of length len.
LEMMA ContentsType ==
  ASSUME TypeOK
  PROVE  /\ Contents \in Seq(Jobs \cup {NoJob})
         /\ Len(Contents) = len
         /\ DOMAIN Contents = 1..len
         /\ \A i \in 1..len : Contents[i] = queue[Pos(front, i)]
<1>1. \A i \in 1..len : Pos(front, i) \in Slots
  BY PosLap, RingSize DEF TypeOK
<1>2. \A i \in 1..len : queue[Pos(front, i)] \in Jobs \cup {NoJob}
  BY <1>1 DEF TypeOK
<1>3. Contents = [i \in 1..len |-> queue[Pos(front, i)]]
  BY DEF Contents, Pos
<1>4. len \in Nat
  BY RingSize DEF TypeOK
<1>5. QED
  BY <1>2, <1>3, <1>4

\* queue_push appends the job to the contents, and keeps the indices agreed.
LEMMA PushContents ==
  ASSUME TypeOK, TypeOK', RingConsistent, NEW j \in Jobs, ~QueueFull, Enqueue(j)
  PROVE  /\ Contents' = Append(Contents, j)
         /\ (back' + 1) % NThreadsMax = (front' + len') % NThreadsMax
<1> USE RingSize
<1>1. len < NThreadsMax /\ len \in Nat /\ len' = len + 1 /\ front' = front
  BY DEF QueueFull, Enqueue, TypeOK
<1>2. back' = Pos(front, len')
  BY <1>1 DEF Enqueue, RingConsistent, QINDEX_INC, Pos, TypeOK, Slots
<1>3. \A i \in 1..len : queue'[Pos(front, i)] = queue[Pos(front, i)]
  <2> SUFFICES ASSUME NEW i \in 1..len
               PROVE  queue'[Pos(front, i)] = queue[Pos(front, i)]
    OBVIOUS
  <2>1. i \in 1..NThreadsMax /\ len' \in 1..NThreadsMax /\ i # len'
    BY <1>1
  <2>2. Pos(front, i) # back'
    BY <1>2, <2>1, PosInjective DEF TypeOK
  <2>3. Pos(front, i) \in Slots
    BY <2>1, PosLap DEF TypeOK
  <2>4. QED
    BY <2>2, <2>3 DEF Enqueue, TypeOK
<1>4. queue'[back'] = j
  BY DEF Enqueue, TypeOK
<1>5. Contents' = [i \in 1..len' |-> queue'[Pos(front, i)]]
  BY <1>1 DEF Contents, Pos
<1>6. Contents' = Append(Contents, j)
  <2>1. Append(Contents, j) = [i \in 1..len + 1 |-> IF i = len + 1 THEN j ELSE Contents[i]]
    <3> DEFINE c == Append(Contents, j)
    <3>1. c \in Seq(Jobs \cup {NoJob}) /\ Len(c) = len + 1 /\ c[len + 1] = j
      BY ContentsType, AppendProperties
    <3>2. \A i \in 1..len : c[i] = Contents[i]
      BY ContentsType, AppendProperties
    <3>3. c \in [1..len + 1 -> Jobs \cup {NoJob}]
      BY ONLY <3>1, LenProperties
    <3>4. \A i \in 1..len + 1 : c[i] = IF i = len + 1 THEN j ELSE Contents[i]
      BY <1>1, <3>1, <3>2
    <3> HIDE DEF c
    <3>5. c = [i \in 1..len + 1 |-> IF i = len + 1 THEN j ELSE Contents[i]]
      BY <3>3, <3>4
    <3>6. QED
      BY <3>5 DEF c
  <2>2. \A i \in 1..len + 1 : queue'[Pos(front, i)] = IF i = len + 1 THEN j ELSE Contents[i]
    BY <1>1, <1>2, <1>3, <1>4, ContentsType
  <2>3. QED
    BY <1>1, <1>5, <2>1, <2>2
<1>7. (back' + 1) % NThreadsMax = (front' + len') % NThreadsMax
  <2>1. len' \in 1..NThreadsMax /\ front \in 0..NThreadsMax-1
    BY <1>1 DEF TypeOK, Slots
  <2>2. QED
    BY <1>1, <1>2, <2>1, NextSlot DEF Pos
<1>8. QED
  BY <1>6, <1>7

\* queue_front and queue_pop take the head of the contents.
LEMMA PopContents ==
  ASSUME TypeOK, TypeOK', RingConsistent, len > 0, queue_pop
  PROVE  /\ Contents # <<>>
         /\ queue[front] = Head(Contents)
         /\ Contents' = Tail(Contents)
         /\ (back' + 1) % NThreadsMax = (front' + len') % NThreadsMax
<1> USE RingSize
<1>1. len \in 1..NThreadsMax /\ len' = len - 1 /\ front' = QINDEX_INC(front)
      /\ queue' = queue /\ back' = back
  BY DEF queue_pop, TypeOK
<1>2. Pos(front, 1) = front
  <2>1. front \in 0..NThreadsMax-1 /\ front + 1 - 1 = front
    BY DEF TypeOK, Slots
  <2>2. QED
    BY <2>1, ModLow DEF Pos
<1>3. Contents # <<>> /\ Head(Contents) = Contents[1]
  BY <1>1, ContentsType
<1>4. Contents[1] = queue[front]
  BY <1>1, <1>2, ContentsType
<1>5. \A i \in 1..len - 1 : queue'[Pos(front', i)] = Contents[i + 1]
  <2> SUFFICES ASSUME NEW i \in 1..len - 1
               PROVE  queue'[Pos(front', i)] = Contents[i + 1]
    OBVIOUS
  <2>1. i \in 1..NThreadsMax-1 /\ i + 1 \in 1..len
    BY <1>1
  <2>2. Pos(front', i) = Pos(front, i + 1)
    BY <1>1, <2>1, PosShift DEF TypeOK
  <2>3. QED
    BY <1>1, <2>1, <2>2, ContentsType
<1>6. Contents' = [i \in 1..len - 1 |-> queue'[Pos(front', i)]]
  BY <1>1 DEF Contents, Pos
<1>7. Contents' = Tail(Contents)
  <2>1. Tail(Contents) = [i \in 1..len - 1 |-> Contents[i + 1]]
    <3>1. Tail(Contents) \in Seq(Jobs \cup {NoJob}) /\ Len(Tail(Contents)) = len - 1
      BY <1>3, ContentsType, HeadTailProperties
    <3>2. \A i \in 1..len - 1 : Tail(Contents)[i] = Contents[i + 1]
      BY <1>3, <3>1, ContentsType, HeadTailProperties
    <3>3. Tail(Contents) \in [1..len - 1 -> Jobs \cup {NoJob}]
      BY ONLY <3>1, LenProperties
    <3>4. QED
      BY <3>2, <3>3
  <2>2. QED
    BY <1>5, <1>6, <2>1
<1>8. (front + len) % NThreadsMax = (front' + len') % NThreadsMax
  <2>1. front \in 0..NThreadsMax-1
    BY DEF TypeOK, Slots
  <2>2. QED
    BY <1>1, <2>1, ShiftedSlot DEF QINDEX_INC
<1>9. QED
  BY <1>1, <1>3, <1>4, <1>7, <1>8 DEF RingConsistent

-----------------------------------------------------------------------------
(* No job is lost to an index error, none is run twice *)

\* A signal moves at most one worker, from "wait" to "pull".
LEMMA SignalMoves ==
  ASSUME NEW f \in [Workers -> Labels], Signal(f), NEW w \in Workers
  PROVE  pc'[w] = f[w] \/ (f[w] = "wait" /\ pc'[w] = "pull")
BY DEF Signal

\* The invariant: the indices of the ring agree and a job is in one place.
RingInv == RingConsistent /\ JobInOnePlace

\* Steps that touch neither the ring nor the hands of a worker.
LEMMA RingUntouched ==
  ASSUME TypeOK, RingInv, UNCHANGED <<queue, front, back, len, held>>,
         \A w \in Workers :
            (pc'[w] \in {"got", "run", "dead"}) <=> (pc[w] \in {"got", "run", "dead"})
  PROVE  RingInv'
<1>1. Contents' = Contents /\ Queued' = Queued /\ Held' = Held
  BY DEF Contents, Queued, Held
<1>2. QED
  BY <1>1 DEF RingInv, RingConsistent, JobInOnePlace

\* A push puts a job that is nowhere else into the ring.
LEMMA PushKeepsRingInv ==
  ASSUME TypeOK, TypeOK', RingInv, NEW j \in Jobs, threadpool_add_job(j)
  PROVE  RingInv'
<1>1. /\ Contents' = Append(Contents, j)
      /\ (back' + 1) % NThreadsMax = (front' + len') % NThreadsMax
  BY PushContents DEF RingInv, threadpool_add_job
<1>2. len' = len + 1 /\ len \in Nat /\ held' = held
  BY RingSize DEF threadpool_add_job, Enqueue, TypeOK
<1>3. /\ \A i \in 1..len : Contents'[i] = Contents[i]
      /\ Contents'[len + 1] = j
  BY <1>1, ContentsType, AppendProperties
<1>4. j \notin Queued /\ j \notin Held /\ j # NoJob
  BY PoolAssumption DEF PoolAssumption, threadpool_add_job, Submittable
<1>5. \A i \in 1..len' : (i \in 1..len /\ Contents'[i] = Contents[i])
                         \/ (i = len + 1 /\ Contents'[i] = j)
  BY <1>2, <1>3
<1>6. \A i \in 1..len : Contents[i] \in Queued
  BY DEF Queued
<1>7. \A i, k \in 1..len' : Contents'[i] = Contents'[k] => i = k
  BY <1>4, <1>5, <1>6 DEF RingInv, JobInOnePlace
<1>8. Queued' = Queued \cup {j} /\ Held' = Held
  <2>1. \A x \in Queued' : x \in Queued \cup {j}
    BY <1>5, <1>6 DEF Queued
  <2>2. \A x \in Queued : x \in Queued'
    BY <1>2, <1>3 DEF Queued
  <2>3. j \in Queued'
    BY <1>2, <1>3 DEF Queued
  <2>4. QED
    BY <1>2, <2>1, <2>2, <2>3 DEF Held
<1>9. JobInOnePlace'
  BY <1>2, <1>4, <1>7, <1>8 DEF RingInv, JobInOnePlace
<1>10. \A w \in Workers : pc'[w] = pc[w] \/ (pc[w] = "wait" /\ pc'[w] = "pull")
  BY SignalMoves DEF threadpool_add_job, AfterPush, TypeOK, Labels
<1>11. RingConsistent'
  BY <1>1, <1>2, <1>10 DEF RingInv, RingConsistent
<1>12. QED
  BY <1>9, <1>11 DEF RingInv

\* A pull moves the oldest job from the ring into the hands of one worker.
LEMMA PullKeepsRingInv ==
  ASSUME TypeOK, TypeOK', RingInv, NEW w \in Workers, pull_job(w)
  PROVE  RingInv'
<1>1. /\ Contents # <<>>
      /\ queue[front] = Head(Contents)
      /\ Contents' = Tail(Contents)
      /\ (back' + 1) % NThreadsMax = (front' + len') % NThreadsMax
  BY PopContents DEF RingInv, pull_job
<1>2. len' = len - 1 /\ len \in Nat /\ len > 0
  BY RingSize DEF pull_job, queue_pop, TypeOK
<1>3. \A i \in 1..len' : i + 1 \in 1..len /\ Contents'[i] = Contents[i + 1]
  BY <1>1, <1>2, ContentsType, HeadTailProperties
<1>4. 1 \in 1..len /\ Contents[1] = Head(Contents)
  BY <1>1, <1>2, ContentsType
<1>5. \A i \in 1..len : Contents[i] \in Queued
  BY DEF Queued
<1>6. held' = [held EXCEPT ![w] = Contents[1]]
  BY <1>1, <1>4 DEF pull_job
<1>7. Contents[1] \in Queued /\ Contents[1] # NoJob
  BY <1>4, <1>5 DEF RingInv, JobInOnePlace
<1>8. \A i, k \in 1..len' : Contents'[i] = Contents'[k] => i = k
  <2> SUFFICES ASSUME NEW i \in 1..len', NEW k \in 1..len', Contents'[i] = Contents'[k]
               PROVE  i = k
    OBVIOUS
  <2>1. i + 1 = k + 1
    BY <1>3 DEF RingInv, JobInOnePlace
  <2>2. QED
    BY <1>2, <2>1
<1>9. \A i \in 1..len' : Contents'[i] \in Queued /\ Contents'[i] # Contents[1]
  <2> SUFFICES ASSUME NEW i \in 1..len'
               PROVE  Contents'[i] \in Queued /\ Contents'[i] # Contents[1]
    OBVIOUS
  <2>1. i + 1 # 1
    BY <1>2
  <2>2. QED
    BY <1>3, <1>4, <1>5, <2>1 DEF RingInv, JobInOnePlace
<1>10. Queued' \subseteq Queued \ {Contents[1]}
  BY <1>9 DEF Queued
<1>11. \A v \in Workers : held[v] # NoJob => held[v] \in Held
  BY DEF Held
<1>12. \A v \in Workers : held[v] # Contents[1]
  BY <1>7, <1>11 DEF RingInv, JobInOnePlace
<1>13. \A v \in Workers : held'[v] = IF v = w THEN Contents[1] ELSE held[v]
  BY <1>6 DEF TypeOK
<1>14. Held' \subseteq Held \cup {Contents[1]}
  BY <1>11, <1>13 DEF Held
<1>15. \A u, v \in Workers : held'[u] = held'[v] /\ held'[u] # NoJob => u = v
  BY <1>12, <1>13 DEF RingInv, JobInOnePlace
<1>16. JobInOnePlace'
  BY <1>8, <1>10, <1>14, <1>15 DEF RingInv, JobInOnePlace
<1>17. \A v \in Workers : pc'[v] = IF v = w THEN "got" ELSE pc[v]
  BY DEF pull_job, TypeOK
<1>18. RingConsistent'
  BY <1>1, <1>7, <1>13, <1>17 DEF RingInv, RingConsistent
<1>19. QED
  BY <1>16, <1>18 DEF RingInv

\* A job that returned leaves its worker's hands.
LEMMA ReturnKeepsRingInv ==
  ASSUME TypeOK, RingInv, NEW w \in Workers, JobReturns(w)
  PROVE  RingInv'
<1>1. Contents' = Contents /\ Queued' = Queued /\ len' = len
  BY DEF JobReturns, Contents, Queued
<1>2. \A v \in Workers : /\ held'[v] = IF v = w THEN NoJob ELSE held[v]
                         /\ pc'[v] = IF v = w THEN "done" ELSE pc[v]
  BY DEF JobReturns, TypeOK
<1>3. Held' \subseteq Held
  BY <1>2 DEF Held
<1>4. JobInOnePlace'
  BY <1>1, <1>2, <1>3 DEF RingInv, JobInOnePlace
<1>5. RingConsistent'
  BY <1>2 DEF RingInv, RingConsistent, JobReturns
<1>6. QED
  BY <1>4, <1>5 DEF RingInv

\* The ring's indices agree in every reachable state and every accepted job is
\* in one slot or in one worker's hands, so that no job is run twice.
THEOREM JobsInOnePlace == Spec => [](RingConsistent /\ JobInOnePlace)
<1>1. Init => RingInv
  <2> SUFFICES ASSUME Init PROVE RingInv
    OBVIOUS
  <2>1. len = 0 /\ front = 0 /\ back = NThreadsMax - 1
    BY DEF Init, queue_init
  <2>2. Queued = {}
    BY <2>1 DEF Queued
  <2>3. (back + 1) % NThreadsMax = (front + len) % NThreadsMax
    <3>1. NThreadsMax \in NThreadsMax..NThreadsMax+NThreadsMax-1 /\ 0 \in 0..NThreadsMax-1
      BY RingSize
    <3>2. NThreadsMax % NThreadsMax = 0
      BY <3>1, RingSize, ModHigh
    <3>3. 0 % NThreadsMax = 0
      BY <3>1, RingSize, ModLow
    <3>4. back + 1 = NThreadsMax /\ front + len = 0
      BY <2>1, RingSize
    <3>5. QED
      BY <3>2, <3>3, <3>4
  <2>4. RingConsistent
    BY <2>3 DEF Init, RingConsistent
  <2>5. JobInOnePlace
    BY <2>1, <2>2 DEF Init, JobInOnePlace
  <2>6. QED
    BY <2>4, <2>5 DEF RingInv
<1>2. TypeOK /\ TypeOK' /\ RingInv /\ [Next]_vars => RingInv'
  <2> SUFFICES ASSUME TypeOK, TypeOK', RingInv, [Next]_vars PROVE RingInv'
    OBVIOUS
  <2>0. pc \in [Workers -> Labels]
    BY DEF TypeOK, Labels
  <2>1. CASE init_threadpool
    BY <2>1, RingUntouched DEF init_threadpool
  <2>2. ASSUME NEW w \in Workers,
               \/ CreateThread(w) \/ SpuriousWakeup(w) \/ WaitForJob(w)
               \/ BeginJob(w) \/ JobExits(w)
        PROVE  RingInv'
    <3>1. \A v \in Workers :
            (pc'[v] \in {"got", "run", "dead"}) <=> (pc[v] \in {"got", "run", "dead"})
      BY <2>0, <2>2 DEF CreateThread, SpuriousWakeup, WaitForJob, BeginJob, JobExits
    <3>2. UNCHANGED <<queue, front, back, len, held>>
      BY <2>2 DEF CreateThread, SpuriousWakeup, WaitForJob, BeginJob, JobExits
    <3>3. QED
      BY <3>1, <3>2, RingUntouched
  <2>3. ASSUME NEW w \in Workers, EndJob(w)
        PROVE  RingInv'
    <3> DEFINE f == [pc EXCEPT ![w] = "pull"]
    <3>1. f \in [Workers -> Labels] /\ pc[w] = "done"
      BY <2>0, <2>3 DEF EndJob, Labels
    <3>2. \A v \in Workers : pc'[v] = f[v] \/ (f[v] = "wait" /\ pc'[v] = "pull")
      BY <2>3, <3>1, SignalMoves DEF EndJob
    <3>3. \A v \in Workers :
            (pc'[v] \in {"got", "run", "dead"}) <=> (pc[v] \in {"got", "run", "dead"})
      BY <2>0, <3>1, <3>2
    <3>4. QED
      BY <2>3, <3>3, RingUntouched DEF EndJob
  <2>4. ASSUME NEW j \in Jobs, RejectJob(j)
        PROVE  RingInv'
    <3>1. \A v \in Workers : pc'[v] = pc[v] \/ (pc[v] = "wait" /\ pc'[v] = "pull")
      BY <2>0, <2>4, SignalMoves DEF RejectJob
    <3>2. QED
      BY <2>4, <3>1, RingUntouched DEF RejectJob
  <2>5. ASSUME NEW j \in Jobs, threadpool_add_job(j)
        PROVE  RingInv'
    BY <2>5, PushKeepsRingInv
  <2>6. ASSUME NEW w \in Workers, pull_job(w)
        PROVE  RingInv'
    BY <2>6, PullKeepsRingInv
  <2>7. ASSUME NEW w \in Workers, JobReturns(w)
        PROVE  RingInv'
    BY <2>7, ReturnKeepsRingInv
  <2>8. CASE UNCHANGED vars
    BY <2>8, RingUntouched DEF vars
  <2>9. QED
    BY <2>1, <2>2, <2>3, <2>4, <2>5, <2>6, <2>7, <2>8 DEF Next, Worker
<1>3. QED
  BY <1>1, <1>2, TypeCorrect, PTL DEF Spec, RingInv

\* In particular front, back and len agree at every step of the producer and the
\* workers: queue_push writes the slot behind the last job, and a worker has a
\* job exactly from its pull until the job returns.
THEOREM RingStaysConsistent == Spec => []RingConsistent
BY JobsInOnePlace, PTL

-----------------------------------------------------------------------------
(* No wakeup is lost *)

\* The workers at given labels are finitely many, at most all of them.
LEMMA AtFinite ==
  ASSUME NEW labels
  PROVE  /\ IsFiniteSet(At(labels))
         /\ Cardinality(At(labels)) \in Nat
         /\ Cardinality(At(labels)) <= NThreads
<1>1. At(labels) \subseteq Workers /\ IsFiniteSet(Workers)
  BY PoolAssumption DEF At, PoolAssumption
<1>2. IsFiniteSet(At(labels)) /\ Cardinality(At(labels)) <= NThreads
  BY <1>1, FS_Subset DEF NThreads
<1>3. QED
  BY <1>2, FS_CardinalityType

\* A step that takes no job out and sends nobody to sleep loses no wakeup.
LEMMA NoLostWakeupMonotone ==
  ASSUME TypeOK, NoLostWakeup, len' = len,
         At({"wait"})' \subseteq At({"wait"}), At({"pull"}) \subseteq At({"pull"})'
  PROVE  NoLostWakeup'
<1>1. At({"pull"})' \subseteq Workers /\ IsFiniteSet(Workers)
  BY PoolAssumption DEF At, PoolAssumption
<1>2. IsFiniteSet(At({"pull"})')
  BY <1>1, FS_Subset
<1>3. /\ Cardinality(At({"pull"})) <= Cardinality(At({"pull"})')
      /\ Cardinality(At({"pull"})) \in Nat /\ Cardinality(At({"pull"})') \in Nat
  BY <1>2, AtFinite, FS_Subset, FS_CardinalityType
<1>4. len \in Nat
  BY RingSize DEF TypeOK
<1>5. QED
  BY <1>3, <1>4 DEF NoLostWakeup

\* Whatever the order of pushes, wakeups and pulls, a job never lies in the
\* ring unnoticed: while a worker sleeps on the condition variable there are at
\* least as many workers on their way to the ring as there are jobs in it.
THEOREM WakeupsNotLost == Spec => []NoLostWakeup
<1>1. Init => NoLostWakeup
  BY DEF Init, NoLostWakeup, At
<1>2. TypeOK /\ TypeOK' /\ NoLostWakeup /\ [Next]_vars => NoLostWakeup'
  <2> SUFFICES ASSUME TypeOK, TypeOK', NoLostWakeup, [Next]_vars
               PROVE  NoLostWakeup'
    OBVIOUS
  <2>0. pc \in [Workers -> Labels] /\ len \in Nat
    BY RingSize DEF TypeOK, Labels
  <2>1. CASE init_threadpool \/ UNCHANGED vars
    BY <2>1, NoLostWakeupMonotone DEF init_threadpool, vars, At
  <2>2. ASSUME NEW w \in Workers,
               \/ CreateThread(w) \/ SpuriousWakeup(w)
               \/ BeginJob(w) \/ JobReturns(w) \/ JobExits(w)
        PROVE  NoLostWakeup'
    <3>1. \A v \in Workers : (pc'[v] = "wait" => pc[v] = "wait")
                            /\ (pc[v] = "pull" => pc'[v] = "pull")
      BY <2>0, <2>2
      DEF CreateThread, SpuriousWakeup, BeginJob, JobReturns, JobExits
    <3>2. len' = len
      BY <2>2 DEF CreateThread, SpuriousWakeup, BeginJob, JobReturns, JobExits
    <3>3. QED
      BY <3>1, <3>2, NoLostWakeupMonotone DEF At
  <2>3. ASSUME NEW w \in Workers, EndJob(w)
        PROVE  NoLostWakeup'
    <3> DEFINE f == [pc EXCEPT ![w] = "pull"]
    <3>1. f \in [Workers -> Labels]
      BY <2>0 DEF Labels
    <3>2. \A v \in Workers : pc'[v] = f[v] \/ (f[v] = "wait" /\ pc'[v] = "pull")
      BY <2>3, <3>1, SignalMoves DEF EndJob
    <3>3. \A v \in Workers : (pc'[v] = "wait" => pc[v] = "wait")
                            /\ (pc[v] = "pull" => pc'[v] = "pull")
      BY <2>0, <3>2
    <3>4. QED
      BY <2>3, <3>3, NoLostWakeupMonotone DEF At, EndJob
  <2>4. ASSUME NEW j \in Jobs, RejectJob(j)
        PROVE  NoLostWakeup'
    <3>1. \A v \in Workers : pc'[v] = pc[v] \/ (pc[v] = "wait" /\ pc'[v] = "pull")
      BY <2>0, <2>4, SignalMoves DEF RejectJob
    <3>2. QED
      BY <2>4, <3>1, NoLostWakeupMonotone DEF At, RejectJob
  <2>5. ASSUME NEW w \in Workers, WaitForJob(w)
        PROVE  NoLostWakeup'
    <3>1. len' = 0
      BY <2>5 DEF WaitForJob
    <3>2. Cardinality(At({"pull"})') \in Nat
      <4>1. At({"pull"})' \subseteq Workers /\ IsFiniteSet(Workers)
        BY PoolAssumption DEF At, PoolAssumption
      <4>2. QED
        BY <4>1, FS_Subset, FS_CardinalityType
    <3>3. QED
      BY <3>1, <3>2 DEF NoLostWakeup
  <2>6. ASSUME NEW w \in Workers, pull_job(w)
        PROVE  NoLostWakeup'
    <3>1. w \in At({"pull"}) /\ At({"pull"})' = At({"pull"}) \ {w}
      BY <2>0, <2>6 DEF pull_job, At
    <3>2. At({"wait"})' = At({"wait"})
      BY <2>0, <2>6 DEF pull_job, At
    <3>3. /\ Cardinality(At({"pull"})') = Cardinality(At({"pull"})) - 1
          /\ Cardinality(At({"pull"})) \in Nat
      BY <3>1, AtFinite, FS_RemoveElement
    <3>4. len' = len - 1
      BY <2>6 DEF pull_job, queue_pop
    <3>5. QED
      BY <2>0, <3>2, <3>3, <3>4 DEF NoLostWakeup
  <2>7. ASSUME NEW j \in Jobs, threadpool_add_job(j)
        PROVE  NoLostWakeup'
    <3>1. len' = len + 1
      BY <2>7 DEF threadpool_add_job, Enqueue
    <3>2. CASE At({"wait"}) = {}
      <4>1. pc' = pc
        BY <2>7, <3>2 DEF threadpool_add_job, AfterPush, Signal, At
      <4>2. QED
        BY <3>2, <4>1 DEF NoLostWakeup, At
    <3>3. CASE At({"wait"}) # {}
      <4>1. PICK v \in Workers : pc[v] = "wait" /\ pc' = [pc EXCEPT ![v] = "pull"]
        BY <2>7, <3>3 DEF threadpool_add_job, AfterPush, Signal, At
      <4>2. v \notin At({"pull"}) /\ At({"pull"})' = At({"pull"}) \cup {v}
        BY <2>0, <4>1 DEF At
      <4>3. /\ Cardinality(At({"pull"})') = Cardinality(At({"pull"})) + 1
            /\ Cardinality(At({"pull"})) \in Nat
        BY <4>2, AtFinite, FS_AddElement
      <4>4. QED
        BY <2>0, <3>1, <3>3, <4>3 DEF NoLostWakeup
    <3>4. QED
      BY <3>2, <3>3
  <2>8. QED
    BY <2>1, <2>2, <2>3, <2>4, <2>5, <2>6, <2>7 DEF Next, Worker
<1>3. QED
  BY <1>1, <1>2, TypeCorrect, PTL DEF Spec

-----------------------------------------------------------------------------
(* The count of free threads *)

\* Until init_threadpool has returned nobody can submit a job, so the workers
\* that already run find the ring empty and touch no counter.
StartupOrder ==
    phase = "init" => len = 0 /\ \A w \in Workers : pc[w] \in {"none", "pull", "wait"}

\* n_threads_free is exact: the workers that run before its first assignment do
\* not disturb it, later updates never wrap around, and no update is missed.
THEOREM FreeCountIsExact == Spec => []FreeCountExact
<1> DEFINE busy == At({"run", "done", "dead"})
           FInv == StartupOrder /\ FreeCountExact
<1>1. Init => FInv
  BY DEF Init, queue_init, StartupOrder, FreeCountExact
<1>2. TypeOK /\ TypeOK' /\ FInv /\ [Next]_vars => FInv'
  <2> SUFFICES ASSUME TypeOK, TypeOK', FInv, [Next]_vars
               PROVE  FInv'
    OBVIOUS
  <2>0. pc \in [Workers -> Labels] /\ NThreads \in Nat /\ NThreads < 256
    BY NThreadsType DEF TypeOK, Labels
  <2>1. CASE init_threadpool
    <3>1. busy' = {}
      BY <2>1 DEF init_threadpool, StartupOrder, At
    <3>2. Cardinality(busy') = 0
      BY <3>1, FS_EmptySet
    <3>3. QED
      BY <2>0, <2>1, <3>2 DEF init_threadpool, StartupOrder, FreeCountExact
  <2>2. ASSUME NEW w \in Workers, BeginJob(w)
        PROVE  FInv'
    <3>1. phase = "ready" /\ phase' = "ready"
      BY <2>2 DEF BeginJob, StartupOrder, TypeOK
    <3>2. w \notin busy /\ busy' = busy \cup {w}
      BY <2>0, <2>2 DEF BeginJob, At
    <3>3. Cardinality(busy') = Cardinality(busy) + 1 /\ Cardinality(busy) \in Nat
      BY <3>2, AtFinite, FS_AddElement
    <3>4. Cardinality(busy') <= NThreads
      <4>1. busy' \subseteq Workers /\ IsFiniteSet(Workers)
        BY PoolAssumption DEF At, PoolAssumption
      <4>2. QED
        BY <4>1, FS_Subset DEF NThreads
    <3>5. nThreadsFree = NThreads - Cardinality(busy)
      BY <3>1 DEF FreeCountExact
    <3>6. nThreadsFree \in 1..255
      BY <2>0, <3>3, <3>4, <3>5
    <3>7. nThreadsFree' = nThreadsFree - 1
      BY <2>2, <3>6 DEF BeginJob
    <3>8. QED
      BY <2>0, <3>1, <3>3, <3>5, <3>7 DEF FreeCountExact, StartupOrder
  <2>3. ASSUME NEW w \in Workers, EndJob(w)
        PROVE  FInv'
    <3> DEFINE f == [pc EXCEPT ![w] = "pull"]
    <3>1. phase = "ready" /\ phase' = "ready"
      BY <2>3 DEF EndJob, StartupOrder, TypeOK
    <3>2. f \in [Workers -> Labels]
      BY <2>0 DEF Labels
    <3>3. \A v \in Workers : pc'[v] = f[v] \/ (f[v] = "wait" /\ pc'[v] = "pull")
      BY <2>3, <3>2, SignalMoves DEF EndJob
    <3>4. w \in busy /\ busy' = busy \ {w}
      BY <2>0, <2>3, <3>3 DEF EndJob, At
    <3>5. Cardinality(busy') = Cardinality(busy) - 1 /\ Cardinality(busy) \in Nat
          /\ Cardinality(busy') \in Nat
      BY <3>4, AtFinite, FS_RemoveElement, FS_CardinalityType
    <3>6. nThreadsFree = NThreads - Cardinality(busy)
      BY <3>1 DEF FreeCountExact
    <3>7. nThreadsFree + 1 \in 0..255
      BY <2>0, <3>5, <3>6 DEF TypeOK, U8
    <3>8. nThreadsFree' = nThreadsFree + 1
      BY <2>3, <3>7 DEF EndJob
    <3>9. QED
      BY <2>0, <3>1, <3>5, <3>6, <3>8 DEF FreeCountExact, StartupOrder
  <2>4. ASSUME busy' = busy, nThreadsFree' = nThreadsFree, phase' = phase,
               phase = "init" => len' = 0 /\ \A v \in Workers : pc'[v] \in {"none", "pull", "wait"}
        PROVE  FInv'
    BY <2>4 DEF FreeCountExact, StartupOrder
  <2>5. ASSUME NEW w \in Workers,
               \/ CreateThread(w) \/ SpuriousWakeup(w) \/ WaitForJob(w)
               \/ pull_job(w) \/ JobReturns(w) \/ JobExits(w)
        PROVE  FInv'
    <3>1. busy' = busy
      BY <2>0, <2>5
      DEF CreateThread, SpuriousWakeup, WaitForJob, pull_job, JobReturns, JobExits, At
    <3>2. nThreadsFree' = nThreadsFree /\ phase' = phase
      BY <2>5
      DEF CreateThread, SpuriousWakeup, WaitForJob, pull_job, JobReturns, JobExits
    <3>3. phase = "init" => len' = 0 /\ \A v \in Workers : pc'[v] \in {"none", "pull", "wait"}
      BY <2>0, <2>5
      DEF CreateThread, SpuriousWakeup, WaitForJob, pull_job, JobReturns, JobExits,
          StartupOrder
    <3>4. QED
      BY <2>4, <3>1, <3>2, <3>3
  <2>6. ASSUME NEW j \in Jobs, threadpool_add_job(j) \/ RejectJob(j)
        PROVE  FInv'
    <3>1. \A v \in Workers : pc'[v] = pc[v] \/ (pc[v] = "wait" /\ pc'[v] = "pull")
      BY <2>0, <2>6, SignalMoves DEF threadpool_add_job, RejectJob, AfterPush
    <3>2. busy' = busy
      BY <2>0, <3>1 DEF At
    <3>3. phase = "ready" /\ nThreadsFree' = nThreadsFree /\ phase' = phase
      BY <2>6 DEF threadpool_add_job, RejectJob, Submittable
    <3>4. QED
      BY <2>4, <3>2, <3>3
  <2>7. CASE UNCHANGED vars
    <3>1. busy' = busy
      BY <2>7 DEF vars, At
    <3>2. QED
      BY <2>4, <2>7, <3>1 DEF vars, StartupOrder
  <2>8. QED
    BY <2>1, <2>2, <2>3, <2>5, <2>6, <2>7 DEF Next, Worker
<1>3. QED
  BY <1>1, <1>2, TypeCorrect, PTL DEF Spec

-----------------------------------------------------------------------------
(* The pool implements the bounded FIFO *)

\* A step that changes neither the ring nor the hands of a worker, and after
\* which the same workers are dead, is invisible in JobQueue.
LEMMA InvisibleStep ==
  ASSUME UNCHANGED <<queue, front, len, held>>, At({"dead"})' = At({"dead"})
  PROVE  UNCHANGED JQ!vars
<1>1. Contents' = Contents
  BY DEF Contents
<1>2. QED
  BY <1>1 DEF JQ!vars

\* The jobs of the ring are the pending jobs of JobQueue.
LEMMA SameQueued ==
  ASSUME TypeOK
  PROVE  JQ!Queued = Queued /\ JQ!Held = Held
<1>1. DOMAIN Contents = 1..len
  BY ContentsType
<1>2. QED
  BY <1>1 DEF JQ!Queued, Queued, JQ!Held, Held

\* threadpool_add_job accepts a job into the FIFO.
LEMMA AddAccepts ==
  ASSUME TypeOK, TypeOK', RingInv, NEW j \in Jobs, threadpool_add_job(j)
  PROVE  JQ!Accept(j)
<1>1. j \notin JQ!Queued \cup JQ!Held
  BY SameQueued DEF threadpool_add_job, Submittable
<1>2. Contents' = Append(Contents, j)
  BY PushContents DEF threadpool_add_job, RingInv
<1>3. Len(Contents) < NThreadsMax
  BY ContentsType, RingSize DEF threadpool_add_job, QueueFull, TypeOK
<1>4. held' = held
  BY DEF threadpool_add_job
<1>5. At({"dead"})' = At({"dead"})
  <2>1. \A w \in Workers : pc'[w] = pc[w] \/ (pc[w] = "wait" /\ pc'[w] = "pull")
    BY SignalMoves DEF threadpool_add_job, AfterPush, TypeOK, Labels
  <2>2. QED
    BY <2>1 DEF At
<1>6. QED
  BY <1>1, <1>2, <1>3, <1>4, <1>5 DEF JQ!Accept

\* pull_job starts the oldest pending job.
LEMMA PullStarts ==
  ASSUME TypeOK, TypeOK', RingInv, NEW w \in Workers, pull_job(w)
  PROVE  JQ!Start(w)
<1>1. Contents # <<>> /\ queue[front] = Head(Contents) /\ Contents' = Tail(Contents)
  BY PopContents DEF pull_job, RingInv
<1>2. held' = [held EXCEPT ![w] = queue[front]]
  BY DEF pull_job
<1>3. held[w] = NoJob
  BY DEF pull_job, RingInv, RingConsistent
<1>4. w \notin At({"dead"}) /\ At({"dead"})' = At({"dead"})
  BY DEF pull_job, At, TypeOK
<1>5. QED
  BY <1>1, <1>2, <1>3, <1>4 DEF JQ!Start

\* Every behaviour of the ring, its mutex, its condition variable and its
\* workers is one of the bounded FIFO: jobs start in the order of acceptance,
\* each once, and a job that is refused leaves no trace.
THEOREM PoolIsFifo == Spec => Implements
<1>1. Init => JQ!Init
  <2> SUFFICES ASSUME Init
               PROVE  JQ!Init
    OBVIOUS
  <2>1. Contents = <<>>
    BY DEF Init, queue_init, Contents
  <2>2. At({"dead"}) = {}
    BY DEF Init, At
  <2>3. QED
    BY <2>1, <2>2 DEF Init, JQ!Init
<1>2. TypeOK /\ TypeOK' /\ RingInv /\ [Next]_vars => [JQ!Next]_(JQ!vars)
  <2> SUFFICES ASSUME TypeOK, TypeOK', RingInv, [Next]_vars
               PROVE  [JQ!Next]_(JQ!vars)
    OBVIOUS
  <2>0. pc \in [Workers -> Labels] /\ held \in [Workers -> Jobs \cup {NoJob}]
    BY DEF TypeOK, Labels
  <2>1. ASSUME NEW j \in Jobs, threadpool_add_job(j)
        PROVE  JQ!Next
    BY <2>1, AddAccepts DEF JQ!Next
  <2>2. ASSUME NEW w \in Workers, pull_job(w)
        PROVE  JQ!Next
    BY <2>2, PullStarts DEF JQ!Next
  <2>3. ASSUME NEW w \in Workers, JobReturns(w)
        PROVE  JQ!Next
    <3>1. Contents' = Contents
      BY <2>3 DEF JobReturns, Contents
    <3>2. held[w] # NoJob
      BY <2>3 DEF JobReturns, RingInv, RingConsistent
    <3>3. w \notin At({"dead"}) /\ At({"dead"})' = At({"dead"})
      BY <2>0, <2>3 DEF JobReturns, At
    <3>4. held' = [held EXCEPT ![w] = NoJob]
      BY <2>3 DEF JobReturns
    <3>5. QED
      BY <3>1, <3>2, <3>3, <3>4 DEF JQ!Next, JQ!Finish
  <2>4. ASSUME NEW w \in Workers, JobExits(w)
        PROVE  JQ!Next
    <3>1. Contents' = Contents /\ held' = held
      BY <2>4 DEF JobExits, Contents
    <3>2. held[w] # NoJob
      BY <2>4 DEF JobExits, RingInv, RingConsistent
    <3>3. w \notin At({"dead"}) /\ At({"dead"})' = At({"dead"}) \cup {w}
      BY <2>0, <2>4 DEF JobExits, At
    <3>4. QED
      BY <3>1, <3>2, <3>3 DEF JQ!Next, JQ!Die
  <2>5. ASSUME NEW w \in Workers,
               \/ CreateThread(w) \/ SpuriousWakeup(w) \/ WaitForJob(w) \/ BeginJob(w)
        PROVE  UNCHANGED JQ!vars
    <3>1. At({"dead"})' = At({"dead"})
      BY <2>0, <2>5 DEF CreateThread, SpuriousWakeup, WaitForJob, BeginJob, At
    <3>2. UNCHANGED <<queue, front, len, held>>
      BY <2>5 DEF CreateThread, SpuriousWakeup, WaitForJob, BeginJob
    <3>3. QED
      BY <3>1, <3>2, InvisibleStep
  <2>6. ASSUME NEW w \in Workers, EndJob(w)
        PROVE  UNCHANGED JQ!vars
    <3> DEFINE newPc == [pc EXCEPT ![w] = "pull"]
    <3>1. newPc \in [Workers -> Labels]
      BY <2>0 DEF Labels
    <3>2. \A v \in Workers : pc'[v] = newPc[v] \/ (newPc[v] = "wait" /\ pc'[v] = "pull")
      <4>1. CASE Signal(newPc)
        <5> HIDE DEF newPc
        <5>1. QED
          BY <3>1, <4>1, SignalMoves
      <4>2. CASE pc' = newPc
        BY <4>2
      <4>3. QED
        BY <2>6, <4>1, <4>2 DEF EndJob
    <3>3. pc[w] = "done"
      BY <2>6 DEF EndJob
    <3>4. At({"dead"})' = At({"dead"})
      BY <2>0, <3>2, <3>3 DEF At
    <3>5. UNCHANGED <<queue, front, len, held>>
      BY <2>6 DEF EndJob
    <3>6. QED
      BY <3>4, <3>5, InvisibleStep
  <2>7. ASSUME NEW j \in Jobs, RejectJob(j)
        PROVE  UNCHANGED JQ!vars
    <3>1. \A v \in Workers : pc'[v] = pc[v] \/ (pc[v] = "wait" /\ pc'[v] = "pull")
      BY <2>0, <2>7, SignalMoves DEF RejectJob
    <3>2. At({"dead"})' = At({"dead"})
      BY <2>0, <3>1 DEF At
    <3>3. UNCHANGED <<queue, front, len, held>>
      BY <2>7 DEF RejectJob
    <3>4. QED
      BY <3>2, <3>3, InvisibleStep
  <2>8. CASE init_threadpool \/ UNCHANGED vars
    <3>1. At({"dead"})' = At({"dead"}) /\ UNCHANGED <<queue, front, len, held>>
      BY <2>8 DEF init_threadpool, vars, At
    <3>2. QED
      BY <3>1, InvisibleStep
  <2>9. QED
    BY <2>1, <2>2, <2>3, <2>4, <2>5, <2>6, <2>7, <2>8 DEF Next, Worker
<1>3. QED
  BY <1>1, <1>2, TypeCorrect, JobsInOnePlace, PTL DEF Spec, Implements, JQ!Spec, RingInv
=============================================================================
