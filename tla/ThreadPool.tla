----------------------------- MODULE ThreadPool -----------------------------
(***************************************************************************)
(* The thread pool of src/utils/threadpool.c: a ring of N_THREADS_MAX job  *)
(* slots, the mutex and condition variable that guard it, and the workers. *)
(*                                                                         *)
(* A critical section of job_mutex or of cont_mutex touches only what that *)
(* mutex guards, so each one is a single action.  The condition variable   *)
(* is the set of workers at "wait"; pthread_cond_signal moves one of them  *)
(* back to "pull", where it contends for job_mutex again, and a wakeup may *)
(* also come without a signal, as POSIX allows.                            *)
(*                                                                         *)
(*   pc[w]   where worker w is in thread_work                              *)
(*     none    not created yet            got    job pulled, not counted   *)
(*     pull    at the top of the loop     run    inside job->fun(job->arg) *)
(*     wait    in pthread_cond_wait       done   job returned, not counted *)
(*     dead    ended by a pthread_exit inside the job                      *)
(***************************************************************************)
EXTENDS Integers, Sequences, FiniteSets

CONSTANTS Workers,      \* the DEFAULT_N_THREADS threads of the pool
          Jobs,         \* names of jobs, reused once a job has ended
          NoJob,        \* the NULL job pointer
          NThreadsMax,  \* N_THREADS_MAX, the number of slots of the ring
          MaxExits      \* bound: how many jobs call pthread_exit

ASSUME PoolAssumption ==
    /\ IsFiniteSet(Workers)
    /\ NThreadsMax \in Nat \ {0}
    /\ NThreadsMax < 256
    /\ Cardinality(Workers) <= NThreadsMax
    /\ NoJob \notin Jobs
    /\ MaxExits \in Nat

VARIABLES queue, front, back, len,  \* struct jobqueue
          nThreadsFree,             \* threadpool.n_threads_free, a uint8_t
          pc, held,                 \* each worker and its local variable job
          phase                     \* "init" while init_threadpool runs

ringVars == <<queue, front, back, len>>
vars == <<queue, front, back, len, nThreadsFree, pc, held, phase>>

Slots == 0..NThreadsMax - 1
U8 == 0..255
NThreads == Cardinality(Workers)
At(labels) == {w \in Workers : pc[w] \in labels}

-----------------------------------------------------------------------------
(* struct jobqueue *)

\* Mutant: the index runs one slot past the ring before it wraps.
QINDEX_INC_Wide(x) == (x + 1) % (NThreadsMax + 1)
QINDEX_INC(x) == (x + 1) % NThreadsMax

queue_init ==
    /\ queue = [i \in Slots |-> NoJob]
    /\ front = 0
    /\ back = NThreadsMax - 1
    /\ len = 0

\* Mutant: the limit is tested with > instead of >=.
QueueFull_OffByOne == len > NThreadsMax
QueueFull == len >= NThreadsMax

\* Mutant: the slot is written before back advances.
Enqueue_WriteFirst(j) ==
    /\ queue' = [queue EXCEPT ![back] = j]
    /\ back' = QINDEX_INC(back)
    /\ len' = len + 1
    /\ UNCHANGED front
Enqueue(j) ==
    /\ back' = QINDEX_INC(back)
    /\ queue' = [queue EXCEPT ![back'] = j]
    /\ len' = len + 1
    /\ UNCHANGED front

\* Mutant: the front index is left where it is.
queue_pop_Stays == len' = len - 1 /\ UNCHANGED <<front, back, queue>>
\* queue_pop leaves the popped pointer in its slot.
queue_pop ==
    /\ front' = QINDEX_INC(front)
    /\ len' = len - 1
    /\ UNCHANGED <<back, queue>>

-----------------------------------------------------------------------------
(* pthread_cond_signal(&job_cv): after the step's own move to newPc, one of
   the waiting workers, if there is one, contends for job_mutex again. *)
Signal(newPc) ==
    LET waiting == {w \in Workers : newPc[w] = "wait"} IN
    \/ waiting = {} /\ pc' = newPc
    \/ \E w \in waiting : pc' = [newPc EXCEPT ![w] = "pull"]

\* pthread_cond_wait may return without a signal.
SpuriousWakeup(w) ==
    /\ pc[w] = "wait"
    /\ pc' = [pc EXCEPT ![w] = "pull"]
    /\ UNCHANGED <<queue, front, back, len, nThreadsFree, held, phase>>

-----------------------------------------------------------------------------
(* init_threadpool: the threads run from their creation on, the count of
   free threads is assigned after the last of them was created. *)
CreateThread(w) ==
    /\ phase = "init"
    /\ pc[w] = "none"
    /\ pc' = [pc EXCEPT ![w] = "pull"]
    /\ UNCHANGED <<queue, front, back, len, nThreadsFree, held, phase>>

init_threadpool ==
    /\ phase = "init"
    /\ At({"none"}) = {}
    /\ nThreadsFree' = NThreads
    /\ phase' = "ready"
    /\ UNCHANGED <<queue, front, back, len, pc, held>>

\* The jobs that are in the ring, oldest first, and those that workers hold.
Contents == [i \in 1..len |-> queue[(front + i - 1) % NThreadsMax]]
Queued == {Contents[i] : i \in 1..len}
Held == {held[w] : w \in Workers} \ {NoJob}

\* Mutant: the push forgets to signal the condition variable.
AfterPush_Silent(newPc) == pc' = newPc
AfterPush(newPc) == Signal(newPc)

\* Mutant: the responders start before init_threadpool has returned.
Submittable_Early(j) == j \notin Queued \cup Held
(* The callers of threadpool_add_job are the responders, which main starts
   after init_threadpool has returned. *)
Submittable(j) == phase = "ready" /\ j \notin Queued \cup Held

threadpool_add_job(j) ==
    /\ Submittable(j)
    /\ ~QueueFull
    /\ Enqueue(j)
    /\ AfterPush(pc)
    /\ UNCHANGED <<nThreadsFree, held, phase>>

\* queue_push on a full ring: returns -1, the job is dropped by its caller.
RejectJob(j) ==
    /\ Submittable(j)
    /\ QueueFull
    /\ Signal(pc)
    /\ UNCHANGED <<queue, front, back, len, nThreadsFree, held, phase>>

-----------------------------------------------------------------------------
(* thread_work *)

\* pull_job on an empty ring: pthread_cond_wait.
WaitForJob(w) ==
    /\ pc[w] = "pull"
    /\ len = 0
    /\ pc' = [pc EXCEPT ![w] = "wait"]
    /\ UNCHANGED <<queue, front, back, len, nThreadsFree, held, phase>>

pull_job(w) ==
    /\ pc[w] = "pull"
    /\ len > 0
    /\ held' = [held EXCEPT ![w] = queue[front]]
    /\ queue_pop
    /\ pc' = [pc EXCEPT ![w] = "got"]
    /\ UNCHANGED <<nThreadsFree, phase>>

BeginJob(w) ==
    /\ pc[w] = "got"
    /\ nThreadsFree' = (nThreadsFree + 255) % 256
    /\ pc' = [pc EXCEPT ![w] = "run"]
    /\ UNCHANGED <<queue, front, back, len, held, phase>>

JobReturns(w) ==
    /\ pc[w] = "run"
    /\ held' = [held EXCEPT ![w] = NoJob]
    /\ pc' = [pc EXCEPT ![w] = "done"]
    /\ UNCHANGED <<queue, front, back, len, nThreadsFree, phase>>

\* send_question calls pthread_exit when it cannot create its socket.
JobExits(w) ==
    /\ pc[w] = "run"
    /\ Cardinality(At({"dead"})) < MaxExits
    /\ pc' = [pc EXCEPT ![w] = "dead"]
    /\ UNCHANGED <<queue, front, back, len, nThreadsFree, held, phase>>

EndJob(w) ==
    LET back2pull == [pc EXCEPT ![w] = "pull"] IN
    /\ pc[w] = "done"
    /\ nThreadsFree' = (nThreadsFree + 1) % 256
    /\ IF nThreadsFree' = NThreads THEN Signal(back2pull) ELSE pc' = back2pull
    /\ UNCHANGED <<queue, front, back, len, held, phase>>

-----------------------------------------------------------------------------
Init ==
    /\ queue_init
    /\ nThreadsFree = 0
    /\ pc = [w \in Workers |-> "none"]
    /\ held = [w \in Workers |-> NoJob]
    /\ phase = "init"

Worker(w) ==
    \/ WaitForJob(w) \/ pull_job(w) \/ BeginJob(w)
    \/ JobReturns(w) \/ JobExits(w) \/ EndJob(w)

Next ==
    \/ init_threadpool
    \/ \E w \in Workers : CreateThread(w) \/ SpuriousWakeup(w) \/ Worker(w)
    \/ \E j \in Jobs : threadpool_add_job(j) \/ RejectJob(j)

Spec == Init /\ [][Next]_vars

(* Main finishes the initialisation; a worker that can move does; a job that
   runs ends, by returning or by pthread_exit.  Nothing makes a client send a
   request, and nothing forces a spurious wakeup. *)
Fairness ==
    /\ WF_vars(init_threadpool)
    /\ \A w \in Workers : WF_vars(CreateThread(w)) /\ WF_vars(Worker(w))

FairSpec == Spec /\ Fairness

-----------------------------------------------------------------------------
(* Properties *)

\* The type of every variable; the ring's indices stay inside the ring.
TypeOK ==
    /\ queue \in [Slots -> Jobs \cup {NoJob}]
    /\ front \in Slots
    /\ back \in Slots
    /\ len \in 0..NThreadsMax
    /\ nThreadsFree \in U8
    /\ pc \in [Workers -> {"none", "pull", "wait", "got", "run", "done", "dead"}]
    /\ held \in [Workers -> Jobs \cup {NoJob}]
    /\ phase \in {"init", "ready"}

\* The three fields of the ring agree: the slot after back is the one len
\* slots after front, and a worker holds a job exactly from the moment it
\* pulled it until the job returned.
RingConsistent ==
    /\ (back + 1) % NThreadsMax = (front + len) % NThreadsMax
    /\ \A w \in Workers : (held[w] # NoJob) <=> (pc[w] \in {"got", "run", "dead"})

\* A job that was accepted is in one place only: one slot of the live part of
\* the ring or the hands of one worker, so no job is run twice.
JobInOnePlace ==
    /\ \A i, k \in 1..len : Contents[i] = Contents[k] => i = k
    /\ \A v, w \in Workers : held[v] = held[w] /\ held[v] # NoJob => v = w
    /\ Queued \cap Held = {}
    /\ NoJob \notin Queued

\* n_threads_free is the number of workers not inside a job, although each
\* worker updates it long after it took the job, although the workers run
\* before the count is first assigned, and although it is a uint8_t.
FreeCountExact ==
    phase = "ready" =>
        nThreadsFree = NThreads - Cardinality(At({"run", "done", "dead"}))

\* No wakeup is lost: while a worker sleeps on the condition variable, for
\* every job in the ring there is a worker on its way to fetch one.
NoLostWakeup ==
    At({"wait"}) # {} => len <= Cardinality(At({"pull"}))

\* The ring with its workers implements the bounded FIFO of JobQueue.
JQ == INSTANCE JobQueue WITH
        pending <- Contents, running <- held, gone <- At({"dead"}),
        Capacity <- NThreadsMax
Implements == JQ!Spec

\* Every job that was accepted is taken by a worker, whatever wakeups happen and
\* however full the ring is, unless every worker has ended inside a job:
\* threadpool.c:86, "keep at least one thread is asking for job", holds up to
\* the last exit.
AcceptedIsTaken ==
    \A j \in Jobs : (j \in Queued) ~> (j \in Held \/ At({"dead"}) = Workers)
=============================================================================
