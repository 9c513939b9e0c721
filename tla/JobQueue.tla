------------------------------ MODULE JobQueue ------------------------------
(***************************************************************************)
(* What the thread pool promises to the UDP and TLS responders: a bounded  *)
(* first-in first-out queue of jobs.  A job is accepted or, when Capacity  *)
(* jobs are pending, refused at once; an accepted job is handed to exactly *)
(* one worker, in the order of acceptance; the worker finishes it, or dies *)
(* with it (a job may call pthread_exit).                                  *)
(*                                                                         *)
(* The names of jobs are reused once a job has ended.  The program never   *)
(* frees a job, so its job pointers are never reused: reuse here only      *)
(* keeps the set Jobs finite.                                              *)
(***************************************************************************)
EXTENDS Integers, Sequences

CONSTANTS Workers, Jobs, Capacity, NoJob

VARIABLES pending,  \* the accepted jobs no worker has taken yet, oldest first
          running,  \* the job each worker holds, or NoJob
          gone      \* the workers that ended inside a job

vars == <<pending, running, gone>>

Queued == {pending[i] : i \in DOMAIN pending}
Held == {running[w] : w \in Workers} \ {NoJob}

Init ==
    /\ pending = <<>>
    /\ running = [w \in Workers |-> NoJob]
    /\ gone = {}

Accept(j) ==
    /\ j \notin Queued \cup Held
    /\ Len(pending) < Capacity
    /\ pending' = Append(pending, j)
    /\ UNCHANGED <<running, gone>>

Start(w) ==
    /\ w \notin gone
    /\ running[w] = NoJob
    /\ pending # <<>>
    /\ running' = [running EXCEPT ![w] = Head(pending)]
    /\ pending' = Tail(pending)
    /\ UNCHANGED gone

Finish(w) ==
    /\ w \notin gone
    /\ running[w] # NoJob
    /\ running' = [running EXCEPT ![w] = NoJob]
    /\ UNCHANGED <<pending, gone>>

Die(w) ==
    /\ w \notin gone
    /\ running[w] # NoJob
    /\ gone' = gone \cup {w}
    /\ UNCHANGED <<pending, running>>

Next ==
    \/ \E j \in Jobs : Accept(j)
    \/ \E w \in Workers : Start(w) \/ Finish(w) \/ Die(w)

Spec == Init /\ [][Next]_vars
=============================================================================
