---- MODULE MCThreadPool ----
(* Two workers, two slots, five jobs: the ring fills up and wraps while every
   worker is busy, one more job is refused, and one worker may be lost. *)
EXTENDS ThreadPool
====
