------------------------------- MODULE Server -------------------------------
(***************************************************************************)
(* src/socket/server.c: the UDP and the TLS responder, which turn packets  *)
(* and connections into jobs, and the two jobs that the workers of the     *)
(* pool run.  The pool is what it promises (JobQueue); a query is resolved *)
(* in one step (Resolver has the steps).  A packet is who sent it and what *)
(* the parser and the resolver make of it:                                 *)
(*                                                                         *)
(*   query      a request                    response   QR is set          *)
(*   short      less than a header           truncated  TC is set          *)
(*   fatal      a request on which resolv_handle ends the process          *)
(*                                                                         *)
(*   pc[w]  idle    no job                   parse    recv_handle          *)
(*          accept  in SSL_accept            resolve  resolv_handle        *)
(*          size    reading the size         send     sendto or SSL_write  *)
(*          body    reading the message      close    cleanup_session      *)
(*          spin    SSL_read gives 0 for ever  return the job returns      *)
(***************************************************************************)
EXTENDS Integers, Sequences, FiniteSets, FiniteSetsExt

Kinds == {"query", "response", "short", "truncated", "fatal"}

CONSTANTS Workers, Jobs, Capacity, NoJob,  \* as in JobQueue
          Clients,
          Packets,        \* what a client may send: [from, kind]
          MaxFd,          \* bound: descriptors for connections are 1..MaxFd
          MaxSize,        \* bound: bytes of a message over TLS
          None

ASSUME ServerAssumption ==
    /\ Packets \subseteq [from : Clients, kind : Kinds]
    /\ MaxFd \in Nat \ {0} /\ MaxSize \in Nat \ {0}
    /\ IsFiniteSet(Workers) /\ IsFiniteSet(Jobs) /\ Capacity \in Nat
    /\ Cardinality(Jobs) >= Capacity + Cardinality(Workers)
    /\ NoJob \notin Jobs /\ None \notin Clients

VARIABLES pending, running, gone,  \* the thread pool
          args,         \* job -> its resolv_args, None when freed
          conn,         \* descriptor -> the client at the other end, or None
          pc, rest,     \* rest: expected_size - nrecv, 0 when done
          msg,          \* msgrcv, and what is to be sent
          alive,        \* the process runs
          serving,      \* the responders that run
          sent,         \* history: the reply a worker has just sent
          left          \* history: descriptors given up by a known exit

JQ == INSTANCE JobQueue

poolVars == <<pending, running, gone>>
sessionVars == <<pc, rest, msg, sent>>
vars == <<poolVars, args, conn, sessionVars, alive, serving, left>>

Fds == 1..MaxFd
FreeFds == {f \in Fds : conn[f] = None}
NewFd == Min(FreeFds)   \* accept takes the lowest one
NewJob == CHOOSE j \in Jobs : j \notin JQ!Queued \cup JQ!Held

Args(w) == args[running[w]]
IsTls(w) == Args(w).fd # 0
Goto(w, label) == pc' = [pc EXCEPT ![w] = label]
At(w, label) == alive /\ w \notin gone /\ pc[w] = label

-----------------------------------------------------------------------------
(* main starts the responders; when that fails the process exits, although the
   UDP responder may have taken packets before. *)

start_udp_server ==
    /\ alive /\ serving = {}
    /\ serving' = {"udp"}
    /\ UNCHANGED <<poolVars, args, conn, sessionVars, alive, left>>

start_tls_server ==
    /\ alive /\ serving = {"udp"}
    /\ serving' = {"udp", "tls"}
    /\ UNCHANGED <<poolVars, args, conn, sessionVars, alive, left>>

\* No socket, a port in use, or no certificate.
StartFails ==
    /\ alive /\ serving # {"udp", "tls"}
    /\ alive' = FALSE
    /\ UNCHANGED <<poolVars, args, conn, sessionVars, serving, left>>

-----------------------------------------------------------------------------
(* The responders *)

\* Mutant: the arguments of UDP jobs are one static struct.
create_resolv_args_Static(job, new) ==
    [j \in Jobs |-> IF j = job \/ (args[j] # None /\ args[j].fd = 0 /\ new.fd = 0)
                   THEN new ELSE args[j]]
\* The packet and the address of its sender are copied for the job.
create_resolv_args(job, new) == [args EXCEPT ![job] = new]

\* The job refused by a full ring is forgotten, with its arguments.
udp_responder(p) ==
    /\ alive /\ "udp" \in serving
    /\ \/ /\ Len(pending) < Capacity
          /\ JQ!Accept(NewJob)
          /\ args' = create_resolv_args(NewJob, [client |-> p.from, packet |-> p, fd |-> 0])
       \/ /\ Len(pending) = Capacity
          /\ UNCHANGED <<poolVars, args>>
    /\ UNCHANGED <<conn, sessionVars, alive, serving, left>>

\* Without a free descriptor accept fails and is called again.
tls_responder(c) ==
    /\ alive /\ "tls" \in serving /\ FreeFds # {}
    /\ conn' = [conn EXCEPT ![NewFd] = c]
    /\ \/ /\ Len(pending) < Capacity
          /\ JQ!Accept(NewJob)
          /\ args' = create_resolv_args(NewJob, [client |-> c, packet |-> None, fd |-> NewFd])
          /\ UNCHANGED left
       \/ /\ Len(pending) = Capacity
          /\ left' = left \cup {NewFd}
          /\ UNCHANGED <<poolVars, args>>
    /\ UNCHANGED <<sessionVars, alive, serving>>

-----------------------------------------------------------------------------
(* ssl_resolv_and_respond up to the message *)

Take(w) ==
    /\ At(w, "idle")
    /\ JQ!Start(w)
    /\ Goto(w, IF args[Head(pending)].fd = 0 THEN "parse" ELSE "accept")
    /\ UNCHANGED <<args, conn, rest, msg, alive, serving, sent, left>>

\* SSL_accept has no timeout: both wait for the client.
Handshake(w) ==
    /\ At(w, "accept")
    /\ Goto(w, "size")
    /\ UNCHANGED <<poolVars, args, conn, rest, msg, alive, serving, sent, left>>

HandshakeFails(w) ==
    /\ At(w, "accept")
    /\ args' = [args EXCEPT ![running[w]] = None]
    /\ left' = left \cup {Args(w).fd}
    /\ Goto(w, "return")
    /\ UNCHANGED <<poolVars, conn, rest, msg, alive, serving, sent>>

\* Mutant: the size is not converted from network byte order.
ReadSize_HostOrder(w, n) ==
    /\ At(w, "size")
    /\ rest' = [rest EXCEPT ![w] = 256 * n]
    /\ Goto(w, "body")
    /\ UNCHANGED <<poolVars, args, conn, msg, alive, serving, sent, left>>
ReadSize(w, n) ==
    /\ At(w, "size")
    /\ rest' = [rest EXCEPT ![w] = n]
    /\ Goto(w, IF n = 0 THEN "parse" ELSE "body")
    /\ msg' = [msg EXCEPT ![w] = IF n = 0 THEN [from |-> conn[Args(w).fd], kind |-> "short"]
                                 ELSE None]
    /\ UNCHANGED <<poolVars, args, conn, alive, serving, sent, left>>

\* Mutant: the socket is read without a timeout.
NoSize_Blocks(w) == FALSE
\* One byte, an error, the end of the stream, or nothing for two seconds.
NoSize(w) ==
    /\ At(w, "size")
    /\ left' = left \cup {Args(w).fd}
    /\ Goto(w, "return")
    /\ UNCHANGED <<poolVars, args, conn, rest, msg, alive, serving, sent>>

\* SSL_read may give more than is missing, and nothing but an error ends the
\* loop after that.
ReadBody(w, k) ==
    /\ At(w, "body")
    /\ rest[w] - k >= -MaxSize
    /\ rest' = [rest EXCEPT ![w] = rest[w] - k]
    /\ \/ /\ rest[w] = k
          /\ \E p \in Packets :
               p.from = conn[Args(w).fd] /\ msg' = [msg EXCEPT ![w] = p]
          /\ Goto(w, "parse")
       \/ rest[w] # k /\ UNCHANGED <<pc, msg>>
    /\ UNCHANGED <<poolVars, args, conn, alive, serving, sent, left>>

\* Mutant: a broken packet ends the job without cleanup_session.
BodyFails_NoCleanup(w) ==
    /\ At(w, "body")
    /\ Goto(w, "return")
    /\ UNCHANGED <<poolVars, args, conn, rest, msg, alive, serving, sent, left>>
\* SSL_read gives -1: an error, or nothing for two seconds.
BodyFails(w) ==
    /\ At(w, "body")
    /\ Goto(w, "close")
    /\ rest' = [rest EXCEPT ![w] = 0]
    /\ UNCHANGED <<poolVars, args, conn, msg, alive, serving, sent, left>>

\* SSL_read gives 0 once the client has closed, now and ever after.
BodyClosed(w) ==
    /\ At(w, "body")
    /\ Goto(w, "spin")
    /\ rest' = [rest EXCEPT ![w] = 0]
    /\ UNCHANGED <<poolVars, args, conn, msg, alive, serving, sent, left>>

-----------------------------------------------------------------------------
(* Both jobs: parse, resolve, send *)

dns_recv_handle(p) == IF p.kind \in {"short", "truncated"} THEN -1 ELSE 1

Reply(w, what) ==
    sent' = [sent EXCEPT ![w] =
               [to |-> IF IsTls(w) THEN conn[Args(w).fd] ELSE Args(w).client,
                about |-> msg'[w], what |-> what]]

\* The result is compared with -1 although it is never less.
UdpParse(w) ==
    /\ At(w, "parse") /\ ~IsTls(w)
    /\ msg' = [msg EXCEPT ![w] = Args(w).packet]
    /\ IF dns_recv_handle(msg'[w]) < -1
       THEN /\ Reply(w, "format error")
            /\ args' = [args EXCEPT ![running[w]] = None]
            /\ Goto(w, "return")
       ELSE Goto(w, "resolve") /\ UNCHANGED <<sent, args>>
    /\ UNCHANGED <<poolVars, conn, rest, alive, serving, left>>

\* The length is written over the first two bytes of the error response, so
\* that what the client gets begins with the flags in place of the id.
TlsParse(w) ==
    /\ At(w, "parse") /\ IsTls(w)
    /\ UNCHANGED msg
    /\ IF dns_recv_handle(msg[w]) < 0
       THEN Reply(w, "garbled") /\ Goto(w, "close")
       ELSE Goto(w, "resolve") /\ UNCHANGED sent
    /\ UNCHANGED <<poolVars, args, conn, rest, alive, serving, left>>

resolv_handle(w) ==
    /\ At(w, "resolve")
    /\ msg[w].kind \in {"query", "short"}
    /\ Goto(w, "send")
    /\ UNCHANGED <<poolVars, args, conn, rest, msg, alive, serving, sent, left>>

NotARequest(w) ==
    /\ At(w, "resolve")
    /\ msg[w].kind = "response"
    /\ IF IsTls(w) THEN Goto(w, "close") /\ UNCHANGED args
       ELSE Goto(w, "return") /\ args' = [args EXCEPT ![running[w]] = None]
    /\ UNCHANGED <<poolVars, conn, rest, msg, alive, serving, sent, left>>

\* send_question calls pthread_exit when it gets no socket.
ThreadExits(w) ==
    /\ At(w, "resolve")
    /\ msg[w].kind = "query"
    /\ JQ!Die(w)
    /\ left' = IF IsTls(w) THEN left \cup {Args(w).fd} ELSE left
    /\ msg' = [msg EXCEPT ![w] = None]
    /\ UNCHANGED <<args, conn, pc, rest, alive, serving, sent>>

\* The header of a truncated packet counts questions that were never read.
Crash(w) ==
    /\ At(w, "resolve")
    /\ msg[w].kind \in {"fatal", "truncated"}
    /\ alive' = FALSE
    /\ UNCHANGED <<poolVars, args, conn, sessionVars, left, serving>>

UdpSend(w) ==
    /\ At(w, "send") /\ ~IsTls(w)
    /\ UNCHANGED msg
    /\ Reply(w, IF msg[w].kind = "short" THEN "empty" ELSE "answer")
    /\ args' = [args EXCEPT ![running[w]] = None]
    /\ Goto(w, "return")
    /\ UNCHANGED <<poolVars, conn, rest, alive, serving, left>>

\* Mutant: a failed SSL_write closes the connection, and so does the cleanup.
TlsSend_Closes(w) ==
    /\ At(w, "send") /\ IsTls(w)
    /\ conn' = [conn EXCEPT ![Args(w).fd] = None]
    /\ Goto(w, "close")
    /\ UNCHANGED <<poolVars, args, rest, msg, alive, serving, sent, left>>
TlsSend(w) ==
    /\ At(w, "send") /\ IsTls(w)
    /\ UNCHANGED msg
    /\ Reply(w, "answer") \/ UNCHANGED sent
    /\ Goto(w, "close")
    /\ UNCHANGED <<poolVars, args, conn, rest, alive, serving, left>>

cleanup_session(w) ==
    /\ At(w, "close")
    /\ conn' = [conn EXCEPT ![Args(w).fd] = None]
    /\ args' = [args EXCEPT ![running[w]] = None]
    /\ Goto(w, "return")
    /\ UNCHANGED <<poolVars, rest, msg, alive, serving, sent, left>>

JobReturns(w) ==
    /\ At(w, "return")
    /\ JQ!Finish(w)
    /\ Goto(w, "idle")
    /\ rest' = [rest EXCEPT ![w] = 0]
    /\ msg' = [msg EXCEPT ![w] = None]
    /\ sent' = [sent EXCEPT ![w] = None]
    /\ args' = [args EXCEPT ![running[w]] = None]  \* no one's any more
    /\ UNCHANGED <<conn, alive, serving, left>>

-----------------------------------------------------------------------------
Init ==
    /\ JQ!Init
    /\ args = [j \in Jobs |-> None]
    /\ conn = [f \in Fds |-> None]
    /\ pc = [w \in Workers |-> "idle"]
    /\ rest = [w \in Workers |-> 0]
    /\ msg = [w \in Workers |-> None]
    /\ alive = TRUE
    /\ serving = {}
    /\ sent = [w \in Workers |-> None]
    /\ left = {}

\* What the worker does by itself; the timeouts are among it.
Work(w) ==
    \/ Take(w) \/ NoSize(w) \/ BodyFails(w)
    \/ UdpParse(w) \/ TlsParse(w) \/ resolv_handle(w) \/ NotARequest(w)
    \/ ThreadExits(w) \/ Crash(w) \/ UdpSend(w) \/ TlsSend(w)
    \/ cleanup_session(w) \/ JobReturns(w)

\* What the client at the other end of the connection makes it do.
Client(w) ==
    \/ Handshake(w) \/ HandshakeFails(w) \/ BodyClosed(w)
    \/ \E n \in 0..MaxSize : ReadSize(w, n)
    \/ \E k \in 1..MaxSize : ReadBody(w, k)

Terminated == ~alive /\ UNCHANGED vars

Next ==
    \/ start_udp_server \/ start_tls_server \/ StartFails
    \/ \E p \in Packets : udp_responder(p)
    \/ \E c \in Clients : tls_responder(c)
    \/ \E w \in Workers : Work(w) \/ Client(w)
    \/ Terminated

Spec == Init /\ [][Next]_vars

(* Workers go on with what needs no client: after the handshake a read ends
   within two seconds, and resolv_handle ends (Resolver's QueryIsAnswered). *)
FairSpec == Spec /\ \A w \in Workers : WF_vars(Work(w))

-----------------------------------------------------------------------------
(* Properties *)

Labels == {"idle", "accept", "size", "body", "spin", "parse", "resolve", "send",
           "close", "return"}

\* The type of every variable.
TypeOK ==
    /\ args \in [Jobs -> [client : Clients, packet : Packets \cup {None},
                          fd : Fds \cup {0}] \cup {None}]
    /\ conn \in [Fds -> Clients \cup {None}]
    /\ pc \in [Workers -> Labels]
    /\ rest \in [Workers -> -MaxSize..MaxSize]
    /\ msg \in [Workers -> [from : Clients, kind : Kinds] \cup {None}]
    /\ serving \in {{}, {"udp"}, {"udp", "tls"}}
    /\ left \subseteq Fds

\* A reply goes to the client whose packet it answers, although all packets
\* come through one responder and descriptors are used again.
ReplyToAsker == \A w \in Workers : sent[w] # None => sent[w].about.from = sent[w].to

\* The jobs that have a connection, from accept to the end of cleanup_session.
Sessions ==
    {j \in JQ!Queued : args[j].fd # 0}
      \cup {running[w] : w \in {v \in Workers \ gone :
                pc[v] \notin {"idle", "return"} /\ IsTls(v)}}

\* As long as a job may still use its descriptor, that is the connection it was
\* made for and no other job's: nothing closes it too early or twice.
SessionOwnsItsFd ==
    \A j \in Sessions :
        /\ conn[args[j].fd] = args[j].client
        /\ args[j].fd \notin left
        /\ \A k \in Sessions \ {j} : args[k].fd # args[j].fd

\* An open descriptor belongs to a job, unless the job was refused, its
\* handshake failed, its size did not come or its worker exited: every other
\* way out of the job closes it.
OrphansExplained ==
    \A f \in Fds : conn[f] # None => f \in left \/ \E j \in Sessions : args[j].fd = f

\* A worker that will not take another job unless a client makes it.
Stuck(w) == w \in gone \/ pc[w] \in {"accept", "spin"}

\* As long as there is time and again a worker that no client holds up, an
\* accepted job is taken: with two-second reads, connections that fall silent
\* delay the queue and do not stop it.
QueuedIsTaken ==
    []<>(\E w \in Workers : ~Stuck(w)) =>
        \A j \in Jobs : (j \in JQ!Queued) ~> (j \notin JQ!Queued \/ ~alive)

\* server.c:139, "construct an error response and return": the reply to a packet
\* that cannot be parsed is an error response.
MalformedGetsError ==
    \A w \in Workers :
        sent[w] # None /\ dns_recv_handle(sent[w].about) < 0 =>
            sent[w].what = "format error"
=============================================================================
