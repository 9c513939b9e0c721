# A TLA+ model of baka_dns

baka_dns is a DNS relay: it answers queries that arrive over UDP and over TLS
from a cache, from a relay file that is loaded at the start, or by asking an
external server. This directory holds a model of it in TLA+, the TLC
configurations that check the model on small instances, and TLAPS proofs of
properties for every instance. Paths below are relative to the repository
(`src/...` is its source directory).

## Inventory

| component | state | operations | interacts with |
|---|---|---|---|
| thread pool, `src/utils/threadpool.c` | ring of job pointers (`queue`, `front`, `back`, `len`), count of free threads, the threads | `init_threadpool`, `threadpool_add_job`, `thread_work` (`pull_job`, run, count) | called by the responders; runs the jobs they create |
| record cache, `src/storage/cache.c` | doubly linked list with dummy, `size`, one lock | `cache_find_rr`, `cache_put_rr`, `refresh_cache` (a thread of its own, once a second), `init_cache` | all workers and the timer share it |
| resolver, `src/socket/resolv.c` | per query: answer buffer, counters, the answer | `resolv_handle` | cache, relay database, external client |
| external client, `src/socket/client.c` | per query: socket, old and new id | `send_question` | the external server, with a receive timeout of 4 s |
| relay database, `src/storage/trees.c`, `database.c` | tree of nodes that are a list or hash buckets | `init_database`, `tree_insert`, `tree_search`, `select_database` | filled before any thread starts, then only read |
| message codec, `src/storage/message.c` | none | parse, serialise, copy, compare, reverse names | everywhere |
| servers, `src/socket/server.c` | UDP socket, TLS sessions and their descriptors, arguments of jobs | responders, `udp_resolv_and_respond`, `ssl_resolv_and_respond` | thread pool, resolver |
| start-up, `src/main.c` | none | database, cache, pool, responders, in this order | |
| configuration, logging, address conversion | command line; none; none | | not modelled |

What is hard in this program:

* *Concurrency.* Twelve workers, two responders and the cache's timer. The
  ring's condition variable is signalled from two places, one of them without
  `job_mutex`; workers start before the counter they decrement is assigned;
  `resolv_handle` uses the cache in several critical sections, between which
  the timer and other workers change it.
* *Failure.* The external server may be silent, late, truncated or answer
  under another id; `socket()` may fail, in which case the job ends the worker.
  TLS clients may close, fall silent or send what is no query at any point of a
  session; packets may be short, cut off or malformed; jobs may be refused.
* *Time.* Records expire while they are copied, put again and moved; the timer
  frees nodes while it walks the list.
* *Limits.* A full ring, a full cache, the slots of one answer, four records
  of a kind in the database, the switch from list to buckets.

What makes each component correct: the pool runs every accepted job once, in
order, and loses no wakeup; the cache holds a record once, drops the least
recently put, tells no client a ttl that is too old, and removes what has
expired; the list below it is never walked over freed memory; a reply answers
its own query and goes to the client that asked; a session keeps its descriptor
until it is closed once; a query for a name of the relay database is answered
here (a name in a query of several questions, or with another opcode, may go out
with the whole query); a lookup in the tree is a lookup in a table; a message is
read as it was meant, however it is compressed, and forwarded with the same
meaning.

## Modules

| module | models | state and actions |
|---|---|---|
| `JobQueue` | what the pool promises | bounded FIFO: `Accept`, `Start`, `Finish`, `Die` |
| `ThreadPool` | `threadpool.c` | the fields of `struct jobqueue` and `struct threadpool`, one label per worker; a critical section is one action; `Signal` and `SpuriousWakeup` are the condition variable |
| `Cache` | `cache.c` as callers see it | `entries`, the list as a sequence; `cache_put_rr`, `refresh_cache`, `Tick`; `cache_find_rr` is an operator, the set whose one element is the sequence found |
| `CacheRecency` | | `Cache` with a history, `later`, of which record was put after which |
| `CacheList` | `cache.c` with its pointers | `next`, `last`, `element` for every node; the timer walks one node per action while it holds the lock |
| `Resolver` | `resolv.c`, `client.c` | one label per worker, each call into the cache one action of `Cache`; the network is what `recvfrom` may return |
| `RelayMap` | what the database promises | a table of names; `Insert` |
| `RelayDatabase` | `trees.c`, `database.c` | nodes by path, elements by path; `ReadLine` is one turn of the loader's loop, `tree_insert` included; `SkipLine` an overlong line |
| `Server` | `server.c`, the end of `main.c` | one label per worker and the descriptors; `udp_responder` and `tls_responder` are one turn of their loops, the steps of a TLS session end where the client may fail; `resolv_handle` is one step |
| `Message` | `message.c` | operators on sequences of bytes; no state |
| `Codec` | `message_from_buf`, what `send_question` does to a message (EDNS and the swap of ids), `message_to_u8` | a sender (external) writes a message with or without pointers; it is read entry by entry and sent on under another id |
| `MCThreadPool`, `MCCache`, `MCCacheList`, `MCResolver`, `MCRelayDatabase`, `MCServer`, `MCCodec` | | instances for TLC |
| `ThreadPoolProofs`, `CacheProofs`, `CacheListProofs`, `ResolverProofs`, `RelayDatabaseProofs`, `ServerProofs`, `CodecProofs` | | theorems about the module of the same name, those of `CacheProofs` about `CacheRecency` too |
| `NumberLemmas` | | least members, induction and recursion over an interval, and ranks in sets of numbers, for the proofs |

`Resolver` instantiates `Cache`, `Server` instantiates `JobQueue` (so what
`ThreadPool` is proved to implement is what the servers rely on), `Codec`
extends `Message`; `ThreadPool` is shown to implement `JobQueue`,
`CacheList` to implement `Cache`, `RelayDatabase` to implement `RelayMap`.
`PROJECT.json` maps every definition to its lines. Operators whose comment
starts with "Mutant" are deliberately wrong variants of the operator that
follows; nothing uses them but the mutation runs, which put one of them in
place of the right one and expect the property to fail.

Points of the translation that are easy to miss:

* `queue_pop` leaves the popped pointer in its slot; `EndJob` signals when the
  count is back at the number of threads; `RejectJob` signals as well.
* `cache_put_rr` on a record that is there moves the *old* entry, with the old
  ttl and expiry, to the front. The timer drops entries behind the
  `CACHE_SIZE_MAX`-th live one; between two runs the list may be longer.
* `rr_cmp` compares rdata as a C string (`SameBytes`).
* The cache is asked before the database; `ans_cnt` adds up over cache hits but
  is assigned by the database; every lookup writes from the start of the buffer.
* A key is a name and type with a class. The cache compares all of it,
  `select_database` the name and the type only: a question of class CH for a
  relay name gets the relay's records of class IN. `DB` is indexed by the name,
  and `Answers` says which records may answer which question.
* One name that is not known here sends the whole query out, relay names in it
  included; so does an opcode other than QUERY.
* `send_question` reads the header of an answer before it refuses it.
* An empty slot in the answer ends the process when it is serialised, and so
  does a name that is too long: `mq_copy` then shares `qname` between query and
  answer, which is freed twice. That happens when the loop meets the name
  (`BadQuestion`), and when it never came to it because the query went out in
  vain (`RespondSharing`). All three set every worker to `dead`.
* A socket that fails ends the thread (`NoSocket`); a receive timeout that cannot
  be set gives an empty response (`NoTimeoutOption`).
* `sscanf` leaves a buffer alone when its field is missing, and `strtok` cuts
  `domainbuf` after its first label; before the first line the buffers hold
  anything (`Garbage`). `str_lower` runs over `domainbuf` whether the line had
  set it or not.
* `udp_resolv_and_respond` compares the parser's result with `< -1`, which it
  never is; `UdpParse` keeps the comparison. A short packet then is a message
  of zeros; a truncated one has counted questions that were never read, and
  the process ends when they are (`Crash`).
* In the TLS job `SSL_read` giving 0 is no way out of the loop (`spin`), and more
  bytes than announced are read on until an error. The error response over TLS
  has the length written over its id (`"garbled"`).
* Out of a TLS session: a failed handshake, a size that does not come, a refused
  job and `pthread_exit` leave the descriptor open (`left`); all else goes
  through `cleanup_session`.
* `read_domain` returns the length of the expanded name and advances `*_offset`
  by the bytes it took up; a record in memory has the expanded length, the
  reader advances by the one on the wire. A name that is too long makes
  `message_to_u8` step back one byte (`Written`).
* `real_rdlength` is a `uint16_t` (`% 65536` in `msg_rr_from_buf`); pointers have 14
  bits, so the sender points to no name behind byte 16383.
* A request is written under `new_id` and has its own id again afterwards; a
  response gets the client's id (`WithId`, `SendOn`).
* An OPT record that is in the request already gets the buffer size as its ttl;
  the one that is added otherwise has it as its class.

## Runs

States are distinct states. All runs that pass explore the whole state space.

| run | cfg | shows |
|---|---|---|
| pool | `MCThreadPool` | 2 workers, 2 slots, 5 jobs, both workers may die: `TypeOK`, `RingConsistent`, `JobInOnePlace`, `FreeCountExact`, `NoLostWakeup`, `Implements` (the FIFO) and `AcceptedIsTaken`, unless all have died (17298 states); the theorems below hold for any number of workers and slots |
| cache | `MCCache` | 4 records in 3 classes of `rr_cmp`, ttls 0 to 2, room for 2, 3 seconds: `TypeOK`, `NoDuplicates`, `TtlIsFresh`, `LastPutFirst`, `LeastRecentEvicted`, `ExpiredIsRemoved` (54544, with the history) |
| cache_list | `MCCacheList` | 3 nodes, room for 1, 2 seconds, the clock moving during a walk: `TypeOK`, `NoUseAfterFree`, `ListWellFormed`, `ImplementsCache` (9570 up to symmetry) |
| resolver | `MCResolver` | 2 workers, a cache for 1 record, queries with no, one and two questions for names that upstream, the database or nobody knows, a blocked and an overlong one, one in class CH, one with another opcode; sockets that fail, a server that is silent or truncates: `TypeOK`, `CacheHoldsUpstreamOnly`, `AnswersBelongToQuery`, `RelayNameAnsweredHere`, `ForeignIdIsLocal`, `OneQuestionIsFilled`, `QueryIsAnswered` (478632) |
| relay | `MCRelayDatabase` | every file of up to 4 lines out of 14, two of them with a field missing: `TypeOK`, `TreeConsistent`, `RecordsComeFromFile`, `ImplementsMap` (14242) |
| server | `MCServer` | 2 workers, a ring of one slot, 2 clients, 2 descriptors, messages of up to 2 bytes that arrive in pieces: `TypeOK`, `ReplyToAsker`, `SessionOwnsItsFd`, `OrphansExplained`, `QueuedIsTaken` (325540) |
| codec | `MCCodec` | every message of up to 4 entries out of 2 questions and 7 records (A, CNAME, MX, SOA, OPT) over names that are ends of each other, each entry compressed or not, the packet whole, cut off by a byte or shorter than a header, sent on under two other ids: `TypeOK`, `ReadAsWritten`, `SentOnAsMeant` (395129) |

The bounds are chosen so that the cases in question occur: the ring fills and
wraps with every worker busy; the cache is over its limit with expired records
in front of and behind live ones; two workers hold copies of a record that the
timer removes, and upstream gives a record of a relay name along with another;
a node of the tree switches to buckets with two labels that
collide, and a third address of one name meets the limit; the ring refuses a job
while a session holds each worker, and a descriptor is used again while its last
session returns; pointers lead to names that end in pointers, and names have the
greatest length allowed (5 here) and one beyond it. Deadlock is checked
everywhere but for the relay file, which simply ends.

### Disagreements with comments of the code

Each is a run that TLC must find violated.

| run | property | what happens |
|---|---|---|
| cache_match | `PutIsStored` | records that differ behind a NUL byte of rdata are taken for one, against "strictly match" in `cache.c:48` |
| resolver_id | `ReplyHasQueryId` | after a refused answer the empty response has the refused message's id (`resolv.c:125-127`) |
| resolver_ttl | `NoRecordOutlivesTtl` | a record removed between `cache_find_rr` and `cache_put_rr` is put again for another ttl, against `cache.h:30` |
| server_malformed | `MalformedGetsError` | a packet shorter than a header is answered as if it were an empty query, against `server.c:139` |
| codec_edns | `EdnsAsMeant` | in an OPT record that the request has already the buffer size goes to the ttl (rcode, version and flags in RFC 2671) and not to the class (`client.c:74`), against "EDNS(RFC2671) (upstream, version 0)" in `README.md:12` |

Five more are told by what the passing properties leave out:

* `AcceptedIsTaken` ends when every worker has called `pthread_exit` in a job
  (`client.c:25`); `threadpool.c:86` speaks of keeping one thread asking.
* `RelayNameAnsweredHere` allows a record that upstream gave for a relay name, at
  the end of a chain of aliases, in place of the relay's: the cache is asked first,
  although `resolv.c:69` says "for each query, select the relay database".
* `OneQuestionIsFilled` is about one question only. Two questions found in the
  cache share slots of the answer and are counted twice, against "len by
  ancount" in `message.h:84`: `SerialiseEmptySlot` then ends the process.
* `ReadAsWritten` leaves out the numbers of an SOA record, which are copied from
  behind their place (`message.c:179`: `mname_offset` is added twice), against "RR
  Type support" in `README.md:9`; `SentOnAsMeant` leaves out such messages.
* `RecordsComeFromFile` excepts files in which a line has a field missing: such
  a line inserts the leftovers of others; `database.h:21` says only "init
  database from relay file".

`OrphansExplained` in the same way names the four exits of a TLS session that
leave its descriptor open, and shows that there is no fifth; `QueuedIsTaken`
names in its premise the two places where a client can hold a worker for ever.

### Fairness

`ThreadPool`: weak fairness of the main thread's initialisation and of each
worker. A job that runs ends: a UDP job waits only in `recvfrom`, which has a
receive timeout of four seconds. (A TLS job may wait for ever in `SSL_accept`,
or spin on a closed connection: that is `Server`'s matter, and the pool's
liveness speaks of jobs that end.) No fairness on requests and on spurious wakeups. `AcceptedIsTaken` needs
no strong fairness: a worker that is woken and overtaken is at `pull`, where
either a job is left for it or it waits again. `MCCache`: weak fairness of the
timer, which loops for ever; the clock need not move. `Resolver`: weak fairness
of what a worker with a query does by itself (`Resolve`); that includes the return
of `recvfrom` by the same timeout (`NoAnswer`) and not what the external server
sends (`Receive`), of which nothing is assumed. `Server`: weak
fairness of what a worker does by itself (`Work`), which includes the end of a
read by the timeout of two seconds and a `SSL_write` that does not block (a
reply fits the socket's buffer); none on clients and on the network.
`QueuedIsTaken` has the premise that there is time and again a worker that is
not in `SSL_accept`, in the endless loop of `server.c:200` or gone; without it
the property is false, because two silent clients hold both workers.

## Proofs

Every theorem is about `Spec` with all values of the constants that the named
assumption of the module admits. Each proof module has one inductive invariant
`Inv` (or one per theorem, where they build on each other), one lemma for each
action or kind of action, and the theorems at its end.

| module | assumption | theorems |
|---|---|---|
| `ThreadPoolProofs` | `PoolAssumption`: a finite set of workers that fits into the ring, 1 to 255 slots (the code has 12 and 128) | `TypeCorrect`, `JobsInOnePlace`, `RingStaysConsistent`, `WakeupsNotLost`, `FreeCountIsExact`, `PoolIsFifo` (implements `JobQueue`) |
| `CacheProofs` | `CacheAssumption`: records with bytes as rdata, natural ttls, a limit of at least 1 | `TypeCorrect`, `DuplicatesNever`, `TtlsAreFresh`; of `RecencySpec`: `OrderedByLastPut`, `EvictsLeastRecent` |
| `CacheListProofs` | `ListAssumption`: finitely many nodes, a limit of at least 1, some ttl | `TypeCorrect`, `TimerNeverOnFreedNode`, `ListStaysWellFormed`, `ListIsCache` (implements `Cache`) |
| `ResolverProofs` | `ResolverAssumption`: the types of queries, database and upstream answers; the database's records are of the name and type they are found by, in any class | `TypeCorrect`, `OnlyUpstreamIsCached`, `LocalAnswersBelong`, `PassedOnWithItsId`, `OneQuestionHasNoEmptySlot`, `RelayNamesAnsweredHere` |
| `RelayDatabaseProofs` | `DatabaseAssumption`: finitely many labels, `Lower` idempotent, `Hash` any function into the buckets | `TypeCorrect`, `TreeStaysConsistent`, `TreeIsTable` (implements `RelayMap`), `FoundIsFromFile` |
| `ServerProofs` | `ServerAssumption`: finitely many workers, enough names for the jobs in the queue and in work | `TypeCorrect`, `RepliesReachTheirAsker`, `SessionsOwnTheirFds`, `OtherExitsClose` |
| `CodecProofs` | `CodecAssumption`: headers, questions and records with the fields and widths of the protocol, names and data that fit into the code's buffers; for the last two `PlainTypes`: no SOA and no TXT records | `TypeCorrect`, `ReadsAsWritten`, `SendsOnAsMeant` |

*`ThreadPoolProofs`* has three layers.

1. `TypeCorrect`: by cases on the actions; arithmetic modulo the ring's size is
   settled once, in `ModRange`, `ModLow`, `ModHigh`, `NextSlot`, `ShiftedSlot`.
2. `JobsInOnePlace`: `RingConsistent /\ JobInOnePlace` is inductive together
   with `TypeOK`. Neither part is by itself: that a push does not overwrite a
   job needs `back` to be determined by `front` and `len`, and that a pulled
   job is nowhere else needs the slots to be distinct. `PushContents` and
   `PopContents` say once what a push and a pop do to the sequence of queued
   jobs; both rest on `Pos`, the slot of the i-th job, being injective.
3. On top of that: `PoolIsFifo`, the refinement of `JobQueue`, maps every action
   to an action of the FIFO or to a stutter. `WakeupsNotLost` is inductive with
   `TypeOK` by counting the workers at `pull`; `FreeCountIsExact` needs
   `StartupOrder`, that no worker can have a job before initialisation ends.

*`CacheProofs`*: `DuplicatesNever` is inductive with `TypeOK` because a put moves
the first match and the timer keeps an increasing selection of the positions;
`TtlsAreFresh` follows from the fact that only the timer changes a ttl and sets
it to the exact time left. `OrderedByLastPut` is inductive with `DuplicatesNever`:
a put gives all pairs of its record at once, which needs `rr_cmp` to be transitive
(`RrCmpTransitive`), although it stops at a NUL byte. `EvictsLeastRecent` counts:
the timer drops a live entry when more than `CacheSizeMax` live ones stand up to it,
so as many stay in front of it (`DroppedBehindFull`, by `RankFromBelow`), and
those were put later by `OrderedByLastPut`. The history changes nothing
in what the cache does (`RecencyIsCache`).

*`CacheListProofs`*: `Chain` follows pointers, so nothing about it survives a
pointer update directly. The invariant says instead that there is a sequence `s`
of distinct nodes, exactly the allocated ones, that `next` and `last` run through
(`Links`). While `RemoveSurplus` has ended the list and not yet freed what
follows, one link is missing, which `Links` allows at `cut` only. Every action
leaves `s` alone, takes a node out (`Without`) or puts one in front (`Before`),
and `Unlink` and `Relink` show once that the pointer updates of `cache.c` do
just that. `size` is the length of `s`, so it cannot fall below 0. That
`Chain` is `s`, a statement about a recursive function, is an
`IntervalInduction` over the positions.

Its second part is `ListIsCache`: while the timer walks, what the cache holds is what it
*will* hold when the walk ends: the refreshed nodes the timer has passed, and of
those ahead the live ones that the limit leaves (`Staying`). So the step that
takes the lock is `refresh_cache`, the steps of the walk are stutters, and a put
is a put. `Abstract` picks nodes and not positions, so that taking a node out of
the list shifts nothing; `PickedIs` and the ranks of `NumberLemmas` give its
k-th entry. `WalkInv` adds to the invariant of the first part that `cnt` is below
the limit while the timer walks, and that nodes it has passed have the time left
as their ttl (`Passed`). After the list is cut, the nodes behind the cut
have no part in it (`CutStandsForWhole`).

*`ResolverProofs`*: `WorkerOK` says for each label what the worker's buffers hold:
every filled slot of `ans_buffer` belongs to a question of its query, at the labels
of `send_question` there are only queries of another opcode or with a name that the
database lacks, and the header has another id than the query only after a refused answer. `PutEffect`,
`TimerEffect` and `FindEffect` say what the actions of `Cache` do to the entries,
so that a step of one worker or of the timer between two of another's
preserves it (`StepOfOne`). `OneQuestionHasNoEmptySlot` has the hypothesis
`FewRecords`, that all records of a name fit into `ans_buffer`:
neither `cache_find_rr` nor `select_database` tests this, and beyond it they
write past the array. It needs `NoDuplicates` of the cache, since a name
with a record twice would overflow the slots (`FindFits`). `RelayNamesAnsweredHere`
says of a query for one relay name that nothing of other questions or earlier
queries is in its slots: `RelayInv` has that nothing is counted before something is
found (`RelayOK`), that what is counted then is the database's answer or was
given by upstream for this question (`SlotsOK`), and that this stays true of the
reply (`RelayReplyOK`), since upstream cannot take back what it gave (`GrantsKept`).

*`RelayDatabaseProofs`*: the first part is about one node. A label inserted into a
list or into buckets is found again, and every other label as before
(`InsertInNode`), also when the list is rehashed at the threshold
(`BackwardsIs`, `MovedIs`, `RehashedIs`), whatever `Hash` is. The second is about
paths: `GrownIs` says which labels every node has after an insertion.
`TreeConsistent` is inductive with `TypeOK` and `Closed`, that
with an element all elements above it exist. Then a lookup depends on the
path alone (`SelectIs`), and `TreeIsTable` follows because two names with the
same reversed path are equal. `FoundIsFromFile` needs `BuffersKnown`: `ipbuf`
holds an address of a line or what it held before the first, and `domainbuf` a
name of one or its first label, since `strtok` cuts it.

*`ServerProofs`*: the invariant pairs places of the pool with resources. A job is
in the queue or with one worker (`PoolInv`); queued jobs have arguments
(`ArgsOK`), and a worker that serves has those of its job (`WorkerOK`);
an open descriptor belongs to one session or was given up (`left`), and
what was given up stays open (`LeftIsOpen`), so `accept` cannot
return it again. The properties are inductive only together: that a new
session's descriptor is no one else's needs `OrphansExplained`, and that a
cleanup closes only its own needs `SessionOwnsItsFd`.

*`CodecProofs`*: that a name with pointers is read correctly is no property of the
bytes at one place, because a pointer leads anywhere before it. `Reads(b, p, k, name)`
says that `name` is what `read_domain` finds at `p` in *every* buffer that begins
like `b` (the header apart), if it may follow `k` pointers or more. So it survives
all that is written later (`ReadsOn`), the header that is put in last, and the loss of the packet's tail. A sender is `Sound` when each name
it knows can be read this way with fewer pointers than it has labels; `PutNameReads`
shows that a name written by a sound sender, compressed or not, is read as meant
and leaves the sender sound. `PutQuestionReads` and `PutRecordReads` lift this to
entries, `EntryIn` being their `Reads`; the data of a record needs one case for each
kind of `RData`, and `DataFits` that its length fits 16 bits. `WireInv` is
the invariant of the packet: every entry written is in it where `starts` says
(`EntriesIn`), and what has arrived of it can be read (`Arrived`).

`TypeCorrect` says that the four arrays are as long as the header counts
(`AtMostCounted` while they are read, `AsCounted` from then on, also after
`send_question` has added a record); that only bytes are written
needs `MemoryOK` as well, the types of a message in memory whatever the
bytes were, since a record of any type that was cut off, or an SOA record read
wrongly, is sent on too. `ReadInv` adds what has been read (`ReadState`): sections are filled
in their order, entries that arrived are `Plain`, and the reader stands where the
next begins. One entry read keeps it (`ReadOne`), and that is `ReadsAsWritten`. `SendsOnAsMeant`
then compares two writers: `message_to_u8` on a message in memory and
`Uncompressed` on what the sender meant give the same bytes (`MessageSent`), and adding
the OPT record and putting in another id commute with reading (`MeansEdns`,
`MeansId`). Of a request that has an OPT record already this is false (run codec_edns). `PlainTypes` is needed: the numbers of an SOA record are read from the wrong place
and the data of a TXT record is no name.

*`NumberLemmas`*: the library's induction theorems take an operator as a
parameter, which the provers cannot instantiate. `IntervalInduction` takes a set
of numbers instead and follows from the well-foundedness of strict inclusion on
finite sets (`LeastExists`), which is enough for positions in a list.
`RecursionExists` and `RecursionUnique` do the same for functions that are
defined step by step: the loops of `message_to_u8`, `PutNames`, the pointers that
`read_domain` follows and `FlattenSeq`.

Only model-checked:

* liveness (`AcceptedIsTaken`, `ExpiredIsRemoved`, `QueryIsAnswered`,
  `QueuedIsTaken`): fairness and `ENABLED` are outside the prover's reach;
* the counterexamples of the runs that expect a violation.

Every other property of the passing runs is proved. `TypeCorrect` of the codec covers
every record type; that an SOA record is read right up to its numbers is model-checked
only, and of TXT records nothing is said.

## Not modelled

What the TLS library does inside its calls, memory outside the arrays (more than
`ANCOUNT_MAX` records for one name, reads into `recvbuf` beyond its end, labels of 50 to 63 bytes, which are legal but run over
`domain[SUBDOMAIN_MAX]` at `trees.c:78` and are not found again), heap memory but for
the double free of `qname`, the command line, logging and `inet_pton`. A label
with bytes above 191, pointers in a circle and TXT records are kept out of the
codec's runs: the code reads bytes anywhere in the packet as parts of the name.
Names longer than `DOMAIN_BUF_LEN` and data longer than `RR_BUF_SIZE` are kept out by
`CodecAssumption`: the code copies them past the end of `domainbuf` and `rrbuf`.
`pthread_create` is taken to succeed: it returns a positive number on failure, so the
test at `threadpool.c:102` is never met, and a thread that is missing would go
unnoticed and be counted as free. A `recvfrom` that fails in the UDP responder is not modelled. `pthread_mutex_init` of the cache's lock is taken to come before
the timer's first lock, although `init_cache` creates the thread first.
`PROJECT.json` lists the hazards that no property covers, with the reason.

## Plan

1. `ThreadPool`, `Cache`, `CacheList`, `Resolver`, `RelayDatabase` with their
   abstract specifications and runs. Done.
2. `ThreadPoolProofs`, `CacheProofs`. Done.
3. `Server`, composed with `JobQueue`, and `Message` with `Codec`. Done.
4. Proofs about `Server`, `CacheList` (the list is well formed), `Resolver`
   and `RelayDatabase` (consistent, implements `RelayMap`). Done.
5. Proofs that `CacheList` implements `Cache` and that the cache drops the least
   recently put. Done.
6. Proofs about the codec: types, messages are read as written and sent on as
   meant. Done.
