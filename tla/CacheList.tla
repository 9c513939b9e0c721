----------------------------- MODULE CacheList -----------------------------
(***************************************************************************)
(* The doubly linked list of src/storage/cache.c with its lock, its timer  *)
(* thread and the workers that use it.  The pointers next and last start   *)
(* at a dummy node; nodes come from and return to the heap.                *)
(*                                                                         *)
(* What a worker does between pthread_mutex_lock and unlock is one action. *)
(* The timer walks the list one node per step while it holds the lock, and *)
(* the clock goes on meanwhile: it works with the time it read first.      *)
(* pthread_mutex_init is taken to come before the timer's first lock.      *)
(***************************************************************************)
EXTENDS Integers, Sequences, FiniteSets

CONSTANTS RRs, TTLs, CacheSizeMax, MaxTime,  \* as in Cache
          Nodes,                             \* the addresses malloc may return
          Dummy, NULL

ASSUME ListAssumption ==
    /\ {Dummy, NULL} \cap Nodes = {}
    /\ Dummy # NULL
    /\ IsFiniteSet(Nodes)
    /\ TTLs \subseteq Nat /\ TTLs # {}
    /\ CacheSizeMax \in Nat \ {0}
    /\ NULL \notin [rr : RRs, ttl : Nat, expire : Nat]

VARIABLES next, last,  \* the pointers of every node, the dummy's included
          element,     \* [rr, ttl, expire] of an allocated node, else NULL
          size,        \* cache.size; TypeOK keeps it from falling below 0
          now,         \* the clock
          timer,       \* the timer thread: "sleep", "walk" or "trim"
          node, cnt,   \* its local variables
          tnow         \* the time it read; at "sleep", when it last ran

listVars == <<next, last, element, size>>
timerVars == <<timer, node, cnt, tnow>>
vars == <<next, last, element, size, now, timer, node, cnt, tnow>>

C == INSTANCE Cache WITH entries <- <<>>, refreshed <- tnow

Free == {n \in Nodes : element[n] = NULL}

(* The lock is free while the timer sleeps. *)
LockFree == timer = "sleep"

-----------------------------------------------------------------------------
(* The nodes in the order of the next pointers, as far as there are nodes. *)
Nth[k \in 0..Cardinality(Nodes)] ==
    IF k = 0 THEN Dummy
    ELSE LET prev == Nth[k - 1] IN IF prev = NULL THEN NULL ELSE next[prev]

Chain ==
    LET Reached == {k \in 1..Cardinality(Nodes) : Nth[k] \in Nodes} IN
    [i \in 1..Cardinality(Reached) |-> Nth[i]]

NextWithout(n) == [next EXCEPT ![last[n]] = next[n]]
\* Mutant: the node behind still points back at the one that was taken out.
LastWithout_Stale(n) == last
LastWithout(n) == IF next[n] = NULL THEN last
                  ELSE [last EXCEPT ![next[n]] = last[n]]

(* free(n): what is left in the node is of no account. *)
Blank(ptr, n) == [ptr EXCEPT ![n] = NULL]

(* Node n becomes the first node of the list given by nx and la. *)
LinkFirst(n, nx, la) ==
    /\ next' = [nx EXCEPT ![Dummy] = n, ![n] = nx[Dummy]]
    /\ last' = [x \in DOMAIN la |-> IF x = n THEN Dummy
                                    ELSE IF x = nx[Dummy] THEN n ELSE la[x]]

\* cache_put_rr when the record is in the list.
PutOld(r) ==
    /\ LockFree
    /\ \E i \in DOMAIN Chain :
         /\ C!rr_cmp(element[Chain[i]].rr, r)
         /\ \A k \in 1..i - 1 : ~C!rr_cmp(element[Chain[k]].rr, r)
         /\ LinkFirst(Chain[i], NextWithout(Chain[i]), LastWithout(Chain[i]))
    /\ UNCHANGED <<element, size, now, timerVars>>

\* Mutant: cache.size++ is missing.
PutNew_Uncounted(r, t) ==
    /\ LockFree
    /\ \A i \in DOMAIN Chain : ~C!rr_cmp(element[Chain[i]].rr, r)
    /\ \E n \in Free :
         /\ element' = [element EXCEPT ![n] = C!create_cache_node(r, t)]
         /\ LinkFirst(n, next, last)
    /\ UNCHANGED <<size, now, timerVars>>
\* cache_put_rr when it is not.
PutNew(r, t) ==
    /\ LockFree
    /\ \A i \in DOMAIN Chain : ~C!rr_cmp(element[Chain[i]].rr, r)
    /\ \E n \in Free :
         /\ element' = [element EXCEPT ![n] = C!create_cache_node(r, t)]
         /\ LinkFirst(n, next, last)
    /\ size' = size + 1
    /\ UNCHANGED <<now, timerVars>>

-----------------------------------------------------------------------------
(* refresh_cache *)

RefreshLock ==
    /\ timer = "sleep"
    /\ timer' = "walk"
    /\ tnow' = now
    /\ node' = next[Dummy]
    /\ cnt' = 0
    /\ UNCHANGED <<listVars, now>>

\* Mutant: the walk goes on past the node that makes the list full.
AfterNode_Late(c) == IF c > CacheSizeMax THEN "trim" ELSE "walk"
AfterNode(c) == IF c = CacheSizeMax THEN "trim" ELSE "walk"

FreeNode(n) ==
    /\ element' = [element EXCEPT ![n] = NULL]
    /\ size' = size - 1

RemoveExpired ==
    /\ timer = "walk" /\ node # NULL
    /\ element[node].expire <= tnow
    /\ next' = Blank(NextWithout(node), node)
    /\ last' = Blank(LastWithout(node), node)
    /\ FreeNode(node)
    /\ node' = next[node]
    /\ timer' = AfterNode(cnt)
    /\ UNCHANGED <<now, cnt, tnow>>

UpdateTtl ==
    /\ timer = "walk" /\ node # NULL
    /\ element[node].expire > tnow
    /\ element' = [element EXCEPT ![node].ttl = element[node].expire - tnow]
    /\ node' = next[node]
    /\ cnt' = cnt + 1
    /\ timer' = AfterNode(cnt + 1)
    /\ UNCHANGED <<next, last, size, now, tnow>>

TrimNext(n) == [next EXCEPT ![last[n]] = NULL]

\* Mutant: the walk does not leave the node it frees.
RemoveSurplus_Stays ==
    /\ timer = "trim" /\ node # NULL
    /\ next' = Blank(TrimNext(node), node)
    /\ last' = Blank(LastWithout(node), node)
    /\ FreeNode(node)
    /\ UNCHANGED <<now, timer, node, cnt, tnow>>
RemoveSurplus ==
    /\ timer = "trim" /\ node # NULL
    /\ next' = Blank(TrimNext(node), node)
    /\ last' = Blank(LastWithout(node), node)
    /\ FreeNode(node)
    /\ node' = next[node]
    /\ UNCHANGED <<now, timer, cnt, tnow>>

RefreshUnlock ==
    /\ timer # "sleep" /\ node = NULL
    /\ timer' = "sleep"
    /\ UNCHANGED <<listVars, now, node, cnt, tnow>>

Tick ==
    /\ now < MaxTime
    /\ now' = now + 1
    /\ UNCHANGED <<listVars, timerVars>>

init_cache ==
    /\ next = [n \in Nodes \cup {Dummy} |-> NULL]
    /\ last = [n \in Nodes \cup {Dummy} |-> NULL]
    /\ element = [n \in Nodes |-> NULL]
    /\ size = 0

Init ==
    /\ init_cache
    /\ now = 0
    /\ timer = "sleep" /\ node = NULL /\ cnt = 0 /\ tnow = 0

Next ==
    \/ \E r \in RRs : PutOld(r) \/ \E t \in TTLs : PutNew(r, t)
    \/ RefreshLock \/ RemoveExpired \/ UpdateTtl \/ RemoveSurplus \/ RefreshUnlock
    \/ Tick

Spec == Init /\ [][Next]_vars

-----------------------------------------------------------------------------
(* Properties *)

\* Pointers lead to nodes, and the timer's node is one of them.
TypeOK ==
    /\ next \in [Nodes \cup {Dummy} -> Nodes \cup {NULL}]
    /\ last \in [Nodes \cup {Dummy} -> Nodes \cup {Dummy, NULL}]
    /\ element \in [Nodes -> [rr : RRs, ttl : Nat, expire : Nat] \cup {NULL}]
    /\ size \in Nat /\ cnt \in Nat
    /\ now \in Nat /\ tnow \in 0..now
    /\ timer \in {"sleep", "walk", "trim"}
    /\ node \in Nodes \cup {NULL}

\* The timer never stands on a node that was freed.
NoUseAfterFree == node # NULL => node \notin Free

\* Between two critical sections the list is doubly linked and without a
\* cycle, it holds every allocated node, and size is its length.
ListWellFormed ==
    LockFree =>
        /\ {Chain[i] : i \in DOMAIN Chain} = Nodes \ Free
        /\ Len(Chain) = Cardinality(Nodes \ Free)
        /\ \A i \in DOMAIN Chain :
             last[Chain[i]] = IF i = 1 THEN Dummy ELSE Chain[i - 1]
        /\ size = Len(Chain)

-----------------------------------------------------------------------------
(* The list implements the cache: while the timer walks, the list stands for
   what it will be when the walk is over, that is the nodes already passed and,
   until the list is full, those ahead that have not expired. *)

NodesOf(s) == {s[i] : i \in 1..Len(s)}

\* The nodes of s from the first one to n.
Upto(s, n) == {s[i] : i \in {i \in 1..Len(s) : \E k \in i..Len(s) : s[k] = n}}

\* What v gives for the nodes of K, in the order of s.
Picked(s, K, i) == CHOOSE n \in K : Cardinality(Upto(s, n) \cap K) = i
Selection(s, K, v) == [i \in 1..Cardinality(K) |-> v[Picked(s, K, i)]]

Ahead(s) == {n \in NodesOf(s) : node \in Upto(s, n)}
LiveAhead(s, n) == {m \in Ahead(s) \cap Upto(s, n) : element[m].expire > tnow}
Staying(s) ==
    {n \in NodesOf(s) : \/ LockFree \/ n \notin Ahead(s)
                        \/ /\ timer = "walk" /\ n \in LiveAhead(s, n)
                           /\ cnt + Cardinality(LiveAhead(s, n)) <= CacheSizeMax}
Final(e) == IF LockFree THEN e ELSE [e EXCEPT !.ttl = e.expire - tnow]

AbstractOf(s) == Selection(s, Staying(s), [n \in Staying(s) |-> Final(element[n])])
\* AbstractOf(Chain); as a function so that TLC follows the pointers once.
Abstract == [s \in {Chain} |-> AbstractOf(s)][Chain]

Impl == INSTANCE Cache WITH entries <- Abstract, refreshed <- tnow
\* The linked list of cache.c, with the timer on its way through it, behaves as
\* the cache that is refreshed at once when the timer takes the lock.
ImplementsCache == Impl!Spec
=============================================================================
