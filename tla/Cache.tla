------------------------------- MODULE Cache -------------------------------
(***************************************************************************)
(* The record cache of src/storage/cache.c as its callers see it: a list   *)
(* of resource records, most recently put first, under one lock.  Every    *)
(* operation runs in one critical section of cache.lock and is one action  *)
(* here; CacheList models the linked list below it.                        *)
(*                                                                         *)
(* A record is [key, rdata]: key stands for its name, type and class,      *)
(* rdata is a sequence of bytes.  Time is tv_sec, in whole seconds.        *)
(***************************************************************************)
EXTENDS Integers, Sequences, FiniteSets

CONSTANTS RRs,           \* the records that may be put
          TTLs,          \* the ttls they may come with
          CacheSizeMax,  \* CACHE_SIZE_MAX
          MaxTime        \* bound: how far the clock runs

ASSUME CacheAssumption ==
    /\ \A r \in RRs : r.rdata \in Seq(0..255)
    /\ TTLs \subseteq Nat
    /\ CacheSizeMax \in Nat \ {0}
    /\ MaxTime \in Nat

VARIABLES entries,    \* the list: [rr, ttl, expire], the last put first
          now,        \* the clock
          refreshed   \* history: when refresh_cache last ran

cacheVars == <<entries, now, refreshed>>

Positions == 1..Len(entries)

-----------------------------------------------------------------------------
(* strncmp on rdata: bytes count up to the first one that is NUL in both. *)
SameBytes(a, b) ==
    \A i \in 1..Len(a) :
        a[i] = b[i] \/ \E k \in 1..i - 1 : a[k] = 0 /\ b[k] = 0

rr_cmp(r, s) ==
    /\ r.key = s.key
    /\ Len(r.rdata) = Len(s.rdata)
    /\ SameBytes(r.rdata, s.rdata)

Increasing(K) ==
    {g \in [1..Cardinality(K) -> K] : \A i, j \in DOMAIN g : i < j => g[i] < g[j]}

\* Mutant: the name, type and class are not compared.
cache_find_rr_Any(key) == {entries}
(* cache_find_rr: the records that match, copied in list order; the set has this
   one sequence as its element. *)
cache_find_rr(key) ==
    LET Matching == {k \in Positions : entries[k].rr.key = key} IN
    {[i \in 1..Cardinality(Matching) |-> entries[g[i]]] : g \in Increasing(Matching)}

create_cache_node(r, t) == [rr |-> r, ttl |-> t, expire |-> now + t]

Prepend(e, s) == [i \in 1..Len(s) + 1 |-> IF i = 1 THEN e ELSE s[i - 1]]

MoveToFront(s, k) ==
    [i \in 1..Len(s) |-> IF i = 1 THEN s[k] ELSE IF i <= k THEN s[i - 1] ELSE s[i]]

\* Mutant: a record that is cached already is cached once more.
cache_put_rr_Again(r, t) ==
    /\ entries' = Prepend(create_cache_node(r, t), entries)
    /\ UNCHANGED <<now, refreshed>>
\* Mutant: a record that is cached already is left where it is.
cache_put_rr_Lazy(r, t) ==
    /\ entries' = IF \E k \in Positions : rr_cmp(entries[k].rr, r)
                  THEN entries
                  ELSE Prepend(create_cache_node(r, t), entries)
    /\ UNCHANGED <<now, refreshed>>
\* Mutant: the old record is moved to the front with the ttl of the new one.
cache_put_rr_NewTtl(r, t) ==
    /\ \/ \E k \in Positions :
            /\ rr_cmp(entries[k].rr, r)
            /\ entries' = MoveToFront([entries EXCEPT ![k].ttl = t], k)
       \/ /\ \A k \in Positions : ~rr_cmp(entries[k].rr, r)
          /\ entries' = Prepend(create_cache_node(r, t), entries)
    /\ UNCHANGED <<now, refreshed>>
\* The first record that matches moves to the front as it is; only when there
\* is none is the new record copied, with its ttl and its expiry time.
cache_put_rr(r, t) ==
    /\ \/ \E k \in Positions :
            /\ rr_cmp(entries[k].rr, r)
            /\ \A i \in 1..k - 1 : ~rr_cmp(entries[i].rr, r)
            /\ entries' = MoveToFront(entries, k)
       \/ /\ \A k \in Positions : ~rr_cmp(entries[k].rr, r)
          /\ entries' = Prepend(create_cache_node(r, t), entries)
    /\ UNCHANGED <<now, refreshed>>

-----------------------------------------------------------------------------
(* One turn of the loop of refresh_cache. *)

\* Mutant: a record is removed one second late.
Live_Late(e) == e.expire >= now
Live(e) == e.expire > now

\* Mutant: the walk drops records from the wrong end of the list.
Kept_WrongEnd ==
    {k \in Positions : Live(entries[k]) /\
        Cardinality({i \in k..Len(entries) : Live(entries[i])}) <= CacheSizeMax}
\* The walk counts live records and drops all that follow the CacheSizeMax-th.
Kept ==
    {k \in Positions : Live(entries[k]) /\
        Cardinality({i \in 1..k : Live(entries[i])}) <= CacheSizeMax}

\* Mutant: the two times are subtracted the wrong way round.
Aged_Reversed(e) == [e EXCEPT !.ttl = now - e.expire]
Aged(e) == [e EXCEPT !.ttl = e.expire - now]

refresh_cache ==
    /\ \E g \in Increasing(Kept) :
         entries' = [i \in 1..Cardinality(Kept) |-> Aged(entries[g[i]])]
    /\ refreshed' = now
    /\ UNCHANGED now

Tick ==
    /\ now < MaxTime
    /\ now' = now + 1
    /\ UNCHANGED <<entries, refreshed>>

init_cache == entries = <<>> /\ now = 0 /\ refreshed = 0

Init == init_cache
Put == \E r \in RRs, t \in TTLs : cache_put_rr(r, t)
Next == Put \/ refresh_cache \/ Tick
Spec == Init /\ [][Next]_cacheVars

-----------------------------------------------------------------------------
(* Properties *)

\* Every entry is a record with a ttl and an expiry time.
TypeOK ==
    /\ entries \in Seq([rr : RRs, ttl : Nat, expire : Nat])
    /\ now \in Nat
    /\ refreshed \in 0..now

\* No two entries are the same record for rr_cmp, however often and by
\* however many workers a record is put.
NoDuplicates ==
    \A i, k \in Positions : rr_cmp(entries[i].rr, entries[k].rr) => i = k

\* The ttl a client is told never falls short of the time the entry still
\* has, and overstates it by no more than the time since the last refresh.
TtlIsFresh ==
    \A k \in Positions :
        LET overstated == entries[k].ttl - (entries[k].expire - now) IN
        overstated \in 0..(now - refreshed)

\* The timer removes every record whose time has run out, although the workers
\* may keep moving it to the front.
ExpiredIsRemoved ==
    \A r \in RRs :
        LET Expired == \E k \in Positions :
                          entries[k].rr = r /\ entries[k].expire <= now
        IN Expired ~> ~Expired
=============================================================================
