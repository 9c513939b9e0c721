---------------------------- MODULE CacheRecency ----------------------------
(* The cache with a history of the order in which its records were put, for the
   properties that make it a cache of the most recent ones. *)
EXTENDS Cache

VARIABLE later  \* history: pairs of records, the first put after the second's last put

recencyVars == <<cacheVars, later>>

\* After a put of r, the records that rr_cmp takes for r are later than all
\* others, which keep their order.
PutAndNote(r, t) ==
    /\ cache_put_rr(r, t)
    /\ later' = {p \in RRs \X RRs :
                    ~rr_cmp(p[2], r) /\ (rr_cmp(p[1], r) \/ p \in later)}

RecencyInit == Init /\ later = {}
RecencyNext ==
    \/ \E r \in RRs, t \in TTLs : PutAndNote(r, t)
    \/ refresh_cache /\ UNCHANGED later
    \/ Tick /\ UNCHANGED later
RecencySpec == RecencyInit /\ [][RecencyNext]_recencyVars

-----------------------------------------------------------------------------
(* Properties *)

\* The list is ordered by the last put of each record, whether that put found
\* the record in the cache, found it expired or brought it back.
LastPutFirst ==
    \A i, k \in Positions : i < k => <<entries[i].rr, entries[k].rr>> \in later

\* When e leaves the cache alive, the cache is full of records put after it.
EvictedFor(e) ==
    LET After == 1..Len(entries') IN
    e.expire > now /\ (\A i \in After : entries'[i].rr # e.rr) =>
        /\ Len(entries') = CacheSizeMax
        /\ \A i \in After : <<entries'[i].rr, e.rr>> \in later

\* cache.h:22, "LRU enabled": a record that still has time to live leaves the
\* cache only for CacheSizeMax records that were all put after it.
LeastRecentEvicted == [][\A k \in Positions : EvictedFor(entries[k])]_recencyVars

\* cache.c:48, "strictly match a specific rr": the record that was put last is
\* in the cache after the put.
PutIsStored ==
    [][\A r \in RRs, t \in TTLs :
         PutAndNote(r, t) => \E k \in 1..Len(entries') : entries'[k].rr = r]_recencyVars
=============================================================================
