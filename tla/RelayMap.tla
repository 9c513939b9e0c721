------------------------------ MODULE RelayMap ------------------------------
(***************************************************************************)
(* What the relay database promises: for each name and type the first      *)
(* RRCntMax different records that were inserted, in that order, and       *)
(* nothing under any name that was not inserted.                           *)
(***************************************************************************)
EXTENDS Integers, Sequences

CONSTANTS Names, Types, Datas, RRCntMax

VARIABLE records  \* records[name][type], a sequence of rdata

Init == records = [n \in Names |-> [t \in Types |-> <<>>]]

Insert(n, t, d) ==
    /\ Len(records[n][t]) < RRCntMax
    /\ \A i \in DOMAIN records[n][t] : records[n][t][i] # d
    /\ records' = [records EXCEPT ![n][t] = Append(records[n][t], d)]

Next == \E n \in Names, t \in Types, d \in Datas : Insert(n, t, d)

Spec == Init /\ [][Next]_records
=============================================================================
