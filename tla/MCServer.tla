------------------------------ MODULE MCServer ------------------------------
(* Two workers and a ring of one slot; two clients, so that a reply or a
   descriptor can reach the wrong one: one asks, the other sends what is no
   request. *)
EXTENDS Server

CONSTANTS c1, c2

Packet(c, kind) == [from |-> c, kind |-> kind]
MCPackets == {Packet(c1, "query"), Packet(c2, "response"), Packet(c2, "truncated")}
Short == {Packet(c1, "query"), Packet(c2, "short")}
=============================================================================
