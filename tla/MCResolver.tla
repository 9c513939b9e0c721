----------------------------- MODULE MCResolver -----------------------------
(* Names: up is known to the external server only, which gives a record of rel
   along with it, as at the end of a chain of aliases; rel and blk are in the
   relay database, blk with a blocking address; none is known to nobody and long
   is too long.  The relay's records have class IN; rel is also asked for in
   class CH. *)
EXTENDS Resolver

Inet(name) == [name |-> name, class |-> "IN"]
Chaos(name) == [name |-> name, class |-> "CH"]
U1 == [key |-> Inet("up"), rdata |-> <<1, 1, 1, 1>>]
D1 == [key |-> Inet("rel"), rdata |-> <<7, 7, 7, 7>>]
D2 == [key |-> Inet("rel"), rdata |-> <<9, 9, 9, 9>>]
D3 == [key |-> Inet("rel"), rdata |-> <<8, 8, 8, 8>>]
B2 == [key |-> Inet("blk"), rdata |-> <<6, 6, 6, 6>>]
B1 == [key |-> Inet("blk"), rdata |-> <<0, 0, 0, 0>>]
With(t, rr) == [rr |-> rr, ttl |-> t]

MCRRs == {U1, D1, D2, D3, B1, B2}
MCNames == {"up", "rel", "blk", "none", "long"}
MCDB == [n \in MCNames |-> CASE n = "rel" -> <<With(0, D1), With(0, D3)>>
                             [] n = "blk" -> <<With(0, B2), With(0, B1)>>
                             [] OTHER -> <<>>]
MCUpstream == [k \in {Inet(n) : n \in MCNames} \cup {Chaos("rel")} |->
                 CASE k = Inet("up") -> {<<With(1, U1), With(1, D2)>>}
                   [] OTHER -> {<<>>}]

Ask(id, op, qs) == [id |-> id, opcode |-> op, questions |-> qs]
Query(qs) == Ask(1, "query", qs)
MCQueries == {Query(<<Inet("up")>>), Query(<<Inet("blk")>>), Query(<<Inet("rel")>>),
              Query(<<Chaos("rel"), Inet("none")>>), Query(<<Inet("long")>>),
              Query(<<Inet("up"), Inet("up")>>), Ask(1, "status", <<Inet("long")>>), Query(<<>>)}
MCBadNames == {Inet("long")}
OneName == {Query(<<Inet("up")>>)}
=============================================================================
