------------------------------ MODULE MCCodec ------------------------------
(* Names of one, two and three labels, each the end of the next, so that each
   can be a pointer into another; the second has the greatest length allowed,
   the third is longer. *)
EXTENDS Codec

B == <<<<98>>>>
AB == <<<<97>>, <<98>>>>
AAB == <<<<97>>, <<97>>, <<98>>>>

Request == [id |-> 258, misc1 |-> 1, misc2 |-> 0]
Response == [id |-> 1, misc1 |-> 129, misc2 |-> 128]
Truncated == [id |-> 1, misc1 |-> 131, misc2 |-> 128]
MCHeaders == {Request, Response, Truncated}
MCOtherIds == {513, 65535}

Q(name) == [name |-> name, type |-> RRTYPE_A, class |-> 1]
RR(name, type, pre, names, post) ==
    [name |-> name, type |-> type, class |-> 1, ttl |-> 65537,
     pre |-> pre, names |-> names, post |-> post]
A(name) == RR(name, RRTYPE_A, <<1, 0, 255, 192>>, <<>>, <<>>)
CNAME(name, to) == RR(name, RRTYPE_CNAME, <<>>, <<to>>, <<>>)
MX(name, to) == RR(name, RRTYPE_MX, <<0, 10>>, <<to>>, <<>>)
SOA(name, m, r) == RR(name, RRTYPE_SOA, <<>>, <<m, r>>, [i \in 1..20 |-> i])
OPT == [RR(<<>>, RRTYPE_OPT, <<>>, <<>>, <<>>) EXCEPT !.class = 1232, !.ttl = 0]

MCQuestions == {Q(B), Q(AB)}
MCRecords == [s \in 2..4 |-> CASE s = 2 -> {A(AB), CNAME(AB, B), A(AAB)}
                               [] s = 3 -> {MX(B, AB), SOA(B, AB, B)}
                               [] s = 4 -> {A(B), OPT}]
=============================================================================
