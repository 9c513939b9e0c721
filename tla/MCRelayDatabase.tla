-------------------------- MODULE MCRelayDatabase --------------------------
(* Three labels, two of which have the same hash, in names of one or two
   labels; nodes switch to buckets at the second label. One name has three
   addresses, one more than are kept, and an IPv6 address. Two lines have a
   field missing. *)
EXTENDS RelayDatabase, TLC

L == {"a", "b", "c"}
MCNames == {<<x>> : x \in L} \cup {<<x, y>> : x \in L, y \in {"b"}}
MCLower == [x \in L \cup {"A"} |-> IF x = "A" THEN "a" ELSE x]
MCHash == [x \in L \cup {"A"} |-> IF x = "c" THEN 1 ELSE 0]
V4(d) == [type |-> "A", data |-> d]
V6(d) == [type |-> "AAAA", data |-> d]
Line(addr, name) == [addr |-> addr, name |-> name]

TooLong == Line(V4(3), <<"b">>)
MCLongLines == {TooLong}
MCLines == {Line(V4(1), <<"a">>), Line(V4(2), <<"a">>), Line(V4(3), <<"a">>),
            Line(V6(1), <<"a">>), Line(V4(1), <<"b">>), Line(V4(1), <<"c">>),
            Line(V4(1), <<"A", "b">>), Line(V4(1), <<"b", "b">>),
            Line(V4(2), <<"c", "b">>), Line(BadAddr, <<"a">>), Line(V4(3), <<"c", "a", "b">>),
            Line(V4(2), Missing), Line(Missing, Missing), TooLong}
MCLong == {<<"c", "a", "b">>}
MCGarbage == {Line(BadAddr, <<>>), Line(V4(2), <<"A", "b">>)}
=============================================================================
