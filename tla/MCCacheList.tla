---- MODULE MCCacheList ----
(* Three classes of records on a list that is trimmed to one node;
   the clock may move during a walk. *)
EXTENDS CacheList, TLC
MCRRs == {[key |-> "k1", rdata |-> <<1, 0>>], [key |-> "k1", rdata |-> <<0, 1>>],
          [key |-> "k2", rdata |-> <<0, 1>>]}
Symmetry == Permutations(Nodes)
====
