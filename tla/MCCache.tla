------------------------------ MODULE MCCache ------------------------------
(* Four records, of which two differ only behind a NUL byte of their rdata, as
   the addresses 10.0.0.1 and 10.0.0.2 do. *)
EXTENDS CacheRecency, TLC

MCRRs == {[key |-> "k1", rdata |-> <<0, 1>>], [key |-> "k1", rdata |-> <<0, 2>>],
          [key |-> "k1", rdata |-> <<1, 0>>], [key |-> "k2", rdata |-> <<0, 1>>]}

(* The timer thread runs for ever; the clock need not move. *)
MCFairSpec == RecencySpec /\ WF_recencyVars(refresh_cache /\ UNCHANGED later)
=============================================================================
