---------------------------- MODULE MCRateLimit ----------------------------
(* Addresses for RateLimit: two of one /64 and an IPv4 one in its mapped  *)
(* form.                                                                   *)
EXTENDS RateLimit, TLC

CONSTANTS r1, r2

TwoClients ==
    { [kind |-> "v6", net |-> 1, host |-> 1], [kind |-> "v6", net |-> 1, host |-> 2],
      [kind |-> "mapped", net |-> 4, host |-> 1] }

Symmetry == Permutations(Requests)
=============================================================================
