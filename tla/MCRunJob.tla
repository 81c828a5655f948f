------------------------------ MODULE MCRunJob ------------------------------
(* Instances of RunJob for TLC: one job for two personas, watched by every *)
(* stream.                                                                 *)
EXTENDS RunJob

CONSTANTS j1, a, b

TwoInOrder == <<a, b>>
MCWatches  == [s \in Streams |-> j1]
=============================================================================
