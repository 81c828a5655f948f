---------------------------- MODULE MCCodeStore ----------------------------
(* Instances of CodeStore for TLC: one code; j2 and k2 are served by p2    *)
(* where there is a second process, every other job and call by p1.        *)
EXTENDS CodeStore

CONSTANTS p1, p2, j2, k2, c1

MCHome ==
    [t \in Jobs \cup Calls |-> IF p2 \in Procs /\ t \in {j2, k2} THEN p2 ELSE p1]

MCCodeOf == [t \in Jobs \cup Calls |-> c1]
=============================================================================
