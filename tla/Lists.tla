------------------------------- MODULE Lists -------------------------------
(* What the code does to lists in one expression: comprehensions that keep *)
(* the items a condition allows, sorted(), and dictionaries that keep what *)
(* is new in the order it came.  The community modules say the same with   *)
(* operators as parameters; these take sets, which proofs can quantify.    *)
EXTENDS Integers, Sequences, FiniteSets

\* The items of seq that are in S, in their order.
Sift(seq, S) ==
    LET kept[n \in 0..Len(seq)] ==
            IF n = 0 THEN <<>>
            ELSE IF seq[n] \in S THEN Append(kept[n - 1], seq[n]) ELSE kept[n - 1]
    IN  kept[Len(seq)]

\* The first place of seq at which an item of S stands, 0 if there is none.
PlaceOf(seq, S) ==
    LET at == {i \in 1..Len(seq) : seq[i] \in S}
    IN  IF at = {} THEN 0 ELSE CHOOSE i \in at : \A j \in at : i <= j

Total(seq) ==
    LET sum[n \in 0..Len(seq)] == IF n = 0 THEN 0 ELSE sum[n - 1] + seq[n]
    IN  sum[Len(seq)]

\* Where matches begin that are taken from left to right and never overlap, as
\* finditer takes them: stops[i] is where one from i stops, 0 if none begins at i.
LeftToRight(stops) ==
    LET taken[i \in 0..Len(stops)] ==
            IF i = 0 THEN <<>>
            ELSE LET before == taken[i - 1]
                 IN  IF stops[i] = 0 \/ (before # <<>> /\ i < stops[before[Len(before)]])
                     THEN before ELSE Append(before, i)
    IN  taken[Len(stops)]

\* The places of a list in the order to come, given for each place the set of
\* those ahead of it: what comes k-th has k - 1 ahead.
Arranged(ahead) ==
    [k \in DOMAIN ahead |-> CHOOSE i \in DOMAIN ahead : Cardinality(ahead[i]) = k - 1]

\* The distinct items of seq in the order in which they are first seen.
FirstSeen(seq) ==
    LET places == [i \in 1..Len(seq) |-> i]
        firsts == Sift(places, {i \in 1..Len(seq) : \A j \in 1..(i - 1) : seq[j] # seq[i]})
    IN  [k \in 1..Len(firsts) |-> seq[firsts[k]]]
=============================================================================
