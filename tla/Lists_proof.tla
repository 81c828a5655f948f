---------------------------- MODULE Lists_proof ----------------------------
(***************************************************************************)
(* What the recursive functions of the model compute: first-order          *)
(* induction and recursion on the naturals, and what they give about       *)
(* sifting a sequence and flattening one; and what the other operators on  *)
(* lists promise: sorting one, and keeping what is new in it.              *)
(***************************************************************************)
EXTENDS Lists, SequencesExt, FiniteSetTheorems, SequenceTheorems, WellFoundedInduction, TLAPS

\* Induction, on sets instead of predicates.
LEMMA InductionOnNat ==
    ASSUME NEW S \in SUBSET Nat, 0 \in S, \A n \in S : n + 1 \in S
    PROVE  S = Nat
  <1> DEFINE T == Nat \ S
  <1>1. SUFFICES ASSUME T # {} PROVE FALSE
    OBVIOUS
  <1>2. \E x \in T : \A y \in T : ~(<<y, x>> \in OpToRel(<, Nat))
    BY <1>1, NatLessThanWellFounded, WFMin, Zenon
  <1>3. PICK x \in T : \A y \in T : ~(<<y, x>> \in OpToRel(<, Nat))
    BY <1>2, Zenon
  <1>4. x # 0 /\ x - 1 \in Nat /\ x - 1 < x
    OBVIOUS
  <1>5. <<x - 1, x>> \in OpToRel(<, Nat)
    BY <1>4 DEF OpToRel
  <1>6. x - 1 \in S
    BY <1>3, <1>4, <1>5
  <1>7. QED
    BY <1>4, <1>6

\* The same up to a bound.
LEMMA InductionUpTo ==
    ASSUME NEW N \in Nat, NEW S \in SUBSET (0..N), 0 \in S,
           \A n \in 1..N : n - 1 \in S => n \in S
    PROVE  S = 0..N
  <1> DEFINE T == {n \in Nat : n <= N => n \in S}
  <1>1. T \in SUBSET Nat /\ 0 \in T
    OBVIOUS
  <1>2. \A n \in T : n + 1 \in T
    <2> SUFFICES ASSUME NEW n \in T, n + 1 <= N PROVE n + 1 \in S
      OBVIOUS
    <2>1. n \in S /\ n + 1 \in 1..N /\ (n + 1) - 1 = n
      OBVIOUS
    <2>2. QED
      BY <2>1
  <1>3. T = Nat
    <2> HIDE DEF T
    <2>1. QED
      BY <1>1, <1>2, InductionOnNat
  <1>4. \A n \in 0..N : n \in S
    BY <1>3
  <1>5. QED
    BY <1>4

\* A function of the naturals up to N may be given by recursion.
Steps(step, N, V) == step \in [1..N -> [V -> V]]
Recurs(f, b, step, N, V) ==
    /\ f \in [0..N -> V] /\ f[0] = b
    /\ \A n \in 1..N : f[n] = step[n][f[n - 1]]

LEMMA RecursionUpTo ==
    ASSUME NEW V, NEW b \in V, NEW N \in Nat, NEW step, Steps(step, N, V)
    PROVE  \E f : Recurs(f, b, step, N, V)
  <1> DEFINE S == {k \in 0..N : \E f : Recurs(f, b, step, k, V)}
  <1>0. \A n \in 1..N : \A v \in V : step[n][v] \in V
    BY DEF Steps
  <1>1. S \in SUBSET (0..N)
    OBVIOUS
  <1>2. 0 \in S
    <2>1. Recurs([n \in 0..0 |-> b], b, step, 0, V)
      BY DEF Recurs
    <2>2. QED
      BY <2>1
  <1>3. ASSUME NEW n \in 1..N, n - 1 \in S PROVE n \in S
    <2>1. PICK f : Recurs(f, b, step, n - 1, V)
      BY <1>3
    <2> DEFINE g == [m \in 0..n |-> IF m = n THEN step[n][f[n - 1]] ELSE f[m]]
    <2>2. n - 1 \in 0..(n - 1) /\ n \in Nat /\ n # 0
      OBVIOUS
    <2>3. f[n - 1] \in V /\ step[n][f[n - 1]] \in V
      BY <1>0, <2>1, <2>2 DEF Recurs
    <2>4. \A m \in 0..n : m = n \/ m \in 0..(n - 1)
      OBVIOUS
    <2>5. g \in [0..n -> V] /\ g[0] = b /\ g[n] = step[n][f[n - 1]]
          /\ \A m \in 0..(n - 1) : g[m] = f[m]
      BY <2>1, <2>2, <2>3, <2>4 DEF Recurs
    <2> HIDE DEF g
    <2>6. ASSUME NEW m \in 1..n PROVE g[m] = step[m][g[m - 1]]
      <3>1. m - 1 \in 0..(n - 1)
        OBVIOUS
      <3>2. CASE m = n
        BY <2>5, <3>1, <3>2
      <3>3. CASE m # n
        <4>1. m \in 1..(n - 1) /\ m \in 0..(n - 1)
          BY <3>3
        <4>2. QED
          BY <2>1, <2>5, <3>1, <4>1 DEF Recurs
      <3>4. QED
        BY <3>2, <3>3
    <2>7. Recurs(g, b, step, n, V)
      BY <2>5, <2>6 DEF Recurs
    <2>8. QED
      BY <2>7
  <1>4. S = 0..N
    <2> HIDE DEF S
    <2>1. QED
      BY <1>1, <1>2, <1>3, InductionUpTo
  <1>5. N \in S
    BY <1>4
  <1>6. QED
    BY <1>5

\* A set of naturals has a least.
LEMMA LeastOf ==
    ASSUME NEW S \in SUBSET Nat, S # {}
    PROVE  \E m \in S : \A k \in S : m <= k
  <1>1. \E x \in S : \A y \in S : ~(<<y, x>> \in OpToRel(<, Nat))
    BY NatLessThanWellFounded, WFMin, Zenon
  <1>2. PICK x \in S : \A y \in S : ~(<<y, x>> \in OpToRel(<, Nat))
    BY <1>1, Zenon
  <1>3. ASSUME NEW y \in S PROVE x <= y
    <2>1. SUFFICES ASSUME y < x PROVE FALSE
      OBVIOUS
    <2>2. <<y, x>> \in OpToRel(<, Nat)
      BY <2>1 DEF OpToRel
    <2>3. QED
      BY <1>2, <2>2
  <1>4. QED
    BY <1>3

-----------------------------------------------------------------------------
(* The items of a sequence.                                                *)

\* A sequence is one of its own items, all of them from T.
LEMMA SeqOfItsItems ==
    ASSUME NEW T, NEW s \in Seq(T)
    PROVE  s \in Seq(ToSet(s)) /\ ToSet(s) \subseteq T
  <1>1. Len(s) \in Nat /\ DOMAIN s = 1..Len(s) /\ s \in [1..Len(s) -> T] /\ \A i \in 1..Len(s) : s[i] \in T
    BY LenProperties, ElementOfSeq
  <1>2. \A i \in 1..Len(s) : s[i] \in ToSet(s)
    BY <1>1 DEF ToSet
  <1>3. [i \in 1..Len(s) |-> s[i]] \in Seq(ToSet(s)) /\ s = [i \in 1..Len(s) |-> s[i]]
    BY <1>1, <1>2, IsASeq
  <1>4. QED
    BY <1>1, <1>3 DEF ToSet

\* Its items are what stands at its places.
LEMMA SeqMeets ==
    ASSUME NEW T, NEW s \in Seq(T), NEW x
    PROVE  /\ x \in ToSet(s) <=> \E i \in 1..Len(s) : s[i] = x
           /\ s # <<>> <=> ToSet(s) # {}
           /\ s # <<>> => Head(s) \in ToSet(s)
  <1>1. Len(s) \in Nat /\ DOMAIN s = 1..Len(s) /\ (s # <<>> => Len(s) # 0)
    BY LenProperties, EmptySeq
  <1>2. s # <<>> => 1 \in 1..Len(s) /\ Head(s) = s[1]
    BY <1>1
  <1>3. s = <<>> => ToSet(s) = {}
    BY DEF ToSet
  <1>4. QED
    BY <1>1, <1>2, <1>3 DEF ToSet

\* A sequence has no more items than places.
LEMMA ItemsOfSeq ==
    ASSUME NEW T, NEW s \in Seq(T)
    PROVE  IsFiniteSet(ToSet(s)) /\ Cardinality(ToSet(s)) <= Len(s) /\ Cardinality(ToSet(s)) \in Nat
  <1> DEFINE S == 1..Len(s)
             f == [i \in S |-> s[i]]
  <1>1. Len(s) \in Nat /\ DOMAIN s = S
    BY LenProperties
  <1>2. IsFiniteSet(S) /\ Cardinality(S) = Len(s)
    BY <1>1, FS_Interval
  <1>3. f \in Surjection(S, ToSet(s))
    BY <1>1 DEF Surjection, ToSet
  <1>4. QED
    BY <1>2, <1>3, FS_Surjection, FS_CardinalityType

-----------------------------------------------------------------------------
(* Sift.                                                                   *)

SiftStep(seq, S, s, n) == IF seq[n] \in S THEN Append(s, seq[n]) ELSE s
Sifts(seq, S, N, f) ==
    f = [n \in 0..N |-> IF n = 0 THEN <<>> ELSE SiftStep(seq, S, f[n - 1], n)]
SiftRun(seq, S, T, f) ==
    /\ f \in [0..Len(seq) -> Seq(T)]
    /\ f[0] = <<>> /\ Sift(seq, S) = f[Len(seq)]
    /\ \A n \in 1..Len(seq) : f[n] = SiftStep(seq, S, f[n - 1], n)

LEMMA SiftUnfolds ==
    ASSUME NEW T, NEW seq \in Seq(T), NEW S
    PROVE  \E f : SiftRun(seq, S, T, f)
  <1> DEFINE N == Len(seq)
             V == Seq(T)
             b == <<>>
             step == [n \in 1..N |-> [s \in V |-> SiftStep(seq, S, s, n)]]
             k == CHOOSE f : Sifts(seq, S, N, f)
  <1>1. N \in Nat /\ \A n \in 1..N : seq[n] \in T
    BY LenProperties, ElementOfSeq
  <1>2. Sift(seq, S) = k[N]
    BY DEF Sift, Sifts, SiftStep
  <1>3. b \in V
    OBVIOUS
  <1>4. \A s \in V : \A n \in 1..N : SiftStep(seq, S, s, n) \in V
    BY <1>1, AppendProperties DEF SiftStep
  <1> HIDE DEF N, V, k
  <1>5. PICK f : Recurs(f, b, step, N, V)
    <2>1. Steps(step, N, V)
      BY <1>4 DEF Steps
    <2> HIDE DEF step, b
    <2>2. QED
      BY <1>1, <1>3, <2>1, RecursionUpTo
  <1>6. Sifts(seq, S, N, f)
    <2>1. \A n \in 0..N : f[n] = IF n = 0 THEN <<>> ELSE SiftStep(seq, S, f[n - 1], n)
      <3>1. \A n \in 1..N : n - 1 \in 0..N
        BY <1>1
      <3>2. \A n \in 1..N : f[n] = SiftStep(seq, S, f[n - 1], n)
        BY <1>5, <3>1 DEF Recurs
      <3>3. QED
        BY <1>1, <1>5, <3>2 DEF Recurs
    <2>2. QED
      BY <1>5, <2>1 DEF Recurs, Sifts
  <1>7. Sifts(seq, S, N, k)
    BY <1>6 DEF k
  <1>8. k[0] = <<>> /\ \A n \in 1..N : k[n] = SiftStep(seq, S, k[n - 1], n)
    BY <1>1, <1>7 DEF Sifts
  <1>9. k \in [0..N -> V]
    <2> DEFINE D == {n \in 0..N : k[n] \in V}
    <2>1. 0 \in D
      BY <1>1, <1>3, <1>8
    <2>2. \A n \in 1..N : n - 1 \in D => n \in D
      BY <1>1, <1>4, <1>8
    <2>3. D = 0..N
      <3>1. D \in SUBSET (0..N)
        OBVIOUS
      <3> HIDE DEF D
      <3>2. QED
        BY <1>1, <2>1, <2>2, <3>1, InductionUpTo
    <2>4. QED
      BY <1>7, <2>3 DEF Sifts
  <1>10. SiftRun(seq, S, T, k)
    BY <1>2, <1>8, <1>9 DEF N, V, SiftRun
  <1>11. QED
    BY <1>10

\* Sifting keeps only what the set has, and adds nothing.
LEMMA SiftKeeps ==
    ASSUME NEW T, NEW seq \in Seq(T), NEW S
    PROVE  Sift(seq, S) \in Seq(T \cap S) /\ Len(Sift(seq, S)) <= Len(seq)
  <1> DEFINE N == Len(seq)
  <1>1. N \in Nat /\ \A n \in 1..N : seq[n] \in T
    BY LenProperties, ElementOfSeq
  <1>0. PICK f : SiftRun(seq, S, T, f)
    BY SiftUnfolds
  <1> HIDE DEF N
  <1>2. /\ f \in [0..N -> Seq(T)] /\ f[0] = <<>> /\ Sift(seq, S) = f[N]
        /\ \A n \in 1..N : f[n] = SiftStep(seq, S, f[n - 1], n)
    BY <1>0 DEF N, SiftRun
  <1> DEFINE D == {n \in 0..N : f[n] \in Seq(T \cap S) /\ Len(f[n]) <= n}
  <1>3. 0 \in D
    BY <1>1, <1>2
  <1>4. ASSUME NEW n \in 1..N, n - 1 \in D PROVE n \in D
    <2>1. f[n - 1] \in Seq(T \cap S) /\ Len(f[n - 1]) <= n - 1 /\ Len(f[n - 1]) \in Nat
      BY <1>4
    <2>2. CASE seq[n] \in S
      <3>1. seq[n] \in T \cap S /\ f[n] = Append(f[n - 1], seq[n])
        BY <1>1, <1>2, <2>2 DEF SiftStep
      <3>2. f[n] \in Seq(T \cap S) /\ Len(f[n]) = Len(f[n - 1]) + 1
        BY <2>1, <3>1, AppendProperties
      <3>3. QED
        BY <2>1, <3>2
    <2>3. CASE seq[n] \notin S
      BY <1>2, <2>1, <2>3 DEF SiftStep
    <2>4. QED
      BY <2>2, <2>3
  <1>5. D = 0..N
    <2>1. D \in SUBSET (0..N)
      OBVIOUS
    <2> HIDE DEF D
    <2>2. QED
      BY <1>1, <1>3, <1>4, <2>1, InductionUpTo
  <1>6. QED
    BY <1>1, <1>2, <1>5 DEF N

\* Sifting loses nothing that the set has.
LEMMA SiftFinds ==
    ASSUME NEW T, NEW seq \in Seq(T), NEW S, NEW i \in 1..Len(seq), seq[i] \in S
    PROVE  \E j \in 1..Len(Sift(seq, S)) : Sift(seq, S)[j] = seq[i]
  <1> DEFINE N == Len(seq)
  <1>1. N \in Nat /\ \A n \in 1..N : seq[n] \in T
    BY LenProperties, ElementOfSeq
  <1>0. PICK f : SiftRun(seq, S, T, f)
    BY SiftUnfolds
  <1> HIDE DEF N
  <1>2. /\ f \in [0..N -> Seq(T)] /\ f[0] = <<>> /\ Sift(seq, S) = f[N]
        /\ \A n \in 1..N : f[n] = SiftStep(seq, S, f[n - 1], n)
    BY <1>0 DEF N, SiftRun
  <1> DEFINE D == {n \in 0..N : \A m \in 1..n : seq[m] \in S => \E j \in 1..Len(f[n]) : f[n][j] = seq[m]}
  <1>3. 0 \in D
    BY <1>1
  <1>4. ASSUME NEW n \in 1..N, n - 1 \in D PROVE n \in D
    <2> DEFINE g == f[n - 1]
    <2>1. g \in Seq(T) /\ n - 1 \in 0..N /\ seq[n] \in T /\ n \in 0..N
      BY <1>1, <1>2
    <2>2. f[n] = IF seq[n] \in S THEN Append(g, seq[n]) ELSE g
      BY <1>2 DEF SiftStep
    <2>3. \A m \in 1..(n - 1) : seq[m] \in S => \E j \in 1..Len(g) : g[j] = seq[m]
      BY <1>4
    <2> HIDE DEF g
    <2>4. Len(g) \in Nat
      BY <2>1, LenProperties
    <2> SUFFICES ASSUME NEW m \in 1..n, seq[m] \in S PROVE \E j \in 1..Len(f[n]) : f[n][j] = seq[m]
      BY <2>1
    <2>5. CASE seq[n] \in S
      <3>1. /\ f[n] = Append(g, seq[n]) /\ Len(f[n]) = Len(g) + 1
            /\ f[n][Len(g) + 1] = seq[n] /\ \A j \in 1..Len(g) : f[n][j] = g[j]
        BY <2>1, <2>2, <2>5, AppendProperties
      <3>2. CASE m = n
        <4>1. Len(g) + 1 \in 1..Len(f[n])
          BY <2>4, <3>1
        <4>2. QED
          BY <3>1, <3>2, <4>1
      <3>3. CASE m # n
        <4>1. m \in 1..(n - 1)
          BY <3>3
        <4>2. PICK j \in 1..Len(g) : g[j] = seq[m]
          BY <2>3, <4>1
        <4>3. j \in 1..Len(f[n]) /\ f[n][j] = seq[m]
          BY <2>4, <3>1, <4>2
        <4>4. QED
          BY <4>3
      <3>4. QED
        BY <3>2, <3>3
    <2>6. CASE seq[n] \notin S
      <3>1. m \in 1..(n - 1) /\ f[n] = g
        BY <2>2, <2>6
      <3>2. QED
        BY <2>3, <3>1
    <2>7. QED
      BY <2>5, <2>6
  <1>5. D = 0..N
    <2>1. D \in SUBSET (0..N)
      OBVIOUS
    <2> HIDE DEF D
    <2>2. QED
      BY <1>1, <1>3, <1>4, <2>1, InductionUpTo
  <1>6. N \in D /\ i \in 1..N
    BY <1>1, <1>5 DEF N
  <1>7. QED
    BY <1>2, <1>6

\* What is left first is the first item that the set has.
FirstIn(seq, S, k) == seq[k] \in S /\ \A j \in 1..(k - 1) : seq[j] \notin S

LEMMA SiftHead ==
    ASSUME NEW T, NEW seq \in Seq(T), NEW S, Sift(seq, S) # <<>>
    PROVE  \E k \in 1..Len(seq) : FirstIn(seq, S, k) /\ Head(Sift(seq, S)) = seq[k]
  <1> DEFINE N == Len(seq)
  <1>1. N \in Nat /\ \A n \in 1..N : seq[n] \in T
    BY LenProperties, ElementOfSeq
  <1>0. PICK f : SiftRun(seq, S, T, f)
    BY SiftUnfolds
  <1> HIDE DEF N
  <1>2. /\ f \in [0..N -> Seq(T)] /\ f[0] = <<>> /\ Sift(seq, S) = f[N]
        /\ \A n \in 1..N : f[n] = SiftStep(seq, S, f[n - 1], n)
    BY <1>0 DEF N, SiftRun
  <1> DEFINE Starts(n) ==
                \/ Len(f[n]) = 0 /\ \A j \in 1..n : seq[j] \notin S
                \/ Len(f[n]) # 0 /\ \E k \in 1..n : FirstIn(seq, S, k) /\ f[n][1] = seq[k]
             D == {n \in 0..N : Starts(n)}
  <1>3. 0 \in D
    BY <1>1, <1>2
  <1>4. ASSUME NEW n \in 1..N, n - 1 \in D PROVE n \in D
    <2> DEFINE g == f[n - 1]
    <2>1. g \in Seq(T) /\ n - 1 \in 0..N /\ seq[n] \in T /\ n \in 0..N
      BY <1>1, <1>2
    <2>2. f[n] = IF seq[n] \in S THEN Append(g, seq[n]) ELSE g
      BY <1>2 DEF SiftStep
    <2>3. \/ Len(g) = 0 /\ \A j \in 1..(n - 1) : seq[j] \notin S
          \/ Len(g) # 0 /\ \E k \in 1..(n - 1) : FirstIn(seq, S, k) /\ g[1] = seq[k]
      BY <1>4
    <2> HIDE DEF g
    <2>4. Len(g) \in Nat
      BY <2>1, LenProperties
    <2>5. Starts(n)
      <3>1. CASE seq[n] \in S
        <4>1. /\ Len(f[n]) = Len(g) + 1
              /\ f[n][Len(g) + 1] = seq[n] /\ \A j \in 1..Len(g) : f[n][j] = g[j]
          BY <2>1, <2>2, <3>1, AppendProperties
        <4>2. CASE Len(g) = 0
          <5>1. FirstIn(seq, S, n) /\ f[n][1] = seq[n] /\ n \in 1..n
            BY <2>3, <3>1, <4>1, <4>2 DEF FirstIn
          <5>2. QED
            BY <4>1, <4>2, <5>1
        <4>3. CASE Len(g) # 0
          <5>1. 1 \in 1..Len(g) /\ \A k \in 1..(n - 1) : k \in 1..n
            BY <2>4, <4>3
          <5>2. QED
            BY <2>3, <2>4, <4>1, <4>3, <5>1
        <4>4. QED
          BY <4>2, <4>3
      <3>2. CASE seq[n] \notin S
        <4>1. f[n] = g /\ \A k \in 1..n : k \in 1..(n - 1) \/ k = n
          BY <2>2, <3>2
        <4>2. \A k \in 1..(n - 1) : k \in 1..n
          OBVIOUS
        <4>3. QED
          BY <2>3, <3>2, <4>1, <4>2
      <3>3. QED
        BY <3>1, <3>2
    <2>6. QED
      BY <2>1, <2>5
  <1>5. D = 0..N
    <2>1. D \in SUBSET (0..N)
      OBVIOUS
    <2> HIDE DEF D
    <2>2. QED
      BY <1>1, <1>3, <1>4, <2>1, InductionUpTo
  <1>6. Starts(N) /\ f[N] \in Seq(T)
    <2>1. N \in D /\ N \in 0..N
      BY <1>1, <1>5
    <2>2. Starts(N)
      BY <2>1
    <2>3. QED
      BY <1>2, <2>1, <2>2
  <1>7. Len(f[N]) # 0 /\ Head(f[N]) = f[N][1]
    BY <1>2, <1>6, EmptySeq
  <1>8. QED
    BY <1>2, <1>6, <1>7 DEF N

\* What sifting keeps, as sets.
LEMMA SiftIs ==
    ASSUME NEW T, NEW s \in Seq(T), NEW S
    PROVE  Sift(s, S) \in Seq(T) /\ Sift(s, S) \in Seq(ToSet(s)) /\ ToSet(Sift(s, S)) = ToSet(s) \cap S
  <1>1. s \in Seq(ToSet(s)) /\ ToSet(s) \subseteq T
    BY SeqOfItsItems
  <1>2. Sift(s, S) \in Seq(ToSet(s) \cap S) /\ Sift(s, S) \in Seq(T \cap S)
    BY <1>1, SiftKeeps
  <1>3. Sift(s, S) \in Seq(ToSet(s)) /\ Sift(s, S) \in Seq(T)
    BY <1>2, SeqMonotonic
  <1>4. ToSet(Sift(s, S)) \subseteq ToSet(s) \cap S
    BY <1>2, SeqOfItsItems
  <1>5. ASSUME NEW x \in ToSet(s) \cap S PROVE x \in ToSet(Sift(s, S))
    <2>1. PICK i \in 1..Len(s) : s[i] = x
      BY SeqMeets
    <2>2. \E j \in 1..Len(Sift(s, S)) : Sift(s, S)[j] = x
      BY <2>1, SiftFinds
    <2>3. QED
      BY <1>3, <2>2, SeqMeets
  <1>6. QED
    BY <1>3, <1>4, <1>5

-----------------------------------------------------------------------------
(* Counting by a numbering.                                                *)

Numbers(f, n, S) ==
    /\ f \in [1..n -> S]
    /\ \A i, j \in 1..n : f[i] = f[j] => i = j
    /\ \A x \in S : \E i \in 1..n : f[i] = x

LEMMA NumberedCount ==
    ASSUME NEW n \in Nat, NEW S, NEW f, Numbers(f, n, S)
    PROVE  IsFiniteSet(S) /\ Cardinality(S) = n
  <1>1. f \in Bijection(1..n, S)
    BY DEF Numbers, Bijection, Injection, Surjection, IsInjective
  <1>2. IsFiniteSet(1..n) /\ Cardinality(1..n) = n
    <2>1. IsFiniteSet(1..n) /\ Cardinality(1..n) = IF 1 > n THEN 0 ELSE n - 1 + 1
      BY FS_Interval
    <2>2. QED
      BY <2>1
  <1>3. ExistsBijection(1..n, S)
    BY <1>1 DEF ExistsBijection
  <1>4. QED
    BY <1>2, <1>3, FS_Bijection

-----------------------------------------------------------------------------
(* What is kept stands in the order it had.                                *)

\* The places h of seq are, in order, those of the items of r, and all that S has.
Picks(h, r, seq, n, S) ==
    /\ h \in [1..Len(r) -> 1..n]
    /\ \A k \in 1..Len(r) : r[k] = seq[h[k]] /\ r[k] \in S
    /\ \A j, k \in 1..Len(r) : j < k => h[j] < h[k]
    /\ \A i \in 1..n : seq[i] \in S => \E k \in 1..Len(r) : h[k] = i

LEMMA SiftPicks ==
    ASSUME NEW T, NEW seq \in Seq(T), NEW S
    PROVE  \E h : Picks(h, Sift(seq, S), seq, Len(seq), S)
  <1> DEFINE N == Len(seq)
  <1>1. N \in Nat /\ \A n \in 1..N : seq[n] \in T
    BY LenProperties, ElementOfSeq
  <1>0. PICK f : SiftRun(seq, S, T, f)
    BY SiftUnfolds
  <1> HIDE DEF N
  <1>2. /\ f \in [0..N -> Seq(T)] /\ f[0] = <<>> /\ Sift(seq, S) = f[N]
        /\ \A n \in 1..N : f[n] = SiftStep(seq, S, f[n - 1], n)
    BY <1>0 DEF N, SiftRun
  <1> DEFINE D == {n \in 0..N : \E h : Picks(h, f[n], seq, n, S)}
  <1>3. 0 \in D /\ D \in SUBSET (0..N)
    <2>1. Picks([i \in 1..0 |-> 0], <<>>, seq, 0, S)
      BY DEF Picks
    <2>2. QED
      BY <1>1, <1>2, <2>1
  <1>4. ASSUME NEW n \in 1..N, n - 1 \in D PROVE n \in D
    <2> DEFINE g == f[n - 1]
               l == Len(g)
    <2>1. g \in Seq(T) /\ n - 1 \in 0..N /\ seq[n] \in T /\ n \in 0..N
      BY <1>1, <1>2
    <2>2. f[n] = IF seq[n] \in S THEN Append(g, seq[n]) ELSE g
      BY <1>2 DEF SiftStep
    <2>3. PICK h : Picks(h, g, seq, n - 1, S)
      BY <1>4
    <2> HIDE DEF g
    <2>4. l \in Nat
      BY <2>1, LenProperties
    <2> HIDE DEF l
    <2>5. /\ h \in [1..l -> 1..(n - 1)]
          /\ \A k \in 1..l : g[k] = seq[h[k]] /\ g[k] \in S
          /\ \A j, k \in 1..l : j < k => h[j] < h[k]
          /\ \A i \in 1..(n - 1) : seq[i] \in S => \E k \in 1..l : h[k] = i
      BY <2>3 DEF Picks, l
    <2>6. CASE seq[n] \notin S
      <3>1. \A i \in 1..n : i = n \/ i \in 1..(n - 1)
        OBVIOUS
      <3>2. Picks(h, g, seq, n, S)
        <4>1. h \in [1..l -> 1..n]
          BY <2>5
        <4>2. \A i \in 1..n : seq[i] \in S => \E k \in 1..l : h[k] = i
          BY <2>5, <2>6, <3>1
        <4>3. QED
          BY <2>5, <4>1, <4>2 DEF Picks, l
      <3>3. f[n] = g
        BY <2>2, <2>6
      <3>4. QED
        BY <2>1, <3>2, <3>3
    <2>7. CASE seq[n] \in S
      <3> DEFINE r == Append(g, seq[n])
                 q == [k \in 1..(l + 1) |-> IF k = l + 1 THEN n ELSE h[k]]
      <3>1. f[n] = r
        BY <2>2, <2>7
      <3>2. /\ Len(r) = l + 1 /\ r[l + 1] = seq[n]
            /\ \A k \in 1..l : r[k] = g[k]
        BY <2>1, AppendProperties DEF l
      <3> HIDE DEF r
      <3>3. \A k \in 1..(l + 1) : k = l + 1 \/ k \in 1..l
        BY <2>4
      <3>4. q[l + 1] = n /\ \A k \in 1..l : q[k] = h[k]
        BY <2>4
      <3>5. q \in [1..(l + 1) -> 1..n]
        <4>1. \A k \in 1..(l + 1) : q[k] \in 1..n
          BY <2>5, <3>3, <3>4
        <4>2. QED
          BY <4>1
      <3> HIDE DEF q
      <3>6. \A k \in 1..(l + 1) : r[k] = seq[q[k]] /\ r[k] \in S
        BY <2>5, <2>7, <3>2, <3>3, <3>4
      <3>7. \A j, k \in 1..(l + 1) : j < k => q[j] < q[k]
        <4> SUFFICES ASSUME NEW j \in 1..(l + 1), NEW k \in 1..(l + 1), j < k PROVE q[j] < q[k]
          OBVIOUS
        <4>1. j \in 1..l /\ q[j] = h[j] /\ h[j] \in 1..(n - 1)
          BY <2>4, <2>5, <3>4
        <4>2. CASE k = l + 1
          BY <3>4, <4>1, <4>2
        <4>3. CASE k \in 1..l
          BY <2>5, <3>4, <4>1, <4>3
        <4>4. QED
          BY <3>3, <4>2, <4>3
      <3>8. ASSUME NEW i \in 1..n, seq[i] \in S PROVE \E k \in 1..(l + 1) : q[k] = i
        <4>1. l + 1 \in 1..(l + 1) /\ \A k \in 1..l : k \in 1..(l + 1)
          BY <2>4
        <4>2. CASE i = n
          BY <3>4, <4>1, <4>2
        <4>3. CASE i # n
          <5>1. i \in 1..(n - 1)
            BY <4>3
          <5>2. PICK k \in 1..l : h[k] = i
            BY <2>5, <3>8, <5>1
          <5>3. QED
            BY <3>4, <4>1, <5>2
        <4>4. QED
          BY <4>2, <4>3
      <3>9. Picks(q, r, seq, n, S)
        BY <3>2, <3>5, <3>6, <3>7, <3>8 DEF Picks
      <3>10. QED
        BY <2>1, <3>1, <3>9
    <2>8. QED
      BY <2>6, <2>7
  <1>5. D = 0..N
    <2> HIDE DEF D
    <2>1. QED
      BY <1>1, <1>3, <1>4, InductionUpTo
  <1>6. N \in D
    BY <1>1, <1>5
  <1>7. QED
    BY <1>2, <1>6 DEF N

\* As many are kept as there are places with an item of the set; and what has
\* no item twice still has none.
LEMMA SiftCounts ==
    ASSUME NEW T, NEW seq \in Seq(T), NEW S
    PROVE  /\ Len(Sift(seq, S)) \in Nat
           /\ Len(Sift(seq, S)) = Cardinality({i \in 1..Len(seq) : seq[i] \in S})
           /\ IsInjective(seq) => IsInjective(Sift(seq, S))
  <1> DEFINE r == Sift(seq, S)
             L == Len(r)
             P == {i \in 1..Len(seq) : seq[i] \in S}
  <1>1. PICK h : Picks(h, r, seq, Len(seq), S)
    BY SiftPicks
  <1>2. r \in Seq(T \cap S)
    BY SiftKeeps
  <1> HIDE DEF r
  <1>3. L \in Nat /\ DOMAIN r = 1..L /\ Len(seq) \in Nat /\ DOMAIN seq = 1..Len(seq)
    BY <1>2, LenProperties
  <1> HIDE DEF L
  <1>4. /\ h \in [1..L -> 1..Len(seq)]
        /\ \A k \in 1..L : r[k] = seq[h[k]] /\ r[k] \in S
        /\ \A j, k \in 1..L : j < k => h[j] < h[k]
        /\ \A i \in 1..Len(seq) : seq[i] \in S => \E k \in 1..L : h[k] = i
    BY <1>1 DEF Picks, L
  <1>5. \A j, k \in 1..L : h[j] = h[k] => j = k
    <2> SUFFICES ASSUME NEW j \in 1..L, NEW k \in 1..L, j # k PROVE h[j] # h[k]
      OBVIOUS
    <2>1. j < k \/ k < j
      BY <1>3
    <2>2. h[j] < h[k] \/ h[k] < h[j]
      BY <1>4, <2>1
    <2>3. h[j] \in Nat /\ h[k] \in Nat
      BY <1>3, <1>4
    <2>4. QED
      BY <2>2, <2>3
  <1>6. Numbers(h, L, P)
    <2>1. h \in [1..L -> P]
      BY <1>4
    <2>2. \A i \in P : \E k \in 1..L : h[k] = i
      BY <1>4
    <2> HIDE DEF P
    <2>3. QED
      BY <1>5, <2>1, <2>2 DEF Numbers
  <1>7. Cardinality(P) = L
    BY <1>3, <1>6, NumberedCount
  <1>8. ASSUME IsInjective(seq) PROVE IsInjective(r)
    <2> SUFFICES ASSUME NEW j \in 1..L, NEW k \in 1..L, r[j] = r[k] PROVE j = k
      BY <1>3 DEF IsInjective
    <2>1. h[j] = h[k]
      BY <1>3, <1>4, <1>8 DEF IsInjective
    <2>2. QED
      BY <1>5, <2>1
  <1>9. QED
    BY <1>3, <1>7, <1>8 DEF r, L

-----------------------------------------------------------------------------
(* The first place of an item, and sums.                                   *)

LEMMA PlaceOfIs ==
    ASSUME NEW T, NEW seq \in Seq(T), NEW S
    PROVE  /\ PlaceOf(seq, S) \in 0..Len(seq)
           /\ PlaceOf(seq, S) = 0 <=> ToSet(seq) \cap S = {}
           /\ PlaceOf(seq, S) # 0 => FirstIn(seq, S, PlaceOf(seq, S))
  <1> DEFINE at == {i \in 1..Len(seq) : seq[i] \in S}
  <1>1. Len(seq) \in Nat /\ DOMAIN seq = 1..Len(seq)
    BY LenProperties
  <1>2. at = {} <=> ToSet(seq) \cap S = {}
    BY <1>1 DEF ToSet
  <1>3. CASE at = {}
    BY <1>1, <1>2, <1>3 DEF PlaceOf
  <1>4. CASE at # {}
    <2>1. at \in SUBSET Nat
      BY <1>1
    <2>2. \E i \in at : \A j \in at : i <= j
      <3> HIDE DEF at
      <3>1. QED
        BY <1>4, <2>1, LeastOf
    <2>3. PlaceOf(seq, S) \in at /\ \A j \in at : PlaceOf(seq, S) <= j
      BY <1>4, <2>2 DEF PlaceOf
    <2>4. ASSUME NEW j \in 1..(PlaceOf(seq, S) - 1) PROVE seq[j] \notin S
      BY <1>1, <2>3
    <2>5. QED
      BY <1>1, <1>2, <1>4, <2>3, <2>4 DEF FirstIn
  <1>5. QED
    BY <1>3, <1>4

TotalRun(seq, f) ==
    /\ f \in [0..Len(seq) -> Int] /\ f[0] = 0 /\ Total(seq) = f[Len(seq)]
    /\ \A n \in 1..Len(seq) : f[n] = f[n - 1] + seq[n]
Partials(seq, N, f) == f = [n \in 0..N |-> IF n = 0 THEN 0 ELSE f[n - 1] + seq[n]]

LEMMA TotalUnfolds ==
    ASSUME NEW seq \in Seq(Int)
    PROVE  \E f : TotalRun(seq, f)
  <1> DEFINE N == Len(seq)
             V == Int
             b == 0
             step == [n \in 1..N |-> [s \in V |-> s + seq[n]]]
             k == CHOOSE f : Partials(seq, N, f)
  <1>1. N \in Nat /\ \A n \in 1..N : seq[n] \in Int
    BY LenProperties, ElementOfSeq
  <1>2. Total(seq) = k[N]
    BY DEF Total, Partials
  <1>3. b \in V
    OBVIOUS
  <1> HIDE DEF N, k
  <1>4. PICK f : Recurs(f, b, step, N, V)
    <2>1. Steps(step, N, V)
      BY <1>1 DEF Steps
    <2> HIDE DEF step, b, V
    <2>2. QED
      BY <1>1, <1>3, <2>1, RecursionUpTo
  <1>5. f \in [0..N -> Int] /\ f[0] = 0 /\ \A n \in 1..N : f[n - 1] \in Int /\ f[n] = f[n - 1] + seq[n]
    <2>1. \A n \in 1..N : n - 1 \in 0..N
      BY <1>1
    <2>2. QED
      BY <1>4, <2>1 DEF Recurs
  <1>6. Partials(seq, N, f)
    BY <1>1, <1>5 DEF Partials
  <1>7. Partials(seq, N, k)
    BY <1>6 DEF k
  <1>8. k[0] = 0 /\ \A n \in 1..N : k[n] = k[n - 1] + seq[n]
    BY <1>1, <1>7 DEF Partials
  <1>9. k \in [0..N -> Int]
    <2> DEFINE D == {n \in 0..N : k[n] \in Int}
    <2>1. D \in SUBSET (0..N) /\ 0 \in D
      BY <1>1, <1>8
    <2>2. \A n \in 1..N : n - 1 \in D => n \in D
      BY <1>1, <1>8
    <2>3. D = 0..N
      <3> HIDE DEF D
      <3>1. QED
        BY <1>1, <2>1, <2>2, InductionUpTo
    <2>4. QED
      BY <1>7, <2>3 DEF Partials
  <1>10. TotalRun(seq, k)
    BY <1>2, <1>8, <1>9 DEF TotalRun, N
  <1>11. QED
    BY <1>10

\* A sum lies between the bounds of its items.
LEMMA TotalBounds ==
    ASSUME NEW seq \in Seq(Int), NEW lo \in Int, NEW hi \in Int,
           \A n \in 1..Len(seq) : lo <= seq[n] /\ seq[n] <= hi
    PROVE  Total(seq) \in Int /\ lo * Len(seq) <= Total(seq) /\ Total(seq) <= hi * Len(seq)
  <1> DEFINE N == Len(seq)
  <1>1. N \in Nat /\ \A n \in 1..N : seq[n] \in Int
    BY LenProperties, ElementOfSeq
  <1>2. PICK f : TotalRun(seq, f)
    BY TotalUnfolds
  <1> DEFINE D == {n \in 0..N : lo * n <= f[n] /\ f[n] <= hi * n}
  <1>3. f \in [0..N -> Int] /\ f[0] = 0 /\ \A n \in 1..N : f[n] = f[n - 1] + seq[n]
    BY <1>2 DEF TotalRun
  <1> HIDE DEF N
  <1>4. D \in SUBSET (0..N) /\ 0 \in D
    BY <1>1, <1>3
  <1>5. ASSUME NEW n \in 1..N, n - 1 \in D PROVE n \in D
    <2>1. lo * n = lo * (n - 1) + lo /\ hi * n = hi * (n - 1) + hi
      OBVIOUS
    <2>0. f[n] = f[n - 1] + seq[n] /\ n - 1 \in 0..N
      BY <1>1, <1>3
    <2>2. /\ lo * (n - 1) \in Int /\ hi * (n - 1) \in Int /\ lo * n \in Int /\ hi * n \in Int
          /\ f[n - 1] \in Int /\ seq[n] \in Int
      BY <1>1, <1>3, <2>0
    <2>3. lo * (n - 1) <= f[n - 1] /\ f[n - 1] <= hi * (n - 1) /\ lo <= seq[n] /\ seq[n] <= hi
      BY <1>5 DEF N
    <2>4. lo * n <= f[n] /\ f[n] <= hi * n
      BY <2>0, <2>1, <2>2, <2>3
    <2>5. QED
      BY <2>4
  <1>6. D = 0..N
    <2> HIDE DEF D
    <2>1. QED
      BY <1>1, <1>4, <1>5, InductionUpTo
  <1>7. N \in D
    BY <1>1, <1>6
  <1>8. QED
    BY <1>1, <1>2, <1>7 DEF TotalRun, N

\* Sums of two lists, place by place.
Adding(s, t, u) == Len(t) = Len(s) /\ Len(u) = Len(s) /\ \A n \in 1..Len(s) : u[n] = s[n] + t[n]

LEMMA TotalAdds ==
    ASSUME NEW s \in Seq(Int), NEW t \in Seq(Int), NEW u \in Seq(Int), Adding(s, t, u)
    PROVE  Total(s) + Total(t) = Total(u)
  <1> USE DEF Adding
  <1> DEFINE N == Len(s)
  <1>1. N \in Nat /\ \A n \in 1..N : s[n] \in Int /\ t[n] \in Int /\ u[n] \in Int
    BY LenProperties, ElementOfSeq
  <1>2. PICK f : TotalRun(s, f)
    BY TotalUnfolds
  <1>3. PICK g : TotalRun(t, g)
    BY TotalUnfolds
  <1>4. PICK h : TotalRun(u, h)
    BY TotalUnfolds
  <1>5. /\ f \in [0..N -> Int] /\ f[0] = 0 /\ \A n \in 1..N : f[n] = f[n - 1] + s[n]
        /\ g \in [0..N -> Int] /\ g[0] = 0 /\ \A n \in 1..N : g[n] = g[n - 1] + t[n]
        /\ h \in [0..N -> Int] /\ h[0] = 0 /\ \A n \in 1..N : h[n] = h[n - 1] + u[n]
    BY <1>2, <1>3, <1>4 DEF TotalRun
  <1>0. Len(s) = N /\ Len(t) = N /\ Len(u) = N
    OBVIOUS
  <1> HIDE DEF N
  <1> DEFINE D == {n \in 0..N : f[n] + g[n] = h[n]}
  <1>6. D \in SUBSET (0..N) /\ 0 \in D
    BY <1>1, <1>5
  <1>7. ASSUME NEW n \in 1..N, n - 1 \in D PROVE n \in D
    <2>1. n - 1 \in 0..N /\ n \in 0..N
      BY <1>1
    <2>2. f[n - 1] \in Int /\ g[n - 1] \in Int /\ h[n - 1] \in Int /\ f[n - 1] + g[n - 1] = h[n - 1]
      BY <1>5, <1>7, <2>1
    <2>3. s[n] \in Int /\ t[n] \in Int /\ u[n] = s[n] + t[n]
      BY <1>0, <1>1
    <2>4. f[n] = f[n - 1] + s[n] /\ g[n] = g[n - 1] + t[n] /\ h[n] = h[n - 1] + u[n]
      BY <1>5
    <2>5. f[n] + g[n] = h[n]
      <3> DEFINE a == f[n - 1]
                 b == g[n - 1]
                 c == s[n]
                 d == t[n]
      <3>1. a \in Int /\ b \in Int /\ c \in Int /\ d \in Int
        BY <2>2, <2>3
      <3>2. f[n] = a + c /\ g[n] = b + d /\ h[n] = (a + b) + (c + d)
        BY <2>2, <2>3, <2>4
      <3> HIDE DEF a, b, c, d
      <3>3. QED
        BY <3>1, <3>2
    <2>6. QED
      BY <2>1, <2>5
  <1>8. D = 0..N
    <2> HIDE DEF D
    <2>1. QED
      BY <1>1, <1>6, <1>7, InductionUpTo
  <1>9. N \in D
    BY <1>1, <1>8
  <1>10. QED
    BY <1>0, <1>2, <1>3, <1>4, <1>9 DEF TotalRun

-----------------------------------------------------------------------------
(* LeftToRight.                                                            *)

Stepping(stops) == \A i \in 1..Len(stops) : stops[i] = 0 \/ i < stops[i]
LeftStep(stops, s, i) ==
    IF stops[i] = 0 \/ (s # <<>> /\ i < stops[s[Len(s)]]) THEN s ELSE Append(s, i)
Lefts(stops, N, f) ==
    f = [i \in 0..N |-> IF i = 0 THEN <<>> ELSE LeftStep(stops, f[i - 1], i)]
LeftRun(stops, f) ==
    /\ f \in [0..Len(stops) -> Seq(1..Len(stops))]
    /\ f[0] = <<>> /\ LeftToRight(stops) = f[Len(stops)]
    /\ \A i \in 1..Len(stops) : f[i] = LeftStep(stops, f[i - 1], i)

LEMMA LeftUnfolds ==
    ASSUME NEW stops \in Seq(Nat)
    PROVE  \E f : LeftRun(stops, f)
  <1> DEFINE N == Len(stops)
             V == Seq(1..N)
             b == <<>>
             step == [i \in 1..N |-> [s \in V |-> LeftStep(stops, s, i)]]
             k == CHOOSE f : Lefts(stops, N, f)
  <1>1. N \in Nat
    BY LenProperties
  <1>2. LeftToRight(stops) = k[N]
    BY DEF LeftToRight, Lefts, LeftStep
  <1>3. b \in V
    OBVIOUS
  <1>4. \A s \in V : \A i \in 1..N : LeftStep(stops, s, i) \in V
    BY AppendProperties DEF LeftStep
  <1> HIDE DEF N, V, k
  <1>5. PICK f : Recurs(f, b, step, N, V)
    <2>1. Steps(step, N, V)
      BY <1>4 DEF Steps
    <2> HIDE DEF step, b
    <2>2. QED
      BY <1>1, <1>3, <2>1, RecursionUpTo
  <1>6. Lefts(stops, N, f)
    <2>1. \A i \in 1..N : i - 1 \in 0..N
      BY <1>1
    <2>2. \A i \in 1..N : f[i] = LeftStep(stops, f[i - 1], i)
      BY <1>5, <2>1 DEF Recurs
    <2>3. \A i \in 0..N : f[i] = IF i = 0 THEN <<>> ELSE LeftStep(stops, f[i - 1], i)
      BY <1>1, <1>5, <2>2 DEF Recurs
    <2>4. QED
      BY <1>5, <2>3 DEF Recurs, Lefts
  <1>7. Lefts(stops, N, k)
    BY <1>6 DEF k
  <1>8. k[0] = <<>> /\ \A i \in 1..N : k[i] = LeftStep(stops, k[i - 1], i)
    BY <1>1, <1>7 DEF Lefts
  <1>9. k \in [0..N -> V]
    <2> DEFINE D == {i \in 0..N : k[i] \in V}
    <2>1. 0 \in D /\ D \in SUBSET (0..N)
      BY <1>1, <1>3, <1>8
    <2>2. \A i \in 1..N : i - 1 \in D => i \in D
      BY <1>1, <1>4, <1>8
    <2>3. D = 0..N
      <3> HIDE DEF D
      <3>1. QED
        BY <1>1, <2>1, <2>2, InductionUpTo
    <2>4. QED
      BY <1>7, <2>3 DEF Lefts
  <1>10. LeftRun(stops, k)
    BY <1>2, <1>8, <1>9 DEF N, V, LeftRun
  <1>11. QED
    BY <1>10

\* The matches taken are matches, each begins where the ones before it have
\* stopped, and one is taken when there is any.
Disjointly(r, stops) ==
    /\ \A k \in 1..Len(r) : stops[r[k]] # 0
    /\ \A j, k \in 1..Len(r) : j < k => stops[r[j]] <= r[k]

LEMMA LeftToRightTakes ==
    ASSUME NEW stops \in Seq(Nat), Stepping(stops)
    PROVE  /\ LeftToRight(stops) \in Seq(1..Len(stops))
           /\ Disjointly(LeftToRight(stops), stops)
           /\ LeftToRight(stops) = <<>> => \A i \in 1..Len(stops) : stops[i] = 0
  <1> DEFINE N == Len(stops)
  <1>1. N \in Nat /\ \A i \in 1..N : stops[i] \in Nat
    BY LenProperties, ElementOfSeq
  <1>2. PICK f : LeftRun(stops, f)
    BY LeftUnfolds
  <1>3. /\ f \in [0..N -> Seq(1..N)] /\ f[0] = <<>> /\ LeftToRight(stops) = f[N]
        /\ \A i \in 1..N : f[i] = LeftStep(stops, f[i - 1], i)
    BY <1>2 DEF LeftRun
  <1>4. \A i \in 1..N : stops[i] = 0 \/ i < stops[i]
    BY DEF Stepping
  <1> HIDE DEF N
  <1> DEFINE Fine(r, n) == /\ \A k \in 1..Len(r) : r[k] <= n
                           /\ Disjointly(r, stops)
                           /\ r = <<>> => \A i \in 1..n : stops[i] = 0
             D == {n \in 0..N : Fine(f[n], n)}
  <1>5. 0 \in D /\ D \in SUBSET (0..N)
    BY <1>1, <1>3 DEF Disjointly
  <1>6. ASSUME NEW n \in 1..N, n - 1 \in D PROVE n \in D
    <2> DEFINE g == f[n - 1]
               l == Len(g)
    <2>1. n - 1 \in 0..N /\ n \in 0..N /\ g \in Seq(1..N) /\ stops[n] \in Nat
      BY <1>1, <1>3
    <2>2. f[n] = LeftStep(stops, g, n)
      BY <1>3
    <2>3. Fine(g, n - 1)
      BY <1>6
    <2> HIDE DEF g
    <2>4. l \in Nat /\ (g # <<>> => l \in 1..l) /\ \A k \in 1..l : g[k] \in 1..N /\ stops[g[k]] \in Nat
      <3>1. l \in Nat /\ (g # <<>> => l # 0) /\ \A k \in 1..l : g[k] \in 1..N
        BY <2>1, LenProperties, ElementOfSeq, EmptySeq
      <3>2. QED
        BY <1>1, <3>1
    <2>5. CASE stops[n] = 0
      <3>1. f[n] = g
        BY <2>2, <2>5 DEF LeftStep
      <3>2. Fine(g, n)
        BY <1>1, <2>3, <2>4, <2>5
      <3>3. QED
        BY <2>1, <3>1, <3>2
    <2>6. CASE stops[n] # 0 /\ g # <<>> /\ n < stops[g[l]]
      <3>1. f[n] = g
        BY <2>2, <2>6 DEF LeftStep
      <3>2. Fine(g, n)
        BY <1>1, <2>3, <2>4, <2>6
      <3>3. QED
        BY <2>1, <3>1, <3>2
    <2>7. CASE stops[n] # 0 /\ ~(g # <<>> /\ n < stops[g[l]])
      <3> DEFINE r == Append(g, n)
      <3>1. f[n] = r
        BY <2>2, <2>7 DEF LeftStep
      <3>2. /\ r \in Seq(1..N) /\ Len(r) = l + 1 /\ r[l + 1] = n
            /\ \A k \in 1..l : r[k] = g[k]
        BY <2>1, AppendProperties
      <3> HIDE DEF r
      <3>3. \A k \in 1..(l + 1) : k = l + 1 \/ k \in 1..l
        BY <2>4
      <3>4. ASSUME NEW k \in 1..l PROVE stops[g[k]] <= n
        <4>1. g # <<>> /\ stops[g[l]] <= n
          <5>1. g # <<>>
            BY <2>4, EmptySeq
          <5>2. stops[g[l]] \in Nat /\ ~(n < stops[g[l]])
            BY <2>4, <2>7, <5>1
          <5>3. QED
            BY <2>1, <5>1, <5>2
        <4>2. CASE k = l
          BY <4>1, <4>2
        <4>3. CASE k # l
          <5>1. l \in 1..l /\ k < l
            BY <2>4, <4>3
          <5>2. stops[g[k]] <= g[l]
            BY <2>3, <5>1 DEF Disjointly
          <5>3. g[l] <= n - 1 /\ g[l] \in Nat /\ stops[g[k]] \in Nat
            BY <2>3, <2>4, <5>1
          <5>4. QED
            BY <2>1, <5>2, <5>3
        <4>4. QED
          BY <4>2, <4>3
      <3>5. \A k \in 1..Len(r) : r[k] <= n
        <4>1. \A k \in 1..l : g[k] <= n
          BY <2>3, <2>4
        <4>2. QED
          BY <3>2, <3>3, <4>1
      <3>6. \A k \in 1..Len(r) : stops[r[k]] # 0
        <4>1. \A k \in 1..l : stops[g[k]] # 0
          BY <2>3 DEF Disjointly
        <4>2. QED
          BY <2>7, <3>2, <3>3, <4>1
      <3>7. \A j, k \in 1..Len(r) : j < k => stops[r[j]] <= r[k]
        <4> SUFFICES ASSUME NEW j \in 1..(l + 1), NEW k \in 1..(l + 1), j < k PROVE stops[r[j]] <= r[k]
          BY <3>2
        <4>1. j \in 1..l
          BY <2>4
        <4>2. CASE k = l + 1
          BY <3>2, <3>4, <4>1, <4>2
        <4>3. CASE k \in 1..l
          BY <2>3, <3>2, <4>1, <4>3 DEF Disjointly
        <4>4. QED
          BY <3>3, <4>2, <4>3
      <3>8. r # <<>>
        BY <2>4, <3>2
      <3>9. Fine(r, n)
        BY <3>5, <3>6, <3>7, <3>8 DEF Disjointly
      <3>10. QED
        BY <2>1, <3>1, <3>9
    <2>8. QED
      BY <2>5, <2>6, <2>7
  <1>7. D = 0..N
    <2> HIDE DEF D
    <2>1. QED
      BY <1>1, <1>5, <1>6, InductionUpTo
  <1>8. N \in D
    BY <1>1, <1>7
  <1>9. QED
    BY <1>1, <1>3, <1>8 DEF N

-----------------------------------------------------------------------------
(* FlattenSeq.                                                             *)

Flattens(seqs, N, f) == f = [n \in 1..N |-> IF n = 1 THEN seqs[n] ELSE f[n - 1] \o seqs[n]]

\* Chained sequences, whose lengths the caps bound: caps[n] those of the first n.
Capping(seqs, caps) ==
    /\ caps \in [0..Len(seqs) -> Nat] /\ caps[0] = 0
    /\ \A n \in 1..Len(seqs) : Len(seqs[n]) >= 1 /\ caps[n - 1] + Len(seqs[n]) <= caps[n]

LEMMA FlattenExists ==
    ASSUME NEW T, NEW N \in Nat, N # 0, NEW seqs, \A n \in 1..N : seqs[n] \in Seq(T)
    PROVE  \E f : Flattens(seqs, N, f)
  <1> DEFINE V == Seq(T)
             b == <<>>
             step == [n \in 1..N |-> [s \in V |-> s \o seqs[n]]]
  <1>1. b \in V
    OBVIOUS
  <1>2. \A s \in V : \A n \in 1..N : s \o seqs[n] \in V
    BY ConcatProperties
  <1>3. \A s \in V : b \o s = s
    BY ConcatEmptySeq
  <1> HIDE DEF V
  <1>4. PICK f : Recurs(f, b, step, N, V)
    <2>1. Steps(step, N, V)
      BY <1>2 DEF Steps
    <2> HIDE DEF step, b
    <2>2. QED
      BY <1>1, <2>1, RecursionUpTo
  <1> DEFINE g == [n \in 1..N |-> f[n]]
  <1>5. ASSUME NEW n \in 1..N PROVE g[n] = IF n = 1 THEN seqs[n] ELSE g[n - 1] \o seqs[n]
    <2>0. n - 1 \in 0..N /\ f[n - 1] \in V
      BY <1>4 DEF Recurs
    <2>1. f[n] = f[n - 1] \o seqs[n]
      BY <1>4, <2>0 DEF Recurs
    <2>2. CASE n = 1
      <3>1. f[n - 1] = b /\ seqs[n] \in V
        BY <1>4, <2>2 DEF Recurs, V
      <3>2. QED
        BY <1>3, <2>1, <2>2, <3>1
    <2>3. CASE n # 1
      <3>1. n - 1 \in 1..N
        BY <2>3
      <3>2. QED
        BY <2>1, <2>3, <3>1
    <2>4. QED
      BY <2>2, <2>3
  <1>6. Flattens(seqs, N, g)
    <2>1. g = [n \in 1..N |-> g[n]]
      OBVIOUS
    <2> HIDE DEF g
    <2>2. QED
      BY <1>5, <2>1 DEF Flattens
  <1>7. QED
    BY <1>6

FlattenRun(seqs, T, f) ==
    /\ f \in [0..Len(seqs) -> Seq(T)]
    /\ f[0] = <<>> /\ FlattenSeq(seqs) = f[Len(seqs)]
    /\ \A n \in 1..Len(seqs) : f[n] = f[n - 1] \o seqs[n]

LEMMA FlattenUnfolds ==
    ASSUME NEW T, NEW seqs \in Seq(Seq(T))
    PROVE  \E f : FlattenRun(seqs, T, f)
  <1> DEFINE N == Len(seqs)
             k == CHOOSE f : Flattens(seqs, N, f)
             f == [n \in 0..N |-> IF n = 0 THEN <<>> ELSE k[n]]
  <1>1. N \in Nat /\ \A n \in 1..N : seqs[n] \in Seq(T)
    BY LenProperties, ElementOfSeq
  <1>0. <<>> \in Seq(T)
    BY EmptySeq
  <1>2. \A x, y \in Seq(T) : x \o y \in Seq(T) /\ <<>> \o x = x
    BY ConcatProperties, ConcatEmptySeq
  <1>3. N = 0 => FlattenSeq(seqs) = <<>>
    BY EmptySeq DEF FlattenSeq
  <1>4. N # 0 => FlattenSeq(seqs) = k[N]
    BY DEF FlattenSeq, Flattens
  <1> HIDE DEF N
  <1>5. N # 0 => Flattens(seqs, N, k)
    <2> SUFFICES ASSUME N # 0 PROVE Flattens(seqs, N, k)
      OBVIOUS
    <2>1. \E g : Flattens(seqs, N, g)
      BY <1>1, FlattenExists
    <2>2. QED
      BY <2>1
  <1> HIDE DEF k
  <1>6. \A n \in 1..N : k[n] = IF n = 1 THEN seqs[n] ELSE k[n - 1] \o seqs[n]
    <2> SUFFICES ASSUME NEW n \in 1..N PROVE k[n] = IF n = 1 THEN seqs[n] ELSE k[n - 1] \o seqs[n]
      OBVIOUS
    <2>1. N # 0
      BY <1>1
    <2>2. k = [m \in 1..N |-> IF m = 1 THEN seqs[m] ELSE k[m - 1] \o seqs[m]]
      BY <1>5, <2>1 DEF Flattens
    <2>3. QED
      BY <2>2
  <1>7. f[0] = <<>> /\ \A n \in 1..N : f[n] = k[n] /\ f[n - 1] = IF n = 1 THEN <<>> ELSE k[n - 1]
    BY <1>1
  <1>8. FlattenSeq(seqs) = f[N] /\ f = [n \in 0..N |-> f[n]]
    <2>1. N \in 0..N /\ (N # 0 => N \in 1..N)
      BY <1>1
    <2>2. QED
      BY <1>3, <1>4, <1>7, <2>1
  <1> HIDE DEF f
  <1>9. \A n \in 1..N : f[n] = f[n - 1] \o seqs[n]
    BY <1>1, <1>2, <1>6, <1>7
  <1>10. f \in [0..N -> Seq(T)]
    <2> DEFINE D == {n \in 0..N : f[n] \in Seq(T)}
    <2>1. 0 \in D /\ D \in SUBSET (0..N)
      <3>1. f[0] = <<>>
        BY <1>7
      <3>2. f[0] \in Seq(T) /\ 0 \in 0..N
        BY <1>0, <1>1, <3>1
      <3>3. QED
        BY <3>2
    <2>2. ASSUME NEW n \in 1..N, n - 1 \in D PROVE n \in D
      <3>1. n \in 0..N /\ seqs[n] \in Seq(T) /\ f[n - 1] \in Seq(T)
        BY <1>1, <2>2
      <3>2. f[n] \in Seq(T)
        BY <1>2, <1>9, <3>1
      <3>3. QED
        BY <3>1, <3>2
    <2>3. D = 0..N
      <3> HIDE DEF D
      <3>1. QED
        BY <1>1, <2>1, <2>2, InductionUpTo
    <2>4. QED
      BY <1>8, <2>3
  <1>11. FlattenRun(seqs, T, f)
    BY <1>7, <1>8, <1>9, <1>10 DEF FlattenRun, N
  <1>12. QED
    BY <1>11

\* A chain of sequences over T is one.
LEMMA FlattenIn ==
    ASSUME NEW T, NEW seqs \in Seq(Seq(T))
    PROVE  FlattenSeq(seqs) \in Seq(T)
  <1>1. PICK f : FlattenRun(seqs, T, f)
    BY FlattenUnfolds
  <1>2. Len(seqs) \in 0..Len(seqs)
    BY LenProperties
  <1>3. QED
    BY <1>1, <1>2 DEF FlattenRun

FlatFits(T, seq, n, caps) == seq \in Seq(T) /\ n <= Len(seq) /\ Len(seq) <= caps[n]

\* A chain of sequences over T is as long as the caps allow and no shorter than
\* there are sequences.
LEMMA FlattenFits ==
    ASSUME NEW T, NEW seqs \in Seq(Seq(T)), NEW caps, Capping(seqs, caps)
    PROVE  /\ FlattenSeq(seqs) \in Seq(T)
           /\ Len(seqs) <= Len(FlattenSeq(seqs)) /\ Len(FlattenSeq(seqs)) <= caps[Len(seqs)]
  <1> DEFINE N == Len(seqs)
  <1>1. N \in Nat /\ \A n \in 1..N : seqs[n] \in Seq(T)
    BY LenProperties, ElementOfSeq
  <1>2. PICK f : FlattenRun(seqs, T, f)
    BY FlattenUnfolds
  <1>3. /\ f \in [0..N -> Seq(T)] /\ f[0] = <<>> /\ FlattenSeq(seqs) = f[N]
        /\ \A n \in 1..N : f[n] = f[n - 1] \o seqs[n]
    BY <1>2 DEF FlattenRun
  <1>4. /\ caps \in [0..N -> Nat] /\ caps[0] = 0
        /\ \A n \in 1..N : Len(seqs[n]) >= 1 /\ caps[n - 1] + Len(seqs[n]) <= caps[n]
    BY DEF Capping
  <1> HIDE DEF N
  <1> DEFINE D == {n \in 0..N : FlatFits(T, f[n], n, caps)}
  <1>5. 0 \in D /\ D \in SUBSET (0..N)
    BY <1>1, <1>3, <1>4, EmptySeq DEF FlatFits
  <1>6. ASSUME NEW n \in 1..N, n - 1 \in D PROVE n \in D
    <2> DEFINE x == Len(f[n - 1])
               y == Len(seqs[n])
               c == caps[n - 1]
               d == caps[n]
    <2>1. n - 1 \in 0..N /\ n \in 0..N
      BY <1>1
    <2>2. f[n - 1] \in Seq(T) /\ seqs[n] \in Seq(T) /\ x \in Nat /\ y \in Nat
      BY <1>1, <1>3, <2>1, LenProperties
    <2>3. f[n] \in Seq(T) /\ Len(f[n]) = x + y
      <3>1. \A a, b \in Seq(T) : a \o b \in Seq(T) /\ Len(a \o b) = Len(a) + Len(b)
        BY ConcatProperties
      <3>2. QED
        BY <1>3, <2>2, <3>1
    <2>4. n - 1 <= x /\ x <= c /\ y >= 1 /\ c + y <= d /\ c \in Nat /\ d \in Nat
      BY <1>4, <1>6, <2>1 DEF FlatFits
    <2> HIDE DEF x, y, c, d
    <2>5. n <= x + y /\ x + y <= d
      BY <2>2, <2>4
    <2>6. FlatFits(T, f[n], n, caps)
      BY <2>3, <2>5 DEF FlatFits, d
    <2>7. QED
      BY <2>1, <2>6
  <1>7. D = 0..N
    <2> HIDE DEF D
    <2>1. QED
      BY <1>1, <1>5, <1>6, InductionUpTo
  <1>8. FlatFits(T, f[N], N, caps)
    BY <1>1, <1>7
  <1>9. QED
    BY <1>3, <1>8 DEF N, FlatFits

\* One more sequence goes to the end.
LEMMA FlattenAppend ==
    ASSUME NEW T, NEW seqs \in Seq(Seq(T)), NEW x \in Seq(T)
    PROVE  FlattenSeq(Append(seqs, x)) = FlattenSeq(seqs) \o x
  <1> DEFINE N == Len(seqs)
             more == Append(seqs, x)
  <1>1. N \in Nat
    BY LenProperties
  <1>2. more \in Seq(Seq(T)) /\ Len(more) = N + 1 /\ more[N + 1] = x /\ \A n \in 1..N : more[n] = seqs[n]
    BY AppendProperties
  <1> HIDE DEF more
  <1>3. PICK f : FlattenRun(seqs, T, f)
    BY FlattenUnfolds
  <1>4. PICK g : FlattenRun(more, T, g)
    BY <1>2, FlattenUnfolds
  <1>5. f[0] = <<>> /\ FlattenSeq(seqs) = f[N] /\ \A n \in 1..N : f[n] = f[n - 1] \o seqs[n]
    BY <1>3 DEF FlattenRun
  <1>6. g[0] = <<>> /\ FlattenSeq(more) = g[N + 1] /\ \A n \in 1..(N + 1) : g[n] = g[n - 1] \o more[n]
    BY <1>2, <1>4 DEF FlattenRun
  <1> HIDE DEF N
  <1> DEFINE D == {n \in 0..N : f[n] = g[n]}
  <1>7. 0 \in D /\ D \in SUBSET (0..N)
    BY <1>1, <1>5, <1>6
  <1>8. ASSUME NEW n \in 1..N, n - 1 \in D PROVE n \in D
    <2>1. n \in 1..(N + 1) /\ n \in 0..N
      BY <1>1
    <2>2. g[n] = g[n - 1] \o seqs[n] /\ f[n] = f[n - 1] \o seqs[n]
      BY <1>2, <1>5, <1>6, <2>1
    <2>3. QED
      BY <1>8, <2>1, <2>2
  <1>9. D = 0..N
    <2> HIDE DEF D
    <2>1. QED
      BY <1>1, <1>7, <1>8, InductionUpTo
  <1>10. f[N] = g[N]
    BY <1>1, <1>9
  <1>11. N + 1 \in 1..(N + 1) /\ (N + 1) - 1 = N
    BY <1>1
  <1>12. g[N + 1] = g[N] \o x
    BY <1>2, <1>6, <1>11
  <1>13. QED
    BY <1>5, <1>6, <1>10, <1>12 DEF more

\* The length of a chain is the sum of those of its links.
Lengths(lens, seqs) == Len(lens) = Len(seqs) /\ \A n \in 1..Len(seqs) : lens[n] = Len(seqs[n])

LEMMA FlattenLen ==
    ASSUME NEW T, NEW seqs \in Seq(Seq(T)), NEW lens \in Seq(Int), Lengths(lens, seqs)
    PROVE  Len(FlattenSeq(seqs)) = Total(lens)
  <1> USE DEF Lengths
  <1> DEFINE N == Len(seqs)
  <1>1. N \in Nat /\ \A n \in 1..N : seqs[n] \in Seq(T)
    BY LenProperties, ElementOfSeq
  <1>2. PICK f : FlattenRun(seqs, T, f)
    BY FlattenUnfolds
  <1>3. PICK g : TotalRun(lens, g)
    BY TotalUnfolds
  <1>4. /\ f \in [0..N -> Seq(T)] /\ f[0] = <<>> /\ FlattenSeq(seqs) = f[N]
        /\ \A n \in 1..N : f[n] = f[n - 1] \o seqs[n]
    BY <1>2 DEF FlattenRun
  <1>5. g[0] = 0 /\ Total(lens) = g[N] /\ \A n \in 1..N : g[n] = g[n - 1] + Len(seqs[n])
    BY <1>3 DEF TotalRun
  <1> HIDE DEF N
  <1> DEFINE D == {n \in 0..N : Len(f[n]) = g[n]}
  <1>6. 0 \in D /\ D \in SUBSET (0..N)
    BY <1>1, <1>4, <1>5
  <1>7. ASSUME NEW n \in 1..N, n - 1 \in D PROVE n \in D
    <2>1. n - 1 \in 0..N /\ n \in 0..N
      BY <1>1
    <2>2. f[n - 1] \in Seq(T) /\ seqs[n] \in Seq(T)
      BY <1>1, <1>4, <2>1
    <2>3. Len(f[n]) = Len(f[n - 1]) + Len(seqs[n])
      <3>1. f[n] = f[n - 1] \o seqs[n]
        BY <1>4
      <3>2. \A a, b \in Seq(T) : Len(a \o b) = Len(a) + Len(b)
        BY ConcatProperties
      <3>3. QED
        BY <2>2, <3>1, <3>2
    <2>4. Len(f[n - 1]) = g[n - 1] /\ g[n] = g[n - 1] + Len(seqs[n])
      BY <1>5, <1>7
    <2>5. QED
      BY <2>1, <2>3, <2>4
  <1>8. D = 0..N
    <2> HIDE DEF D
    <2>1. QED
      BY <1>1, <1>6, <1>7, InductionUpTo
  <1>9. N \in D
    <2> HIDE DEF D
    <2>1. QED
      BY <1>1, <1>8
  <1>10. QED
    BY <1>4, <1>5, <1>9

LEMMA ConcatHas ==
    ASSUME NEW T, NEW a \in Seq(T), NEW b \in Seq(T)
    PROVE  /\ ToSet(a \o b) = ToSet(a) \cup ToSet(b)
           /\ IsInjective(a) /\ IsInjective(b) /\ ToSet(a) \cap ToSet(b) = {} => IsInjective(a \o b)
  <1> DEFINE c == a \o b
             n == Len(a)
             m == Len(b)
  <1>1. n \in Nat /\ m \in Nat /\ DOMAIN a = 1..n /\ DOMAIN b = 1..m
    BY LenProperties
  <1>2. /\ c \in Seq(T) /\ Len(c) = n + m
        /\ \A i \in 1..(n + m) : c[i] = IF i <= n THEN a[i] ELSE b[i - n]
    BY ConcatProperties
  <1>3. DOMAIN c = 1..(n + m)
    BY <1>2, LenProperties
  <1> HIDE DEF c, n, m
  <1>4. ASSUME NEW i \in 1..(n + m)
        PROVE  \/ i \in 1..n /\ c[i] = a[i]
               \/ i \notin 1..n /\ i - n \in 1..m /\ c[i] = b[i - n]
    BY <1>1, <1>2
  <1>5. \A i \in 1..n : i \in 1..(n + m) /\ c[i] = a[i]
    BY <1>1, <1>2
  <1>6. \A i \in 1..m : i + n \in 1..(n + m) /\ c[i + n] = b[i]
    <2> SUFFICES ASSUME NEW i \in 1..m PROVE i + n \in 1..(n + m) /\ c[i + n] = b[i]
      OBVIOUS
    <2>1. i + n \in 1..(n + m) /\ ~(i + n <= n) /\ (i + n) - n = i
      BY <1>1
    <2>2. QED
      BY <1>2, <2>1
  <1>7. ToSet(c) = ToSet(a) \cup ToSet(b)
    <2>1. ASSUME NEW x \in ToSet(c) PROVE x \in ToSet(a) \cup ToSet(b)
      BY <1>1, <1>3, <1>4 DEF ToSet
    <2>2. ASSUME NEW x \in ToSet(a) \cup ToSet(b) PROVE x \in ToSet(c)
      BY <1>1, <1>3, <1>5, <1>6 DEF ToSet
    <2>3. QED
      BY <2>1, <2>2
  <1>8. ASSUME IsInjective(a), IsInjective(b), ToSet(a) \cap ToSet(b) = {} PROVE IsInjective(c)
    <2>1. \A i \in 1..n : a[i] \in ToSet(a) /\ \A j \in 1..n : a[i] = a[j] => i = j
      BY <1>1, <1>8 DEF IsInjective, ToSet
    <2>2. \A i \in 1..m : b[i] \in ToSet(b) /\ \A j \in 1..m : b[i] = b[j] => i = j
      BY <1>1, <1>8 DEF IsInjective, ToSet
    <2> SUFFICES ASSUME NEW i \in 1..(n + m), NEW j \in 1..(n + m), c[i] = c[j] PROVE i = j
      BY <1>3 DEF IsInjective
    <2>3. \/ i \in 1..n /\ c[i] = a[i]
          \/ i \notin 1..n /\ i - n \in 1..m /\ c[i] = b[i - n]
      BY <1>4
    <2>4. \/ j \in 1..n /\ c[j] = a[j]
          \/ j \notin 1..n /\ j - n \in 1..m /\ c[j] = b[j - n]
      BY <1>4
    <2>5. CASE i \in 1..n /\ j \in 1..n
      BY <2>1, <2>3, <2>4, <2>5
    <2>6. CASE i \in 1..n /\ j \notin 1..n
      BY <1>8, <2>1, <2>2, <2>3, <2>4, <2>6
    <2>7. CASE i \notin 1..n /\ j \in 1..n
      BY <1>8, <2>1, <2>2, <2>3, <2>4, <2>7
    <2>8. CASE i \notin 1..n /\ j \notin 1..n
      <3>1. i - n = j - n
        BY <2>2, <2>3, <2>4, <2>8
      <3>2. QED
        BY <1>1, <3>1
    <2>9. QED
      BY <2>5, <2>6, <2>7, <2>8
  <1>9. QED
    BY <1>7, <1>8 DEF c

\* The items of a chain are those of its links, none twice when the links
\* repeat and share none.
Unshared(seqs) ==
    /\ \A n \in 1..Len(seqs) : IsInjective(seqs[n])
    /\ \A m, n \in 1..Len(seqs) : m # n => ToSet(seqs[m]) \cap ToSet(seqs[n]) = {}

LEMMA FlattenHas ==
    ASSUME NEW T, NEW seqs \in Seq(Seq(T))
    PROVE  /\ ToSet(FlattenSeq(seqs)) = UNION {ToSet(seqs[n]) : n \in 1..Len(seqs)}
           /\ Unshared(seqs) => IsInjective(FlattenSeq(seqs))
  <1> DEFINE N == Len(seqs)
             upTo(n) == UNION {ToSet(seqs[m]) : m \in 1..n}
  <1>1. N \in Nat /\ \A n \in 1..N : seqs[n] \in Seq(T)
    BY LenProperties, ElementOfSeq
  <1>2. PICK f : FlattenRun(seqs, T, f)
    BY FlattenUnfolds
  <1>3. /\ f \in [0..N -> Seq(T)] /\ f[0] = <<>> /\ FlattenSeq(seqs) = f[N]
        /\ \A n \in 1..N : f[n] = f[n - 1] \o seqs[n]
    BY <1>2 DEF FlattenRun
  <1>4. Unshared(seqs) => /\ \A n \in 1..N : IsInjective(seqs[n])
                          /\ \A m, n \in 1..N : m # n => ToSet(seqs[m]) \cap ToSet(seqs[n]) = {}
    BY DEF Unshared
  <1> HIDE DEF N
  <1> DEFINE D == {n \in 0..N : ToSet(f[n]) = upTo(n) /\ (Unshared(seqs) => IsInjective(f[n]))}
  <1>5. 0 \in D /\ D \in SUBSET (0..N)
    <2>1. ToSet(<<>>) = {} /\ IsInjective(<<>>)
      BY DEF ToSet, IsInjective
    <2>2. upTo(0) = {}
      OBVIOUS
    <2>3. QED
      BY <1>1, <1>3, <2>1, <2>2
  <1>6. ASSUME NEW n \in 1..N, n - 1 \in D PROVE n \in D
    <2>1. n - 1 \in 0..N /\ n \in 0..N
      BY <1>1
    <2>2. f[n - 1] \in Seq(T) /\ seqs[n] \in Seq(T) /\ f[n] = f[n - 1] \o seqs[n]
      BY <1>1, <1>3, <2>1
    <2>3. ToSet(f[n - 1]) = upTo(n - 1) /\ (Unshared(seqs) => IsInjective(f[n - 1]))
      BY <1>6
    <2>4. upTo(n) = upTo(n - 1) \cup ToSet(seqs[n])
      <3>1. \A m \in 1..n : m = n \/ m \in 1..(n - 1)
        OBVIOUS
      <3>2. n \in 1..n /\ \A m \in 1..(n - 1) : m \in 1..n
        OBVIOUS
      <3>3. QED
        BY <3>1, <3>2
    <2>5. Unshared(seqs) => upTo(n - 1) \cap ToSet(seqs[n]) = {}
      <3>1. \A m \in 1..(n - 1) : m \in 1..N /\ m # n
        BY <1>1
      <3>2. QED
        BY <1>4, <3>1
    <2> HIDE DEF upTo
    <2>6. ToSet(f[n]) = upTo(n) /\ (Unshared(seqs) => IsInjective(f[n]))
      <3>1. /\ ToSet(f[n - 1] \o seqs[n]) = ToSet(f[n - 1]) \cup ToSet(seqs[n])
            /\ IsInjective(f[n - 1]) /\ IsInjective(seqs[n]) /\ ToSet(f[n - 1]) \cap ToSet(seqs[n]) = {}
                    => IsInjective(f[n - 1] \o seqs[n])
        BY <2>2, ConcatHas
      <3>2. QED
        BY <1>4, <2>2, <2>3, <2>4, <2>5, <3>1
    <2>7. QED
      BY <2>1, <2>6
  <1>7. D = 0..N
    <2> HIDE DEF D
    <2>1. QED
      BY <1>1, <1>5, <1>6, InductionUpTo
  <1>8. N \in D
    <2> HIDE DEF D
    <2>1. QED
      BY <1>1, <1>7
  <1>9. QED
    BY <1>3, <1>8 DEF N

\* A list mapped item by item.
MapOf(g, s) == [i \in 1..Len(s) |-> g[s[i]]]
Mapping(g, seqs, maps) == Len(maps) = Len(seqs) /\ \A n \in 1..Len(seqs) : maps[n] = MapOf(g, seqs[n])

\* A chain of lists mapped item by item is the chain mapped.
LEMMA FlattenMaps ==
    ASSUME NEW T, NEW U, NEW g \in [T -> U], NEW seqs \in Seq(Seq(T)), NEW maps \in Seq(Seq(U)),
           Mapping(g, seqs, maps)
    PROVE  FlattenSeq(maps) = MapOf(g, FlattenSeq(seqs))
  <1> DEFINE N == Len(seqs)
             Mapped(s) == MapOf(g, s)
  <1>1. N \in Nat /\ \A n \in 1..N : seqs[n] \in Seq(T)
    BY LenProperties, ElementOfSeq
  <1>2. PICK f : FlattenRun(seqs, T, f)
    BY FlattenUnfolds
  <1>3. PICK h : FlattenRun(maps, U, h)
    BY FlattenUnfolds
  <1>4. /\ f \in [0..N -> Seq(T)] /\ f[0] = <<>> /\ FlattenSeq(seqs) = f[N]
        /\ \A n \in 1..N : f[n] = f[n - 1] \o seqs[n]
    BY <1>2 DEF FlattenRun
  <1>5. h[0] = <<>> /\ FlattenSeq(maps) = h[N] /\ \A n \in 1..N : h[n] = h[n - 1] \o Mapped(seqs[n])
    BY <1>3 DEF FlattenRun, Mapping
  <1> HIDE DEF N
  <1> USE DEF MapOf
  <1>6. ASSUME NEW a \in Seq(T), NEW b \in Seq(T) PROVE Mapped(a \o b) = Mapped(a) \o Mapped(b)
    <2>1. /\ a \o b \in Seq(T) /\ Len(a \o b) = Len(a) + Len(b) /\ Len(a) \in Nat /\ Len(b) \in Nat
          /\ \A i \in 1..(Len(a) + Len(b)) : (a \o b)[i] = IF i <= Len(a) THEN a[i] ELSE b[i - Len(a)]
      BY ConcatProperties, LenProperties
    <2>2. \A s \in Seq(T) : Mapped(s) \in Seq(U) /\ Len(Mapped(s)) = Len(s)
      <3> SUFFICES ASSUME NEW s \in Seq(T) PROVE Mapped(s) \in Seq(U) /\ Len(Mapped(s)) = Len(s)
        OBVIOUS
      <3>1. Len(s) \in Nat /\ \A i \in 1..Len(s) : g[s[i]] \in U
        BY LenProperties, ElementOfSeq
      <3>2. QED
        BY <3>1, IsASeq
    <2> DEFINE x == Mapped(a)
               y == Mapped(b)
               z == Mapped(a \o b)
               n == Len(a)
               m == Len(b)
    <2>3. x \in Seq(U) /\ y \in Seq(U) /\ z \in Seq(U) /\ Len(x) = n /\ Len(y) = m /\ Len(z) = n + m
      BY <2>1, <2>2
    <2>4. /\ x \o y \in Seq(U) /\ Len(x \o y) = n + m
          /\ \A i \in 1..(n + m) : (x \o y)[i] = IF i <= n THEN x[i] ELSE y[i - n]
      <3> HIDE DEF x, y, n, m
      <3>1. /\ x \o y \in Seq(U) /\ Len(x \o y) = Len(x) + Len(y)
            /\ \A i \in 1..(Len(x) + Len(y)) : (x \o y)[i] = IF i <= Len(x) THEN x[i] ELSE y[i - Len(x)]
        BY <2>3, ConcatProperties
      <3>2. QED
        BY <2>3, <3>1
    <2>5. ASSUME NEW i \in 1..(n + m) PROVE z[i] = (x \o y)[i]
      <3>1. z[i] = g[(a \o b)[i]]
        BY <2>1
      <3>2. CASE i <= n
        <4>1. i \in 1..n /\ x[i] = g[a[i]]
          BY <2>1, <3>2
        <4>2. QED
          BY <2>1, <2>4, <3>1, <3>2, <4>1
      <3>3. CASE ~(i <= n)
        <4>1. i - n \in 1..m /\ y[i - n] = g[b[i - n]]
          BY <2>1, <3>3
        <4>2. QED
          BY <2>1, <2>4, <3>1, <3>3, <4>1
      <3>4. QED
        BY <3>2, <3>3
    <2> HIDE DEF x, y, z, n, m
    <2>6. z = x \o y
      BY <2>3, <2>4, <2>5, SeqEqual
    <2>7. QED
      BY <2>6 DEF x, y, z
  <1> DEFINE D == {n \in 0..N : h[n] = Mapped(f[n])}
  <1>7. 0 \in D /\ D \in SUBSET (0..N)
    <2>1. Mapped(<<>>) = <<>>
      OBVIOUS
    <2>2. QED
      BY <1>1, <1>4, <1>5, <2>1
  <1>8. ASSUME NEW n \in 1..N, n - 1 \in D PROVE n \in D
    <2>1. n - 1 \in 0..N /\ n \in 0..N
      BY <1>1
    <2>2. f[n - 1] \in Seq(T) /\ seqs[n] \in Seq(T) /\ f[n] = f[n - 1] \o seqs[n]
      BY <1>1, <1>4, <2>1
    <2>3. h[n - 1] = Mapped(f[n - 1]) /\ h[n] = h[n - 1] \o Mapped(seqs[n])
      BY <1>5, <1>8
    <2> HIDE DEF Mapped
    <2>4. h[n] = Mapped(f[n])
      BY <1>6, <2>2, <2>3
    <2>5. QED
      BY <2>1, <2>4
  <1>9. D = 0..N
    <2> HIDE DEF D
    <2>1. QED
      BY <1>1, <1>7, <1>8, InductionUpTo
  <1>10. N \in D
    <2> HIDE DEF D
    <2>1. QED
      BY <1>1, <1>9
  <1>11. QED
    BY <1>4, <1>5, <1>10 DEF N

-----------------------------------------------------------------------------
(* Arranged.                                                               *)

StrictOrder(n, ahead) ==
    /\ DOMAIN ahead = 1..n
    /\ \A i \in 1..n : ahead[i] \subseteq 1..n /\ i \notin ahead[i]
    /\ \A i, j, k \in 1..n : i \in ahead[j] /\ j \in ahead[k] => i \in ahead[k]
    /\ \A i, j \in 1..n : i # j => i \in ahead[j] \/ j \in ahead[i]

\* How many come before a place tells the places apart, and every number of
\* them up to n - 1 occurs.
LEMMA RanksAreAll ==
    ASSUME NEW n \in Nat, NEW ahead, StrictOrder(n, ahead)
    PROVE  /\ \A i \in 1..n : Cardinality(ahead[i]) \in 0..(n - 1)
           /\ \A i, j \in 1..n : i \in ahead[j] =>
                    Cardinality(ahead[i]) < Cardinality(ahead[j])
           /\ \A k \in 1..n : \E i \in 1..n : Cardinality(ahead[i]) = k - 1
  <1> DEFINE B(i) == ahead[i]
             rank == [i \in 1..n |-> Cardinality(B(i))]
  <1>0. IsFiniteSet(1..n) /\ Cardinality(1..n) = n
    BY FS_Interval
  <1>1. ASSUME NEW i \in 1..n
        PROVE  /\ IsFiniteSet(B(i)) /\ Cardinality(B(i)) \in Nat
               /\ IsFiniteSet(B(i) \cup {i}) /\ Cardinality(B(i) \cup {i}) = Cardinality(B(i)) + 1
               /\ Cardinality(B(i)) \in 0..(n - 1)
    <2>1. B(i) \in SUBSET (1..n) /\ i \notin B(i) /\ B(i) \cup {i} \in SUBSET (1..n)
      BY DEF StrictOrder
    <2>2. IsFiniteSet(B(i))
      BY <1>0, <2>1, FS_Subset
    <2>3. Cardinality(B(i) \cup {i}) = Cardinality(B(i)) + 1 /\ IsFiniteSet(B(i) \cup {i})
      BY <2>1, <2>2, FS_AddElement
    <2>4. Cardinality(B(i)) \in Nat
      BY <2>2, FS_CardinalityType
    <2>5. Cardinality(B(i) \cup {i}) <= n
      BY <1>0, <2>1, FS_Subset
    <2> DEFINE c == Cardinality(B(i))
    <2>6. c \in Nat /\ c + 1 <= n
      BY <2>3, <2>4, <2>5
    <2> HIDE DEF c
    <2>7. c \in 0..(n - 1)
      BY <2>6
    <2>8. QED
      BY <2>2, <2>3, <2>4, <2>7 DEF c
  <1>2. ASSUME NEW i \in 1..n, NEW j \in 1..n, i \in ahead[j]
        PROVE  Cardinality(B(i)) < Cardinality(B(j))
    <2>1. B(i) \cup {i} \in SUBSET B(j)
      BY <1>2 DEF StrictOrder
    <2>2. Cardinality(B(i) \cup {i}) <= Cardinality(B(j))
      BY <1>1, <2>1, FS_Subset
    <2> DEFINE b == Cardinality(B(i))
               c == Cardinality(B(j))
    <2>3. b \in Nat /\ c \in Nat /\ b + 1 <= c
      BY <1>1, <2>2
    <2> HIDE DEF b, c
    <2>4. b < c
      BY <2>3
    <2>5. QED
      BY <2>4 DEF b, c
  <1> HIDE DEF B
  <1>3. rank \in [1..n -> 0..(n - 1)]
    <2>1. ASSUME NEW i \in 1..n PROVE Cardinality(B(i)) \in 0..(n - 1)
      BY <1>1
    <2>2. QED
      BY <2>1
  <1>4. rank \in Injection(1..n, 0..(n - 1))
    <2>1. \A i, j \in 1..n : rank[i] = rank[j] => i = j
      <3> SUFFICES ASSUME NEW i \in 1..n, NEW j \in 1..n, i # j PROVE rank[i] # rank[j]
        OBVIOUS
      <3>1. i \in ahead[j] \/ j \in ahead[i]
        BY DEF StrictOrder
      <3>2. rank[i] < rank[j] \/ rank[j] < rank[i]
        BY <1>2, <3>1
      <3>3. rank[i] \in Nat /\ rank[j] \in Nat
        BY <1>1
      <3>4. QED
        BY <3>2, <3>3
    <2> HIDE DEF rank
    <2>2. QED
      BY <1>3, <2>1 DEF Injection, IsInjective
  <1>5. rank \in Surjection(1..n, 0..(n - 1))
    <2>1. IsFiniteSet(0..(n - 1)) /\ Cardinality(0..(n - 1)) = n
      BY FS_Interval
    <2>2. QED
      BY <1>0, <1>4, <2>1, FS_Injection
  <1>6. \A k \in 1..n : \E i \in 1..n : rank[i] = k - 1
    <2>1. \A k \in 1..n : k - 1 \in 0..(n - 1)
      OBVIOUS
    <2>2. QED
      BY <1>5, <2>1 DEF Surjection
  <1>7. QED
    BY <1>2, <1>3, <1>6 DEF B

\* Arranged places every one of 1..n, and earlier those that come before.
LEMMA ArrangedIsInOrder ==
    ASSUME NEW n \in Nat, NEW ahead, StrictOrder(n, ahead)
    PROVE  /\ Arranged(ahead) \in [1..n -> 1..n]
           /\ \A i \in 1..n : \E k \in 1..n : Arranged(ahead)[k] = i
           /\ \A k, l \in 1..n : k < l => Arranged(ahead)[k] \in ahead[Arranged(ahead)[l]]
  <1> DEFINE C(i) == Cardinality(ahead[i])
             A == Arranged(ahead)
  <1>1. /\ \A i \in 1..n : C(i) \in 0..(n - 1)
        /\ \A i, j \in 1..n : i \in ahead[j] => C(i) < C(j)
        /\ \A k \in 1..n : \E i \in 1..n : C(i) = k - 1
    BY RanksAreAll
  <1>2. A = [k \in 1..n |-> CHOOSE i \in 1..n : C(i) = k - 1]
    BY DEF Arranged, StrictOrder
  <1> HIDE DEF A, C
  <1>3. \A k \in 1..n : A[k] \in 1..n /\ C(A[k]) = k - 1
    BY <1>1, <1>2
  <1>4. A \in [1..n -> 1..n]
    <2>1. A = [k \in 1..n |-> A[k]]
      BY <1>2
    <2>2. QED
      BY <1>3, <2>1
  <1>5. \A i, j \in 1..n : i # j => C(i) < C(j) \/ C(j) < C(i)
    BY <1>1 DEF StrictOrder
  <1>6. ASSUME NEW i \in 1..n PROVE \E k \in 1..n : A[k] = i
    <2>1. C(i) + 1 \in 1..n /\ C(i) \in Nat
      BY <1>1
    <2>2. C(A[C(i) + 1]) = C(i) /\ A[C(i) + 1] \in 1..n
      BY <1>3, <2>1
    <2>3. A[C(i) + 1] = i
      BY <1>5, <2>1, <2>2
    <2>4. QED
      BY <2>1, <2>3
  <1>7. ASSUME NEW k \in 1..n, NEW l \in 1..n, k < l PROVE A[k] \in ahead[A[l]]
    <2>1. C(A[k]) = k - 1 /\ C(A[l]) = l - 1 /\ A[k] \in 1..n /\ A[l] \in 1..n
      BY <1>3
    <2>2. A[k] # A[l] /\ ~(C(A[l]) < C(A[k]))
      BY <1>7, <2>1
    <2>3. QED
      BY <1>1, <2>1, <2>2 DEF StrictOrder
  <1>8. QED
    BY <1>4, <1>6, <1>7 DEF A

-----------------------------------------------------------------------------
(* FirstSeen.                                                              *)

\* What is seen first is what there is.
LEMMA FirstSeenHas ==
    ASSUME NEW T, NEW seq \in Seq(T)
    PROVE  /\ FirstSeen(seq) \in Seq(T)
           /\ ToSet(FirstSeen(seq)) = ToSet(seq)
  <1> DEFINE N == Len(seq)
             places == [i \in 1..N |-> i]
             F == {i \in 1..N : \A j \in 1..(i - 1) : seq[j] # seq[i]}
             firsts == Sift(places, F)
             L == FirstSeen(seq)
  <1>1. N \in Nat /\ DOMAIN seq = 1..N /\ \A n \in 1..N : seq[n] \in T
    BY LenProperties, ElementOfSeq
  <1>2. places \in Seq(1..N) /\ Len(places) = N /\ \A i \in 1..N : places[i] = i
    BY <1>1, IsASeq
  <1>3. L = [k \in 1..Len(firsts) |-> seq[firsts[k]]]
    BY DEF FirstSeen
  <1> HIDE DEF N, L, places
  <1>4. firsts \in Seq((1..N) \cap F)
    BY <1>2, SiftKeeps
  <1>5. /\ Len(firsts) \in Nat
        /\ \A k \in 1..Len(firsts) : firsts[k] \in 1..N
    BY <1>4, LenProperties, ElementOfSeq
  <1>6. \A i \in 1..N : i \in F => \E j \in 1..Len(firsts) : firsts[j] = i
    <2> SUFFICES ASSUME NEW i \in 1..N, i \in F PROVE \E j \in 1..Len(firsts) : firsts[j] = i
      OBVIOUS
    <2>1. i \in 1..Len(places) /\ places[i] \in F /\ places[i] = i
      BY <1>2
    <2> HIDE DEF F
    <2>2. \E j \in 1..Len(Sift(places, F)) : Sift(places, F)[j] = places[i]
      <3>1. places \in Seq(1..N)
        BY <1>2
      <3> HIDE DEF firsts
      <3>2. QED
        BY <2>1, <3>1, SiftFinds
    <2>3. QED
      BY <2>1, <2>2
  <1> HIDE DEF firsts
  <1>7. \A k \in 1..Len(firsts) : seq[firsts[k]] \in T
    BY <1>1, <1>5
  <1>8. L \in Seq(T) /\ Len(L) = Len(firsts) /\ DOMAIN L = 1..Len(firsts)
        /\ \A k \in 1..Len(firsts) : L[k] = seq[firsts[k]]
    <2>1. [k \in 1..Len(firsts) |-> seq[firsts[k]]] \in Seq(T)
      BY <1>5, <1>7, IsASeq
    <2>2. QED
      BY <1>3, <1>5, <2>1
  <1>9. ASSUME NEW i \in 1..N PROVE \E k \in 1..Len(firsts) : L[k] = seq[i]
    <2> DEFINE P == {m \in 1..N : seq[m] = seq[i]}
    <2>1. P \in SUBSET Nat /\ P # {}
      OBVIOUS
    <2>2. PICK m \in P : \A k \in P : m <= k
      BY <2>1, LeastOf
    <2>3. m \in F
      BY <1>1, <2>2
    <2>4. PICK j \in 1..Len(firsts) : firsts[j] = m
      BY <1>6, <2>3
    <2>5. QED
      BY <1>8, <2>4
  <1>10. ToSet(L) = ToSet(seq)
    <2>1. ASSUME NEW x \in ToSet(L) PROVE x \in ToSet(seq)
      <3>1. PICK k \in 1..Len(firsts) : x = L[k]
        BY <1>8 DEF ToSet
      <3>2. x = seq[firsts[k]] /\ firsts[k] \in 1..N
        BY <1>5, <1>8, <3>1
      <3>3. QED
        BY <1>1, <3>2 DEF ToSet
    <2>2. ASSUME NEW x \in ToSet(seq) PROVE x \in ToSet(L)
      <3>1. PICK i \in 1..N : x = seq[i]
        BY <1>1 DEF ToSet
      <3>2. PICK k \in 1..Len(firsts) : L[k] = x
        BY <1>9, <3>1
      <3>3. QED
        BY <1>8, <3>2 DEF ToSet
    <2>3. QED
      BY <2>1, <2>2
  <1>11. QED
    BY <1>8, <1>10 DEF L

\* No item is seen first twice, and an item's place among those seen first
\* counts the others that stand before it.
LEMMA FirstSeenOnce ==
    ASSUME NEW T, NEW seq \in Seq(T)
    PROVE  /\ IsInjective(FirstSeen(seq))
           /\ \A x : PlaceOf(FirstSeen(seq), {x}) =
                IF x \notin ToSet(seq) THEN 0
                ELSE 1 + Cardinality({seq[i] : i \in 1..(PlaceOf(seq, {x}) - 1)})
  <1> DEFINE N == Len(seq)
             places == [i \in 1..N |-> i]
             F == {i \in 1..N : \A j \in 1..(i - 1) : seq[j] # seq[i]}
             firsts == Sift(places, F)
             L == FirstSeen(seq)
             M == Len(firsts)
  <1>1. N \in Nat /\ DOMAIN seq = 1..N /\ \A n \in 1..N : seq[n] \in T
    BY LenProperties, ElementOfSeq
  <1>2. places \in Seq(1..N) /\ Len(places) = N /\ \A i \in 1..N : places[i] = i
    BY <1>1, IsASeq
  <1>3. L = [k \in 1..M |-> seq[firsts[k]]]
    BY DEF FirstSeen
  <1> HIDE DEF N, L, places, F
  <1>4. PICK h : Picks(h, firsts, places, N, F)
    BY <1>2, SiftPicks
  <1>5. M \in Nat
    BY <1>2, SiftCounts
  <1> HIDE DEF firsts, M
  <1>6. /\ \A k \in 1..M : firsts[k] \in 1..N /\ firsts[k] \in F
        /\ \A j, k \in 1..M : j < k => firsts[j] < firsts[k]
        /\ \A i \in F : \E k \in 1..M : firsts[k] = i
    <2>1. /\ h \in [1..M -> 1..N]
          /\ \A k \in 1..M : firsts[k] = places[h[k]] /\ firsts[k] \in F
          /\ \A j, k \in 1..M : j < k => h[j] < h[k]
          /\ \A i \in 1..N : places[i] \in F => \E k \in 1..M : h[k] = i
      BY <1>4 DEF Picks, M
    <2>2. \A k \in 1..M : firsts[k] = h[k]
      BY <1>2, <2>1
    <2>3. F \subseteq 1..N
      BY DEF F
    <2>4. QED
      BY <1>2, <2>1, <2>2, <2>3
  <1>7. DOMAIN L = 1..M /\ (\A k \in 1..M : L[k] = seq[firsts[k]]) /\ L \in Seq(T) /\ Len(L) = M
    <2>1. \A k \in 1..M : seq[firsts[k]] \in T
      BY <1>1, <1>6
    <2>2. QED
      BY <1>3, <1>5, <2>1, IsASeq
  <1>8. ASSUME NEW j \in 1..M, NEW k \in 1..M, j < k PROVE L[j] # L[k]
    <2>1. firsts[j] < firsts[k] /\ firsts[k] \in F /\ firsts[j] \in 1..N /\ firsts[k] \in 1..N
      BY <1>6, <1>8
    <2>2. firsts[j] \in 1..(firsts[k] - 1)
      BY <1>1, <2>1
    <2>3. seq[firsts[j]] # seq[firsts[k]]
      BY <2>1, <2>2 DEF F
    <2>4. QED
      BY <1>7, <2>3
  <1>9. IsInjective(L)
    <2> SUFFICES ASSUME NEW j \in 1..M, NEW k \in 1..M, j # k PROVE L[j] # L[k]
      BY <1>7 DEF IsInjective
    <2>1. j < k \/ k < j
      BY <1>5
    <2>2. QED
      BY <1>8, <2>1
  <1>10. ToSet(L) = ToSet(seq)
    BY FirstSeenHas DEF L
  <1>11. ASSUME NEW x, x \notin ToSet(seq) PROVE PlaceOf(L, {x}) = 0
    BY <1>7, <1>10, <1>11, PlaceOfIs
  <1>12. ASSUME NEW x, x \in ToSet(seq)
         PROVE  PlaceOf(L, {x}) = 1 + Cardinality({seq[i] : i \in 1..(PlaceOf(seq, {x}) - 1)})
    <2> DEFINE at == PlaceOf(seq, {x})
               k == PlaceOf(L, {x})
               before == {seq[i] : i \in 1..(at - 1)}
    <2>1. /\ at \in 1..N /\ seq[at] = x /\ \A i \in 1..(at - 1) : seq[i] # x
      <3>1. at \in 0..N /\ (at = 0 <=> ToSet(seq) \cap {x} = {}) /\ (at # 0 => FirstIn(seq, {x}, at))
        BY PlaceOfIs DEF N
      <3>2. at # 0
        BY <1>12, <3>1
      <3> HIDE DEF at
      <3>3. QED
        BY <1>1, <3>1, <3>2 DEF FirstIn
    <2>2. k \in 1..M /\ L[k] = x
      <3>1. k \in 0..M /\ (k = 0 <=> ToSet(L) \cap {x} = {}) /\ (k # 0 => FirstIn(L, {x}, k))
        BY <1>7, PlaceOfIs
      <3>2. k # 0
        BY <1>10, <1>12, <3>1
      <3>3. QED
        BY <1>5, <3>1, <3>2 DEF FirstIn
    <2> HIDE DEF at, k
    <2>3. firsts[k] = at
      <3>1. at \in F
        BY <2>1 DEF F
      <3>2. PICK l \in 1..M : firsts[l] = at
        BY <1>6, <3>1
      <3>3. L[l] = L[k]
        BY <1>7, <2>1, <2>2, <3>2
      <3>4. l = k
        BY <1>7, <1>9, <2>2, <3>3 DEF IsInjective
      <3>5. QED
        BY <3>2, <3>4
    <2> DEFINE g == [j \in 1..(k - 1) |-> L[j]]
    <2>4. \A j \in 1..(k - 1) : j \in 1..M /\ j < k
      BY <1>5, <2>2
    <2>5. \A j \in 1..(k - 1) : L[j] \in before
      <3> SUFFICES ASSUME NEW j \in 1..(k - 1) PROVE L[j] \in before
        OBVIOUS
      <3>1. firsts[j] < at /\ firsts[j] \in 1..N /\ L[j] = seq[firsts[j]]
        BY <1>6, <1>7, <2>2, <2>3, <2>4
      <3>2. firsts[j] \in 1..(at - 1)
        BY <1>1, <2>1, <3>1
      <3>3. QED
        BY <3>1, <3>2
    <2>6. \A y \in before : \E j \in 1..(k - 1) : L[j] = y
      <3> SUFFICES ASSUME NEW i \in 1..(at - 1) PROVE \E j \in 1..(k - 1) : L[j] = seq[i]
        OBVIOUS
      <3> DEFINE P == {m \in 1..N : seq[m] = seq[i]}
      <3>1. i \in 1..N /\ i < at /\ P \in SUBSET Nat /\ P # {}
        BY <1>1, <2>1
      <3>2. PICK m \in P : \A q \in P : m <= q
        BY <3>1, LeastOf
      <3>3. m \in F /\ m \in 1..N /\ m <= i /\ seq[m] = seq[i]
        BY <1>1, <3>1, <3>2 DEF F
      <3>4. PICK j \in 1..M : firsts[j] = m
        BY <1>6, <3>3
      <3>5. j < k
        <4>1. ~(k <= j)
          <5> SUFFICES ASSUME k <= j PROVE FALSE
            OBVIOUS
          <5>1. firsts[k] <= firsts[j]
            <6>1. k = j \/ k < j
              BY <1>5, <2>2
            <6>2. firsts[k] \in Nat /\ firsts[j] \in Nat
              BY <1>1, <1>6, <2>2
            <6>3. QED
              BY <1>6, <2>2, <6>1, <6>2
          <5>2. QED
            BY <1>1, <2>1, <2>3, <3>1, <3>3, <3>4, <5>1
        <4>2. QED
          BY <1>5, <2>2, <4>1
      <3>6. j \in 1..(k - 1) /\ L[j] = seq[i]
        BY <1>5, <1>7, <2>2, <3>3, <3>4, <3>5
      <3>7. QED
        BY <3>6
    <2> HIDE DEF before
    <2>7. Numbers(g, k - 1, before)
      <3>1. g \in [1..(k - 1) -> before] /\ \A j \in 1..(k - 1) : g[j] = L[j]
        BY <2>5
      <3>2. \A i, j \in 1..(k - 1) : g[i] = g[j] => i = j
        BY <1>7, <1>9, <2>4 DEF IsInjective
      <3> HIDE DEF g
      <3>3. QED
        BY <2>6, <3>1, <3>2 DEF Numbers
    <2>8. k - 1 \in Nat
      BY <1>5, <2>2
    <2>9. Cardinality(before) = k - 1
      BY <2>7, <2>8, NumberedCount
    <2>10. k = 1 + Cardinality(before)
      BY <1>5, <2>2, <2>9
    <2>11. QED
      BY <2>10 DEF before, at, k
  <1>13. QED
    BY <1>9, <1>11, <1>12 DEF L

\* The first few of a sequence.
LEMMA SubSeqFromStart ==
    ASSUME NEW T, NEW s \in Seq(T), NEW n \in 0..Len(s)
    PROVE  /\ SubSeq(s, 1, n) \in Seq(T) /\ Len(SubSeq(s, 1, n)) = n
           /\ \A i \in 1..n : SubSeq(s, 1, n)[i] = s[i]
  <1>1. \A i \in 1..n : s[i] \in T
    <2>1. Len(s) \in Nat /\ \A i \in 1..n : i \in 1..Len(s)
      BY LenProperties
    <2>2. QED
      BY <2>1, ElementOfSeq
  <1>2. n \in Int /\ n \in Nat
    BY LenProperties
  <1>3. QED
    BY <1>1, <1>2, SubSeqProperties

=============================================================================
