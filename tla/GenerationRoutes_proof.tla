----------------------- MODULE GenerationRoutes_proof -----------------------
(***************************************************************************)
(* Proofs about GenerationRoutes: for any number of requests, personas and *)
(* categories, and whatever the model writes.                              *)
(***************************************************************************)
EXTENDS GenerationRoutes, Lists_proof, FiniteSetTheorems, TLAPS

Asked ==
    [ kind    : {"detect", "categories", "personas", "prompts", "seed"},
      phase   : {"charging", "generating", "answered", "refused", "failed"},
      total   : Nat \ {0},
      topic   : Prompt,
      shares  : Seq(Nat \ {0}),
      due     : Nat,
      prompts : [Personas -> Seq(Prompt)],
      verdict : {"none", "accepted", "refused", "incomplete"} ]

-----------------------------------------------------------------------------
(* What a request's shares come to.                                        *)

\* caps[n]: what the first n of the sums come to.
Summing(sums, caps) ==
    /\ caps \in [0..Len(sums) -> Nat] /\ caps[0] = 0
    /\ \A n \in 1..Len(sums) : caps[n] = caps[n - 1] + sums[n]

\* There is a share, and together they are at most the total.
Within(shares, total) ==
    /\ Len(shares) >= 1
    /\ \E caps : Summing(shares, caps) /\ caps[Len(shares)] <= total

\* One share more.
LEMMA OneMoreSummed ==
    ASSUME NEW shares \in Seq(Nat \ {0}), NEW share \in Nat \ {0}, NEW sum \in Nat,
           \E caps : Summing(shares, caps) /\ caps[Len(shares)] = sum
    PROVE  \E caps : /\ Summing(Append(shares, share), caps)
                     /\ caps[Len(Append(shares, share))] = sum + share
  <1> DEFINE N == Len(shares)
             more == Append(shares, share)
  <1>1. PICK caps : Summing(shares, caps) /\ caps[N] = sum
    OBVIOUS
  <1>2. /\ N \in Nat /\ Len(more) = N + 1 /\ more[N + 1] = share
        /\ \A n \in 1..N : more[n] = shares[n]
    BY LenProperties, AppendProperties
  <1>3. /\ caps \in [0..N -> Nat] /\ caps[0] = 0
        /\ \A n \in 1..N : caps[n] = caps[n - 1] + shares[n]
    BY <1>1 DEF Summing
  <1> DEFINE d == [n \in 0..(N + 1) |-> IF n = N + 1 THEN sum + share ELSE caps[n]]
  <1> HIDE DEF N, more
  <1>4. d \in [0..(N + 1) -> Nat] /\ d[0] = 0 /\ d[N + 1] = sum + share
        /\ \A n \in 0..N : d[n] = caps[n]
    BY <1>2, <1>3
  <1> HIDE DEF d
  <1>5. ASSUME NEW n \in 1..(N + 1) PROVE d[n] = d[n - 1] + more[n]
    <2>1. CASE n = N + 1
      <3>1. d[n - 1] = sum
        BY <1>1, <1>2, <1>4, <2>1
      <3>2. QED
        BY <1>2, <1>4, <2>1, <3>1
    <2>2. CASE n # N + 1
      <3>1. n \in 1..N /\ n \in 0..N /\ n - 1 \in 0..N
        BY <1>2, <2>2
      <3>2. QED
        BY <1>2, <1>3, <1>4, <3>1
    <2>3. QED
      BY <2>1, <2>2
  <1>6. Summing(more, d) /\ d[Len(more)] = sum + share
    BY <1>2, <1>4, <1>5 DEF Summing
  <1>7. QED
    BY <1>6 DEF more

\* The parts of Split(total, n) come to the total.
LEMMA SplitSums ==
    ASSUME NEW total \in Nat \ {0}, NEW n \in Nat \ {0}
    PROVE  /\ Split(total, n) \in Seq(Nat) /\ Len(Split(total, n)) = n
           /\ \E sum : /\ sum \in [0..n -> Nat] /\ sum[0] = 0 /\ sum[n] = total
                       /\ \A i \in 1..n : sum[i] = sum[i - 1] + Split(total, n)[i]
  <1> DEFINE q == total \div n
             m == total % n
             sum == [i \in 0..n |-> i * q + (IF i <= m THEN i ELSE m)]
  <1>1. q \in Nat /\ m \in 0..(n - 1) /\ total = n * q + m
    OBVIOUS
  <1> HIDE DEF q, m
  <1>2. \A i \in 1..n : Split(total, n)[i] = q + (IF i <= m THEN 1 ELSE 0)
    BY DEF Split, q, m
  <1>3. Split(total, n) \in Seq(Nat) /\ Len(Split(total, n)) = n
    <2>1. Split(total, n) = [i \in 1..n |-> q + (IF i <= m THEN 1 ELSE 0)]
      BY DEF Split, q, m
    <2>2. QED
      BY <1>1, <2>1
  <1>4. \A i \in 0..n : i * q \in Nat
    BY <1>1
  <1>5. sum \in [0..n -> Nat]
    BY <1>1, <1>4
  <1>6. sum[0] = 0 /\ sum[n] = total
    BY <1>1
  <1>7. ASSUME NEW i \in 1..n PROVE sum[i] = sum[i - 1] + Split(total, n)[i]
    <2>1. i * q = (i - 1) * q + q
      BY <1>1
    <2>2. (i - 1) * q \in Nat
      BY <1>1
    <2>3. QED
      BY <1>1, <1>2, <2>1, <2>2
  <1>8. QED
    <2> HIDE DEF sum
    <2>1. QED
      BY <1>3, <1>5, <1>6, <1>7

SummedUp(shares, sum) ==
    /\ shares \in Seq(Nat \ {0})
    /\ \E caps : Summing(shares, caps) /\ caps[Len(shares)] = sum

LEMMA SummedNone == SummedUp(<<>>, 0)
  <1> DEFINE caps == [n \in 0..0 |-> 0]
  <1>1. Len(<<>>) = 0 /\ <<>> \in Seq(Nat \ {0})
    OBVIOUS
  <1>2. Summing(<<>>, caps) /\ caps[Len(<<>>)] = 0
    BY <1>1 DEF Summing
  <1>3. QED
    BY <1>1, <1>2 DEF SummedUp

LEMMA SummedMore ==
    ASSUME NEW shares, NEW sum \in Nat, SummedUp(shares, sum), NEW share \in Nat \ {0}
    PROVE  SummedUp(Append(shares, share), sum + share)
  <1>1. shares \in Seq(Nat \ {0}) /\ \E caps : Summing(shares, caps) /\ caps[Len(shares)] = sum
    BY DEF SummedUp
  <1>2. \E caps : /\ Summing(Append(shares, share), caps)
                  /\ caps[Len(Append(shares, share))] = sum + share
    BY <1>1, OneMoreSummed
  <1>3. Append(shares, share) \in Seq(Nat \ {0})
    BY <1>1, AppendProperties
  <1>4. QED
    BY <1>2, <1>3 DEF SummedUp

\* The categories without a share take nothing from the others.
LEMMA SharesFit ==
    ASSUME NEW total \in Nat \ {0}, NEW n \in Nat
    PROVE  Shares(total, n) \in Seq(Nat \ {0}) /\ Within(Shares(total, n), total)
  <1>0. ASSUME NEW shares, SummedUp(shares, total)
        PROVE  shares \in Seq(Nat \ {0}) /\ Within(shares, total)
    <2>1. shares \in Seq(Nat \ {0}) /\ Len(shares) \in Nat
      BY <1>0, LenProperties DEF SummedUp
    <2>2. PICK caps : Summing(shares, caps) /\ caps[Len(shares)] = total
      BY <1>0 DEF SummedUp
    <2>3. Len(shares) # 0
      BY <2>2 DEF Summing
    <2>4. QED
      BY <2>1, <2>2, <2>3 DEF Within
  <1>1. CASE n = 0
    <2>1. Append(<<>>, total) = <<total>> /\ <<>> \in Seq(Nat \ {0})
      OBVIOUS
    <2>2. SummedUp(Append(<<>>, total), 0 + total)
      BY SummedNone, SummedMore
    <2>3. SummedUp(<<total>>, total)
      BY <2>1, <2>2
    <2>4. QED
      BY <1>0, <1>1, <2>3 DEF Shares
  <1>2. CASE n # 0
    <2> DEFINE seq == Split(total, n)
               pos == Nat \ {0}
    <2>1. seq \in Seq(Nat) /\ Len(seq) = n
      BY <1>2, SplitSums
    <2>2. PICK sum : /\ sum \in [0..n -> Nat] /\ sum[0] = 0 /\ sum[n] = total
                     /\ \A i \in 1..n : sum[i] = sum[i - 1] + seq[i]
      BY <1>2, SplitSums
    <2>3. \A i \in 1..n : seq[i] \in Nat
      BY <2>1, ElementOfSeq
    <2> HIDE DEF seq
    <2>4. PICK f : SiftRun(seq, pos, Nat, f)
      BY <2>1, SiftUnfolds
    <2>5. /\ f[0] = <<>> /\ Sift(seq, pos) = f[n]
          /\ \A i \in 1..n : f[i] = SiftStep(seq, pos, f[i - 1], i)
      BY <2>1, <2>4 DEF SiftRun
    <2> DEFINE D == {i \in 0..n : SummedUp(f[i], sum[i])}
    <2>6. 0 \in D
      BY <2>2, <2>5, SummedNone
    <2>7. ASSUME NEW i \in 1..n, i - 1 \in D PROVE i \in D
      <3>1. SummedUp(f[i - 1], sum[i - 1]) /\ sum[i - 1] \in Nat /\ seq[i] \in Nat
        BY <2>2, <2>3, <2>7
      <3>2. f[i] = IF seq[i] \in pos THEN Append(f[i - 1], seq[i]) ELSE f[i - 1]
        BY <2>5 DEF SiftStep
      <3>3. CASE seq[i] = 0
        BY <2>2, <3>1, <3>2, <3>3
      <3>4. CASE seq[i] # 0
        <4>1. seq[i] \in Nat \ {0}
          BY <3>1, <3>4
        <4>2. SummedUp(Append(f[i - 1], seq[i]), sum[i - 1] + seq[i])
          BY <3>1, <4>1, SummedMore
        <4>3. QED
          BY <2>2, <3>1, <3>2, <3>4, <4>2
      <3>5. QED
        BY <3>1, <3>3, <3>4
    <2>8. D = 0..n
      <3>1. D \in SUBSET (0..n)
        OBVIOUS
      <3> HIDE DEF D
      <3>2. QED
        BY <2>6, <2>7, <3>1, InductionUpTo
    <2>9. SummedUp(Sift(seq, pos), total)
      BY <2>2, <2>5, <2>8
    <2>10. Shares(total, n) = Sift(seq, pos)
      BY <1>2 DEF Shares, seq
    <2>11. QED
      BY <1>0, <2>9, <2>10
  <1>3. QED
    BY <1>1, <1>2

-----------------------------------------------------------------------------
(* What is left of what the model writes.                                  *)

LEMMA ListIsSequence == ASSUME NEW S, NEW k \in Nat, NEW list \in [1..k -> S] PROVE list \in Seq(S)
  OBVIOUS

LEMMA ListsAreSequences == ASSUME NEW S PROVE ListsOf(S) \subseteq Seq(S)
  <1> SUFFICES ASSUME NEW k \in 0..MaxList, NEW list \in [1..k -> S] PROVE list \in Seq(S)
    BY DEF ListsOf
  <1>1. k \in Nat
    BY FittingAssumption
  <1>2. QED
    BY <1>1, ListIsSequence

LEMMA UptoCuts ==
    ASSUME NEW T, NEW list \in Seq(T), NEW limit \in Nat
    PROVE  /\ Upto(list, limit) \in Seq(T)
           /\ Len(Upto(list, limit)) = IF Len(list) < limit THEN Len(list) ELSE limit
           /\ \A i \in 1..Len(Upto(list, limit)) : Upto(list, limit)[i] = list[i]
  <1> DEFINE n == IF Len(list) < limit THEN Len(list) ELSE limit
  <1>1. n \in Nat /\ n <= Len(list) /\ Len(list) \in Nat
    BY LenProperties
  <1>2. Upto(list, limit) = SubSeq(list, 1, n)
    BY DEF Upto
  <1> HIDE DEF n
  <1>3. \A i \in 1..n : i \in 1..Len(list) /\ list[i] \in T
    BY <1>1, ElementOfSeq
  <1>4. SubSeq(list, 1, n) = [i \in 1..n |-> list[i]]
    BY <1>1, <1>3
  <1>5. QED
    BY <1>1, <1>2, <1>3, <1>4 DEF n

\* The prompts built around a topic: no longer and no more naming than it.
Faithful(topic) == {p \in Prompt : (p.long => topic.long) /\ (p.naming => topic.naming)}

LEMMA UsableFits ==
    ASSUME NEW raw \in Seq(Prompt), NEW share \in Nat \ {0}, NEW topic \in Prompt
    PROVE  /\ Usable(raw, share, topic) \in Seq(Faithful(topic))
           /\ Len(Usable(raw, share, topic)) \in 1..share
  <1> DEFINE short == {p \in Prompt : ~p.long}
             quiet == {p \in Prompt : ~p.naming}
             clean == Unnamed(Capped(Cleaned(raw), share))
  <1>1. Cleaned(raw) \in Seq(Prompt \cap short)
    BY SiftKeeps DEF Cleaned
  <1>2. /\ Capped(Cleaned(raw), share) \in Seq(Prompt \cap short)
        /\ Len(Capped(Cleaned(raw), share)) <= share
    <2>1. Len(Cleaned(raw)) \in Nat
      BY <1>1, LenProperties
    <2>2. QED
      BY <1>1, <2>1, UptoCuts DEF Capped
  <1>3. /\ clean \in Seq((Prompt \cap short) \cap quiet)
        /\ Len(clean) <= Len(Capped(Cleaned(raw), share))
    BY <1>2, SiftKeeps DEF Unnamed
  <1>4. (Prompt \cap short) \cap quiet \subseteq Faithful(topic) /\ topic \in Faithful(topic)
    BY DEF Faithful
  <1> HIDE DEF clean
  <1>5. clean \in Seq(Faithful(topic)) /\ Len(clean) <= share /\ Len(clean) \in Nat
    <2>1. Len(clean) \in Nat /\ Len(Capped(Cleaned(raw), share)) \in Nat
      BY <1>2, <1>3, LenProperties
    <2>2. clean \in Seq(Faithful(topic))
      BY <1>3, <1>4
    <2>3. QED
      BY <1>2, <1>3, <2>1, <2>2
  <1>6. CASE clean # <<>>
    <2>1. Len(clean) # 0 /\ Usable(raw, share, topic) = clean
      BY <1>5, <1>6, EmptySeq DEF Usable, clean
    <2>2. QED
      BY <1>5, <2>1
  <1>7. CASE clean = <<>>
    <2>1. Usable(raw, share, topic) = <<topic>>
      BY <1>7 DEF Usable, clean
    <2>2. QED
      BY <1>4, <2>1
  <1>8. QED
    BY <1>6, <1>7

LEMMA AdaptedFits ==
    ASSUME NEW raw \in Seq(Prompt), NEW seed \in Prompt
    PROVE  Adapted(raw, seed) \in Faithful(seed)
  <1>1. CASE raw = <<>>
    BY <1>1 DEF Adapted, Faithful
  <1>2. CASE raw # <<>>
    <2>1. Head(raw) \in Prompt
      BY <1>2, HeadTailProperties
    <2>2. QED
      BY <1>2, <2>1 DEF Adapted, Faithful
  <1>3. QED
    BY <1>1, <1>2

\* The prompts of one persona, over all the shares.
LEMMA MergedFits ==
    ASSUME NEW shares \in Seq(Nat \ {0}), NEW total \in Nat \ {0}, Within(shares, total),
           NEW topic \in Prompt, NEW raw \in [DOMAIN shares -> Raw]
    PROVE  LET merged == FlattenSeq([i \in DOMAIN shares |-> Usable(raw[i], shares[i], topic)])
           IN  merged \in Seq(Faithful(topic)) /\ Len(merged) \in 1..total
  <1> DEFINE seqs == [i \in DOMAIN shares |-> Usable(raw[i], shares[i], topic)]
             N == Len(shares)
             T == Faithful(topic)
  <1>1. N \in Nat /\ DOMAIN shares = 1..N /\ N >= 1 /\ \A i \in 1..N : shares[i] \in Nat \ {0}
    BY LenProperties, ElementOfSeq DEF Within
  <1>2. \A i \in 1..N : raw[i] \in Seq(Prompt)
    <2>1. Raw \subseteq Seq({prompt \in Prompt : ~(prompt.naming /\ prompt.long)})
      BY ListsAreSequences DEF Raw
    <2>2. Seq({prompt \in Prompt : ~(prompt.naming /\ prompt.long)}) \subseteq Seq(Prompt)
      OBVIOUS
    <2>3. QED
      BY <1>1, <2>1, <2>2
  <1>3. \A i \in 1..N : seqs[i] \in Seq(T) /\ Len(seqs[i]) \in 1..shares[i]
    BY <1>1, <1>2, UsableFits
  <1>4. PICK caps : Summing(shares, caps) /\ caps[N] <= total
    BY DEF Within
  <1>5. seqs \in Seq(Seq(T)) /\ Len(seqs) = N
    BY <1>1, <1>3
  <1> HIDE DEF T
  <1> HIDE DEF seqs
  <1>6. Capping(seqs, caps)
    <2>1. /\ caps \in [0..N -> Nat] /\ caps[0] = 0
          /\ \A n \in 1..N : caps[n] = caps[n - 1] + shares[n]
      BY <1>4 DEF Summing
    <2> HIDE DEF N
    <2>2. ASSUME NEW n \in 1..N PROVE Len(seqs[n]) >= 1 /\ caps[n - 1] + Len(seqs[n]) <= caps[n]
      <3> DEFINE l == Len(seqs[n])
                 s == shares[n]
      <3>1. l \in 1..s /\ s \in Nat /\ caps[n] = caps[n - 1] + s
        BY <1>1, <1>3, <2>1
      <3>2. n - 1 \in 0..N /\ caps[n - 1] \in Nat
        BY <1>1, <2>1
      <3> HIDE DEF l, s
      <3>3. l >= 1 /\ caps[n - 1] + l <= caps[n]
        BY <3>1, <3>2
      <3>4. QED
        BY <3>3 DEF l
    <2>3. QED
      BY <1>5, <2>1, <2>2 DEF Capping
  <1>7. FlattenSeq(seqs) \in Seq(T) /\ N <= Len(FlattenSeq(seqs))
        /\ Len(FlattenSeq(seqs)) <= caps[N]
    BY <1>5, <1>6, FlattenFits
  <1>8. Len(FlattenSeq(seqs)) \in 1..total
    <2> DEFINE l == Len(FlattenSeq(seqs))
    <2>1. l \in Nat /\ N <= l /\ l <= caps[N] /\ caps[N] \in Nat
      <3>1. caps[N] \in Nat
        BY <1>1, <1>4 DEF Summing
      <3>2. QED
        BY <1>7, <3>1, LenProperties
    <2> HIDE DEF l, N
    <2>2. l \in 1..total
      BY <1>1, <1>4, <2>1
    <2>3. QED
      BY <2>2 DEF l
  <1>9. QED
    BY <1>7, <1>8 DEF seqs, T

-----------------------------------------------------------------------------
(* The names of the brand and of its competitors.                          *)

Name == [word : STRING, marks : Nat, size : Nat]

LEMMA FittedFits ==
    ASSUME NEW text \in Texts, NEW limit \in Nat \ {0}, NEW fit \in Fitted(text, limit)
    PROVE  fit \in Name /\ fit.size <= limit
  <1>1. text \in Name
    BY FittingAssumption DEF Name
  <1>2. CASE text.size <= limit
    BY <1>1, <1>2 DEF Fitted
  <1>3. CASE ~(text.size <= limit)
    <2>1. PICK size \in 1..limit : fit = [text EXCEPT !.size = size]
      BY <1>3 DEF Fitted
    <2>2. QED
      BY <1>1, <2>1 DEF Name
  <1>4. QED
    BY <1>2, <1>3

LEMMA AsNamesFits ==
    ASSUME NEW T \in SUBSET Name, NEW value \in Seq(T)
    PROVE  /\ AsNames(value) \in Seq({e \in T : e.size > 0})
           /\ Len(AsNames(value)) <= Len(value)
  <1> DEFINE S == {name \in ToSet(value) : Given(name)}
  <1>1. AsNames(value) \in Seq(T \cap S) /\ Len(AsNames(value)) <= Len(value)
    <2>1. AsNames(value) = Sift(value, S)
      BY DEF AsNames
    <2> HIDE DEF S
    <2>2. QED
      BY <2>1, SiftKeeps
  <1>2. T \cap S \subseteq {e \in T : e.size > 0}
    BY DEF Given
  <1>3. Seq(T \cap S) \subseteq Seq({e \in T : e.size > 0})
    BY <1>2
  <1>4. QED
    BY <1>1, <1>3

LEMMA VariantsFit ==
    ASSUME NEW names \in Seq(Name)
    PROVE  WithPlainVariants(names) \in Seq(Name)
  <1> DEFINE of(name) == IF Plain(name) # name /\ Given(Plain(name))
                         THEN <<name, Plain(name)>> ELSE <<name>>
             N == Len(names)
             seqs == [i \in DOMAIN names |-> of(names[i])]
             caps == [n \in 0..N |-> 2 * n]
  <1>1. N \in Nat /\ DOMAIN names = 1..N /\ \A i \in 1..N : names[i] \in Name
    BY LenProperties, ElementOfSeq
  <1>2. ASSUME NEW name \in Name PROVE of(name) \in Seq(Name) /\ Len(of(name)) \in 1..2
    <2>1. CASE Plain(name) # name /\ Given(Plain(name))
      <3>1. Plain(name) \in Name
        <4>1. name.word \in STRING /\ name.marks \in Nat /\ name.size \in Nat
          BY DEF Name
        <4>2. Plain(name) \in [word : STRING, marks : Nat, size : Int]
              /\ Plain(name).size = name.size - name.marks
          BY <4>1 DEF Plain, Name
        <4>3. Plain(name).size > 0
          BY <2>1 DEF Given
        <4>4. QED
          BY <4>2, <4>3 DEF Name
      <3>2. of(name) = <<name, Plain(name)>>
        BY <2>1
      <3> HIDE DEF of
      <3>3. QED
        BY <3>1, <3>2
    <2>2. CASE ~(Plain(name) # name /\ Given(Plain(name)))
      <3>1. of(name) = <<name>>
        BY <2>2
      <3> HIDE DEF of
      <3>2. QED
        BY <3>1
    <2>3. QED
      BY <2>1, <2>2
  <1>3. WithPlainVariants(names) = FlattenSeq(seqs)
    BY DEF WithPlainVariants
  <1> HIDE DEF of, N
  <1>4. seqs \in Seq(Seq(Name)) /\ Len(seqs) = N /\ \A i \in 1..N : Len(seqs[i]) \in 1..2
    BY <1>1, <1>2
  <1> HIDE DEF seqs
  <1>5. Capping(seqs, caps)
    <2>1. caps \in [0..N -> Nat] /\ caps[0] = 0
      BY <1>1
    <2>2. ASSUME NEW n \in 1..N PROVE Len(seqs[n]) >= 1 /\ caps[n - 1] + Len(seqs[n]) <= caps[n]
      <3> DEFINE l == Len(seqs[n])
      <3>1. l \in 1..2 /\ caps[n - 1] = 2 * (n - 1) /\ caps[n] = 2 * n /\ n \in Nat
        BY <1>1, <1>4
      <3> HIDE DEF l, caps
      <3>2. l >= 1 /\ caps[n - 1] + l <= caps[n]
        BY <3>1
      <3>3. QED
        BY <3>2 DEF l
    <2> HIDE DEF caps
    <2>3. QED
      BY <1>4, <2>1, <2>2 DEF Capping
  <1> HIDE DEF caps
  <1>6. QED
    BY <1>3, <1>4, <1>5, FlattenFits

\* Distinct keeps what is there and adds names of the sizes wanted.
DistinctStep(names, sizes, s, n) ==
    IF names[n].size \in sizes /\ names[n] \notin ToSet(s) THEN Append(s, names[n]) ELSE s
Distincts(names, sizes, there, N, f) ==
    f = [n \in 0..N |-> IF n = 0 THEN there ELSE DistinctStep(names, sizes, f[n - 1], n)]

LEMMA DistinctFits ==
    ASSUME NEW names \in Seq(Name), NEW sizes, NEW T, NEW there \in Seq(T)
    PROVE  Distinct(names, sizes, there) \in Seq(T \cup {e \in Name : e.size \in sizes})
  <1> DEFINE N == Len(names)
             V == Seq(T \cup {e \in Name : e.size \in sizes})
             step == [n \in 1..N |-> [s \in V |-> DistinctStep(names, sizes, s, n)]]
             k == CHOOSE f : Distincts(names, sizes, there, N, f)
  <1>1. N \in Nat /\ \A n \in 1..N : names[n] \in Name
    BY LenProperties, ElementOfSeq
  <1>2. Distinct(names, sizes, there) = k[N]
    BY DEF Distinct, Distincts, DistinctStep
  <1>3. there \in V
    OBVIOUS
  <1>4. \A s \in V : \A n \in 1..N : DistinctStep(names, sizes, s, n) \in V
    <2> SUFFICES ASSUME NEW s \in V, NEW n \in 1..N PROVE DistinctStep(names, sizes, s, n) \in V
      OBVIOUS
    <2>1. CASE names[n].size \in sizes
      <3>1. names[n] \in T \cup {e \in Name : e.size \in sizes}
        BY <1>1, <2>1
      <3>2. Append(s, names[n]) \in V
        BY <3>1, AppendProperties
      <3>3. QED
        BY <3>2 DEF DistinctStep
    <2>2. CASE names[n].size \notin sizes
      BY <2>2 DEF DistinctStep
    <2>3. QED
      BY <2>1, <2>2
  <1> HIDE DEF N, V, k
  <1>5. PICK f : Recurs(f, there, step, N, V)
    <2>1. Steps(step, N, V)
      BY <1>4 DEF Steps
    <2> HIDE DEF step
    <2>2. QED
      BY <1>1, <1>3, <2>1, RecursionUpTo
  <1>6. Distincts(names, sizes, there, N, f)
    <2>1. \A n \in 1..N : n - 1 \in 0..N
      BY <1>1
    <2>2. \A n \in 1..N : f[n] = DistinctStep(names, sizes, f[n - 1], n)
      BY <1>5, <2>1 DEF Recurs
    <2>3. \A n \in 0..N : f[n] = IF n = 0 THEN there ELSE DistinctStep(names, sizes, f[n - 1], n)
      BY <1>1, <1>5, <2>2 DEF Recurs
    <2>4. QED
      BY <1>5, <2>3 DEF Recurs, Distincts
  <1>7. Distincts(names, sizes, there, N, k)
    BY <1>6 DEF k
  <1>8. k[0] = there /\ \A n \in 1..N : k[n] = DistinctStep(names, sizes, k[n - 1], n)
    BY <1>1, <1>7 DEF Distincts
  <1> DEFINE D == {n \in 0..N : k[n] \in V}
  <1>9. 0 \in D
    BY <1>1, <1>3, <1>8
  <1>10. \A n \in 1..N : n - 1 \in D => n \in D
    BY <1>1, <1>4, <1>8
  <1>11. D = 0..N
    <2>1. D \in SUBSET (0..N)
      OBVIOUS
    <2> HIDE DEF D
    <2>2. QED
      BY <1>1, <1>9, <1>10, <2>1, InductionUpTo
  <1>12. QED
    BY <1>1, <1>2, <1>11 DEF V

-----------------------------------------------------------------------------
(* What detection and categories answer is taken by the next request.      *)

LEMMA ElementsOf == ASSUME NEW T, NEW list \in Seq(T) PROVE ToSet(list) \subseteq T
  BY ElementOfSeq DEF ToSet

\* Names as they are fitted: bounded in number and each in size.
LEMMA FitNamesAccepted ==
    ASSUME NEW names \in Seq(Name),
           NEW keep \in Seq({e \in Name : e.size \in 1..NameMax})
    PROVE  IsAliases(FitNames(names, keep))
  <1> DEFINE T == {e \in Name : e.size \in 1..NameMax}
             all == Distinct(WithPlainVariants(names), 2..NameMax, keep)
             fit == FitNames(names, keep)
  <1>1. all \in Seq(T)
    <2>1. all \in Seq(T \cup {e \in Name : e.size \in 2..NameMax})
      BY VariantsFit, DistinctFits
    <2>2. T \cup {e \in Name : e.size \in 2..NameMax} = T
      BY FittingAssumption
    <2>3. QED
      BY <2>1, <2>2
  <1>2. MaxAliases \in Nat
    BY FittingAssumption
  <1>3. fit \in Seq(T) /\ Len(fit) <= MaxAliases
    <2>1. fit = Upto(all, MaxAliases)
      BY DEF FitNames
    <2> HIDE DEF all, fit
    <2>2. Len(all) \in Nat
      BY <1>1, LenProperties
    <2>3. QED
      BY <1>1, <1>2, <2>1, <2>2, UptoCuts
  <1> HIDE DEF fit
  <1>4. AsNames(fit) \in Seq({e \in T : e.size > 0}) /\ Len(AsNames(fit)) <= Len(fit)
    BY <1>3, AsNamesFits
  <1>5. Len(AsNames(fit)) \in Nat /\ Len(fit) \in Nat
    BY <1>3, <1>4, LenProperties
  <1>6. ToSet(AsNames(fit)) \subseteq T
    BY <1>4, ElementsOf
  <1>7. Len(AsNames(fit)) <= MaxAliases
    BY <1>2, <1>3, <1>4, <1>5
  <1>8. QED
    BY <1>6, <1>7 DEF IsAliases, IsName, fit

LEMMA CategoryTermsAccepted ==
    ASSUME NEW value \in Seq(Texts)
    PROVE  IsTerms(CategoryTerms(value))
  <1> DEFINE T == {e \in Name : e.size \in TermSizes}
             all == Distinct(AsNames(value), TermSizes, <<>>)
             fit == CategoryTerms(value)
  <1>1. Texts \in SUBSET Name /\ MaxTerms \in Nat
    BY FittingAssumption DEF Name
  <1>2. AsNames(value) \in Seq(Name)
    <2>1. AsNames(value) \in Seq({e \in Texts : e.size > 0})
      BY <1>1, AsNamesFits
    <2>2. {e \in Texts : e.size > 0} \subseteq Name
      BY <1>1
    <2>3. QED
      BY <2>1, <2>2
  <1>3. all \in Seq(T)
    <2>1. <<>> \in Seq({})
      OBVIOUS
    <2>2. all \in Seq({} \cup T)
      BY <1>2, <2>1, DistinctFits
    <2>3. QED
      BY <2>2
  <1>4. fit \in Seq(T) /\ Len(fit) <= MaxTerms
    <2>1. fit = Upto(all, MaxTerms)
      BY DEF CategoryTerms
    <2> HIDE DEF all, fit
    <2>2. Len(all) \in Nat
      BY <1>3, LenProperties
    <2>3. QED
      BY <1>1, <1>3, <2>1, <2>2, UptoCuts
  <1> HIDE DEF fit
  <1>5. AsNames(fit) \in Seq({e \in T : e.size > 0}) /\ Len(AsNames(fit)) <= Len(fit)
    BY <1>4, AsNamesFits
  <1>6. Len(AsNames(fit)) \in Nat /\ Len(fit) \in Nat
    BY <1>4, <1>5, LenProperties
  <1>7. ToSet(AsNames(fit)) \subseteq T
    BY <1>5, ElementsOf
  <1>8. Len(AsNames(fit)) <= MaxTerms
    BY <1>1, <1>4, <1>5, <1>6
  <1>9. \A e \in T : e.size \in 1..NameMax
    BY FittingAssumption
  <1>10. QED
    BY <1>7, <1>8, <1>9 DEF IsTerms, IsName, fit

\* The names of an entity, its own first: its own is fitted before.
LEMMA EntityAccepted ==
    ASSUME NEW text \in Texts, NEW own \in Fitted(text, NameMax), NEW value \in Seq(Texts)
    PROVE  /\ IsAliases(Entity(own, value).matchNames)
           /\ Entity(own, value).name = own
           /\ Given(own) => IsName(own)
  <1> DEFINE keep == IF Given(own) THEN <<own>> ELSE <<>>
             T == {e \in Name : e.size \in 1..NameMax}
  <1>1. NameMax \in Nat \ {0} /\ Texts \in SUBSET Name
    BY FittingAssumption DEF Name
  <1>2. own \in Name /\ own.size <= NameMax /\ own.size \in Nat
    <2>1. own \in Name /\ own.size <= NameMax
      BY <1>1, FittedFits
    <2>2. QED
      BY <2>1 DEF Name
  <1>3. Given(own) => IsName(own) /\ own \in T
    BY <1>1, <1>2 DEF Given, IsName
  <1>4. keep \in Seq(T)
    <2>1. CASE Given(own)
      <3>1. keep = <<own>> /\ own \in T
        BY <1>3, <2>1
      <3> HIDE DEF keep, T
      <3>2. QED
        BY <3>1
    <2>2. CASE ~Given(own)
      BY <2>2
    <2>3. QED
      BY <2>1, <2>2
  <1>5. AsNames(value) \in Seq(Name)
    <2>1. AsNames(value) \in Seq({e \in Texts : e.size > 0})
      BY <1>1, AsNamesFits
    <2>2. {e \in Texts : e.size > 0} \subseteq Name
      BY <1>1
    <2>3. QED
      BY <2>1, <2>2
  <1>6. IsAliases(FitNames(AsNames(value), keep))
    <2> HIDE DEF keep
    <2>1. QED
      BY <1>4, <1>5, FitNamesAccepted
  <1>7. QED
    BY <1>3, <1>6 DEF Entity

LEMMA RivalsAccepted ==
    ASSUME NEW entry \in RivalEntry, NEW rival \in Rivals(entry)
    PROVE  IsCompetitor(rival)
  <1>1. entry.shape # "other"
    BY DEF Rivals
  <1>2. entry.name \in Texts /\ entry.names \in Seq(Texts)
    <2>1. CASE entry \in [shape : {"name"}, name : Texts, names : {<<>>}]
      <3>1. <<>> \in Seq(Texts)
        OBVIOUS
      <3>2. QED
        BY <2>1, <3>1
    <2>2. CASE entry \in [shape : {"object"}, name : Texts, names : [1..1 -> Texts]]
      <3>1. entry.names \in [1..1 -> Texts] /\ 1 \in Nat
        BY <2>2
      <3>2. entry.names \in Seq(Texts)
        BY <3>1, ListIsSequence
      <3>3. QED
        BY <2>2, <3>2
    <2>3. QED
      BY <1>1, <2>1, <2>2 DEF RivalEntry
  <1>3. PICK own \in Fitted(entry.name, NameMax) : Given(own) /\ rival = Entity(own, entry.names)
    BY <1>1 DEF Rivals
  <1>4. QED
    BY <1>2, <1>3, EntityAccepted DEF IsCompetitor

LEMMA CompetitorsAccepted ==
    ASSUME NEW entries \in Seq(RivalEntry), NEW rivals \in Competitors(entries)
    PROVE  Len(rivals) <= MaxCompetitors /\ \A r \in ToSet(rivals) : IsCompetitor(r)
  <1> DEFINE S == {e \in RivalEntry : Rivals(e) # {}}
             cut == Upto(entries, MaxCompetitors)
             kept == Sift(cut, S)
  <1>1. MaxCompetitors \in Nat
    BY FittingAssumption
  <1>2. cut \in Seq(RivalEntry) /\ Len(cut) <= MaxCompetitors
    <2>1. Len(entries) \in Nat
      BY LenProperties
    <2>2. QED
      BY <1>1, <2>1, UptoCuts
  <1>3. rivals \in [DOMAIN kept -> UNION {Rivals(kept[k]) : k \in DOMAIN kept}]
        /\ \A k \in DOMAIN kept : rivals[k] \in Rivals(kept[k])
    BY DEF Competitors
  <1> HIDE DEF S, cut
  <1>4. kept \in Seq(RivalEntry \cap S) /\ Len(kept) <= Len(cut)
    BY <1>2, SiftKeeps
  <1> HIDE DEF kept
  <1>5. /\ Len(kept) \in Nat /\ Len(cut) \in Nat /\ DOMAIN kept = 1..Len(kept)
        /\ \A k \in DOMAIN kept : kept[k] \in RivalEntry
    BY <1>2, <1>4, LenProperties, ElementOfSeq
  <1>6. Len(rivals) = Len(kept) /\ DOMAIN rivals = DOMAIN kept
    <2> DEFINE U == UNION {Rivals(kept[k]) : k \in DOMAIN kept}
               n == Len(kept)
    <2>1. rivals \in [1..n -> U] /\ n \in Nat
      BY <1>3, <1>5
    <2> HIDE DEF U, n
    <2>2. Len(rivals) = n /\ DOMAIN rivals = 1..n
      BY <2>1
    <2>3. QED
      BY <1>5, <2>2 DEF n
  <1>7. \A k \in DOMAIN rivals : IsCompetitor(rivals[k])
    BY <1>3, <1>5, <1>6, RivalsAccepted
  <1>8. Len(rivals) <= MaxCompetitors
    BY <1>1, <1>2, <1>4, <1>5, <1>6
  <1>9. QED
    BY <1>7, <1>8 DEF ToSet

LEMMA DetectionAccepted == DetectVerdicts \subseteq {"accepted", "incomplete"}
  <1> DEFINE contexts == {IsAliases(c) : c \in DetectedContexts}
             terms == {IsTerms(t) : t \in DetectedTerms}
             lines == {IsParagraph(l) : l \in DetectedLines}
             rivals == {Len(c) <= MaxCompetitors /\ \A r \in ToSet(c) : IsCompetitor(r) :
                            c \in DetectedRivals}
  <1>0. /\ \A list \in ListsOf(Texts) : list \in Seq(Texts)
        /\ Seq(Texts) \subseteq Seq(Name)
    <2>1. Texts \subseteq Name
      BY FittingAssumption DEF Name
    <2>2. Seq(Texts) \subseteq Seq(Name)
      BY <2>1
    <2>3. QED
      BY <2>2, ListsAreSequences
  <1>1. ASSUME NEW c \in DetectedContexts PROVE IsAliases(c)
    <2>1. PICK names \in ListsOf(Texts) : c = FitNames(AsNames(names), <<>>)
      BY DEF DetectedContexts
    <2>2. AsNames(names) \in Seq(Name)
      <3>1. AsNames(names) \in Seq({e \in Name : e.size > 0})
        BY <1>0, AsNamesFits
      <3>2. {e \in Name : e.size > 0} \subseteq Name
        OBVIOUS
      <3>3. QED
        BY <3>1, <3>2
    <2>3. <<>> \in Seq({e \in Name : e.size \in 1..NameMax})
      OBVIOUS
    <2>4. QED
      BY <2>1, <2>2, <2>3, FitNamesAccepted
  <1>2. ASSUME NEW t \in DetectedTerms PROVE IsTerms(t)
    BY <1>0, CategoryTermsAccepted DEF DetectedTerms
  <1>3. ASSUME NEW l \in DetectedLines PROVE IsParagraph(l)
    <2>1. PICK text \in Texts : l \in Fitted(text, ParagraphMax)
      BY DEF DetectedLines
    <2>2. ParagraphMax \in Nat \ {0}
      BY FittingAssumption
    <2>3. QED
      BY <2>1, <2>2, FittedFits DEF IsParagraph
  <1>4. ASSUME NEW c \in DetectedRivals
        PROVE  Len(c) <= MaxCompetitors /\ \A r \in ToSet(c) : IsCompetitor(r)
    <2>1. PICK entries \in ListsOf(RivalEntry) : c \in Competitors(entries)
      BY DEF DetectedRivals
    <2>2. entries \in Seq(RivalEntry)
      BY ListsAreSequences
    <2>3. QED
      BY <2>1, <2>2, CompetitorsAccepted
  <1>5. ASSUME NEW ok \in DetectedParts PROVE ok
    <2>0. ok \in contexts \/ ok \in terms \/ ok \in lines \/ ok \in rivals
      BY Zenon DEF DetectedParts
    <2>1. CASE ok \in contexts
      BY <1>1, <2>1, Zenon
    <2>2. CASE ok \in terms
      BY <1>2, <2>2, Zenon
    <2>3. CASE ok \in lines
      BY <1>3, <2>3, Zenon
    <2>4. CASE ok \in rivals
      BY <1>4, <2>4, Zenon
    <2>5. QED
      BY <2>0, <2>1, <2>2, <2>3, <2>4, Zenon
  <1>6. ASSUME NEW b \in DetectedBrands
        PROVE  IsAliases(b.matchNames) /\ (Given(b.name) => IsName(b.name))
    <2>1. PICK own \in UNION {Fitted(text, NameMax) : text \in Texts}, names \in ListsOf(Texts) :
              b = Entity(own, names)
      BY DEF DetectedBrands
    <2>2. PICK text \in Texts : own \in Fitted(text, NameMax)
      OBVIOUS
    <2>3. names \in Seq(Texts)
      BY <1>0
    <2>4. QED
      BY <2>1, <2>2, <2>3, EntityAccepted
  <1>7. ASSUME NEW v \in DetectVerdicts PROVE v \in {"accepted", "incomplete"}
    <2>1. \E b \in DetectedBrands : \E ok \in DetectedParts :
              \/ ~Given(b.name) /\ v = "incomplete"
              \/ Given(b.name) /\ v = "accepted"
              \/ Given(b.name) /\ ~(ok /\ IsName(b.name) /\ IsAliases(b.matchNames)) /\ v = "refused"
      BY DEF DetectVerdicts, Verdict
    <2>2. QED
      BY <1>5, <1>6, <2>1, Zenon
  <1>8. QED
    BY <1>7

LEMMA CategoriesAccepted == CategoryVerdicts \subseteq {"accepted"}
  <1> SUFFICES ASSUME NEW v \in CategoryVerdicts PROVE v = "accepted"
    OBVIOUS
  <1>1. PICK name \in {n \in UNION {Fitted(text, NameMax) : text \in Texts} : Given(n)},
             context \in {c \in UNION {Fitted(text, ParagraphMax) : text \in Texts} : Given(c)} :
             IsName(name) /\ IsParagraph(context) => v = "accepted"
    BY DEF CategoryVerdicts, Verdict
  <1>2. NameMax \in Nat \ {0} /\ ParagraphMax \in Nat \ {0}
    BY FittingAssumption
  <1>3. name \in Name /\ name.size <= NameMax /\ Given(name)
    BY <1>2, FittedFits
  <1>4. context.size <= ParagraphMax
    BY <1>2, FittedFits
  <1>5. IsName(name) /\ IsParagraph(context)
    <2>1. name.size \in Nat
      BY <1>3 DEF Name
    <2>2. QED
      BY <1>2, <1>3, <1>4, <2>1 DEF IsName, IsParagraph, Given
  <1>6. QED
    BY <1>1, <1>5

LEMMA PersonasJudged == PersonaVerdicts \subseteq {"accepted", "refused"}
  BY DEF PersonaVerdicts, Verdict

-----------------------------------------------------------------------------
(* The requests: what is known of one, at each of its steps.               *)

Sound(q) ==
    /\ q.due <= Len(q.shares)
    /\ q.total <= MaxPrompts
    /\ Within(q.shares, q.total)
    /\ q.prompts \in [Personas -> Seq(Faithful(q.topic))]
    /\ q.phase = "answered" /\ q.kind \in {"prompts", "seed"} =>
           \A p \in Personas : Len(q.prompts[p]) \in 1..q.total
    /\ q.kind # "personas" /\ ~q.topic.long => q.verdict # "refused"

Known == request \in [Requests -> {q \in Asked : Sound(q)} \cup {NoRequest}]

LEMMA NoneIsNotAsked == NoRequest \notin Asked /\ NoRequest.phase = "none"
  <1>1. NoRequest.phase = "none"
    BY DEF NoRequest
  <1>2. \A q \in Asked : q.phase # "none"
    BY DEF Asked
  <1>3. QED
    BY <1>1, <1>2

\* A step that gives one request a sound value keeps all of them known.
LEMMA OneChanges ==
    ASSUME Known, NEW r \in Requests, NEW q, q \in Asked \/ q = NoRequest,
           q # NoRequest => Sound(q), request' = [request EXCEPT ![r] = q]
    PROVE  Known'
  <1> DEFINE S == {s \in Asked : Sound(s)} \cup {NoRequest}
  <1>1. q \in S
    OBVIOUS
  <1>2. request \in [Requests -> S]
    BY DEF Known
  <1> HIDE DEF S
  <1>3. request' \in [Requests -> S]
    BY <1>1, <1>2
  <1>4. QED
    BY <1>3 DEF Known, S

LEMMA KnownOne ==
    ASSUME Known, NEW r \in Requests, request[r].phase # "none"
    PROVE  request[r] \in Asked /\ Sound(request[r])
  BY NoneIsNotAsked DEF Known

\* A new request is sound.
LEMMA ArriveSound ==
    ASSUME Known, NEW r \in Requests,
           NEW kind \in {"detect", "categories", "personas", "prompts", "seed"},
           NEW total \in 1..MaxPrompts, NEW shares \in Seq(Nat \ {0}), Within(shares, total),
           NEW topic \in Prompt, Arrive(r, kind, total, shares, topic)
    PROVE  Known'
  <1> DEFINE none == [p \in Personas |-> <<>>]
             q == [kind |-> kind, phase |-> "charging", total |-> total, topic |-> topic,
                   shares |-> shares, due |-> Due(shares), prompts |-> none, verdict |-> "none"]
  <1>1. /\ Due(shares) = Len(shares) /\ Len(shares) \in Nat
        /\ total \in Nat \ {0} /\ total <= MaxPrompts
    BY LenProperties, GenerationAssumption DEF Due
  <1>2. \A T : none \in [Personas -> Seq(T)]
    OBVIOUS
  <1> HIDE DEF none
  <1>3. q \in Asked
    BY <1>1, <1>2 DEF Asked
  <1>4. Sound(q)
    BY <1>1, <1>2 DEF Sound
  <1>5. request' = [request EXCEPT ![r] = q]
    BY DEF Arrive, none
  <1> HIDE DEF q
  <1>6. QED
    BY <1>3, <1>4, <1>5, OneChanges

LEMMA OneShare == <<1>> \in Seq(Nat \ {0}) /\ Within(<<1>>, 1)
  <1>1. Shares(1, 0) = <<1>>
    BY DEF Shares
  <1>2. 1 \in Nat \ {0} /\ 0 \in Nat
    OBVIOUS
  <1>3. Shares(1, 0) \in Seq(Nat \ {0}) /\ Within(Shares(1, 0), 1)
    BY <1>2, SharesFit
  <1>4. QED
    BY <1>1, <1>3

\* A step changes the phase of a request to one that is not an answer.
LEMMA PhaseSound ==
    ASSUME Known, NEW r \in Requests, request[r].phase # "none",
           NEW phase \in {"generating", "refused", "failed"},
           request' = [request EXCEPT ![r].phase = phase]
    PROVE  Known'
  <1> DEFINE q == [request[r] EXCEPT !.phase = phase]
  <1>1. request[r] \in Asked /\ Sound(request[r])
    BY KnownOne
  <1>2. /\ q \in Asked /\ q.phase = phase /\ q.kind = request[r].kind /\ q.due = request[r].due
        /\ q.shares = request[r].shares /\ q.total = request[r].total /\ q.topic = request[r].topic
        /\ q.prompts = request[r].prompts /\ q.verdict = request[r].verdict
    BY <1>1 DEF Asked
  <1>3. request' = [request EXCEPT ![r] = q]
    OBVIOUS
  <1> HIDE DEF q
  <1>4. Sound(q)
    BY <1>1, <1>2 DEF Sound
  <1>5. QED
    BY <1>2, <1>3, <1>4, OneChanges

\* An answer with the prompts of every persona.
LEMMA PromptsSound ==
    ASSUME Known, NEW r \in Requests, request[r].phase = "generating",
           NEW prompts \in [Personas -> Seq(Faithful(request[r].topic))],
           \A p \in Personas : Len(prompts[p]) \in 1..request[r].total,
           AnswerPrompts(r, prompts)
    PROVE  Known'
  <1> DEFINE q == [request[r] EXCEPT !.phase = "answered", !.prompts = prompts,
                                     !.verdict = PromptsVerdict(prompts)]
             topic == request[r].topic
  <1>1. request[r] \in Asked /\ Sound(request[r])
    BY KnownOne
  <1>2. prompts \in [Personas -> Seq(Prompt)]
    <2>1. Faithful(topic) \subseteq Prompt
      BY DEF Faithful
    <2> HIDE DEF topic
    <2>2. Seq(Faithful(topic)) \subseteq Seq(Prompt)
      BY <2>1
    <2>3. QED
      BY <2>2 DEF topic
  <1>3. PromptsVerdict(prompts) \in {"accepted", "refused"}
    BY DEF PromptsVerdict, Verdict
  <1>4. ~topic.long => PromptsVerdict(prompts) = "accepted"
    <2> SUFFICES ASSUME ~topic.long PROVE PromptsVerdict(prompts) = "accepted"
      OBVIOUS
    <2>1. ASSUME NEW p \in Personas, NEW prompt \in ToSet(prompts[p]) PROVE ~prompt.long
      <3>1. prompts[p] \in Seq(Faithful(topic))
        OBVIOUS
      <3>2. prompt \in Faithful(topic)
        BY <3>1, ElementsOf
      <3>3. QED
        BY <3>2 DEF Faithful
    <2>2. ASSUME NEW p \in Personas PROVE Len(prompts[p]) <= MaxPrompts
      <3>1. /\ Len(prompts[p]) \in 1..request[r].total
            /\ request[r].total \in Nat /\ request[r].total <= MaxPrompts
        BY <1>1 DEF Asked, Sound
      <3>2. QED
        BY <3>1, GenerationAssumption
    <2>3. QED
      BY <2>1, <2>2 DEF PromptsVerdict, Verdict
  <1>5. /\ q \in Asked /\ q.phase = "answered" /\ q.kind = request[r].kind
        /\ q.due = request[r].due /\ q.shares = request[r].shares /\ q.total = request[r].total
        /\ q.topic = request[r].topic /\ q.prompts = prompts
        /\ q.verdict = PromptsVerdict(prompts)
    BY <1>1, <1>2, <1>3 DEF Asked
  <1>6. request' = [request EXCEPT ![r] = q]
    BY DEF AnswerPrompts
  <1> HIDE DEF q
  <1>7. Sound(q)
    BY <1>1, <1>4, <1>5 DEF Sound
  <1>8. QED
    BY <1>5, <1>6, <1>7, OneChanges

LEMMA KnownInit == Init => Known
  BY DEF Init, Known

LEMMA KnownStep ==
    ASSUME Known, [Next]_vars
    PROVE  Known'
  <1> USE NoneIsNotAsked
  <1>0. NoRequest.phase = "none"
    BY NoneIsNotAsked
  <1>1. ASSUME NEW r \in Requests, ArrivePrompts(r) PROVE Known'
    <2>1. PICK total \in Totals, n \in CategoryCounts, topic \in Prompt :
              Arrive(r, "prompts", total, Shares(total, n), [topic EXCEPT !.long = @ /\ n = 0])
      BY <1>1 DEF ArrivePrompts
    <2>2. total \in 1..MaxPrompts /\ total \in Nat \ {0} /\ n \in Nat
      BY GenerationAssumption
    <2>3. [topic EXCEPT !.long = @ /\ n = 0] \in Prompt
      BY DEF Prompt
    <2>4. Shares(total, n) \in Seq(Nat \ {0}) /\ Within(Shares(total, n), total)
      BY <2>2, SharesFit
    <2> DEFINE subject == [topic EXCEPT !.long = @ /\ n = 0]
    <2> HIDE DEF subject
    <2>5. subject \in Prompt /\ Arrive(r, "prompts", total, Shares(total, n), subject)
      BY <2>1, <2>3 DEF subject
    <2>6. QED
      BY <2>2, <2>4, <2>5, ArriveSound
  <1>2. ASSUME NEW r \in Requests, ArriveSeed(r) PROVE Known'
    <2>1. PICK seed \in Prompt : Arrive(r, "seed", 1, <<1>>, seed)
      BY <1>2 DEF ArriveSeed
    <2>2. 1 \in 1..MaxPrompts
      BY GenerationAssumption
    <2>3. QED
      BY <2>1, <2>2, OneShare, ArriveSound
  <1>3. ASSUME NEW r \in Requests, ArriveOther(r) PROVE Known'
    <2> DEFINE topic == [naming |-> FALSE, long |-> FALSE]
    <2>1. PICK kind \in {"detect", "categories", "personas"} : Arrive(r, kind, 1, <<1>>, topic)
      BY <1>3 DEF ArriveOther
    <2>2. 1 \in 1..MaxPrompts /\ topic \in Prompt
      BY GenerationAssumption DEF Prompt
    <2> HIDE DEF topic
    <2>3. QED
      BY <2>1, <2>2, OneShare, ArriveSound
  <1>4. ASSUME NEW r \in Requests, Charge(r) PROVE Known'
    <2> DEFINE q == [request[r] EXCEPT !.due = @ - 1]
    <2>1. /\ request[r].phase = "charging" /\ request[r].due > 0
          /\ request' = [request EXCEPT ![r] = q]
      BY <1>4 DEF Charge
    <2>2. request[r] \in Asked /\ Sound(request[r])
      BY <2>1, KnownOne
    <2>3. request[r].due \in Nat /\ request[r].due - 1 \in Nat
      BY <2>1, <2>2 DEF Asked
    <2>4. /\ q \in Asked /\ q.phase = request[r].phase /\ q.kind = request[r].kind
          /\ q.due = request[r].due - 1
          /\ q.shares = request[r].shares /\ q.total = request[r].total
          /\ q.topic = request[r].topic
          /\ q.prompts = request[r].prompts /\ q.verdict = request[r].verdict
      BY <2>2, <2>3 DEF Asked
    <2> HIDE DEF q
    <2>5. Len(request[r].shares) \in Nat
      BY <2>2, LenProperties DEF Asked
    <2>6. Sound(q)
      BY <2>2, <2>3, <2>4, <2>5 DEF Sound
    <2>7. QED
      BY <2>1, <2>4, <2>6, OneChanges
  <1>5. ASSUME NEW r \in Requests, Refuse(r) PROVE Known'
    BY <1>5, PhaseSound DEF Refuse
  <1>6. ASSUME NEW r \in Requests, Generate(r) PROVE Known'
    BY <1>6, PhaseSound DEF Generate
  <1>7. ASSUME NEW r \in Requests, AnswerWithPrompts(r) PROVE Known'
    <2> DEFINE shares == request[r].shares
               topic == request[r].topic
               total == request[r].total
               merged(raw, p) == FlattenSeq([i \in DOMAIN shares |-> Usable(raw[p][i], shares[i], topic)])
    <2>1. PICK raw \in [Personas -> [DOMAIN shares -> Raw]] :
              AnswerPrompts(r, [p \in Personas |-> merged(raw, p)])
      BY <1>7 DEF AnswerWithPrompts
    <2>2. request[r].phase = "generating"
      BY <1>7 DEF AnswerWithPrompts
    <2>3. request[r] \in Asked /\ Sound(request[r])
      BY <2>2, KnownOne
    <2>4. /\ shares \in Seq(Nat \ {0}) /\ Within(shares, total) /\ topic \in Prompt
          /\ total \in Nat \ {0}
      BY <2>3 DEF Asked, Sound
    <2> DEFINE prompts == [p \in Personas |-> merged(raw, p)]
    <2>5. ASSUME NEW p \in Personas
          PROVE  merged(raw, p) \in Seq(Faithful(topic)) /\ Len(merged(raw, p)) \in 1..total
      <3>1. raw[p] \in [DOMAIN shares -> Raw]
        OBVIOUS
      <3> HIDE DEF shares, topic, total
      <3>2. QED
        BY <2>4, <3>1, MergedFits
    <2> HIDE DEF merged
    <2>6. prompts \in [Personas -> Seq(Faithful(topic))]
          /\ \A p \in Personas : Len(prompts[p]) \in 1..total
      BY <2>5
    <2>7. AnswerPrompts(r, prompts)
      BY <2>1
    <2> HIDE DEF prompts
    <2>8. QED
      BY <2>2, <2>6, <2>7, PromptsSound
  <1>8. ASSUME NEW r \in Requests, AnswerWithSeed(r) PROVE Known'
    <2> DEFINE topic == request[r].topic
    <2>1. PICK raw \in [Personas -> Raw] :
              AnswerPrompts(r, [p \in Personas |-> <<Adapted(raw[p], topic)>>])
      BY <1>8 DEF AnswerWithSeed
    <2>2. request[r].phase = "generating"
      BY <1>8 DEF AnswerWithSeed
    <2>3. request[r] \in Asked /\ Sound(request[r])
      BY <2>2, KnownOne
    <2>4. topic \in Prompt /\ request[r].total \in Nat \ {0}
      BY <2>3 DEF Asked
    <2> DEFINE prompts == [p \in Personas |-> <<Adapted(raw[p], topic)>>]
    <2>5. ASSUME NEW p \in Personas PROVE Adapted(raw[p], topic) \in Faithful(topic)
      <3>1. Raw \subseteq Seq({prompt \in Prompt : ~(prompt.naming /\ prompt.long)})
        BY ListsAreSequences DEF Raw
      <3>2. Seq({prompt \in Prompt : ~(prompt.naming /\ prompt.long)}) \subseteq Seq(Prompt)
        OBVIOUS
      <3>3. raw[p] \in Seq(Prompt)
        BY <3>1, <3>2
      <3> HIDE DEF topic
      <3>4. QED
        BY <2>4, <3>3, AdaptedFits
    <2>6. prompts \in [Personas -> Seq(Faithful(topic))]
          /\ \A p \in Personas : Len(prompts[p]) \in 1..request[r].total
      BY <2>4, <2>5
    <2>7. AnswerPrompts(r, prompts)
      BY <2>1
    <2> HIDE DEF prompts
    <2>8. QED
      BY <2>2, <2>6, <2>7, PromptsSound
  <1>9. ASSUME NEW r \in Requests, AnswerOther(r) PROVE Known'
    <2>1. request[r].phase = "generating"
      BY <1>9 DEF AnswerOther
    <2>2. request[r] \in Asked /\ Sound(request[r])
      BY <2>1, KnownOne
    <2>3. PICK verdict \in {"accepted", "incomplete", "refused"} :
              /\ request' = [request EXCEPT ![r].phase = "answered", ![r].verdict = verdict]
              /\ request[r].kind \in {"detect", "categories", "personas"}
              /\ request[r].kind # "personas" => verdict # "refused"
      BY <1>9, DetectionAccepted, CategoriesAccepted, PersonasJudged DEF AnswerOther
    <2> DEFINE q == [request[r] EXCEPT !.phase = "answered", !.verdict = verdict]
    <2>4. /\ q \in Asked /\ q.phase = "answered" /\ q.kind = request[r].kind
          /\ q.due = request[r].due
          /\ q.shares = request[r].shares /\ q.total = request[r].total
          /\ q.topic = request[r].topic /\ q.prompts = request[r].prompts /\ q.verdict = verdict
      BY <2>2 DEF Asked
    <2>5. request' = [request EXCEPT ![r] = q]
      BY <2>3
    <2> HIDE DEF q
    <2>6. Sound(q)
      BY <2>2, <2>3, <2>4 DEF Sound
    <2>7. QED
      BY <2>4, <2>5, <2>6, OneChanges
  <1>10. ASSUME NEW r \in Requests, Fail(r) PROVE Known'
    BY <1>10, PhaseSound DEF Fail
  <1>11. ASSUME NEW r \in Requests, Leave(r) PROVE Known'
    BY <1>11, OneChanges DEF Leave
  <1>12. CASE UNCHANGED request
    BY <1>12 DEF Known
  <1>13. QED
    BY <1>1, <1>2, <1>3, <1>4, <1>5, <1>6, <1>7, <1>8, <1>9, <1>10, <1>11, <1>12
       DEF Next, Redeem, Finish, Refund, Revoke, vars

-----------------------------------------------------------------------------
(* The theorems about the answers.                                         *)

LEMMA KnownAlways == Spec => []Known
  <1>1. Init => Known
    BY KnownInit
  <1>2. Known /\ [Next]_vars => Known'
    BY KnownStep
  <1>3. QED
    BY <1>1, <1>2, PTL DEF Spec

LEMMA KnownRequest ==
    ASSUME Known, NEW r \in Requests, request[r] # NoRequest
    PROVE  request[r] \in Asked /\ Sound(request[r])
  BY DEF Known

\* Selecting more categories never multiplies the prompts: whatever the model
\* returns for whichever category, a persona is left with at least one prompt
\* and at most the total it asked for (prompts.py:26-39, 69-73,
\* prompt_gen.py:187-197).
THEOREM PromptsWithinTheTotal == Spec => []WithinTheTotal
  <1>1. Known => WithinTheTotal
    BY KnownRequest DEF WithinTheTotal, Sound
  <1>2. QED
    BY <1>1, KnownAlways, PTL

\* A prompt names the brand or a competitor only if the topic or the seed that
\* the client wrote does (prompt_gen.py:124-128, 194, 290-298).
THEOREM NoNameIsBroughtIn == Spec => []PromptsNameNoBrand
  <1>1. Known => PromptsNameNoBrand
    <2> SUFFICES ASSUME Known, NEW r \in Requests, request[r] # NoRequest,
                        ~request[r].topic.naming, NEW p \in Personas,
                        NEW prompt \in ToSet(request[r].prompts[p])
                 PROVE  ~prompt.naming
      BY DEF PromptsNameNoBrand
    <2>1. request[r].prompts \in [Personas -> Seq(Faithful(request[r].topic))]
      BY KnownRequest DEF Sound
    <2>2. prompt \in Faithful(request[r].topic)
      BY <2>1, ElementsOf
    <2>3. QED
      BY <2>2 DEF Faithful
  <1>2. QED
    BY <1>1, KnownAlways, PTL

\* An answer that was paid for can be used: sent back as it is, the next request
\* takes it, whatever the model wrote (detect.py:303-304, 188-191,
\* category_gen.py:125-126, prompt_gen.py:140-141).
THEOREM WhatIsPaidForIsUsable == Spec => []AnswersAreAccepted
  <1>1. Known => AnswersAreAccepted
    BY KnownRequest DEF AnswersAreAccepted, Sound
  <1>2. QED
    BY <1>1, KnownAlways, PTL

-----------------------------------------------------------------------------
(* The charges: those accepted for requests that have not generated yet    *)
(* are counted one by one.                                                 *)

Counters ==
    /\ calls \in 0..MaxCalls /\ uses \in 0..MaxUses
    /\ open \in 0..(MaxUses - uses) /\ refunded \in 0..MaxRefunds
    /\ charged \in Nat /\ billed \in Nat

\* A refund takes back a redemption that is counted.
Allowed == charged <= calls + MaxCalls * Redeemed

Prepaid ==
    {x \in Requests \X Nat : /\ request[x[1]].phase = "charging"
                             /\ request[x[1]].due < x[2]
                             /\ x[2] <= Len(request[x[1]].shares)}

Balanced == IsFiniteSet(Prepaid) /\ billed + Cardinality(Prepaid) <= charged

LEMMA CountersInit == Init => Counters /\ Allowed
  <1> SUFFICES ASSUME Init PROVE Counters /\ Allowed
    OBVIOUS
  <1>1. {MaxCalls, MaxUses, MaxRefunds} \subseteq Nat /\ Redeemed = 0
    BY GenerationAssumption DEF Init, Redeemed
  <1>2. MaxCalls * Redeemed = 0
    BY <1>1
  <1>3. QED
    BY <1>1, <1>2 DEF Init, Counters, Allowed

LEMMA AllowedStep ==
    ASSUME Counters, Allowed, Known, [Next]_vars
    PROVE  Counters' /\ Allowed'
  <1>0. {MaxCalls, MaxUses, MaxRefunds} \subseteq Nat
    BY GenerationAssumption
  <1>1. Redeemed \in Nat /\ MaxCalls * Redeemed \in Nat
    BY <1>0 DEF Counters, Redeemed
  <1>2. ASSUME NEW r \in Requests, Charge(r) PROVE Counters' /\ Allowed'
    <2>1. /\ calls' = calls + 1 /\ charged' = charged + 1 /\ calls < MaxCalls
          /\ UNCHANGED <<uses, open, refunded, billed>>
      BY <1>2 DEF Charge, Chargeable, store
    <2>2. Redeemed' = Redeemed
      BY <2>1 DEF Redeemed
    <2>3. Counters'
      BY <1>0, <2>1 DEF Counters
    <2> DEFINE paid == MaxCalls * Redeemed
    <2>4. paid' = paid /\ paid \in Nat /\ charged <= calls + paid
      BY <1>1, <2>2 DEF Allowed
    <2> HIDE DEF paid
    <2>5. charged' <= calls' + paid'
      BY <1>0, <2>1, <2>4 DEF Counters
    <2>6. QED
      BY <2>3, <2>5 DEF Allowed, paid
  <1>3. ASSUME NEW r \in Requests, Generate(r) PROVE Counters' /\ Allowed'
    <2>1. request[r] \in Asked
      BY <1>3, KnownOne DEF Generate
    <2>2. Len(request[r].shares) \in Nat
      BY <2>1, LenProperties DEF Asked
    <2>3. QED
      BY <1>3, <2>2 DEF Generate, Counters, Allowed, Redeemed, store
  <1>4. CASE Redeem
    <2>1. /\ uses' = uses - 1 /\ uses > 0 /\ calls' = 0 /\ open' = open + 1
          /\ UNCHANGED <<refunded, charged, billed>>
      BY <1>4 DEF Redeem
    <2>2. Redeemed' = Redeemed + 1
      BY <1>0, <2>1 DEF Counters, Redeemed
    <2>3. MaxCalls * (Redeemed + 1) = MaxCalls * Redeemed + MaxCalls
      BY <1>0, <1>1
    <2>4. Counters'
      BY <1>0, <2>1 DEF Counters
    <2> DEFINE paid == MaxCalls * Redeemed
    <2>5. paid' = paid + MaxCalls /\ paid \in Nat /\ charged <= calls + paid
      BY <1>1, <2>2, <2>3 DEF Allowed
    <2> HIDE DEF paid
    <2>6. charged' <= calls' + paid'
      BY <1>0, <2>1, <2>5 DEF Counters
    <2>7. QED
      BY <2>4, <2>6 DEF Allowed, paid
  <1>5. CASE Finish \/ Refund
    <2>1. Redeemed' = Redeemed /\ UNCHANGED <<calls, charged, billed>>
      BY <1>0, <1>5 DEF Finish, Refund, Redeemed, Counters
    <2>2. Counters'
      BY <1>0, <1>5 DEF Finish, Refund, Counters
    <2>3. QED
      BY <2>1, <2>2 DEF Allowed
  <1>6. CASE UNCHANGED <<calls, uses, open, refunded, charged, billed>>
    BY <1>6 DEF Counters, Allowed, Redeemed
  <1>7. QED
    BY <1>2, <1>3, <1>4, <1>5, <1>6
       DEF Next, vars, store, ArrivePrompts, ArriveSeed, ArriveOther, Arrive, Refuse,
           AnswerWithPrompts, AnswerWithSeed, AnswerOther, Fail, Leave, Revoke

\* A step that prepays nothing more keeps the balance.
LEMMA QuietStep ==
    ASSUME Balanced, UNCHANGED <<charged, billed>>, Counters, Prepaid' \subseteq Prepaid
    PROVE  Balanced'
  <1>1. IsFiniteSet(Prepaid') /\ Cardinality(Prepaid') <= Cardinality(Prepaid)
    BY FS_Subset DEF Balanced
  <1>2. Cardinality(Prepaid) \in Nat /\ Cardinality(Prepaid') \in Nat
    BY <1>1, FS_CardinalityType DEF Balanced
  <1>3. QED
    BY <1>1, <1>2 DEF Balanced, Counters

LEMMA BalancedStep ==
    ASSUME Balanced, Counters, Known, [Next]_vars
    PROVE  Balanced'
  <1>0. Known'
    BY KnownStep
  <1>1. request \in [Requests -> Asked \cup {NoRequest}] /\ NoRequest.phase = "none"
    BY NoneIsNotAsked DEF Known
  <1>2. IsFiniteSet(Prepaid) /\ Cardinality(Prepaid) \in Nat /\ billed + Cardinality(Prepaid) <= charged
        /\ charged \in Nat /\ billed \in Nat
    BY FS_CardinalityType DEF Balanced, Counters
  <1>3. ASSUME NEW r \in Requests, NEW kind, NEW total, NEW shares, NEW topic,
               Arrive(r, kind, total, shares, topic), Len(shares) \in Nat
        PROVE  Balanced'
    <2> DEFINE q == [kind |-> kind, phase |-> "charging", total |-> total, topic |-> topic,
                     shares |-> shares, due |-> Due(shares),
                     prompts |-> [p \in Personas |-> <<>>], verdict |-> "none"]
    <2>1. request' = [request EXCEPT ![r] = q] /\ UNCHANGED <<charged, billed>>
      BY <1>3 DEF Arrive
    <2>2. q.due = Len(shares) /\ q.shares = shares
      BY DEF Due
    <2> HIDE DEF q
    <2>3. Prepaid' \subseteq Prepaid
      BY <1>1, <1>3, <2>1, <2>2 DEF Prepaid
    <2>4. QED
      BY <2>1, <2>3, QuietStep
  <1>4. ASSUME NEW r \in Requests, ArrivePrompts(r) PROVE Balanced'
    <2>1. PICK total \in Totals, n \in CategoryCounts, topic \in Prompt :
              Arrive(r, "prompts", total, Shares(total, n), [topic EXCEPT !.long = @ /\ n = 0])
      BY <1>4 DEF ArrivePrompts
    <2>2. total \in Nat \ {0} /\ n \in Nat
      BY GenerationAssumption
    <2>3. Len(Shares(total, n)) \in Nat
      BY <2>2, SharesFit, LenProperties
    <2>4. QED
      BY <1>3, <2>1, <2>3
  <1>5. ASSUME NEW r \in Requests, ArriveSeed(r) \/ ArriveOther(r) PROVE Balanced'
    <2>1. Len(<<1>>) \in Nat
      OBVIOUS
    <2>2. QED
      BY <1>3, <1>5, <2>1 DEF ArriveSeed, ArriveOther
  <1>6. ASSUME NEW r \in Requests, Charge(r) PROVE Balanced'
    <2> DEFINE x == <<r, request[r].due>>
    <2>1. /\ request[r].phase = "charging" /\ request[r].due > 0 /\ charged' = charged + 1
          /\ request' = [request EXCEPT ![r].due = @ - 1] /\ billed' = billed
      BY <1>6 DEF Charge
    <2>2. request[r].due \in Nat /\ request[r] \in Asked
      BY <2>1, KnownOne DEF Asked
    <2>3. /\ request'[r].phase = "charging" /\ request'[r].due = request[r].due - 1
          /\ request'[r].shares = request[r].shares
          /\ \A s \in Requests : s # r => request'[s] = request[s]
      BY <1>1, <2>1, <2>2 DEF Asked
    <2>4. Prepaid' \subseteq Prepaid \cup {x}
      <3> SUFFICES ASSUME NEW y \in Prepaid' PROVE y \in Prepaid \cup {x}
        OBVIOUS
      <3>1. PICK s \in Requests, n \in Nat :
                /\ y = <<s, n>> /\ request'[s].phase = "charging"
                /\ request'[s].due < n /\ n <= Len(request'[s].shares)
        BY DEF Prepaid
      <3>2. CASE s # r
        BY <2>3, <3>1, <3>2 DEF Prepaid
      <3>3. CASE s = r
        <4>1. n = request[r].due \/ request[r].due < n
          BY <2>2, <2>3, <3>1, <3>3
        <4>2. QED
          BY <2>1, <2>3, <3>1, <3>3, <4>1 DEF Prepaid
      <3>4. QED
        BY <3>2, <3>3
    <2> HIDE DEF x
    <2>5. /\ IsFiniteSet(Prepaid \cup {x})
          /\ Cardinality(Prepaid \cup {x}) <= Cardinality(Prepaid) + 1
          /\ Cardinality(Prepaid \cup {x}) \in Nat
      <3>1. /\ IsFiniteSet(Prepaid \cup {x})
            /\ Cardinality(Prepaid \cup {x}) =
                   IF x \in Prepaid THEN Cardinality(Prepaid) ELSE Cardinality(Prepaid) + 1
        BY <1>2, FS_AddElement
      <3>2. QED
        BY <1>2, <3>1
    <2>6. IsFiniteSet(Prepaid') /\ Cardinality(Prepaid') <= Cardinality(Prepaid \cup {x})
      BY <2>4, <2>5, FS_Subset
    <2>7. Cardinality(Prepaid') \in Nat
      BY <2>6, FS_CardinalityType
    <2>8. QED
      BY <1>2, <2>1, <2>5, <2>6, <2>7 DEF Balanced
  <1>7. ASSUME NEW r \in Requests, Generate(r) PROVE Balanced'
    <2> DEFINE n == Len(request[r].shares)
               own == {r} \X (1..n)
    <2>1. /\ request[r].phase = "charging" /\ request[r].due = 0 /\ billed' = billed + n
          /\ request' = [request EXCEPT ![r].phase = "generating"] /\ charged' = charged
      BY <1>7 DEF Generate
    <2>2. request[r] \in Asked /\ n \in Nat
      <3>1. request[r] \in Asked
        BY <2>1, KnownOne
      <3>2. QED
        BY <3>1, LenProperties DEF Asked
    <2>3. /\ request'[r].phase = "generating"
          /\ \A s \in Requests : s # r => request'[s] = request[s]
      BY <1>1, <2>1, <2>2 DEF Asked
    <2>4. own \subseteq Prepaid
      BY <2>1, <2>2 DEF Prepaid
    <2>5. Prepaid' \subseteq Prepaid \ own
      <3> SUFFICES ASSUME NEW y \in Prepaid' PROVE y \in Prepaid \ own
        OBVIOUS
      <3>1. PICK s \in Requests, i \in Nat :
                /\ y = <<s, i>> /\ request'[s].phase = "charging"
                /\ request'[s].due < i /\ i <= Len(request'[s].shares)
        BY DEF Prepaid
      <3>2. s # r
        BY <2>3, <3>1
      <3>3. QED
        BY <2>3, <3>1, <3>2 DEF Prepaid
    <2>6. IsFiniteSet(own) /\ Cardinality(own) = n
      <3>1. IsFiniteSet({r}) /\ Cardinality({r}) = 1
        BY FS_Singleton
      <3>2. IsFiniteSet(1..n) /\ Cardinality(1..n) = n
        <4> HIDE DEF n
        <4>1. 1 \in Int /\ n \in Int
          BY <2>2
        <4>2. IsFiniteSet(1..n) /\ Cardinality(1..n) = IF 1 > n THEN 0 ELSE n - 1 + 1
          BY <4>1, FS_Interval
        <4>3. QED
          BY <2>2, <4>2
      <3> HIDE DEF n
      <3>3. IsFiniteSet(own) /\ Cardinality(own) = Cardinality({r}) * Cardinality(1..n)
        BY <3>1, <3>2, FS_Product
      <3>4. QED
        BY <2>2, <3>1, <3>2, <3>3
    <2> HIDE DEF own, n
    <2>7. /\ IsFiniteSet(Prepaid \ own)
          /\ Cardinality(Prepaid \ own) = Cardinality(Prepaid) - n
      <3>1. Prepaid \cap own = own
        BY <2>4
      <3>2. QED
        BY <1>2, <2>6, <3>1, FS_Difference
    <2>8. IsFiniteSet(Prepaid') /\ Cardinality(Prepaid') <= Cardinality(Prepaid \ own)
      BY <2>5, <2>7, FS_Subset
    <2>9. Cardinality(Prepaid') \in Nat
      BY <2>8, FS_CardinalityType
    <2>10. QED
      BY <1>2, <2>1, <2>2, <2>7, <2>8, <2>9 DEF Balanced
  <1>8. ASSUME NEW r \in Requests, NEW q, request' = [request EXCEPT ![r] = q],
               q.phase # "charging", UNCHANGED <<charged, billed>>
        PROVE  Balanced'
    <2>1. Prepaid' \subseteq Prepaid
      BY <1>1, <1>8 DEF Prepaid
    <2>2. QED
      BY <1>8, <2>1, QuietStep
  <1>9. ASSUME NEW r \in Requests,
               \/ Refuse(r) \/ AnswerWithPrompts(r) \/ AnswerWithSeed(r) \/ AnswerOther(r)
               \/ Fail(r) \/ Leave(r)
        PROVE  Balanced'
    <2>1. request[r].phase # "none"
      BY <1>9 DEF Refuse, AnswerWithPrompts, AnswerWithSeed, AnswerOther, Fail, Leave
    <2>2. request[r] \in Asked
      BY <2>1, KnownOne
    <2>3. /\ \E q : request' = [request EXCEPT ![r] = q] /\ q.phase # "charging"
          /\ UNCHANGED <<charged, billed>>
      <3>1. CASE Refuse(r)
        <4> DEFINE q == [request[r] EXCEPT !.phase = "refused"]
        <4>1. request' = [request EXCEPT ![r] = q] /\ q.phase = "refused"
          BY <2>2, <3>1 DEF Refuse, Asked
        <4>2. QED
          BY <3>1, <4>1 DEF Refuse
      <3>2. CASE Fail(r)
        <4> DEFINE q == [request[r] EXCEPT !.phase = "failed"]
        <4>1. request' = [request EXCEPT ![r] = q] /\ q.phase = "failed"
          BY <2>2, <3>2 DEF Fail, Asked
        <4>2. QED
          BY <3>2, <4>1 DEF Fail
      <3>3. ASSUME NEW prompts, AnswerPrompts(r, prompts)
            PROVE  \E q : request' = [request EXCEPT ![r] = q] /\ q.phase # "charging"
        <4> DEFINE q == [request[r] EXCEPT !.phase = "answered", !.prompts = prompts,
                                           !.verdict = PromptsVerdict(prompts)]
        <4>1. request' = [request EXCEPT ![r] = q] /\ q.phase = "answered"
          BY <2>2, <3>3 DEF AnswerPrompts, Asked
        <4>2. QED
          BY <4>1
      <3>4. CASE AnswerWithPrompts(r)
        BY <3>3, <3>4 DEF AnswerWithPrompts
      <3>5. CASE AnswerWithSeed(r)
        BY <3>3, <3>5 DEF AnswerWithSeed
      <3>6. CASE AnswerOther(r)
        <4>1. PICK verdict :
                  request' = [request EXCEPT ![r].phase = "answered", ![r].verdict = verdict]
          BY <3>6 DEF AnswerOther
        <4> DEFINE q == [request[r] EXCEPT !.phase = "answered", !.verdict = verdict]
        <4>2. request' = [request EXCEPT ![r] = q] /\ q.phase = "answered"
          BY <2>2, <4>1 DEF Asked
        <4>3. QED
          BY <3>6, <4>2 DEF AnswerOther
      <3>7. CASE Leave(r)
        BY <1>1, <3>7 DEF Leave
      <3>8. QED
        BY <1>9, <3>1, <3>2, <3>4, <3>5, <3>6, <3>7
           DEF AnswerWithPrompts, AnswerWithSeed
    <2>4. QED
      BY <1>8, <2>3
  <1>10. CASE UNCHANGED <<request, charged, billed>>
    <2>1. Prepaid' \subseteq Prepaid
      BY <1>10 DEF Prepaid
    <2>2. QED
      BY <1>10, <2>1, QuietStep
  <1>11. QED
    BY <1>4, <1>5, <1>6, <1>7, <1>9, <1>10 DEF Next, Redeem, Finish, Refund, Revoke, vars

\* No generation runs unpaid: however requests with several categories overlap,
\* and whenever a redemption resets the counter, a refund gives the use back or a
\* revocation stops the charges between two of them, the generations started are
\* covered by accepted charges, and these by the calls since the last redemption
\* and an allowance for each redemption, the refunded ones among them
\* (prompts.py:41-48, code_store.py:183, 204-217, 235-256).
THEOREM GenerationsArePaid == Spec => []EveryGenerationIsPaid
  <1> DEFINE PInv == Counters /\ Allowed /\ Balanced
  <1>1. Init => PInv
    <2> SUFFICES ASSUME Init PROVE PInv
      OBVIOUS
    <2>1. Counters /\ Allowed
      BY CountersInit
    <2>2. Prepaid = {}
      BY NoneIsNotAsked DEF Init, Prepaid
    <2>3. IsFiniteSet(Prepaid) /\ Cardinality(Prepaid) = 0
      BY <2>2, FS_EmptySet
    <2>4. QED
      BY <2>1, <2>3 DEF Init, Balanced
  <1>2. PInv /\ Known /\ [Next]_vars => PInv'
    BY AllowedStep, BalancedStep
  <1>3. PInv => EveryGenerationIsPaid
    <2> SUFFICES ASSUME PInv PROVE EveryGenerationIsPaid
      OBVIOUS
    <2>1. Cardinality(Prepaid) \in Nat
      BY FS_CardinalityType DEF Balanced
    <2>2. billed <= charged
      BY <2>1 DEF Counters, Balanced
    <2>3. QED
      BY <2>2 DEF Allowed, EveryGenerationIsPaid
  <1>4. QED
    <2> HIDE DEF PInv
    <2>1. QED
      BY <1>1, <1>2, <1>3, KnownAlways, PTL DEF Spec

-----------------------------------------------------------------------------
\* The counters of the code keep within its limits, and a request carries what
\* its kind may (code_store.py:235-256, models.py:289-310).
THEOREM TypeCorrect == Spec => []TypeOK
  <1> DEFINE TInv == Counters /\ Allowed /\ revoked \in BOOLEAN
  <1>1. Init => TInv
    <2> SUFFICES ASSUME Init PROVE TInv
      OBVIOUS
    <2>1. Counters /\ Allowed
      BY CountersInit
    <2>2. QED
      BY <2>1 DEF Init
  <1>2. TInv /\ Known /\ [Next]_vars => TInv'
    <2> SUFFICES ASSUME TInv, Known, [Next]_vars PROVE TInv'
      OBVIOUS
    <2>1. Counters' /\ Allowed'
      BY AllowedStep
    <2>2. revoked' = revoked \/ revoked' = TRUE
      BY DEF Next, vars, ArrivePrompts, ArriveSeed, ArriveOther, Arrive, Charge, Refuse, Generate,
             AnswerWithPrompts, AnswerWithSeed, AnswerOther, Fail, Leave, Redeem, Finish, Refund, Revoke,
             store
    <2>3. QED
      BY <2>1, <2>2
  <1>3. TInv /\ Known => TypeOK
    <2> SUFFICES ASSUME TInv, Known,
                        NEW r \in Requests, request[r] # NoRequest
                 PROVE  /\ request[r].kind \in {"detect", "categories", "personas", "prompts", "seed"}
                        /\ request[r].phase \in {"charging", "generating", "answered", "refused", "failed"}
                        /\ request[r].topic \in Prompt
                        /\ request[r].shares \in Seq(Nat \ {0})
                        /\ request[r].due \in 0..Len(request[r].shares)
                        /\ request[r].prompts \in [Personas -> Seq(Prompt)]
                        /\ request[r].verdict \in {"none", "accepted", "refused", "incomplete"}
      BY Zenon DEF TypeOK, Counters
    <2>1. request[r] \in Asked /\ Sound(request[r])
      BY KnownRequest
    <2>2. Len(request[r].shares) \in Nat
      BY <2>1, LenProperties DEF Asked
    <2>3. QED
      BY <2>1, <2>2 DEF Asked, Sound
  <1>4. QED
    <2> HIDE DEF TInv
    <2>1. QED
      BY <1>1, <1>2, <1>3, KnownAlways, PTL DEF Spec
=============================================================================
