---------------------------- MODULE Analysis_proof ----------------------------
(* That what a job computes is right whatever its models reply: the mentions   *)
(* of an answer stand apart and the parts it is cut into are the answer; a     *)
(* suggested name counts only with evidence; every number of a card and of the *)
(* page agrees with the prompts it counts; and the headline score is earned.   *)
EXTENDS Analysis, Lists_proof

-----------------------------------------------------------------------------
(* Names.                                                                  *)

\* A list stands at the places 1 to its length.
LEMMA ListIs ==
    ASSUME NEW s, IsList(s)
    PROVE  /\ Len(s) \in Nat /\ DOMAIN s = 1..Len(s)
           /\ \A i \in 1..Len(s) : s[i] \in ToSet(s)
           /\ \A x \in ToSet(s) : \E i \in 1..Len(s) : s[i] = x
           /\ s # <<>> <=> Len(s) # 0
  <1>1. s \in Seq(ToSet(s))
    BY DEF IsList
  <1>2. Len(s) \in Nat /\ DOMAIN s = 1..Len(s)
    BY <1>1, LenProperties
  <1>3. QED
    BY <1>1, <1>2, EmptySeq DEF ToSet

\* What a name is looked for by: the name, but for a corporate suffix at its end.
LEMMA CoreNameIs ==
    ASSUME NEW name, IsName(name)
    PROVE  /\ CoreName(name) \in Seq(ToSet(name)) /\ Len(CoreName(name)) \in Nat \ {0}
           /\ name = CoreName(name) \/ \E suffix \in CorporateSuffixes : name = Append(CoreName(name), suffix)
           /\ \A w \in ToSet(name) \ CorporateSuffixes : w \in ToSet(CoreName(name))
  <1> DEFINE n == Len(name)
             core == SubSeq(name, 1, n - 1)
  <1>1. name \in Seq(ToSet(name)) /\ name # <<>>
    BY DEF IsName, IsList
  <1>2. n \in Nat \ {0} /\ \A i \in 1..n : name[i] \in ToSet(name)
    BY <1>1, EmptySeq, ElementOfSeq
  <1>3. CASE n > 1 /\ name[n] \in CorporateSuffixes
    <2>1. CoreName(name) = core
      BY <1>3 DEF CoreName
    <2>2. n - 1 \in 0..n /\ n - 1 # 0
      BY <1>2, <1>3
    <2>3. core \in Seq(ToSet(name)) /\ Len(core) = n - 1 /\ \A i \in 1..(n - 1) : core[i] = name[i]
      BY <1>1, <2>2, SubSeqFromStart
    <2> HIDE DEF core
    <2> DEFINE whole == Append(core, name[n])
    <2>4. name = whole
      <3>1. /\ whole \in Seq(ToSet(name)) /\ Len(whole) = (n - 1) + 1 /\ whole[(n - 1) + 1] = name[n]
            /\ \A i \in 1..(n - 1) : whole[i] = core[i]
        BY <1>2, <2>3, AppendProperties
      <3> HIDE DEF whole
      <3>2. Len(whole) = n /\ \A i \in 1..n : i = n \/ i \in 1..(n - 1)
        BY <1>2, <3>1
      <3>3. \A i \in 1..n : whole[i] = name[i]
        BY <1>2, <2>3, <3>1, <3>2
      <3>4. QED
        BY <1>1, <3>1, <3>2, <3>3, SeqEqual
    <2>5. ASSUME NEW w \in ToSet(name) \ CorporateSuffixes PROVE w \in ToSet(core)
      <3>1. PICK i \in 1..n : name[i] = w
        BY <1>1, SeqMeets
      <3>2. i \in 1..(n - 1)
        BY <1>2, <1>3, <3>1
      <3>3. QED
        BY <2>3, <3>1, <3>2, SeqMeets
    <2>6. Len(core) \in Nat \ {0}
      BY <1>2, <2>2, <2>3
    <2> HIDE DEF whole
    <2>7. \E suffix \in CorporateSuffixes : name = Append(core, suffix)
      BY <1>3, <2>4 DEF whole
    <2>8. QED
      BY <2>1, <2>3, <2>5, <2>6, <2>7
  <1>4. CASE ~(n > 1 /\ name[n] \in CorporateSuffixes)
    <2>1. CoreName(name) = name
      BY <1>4 DEF CoreName
    <2>2. QED
      BY <1>1, <1>2, <2>1
  <1>5. QED
    BY <1>3, <1>4

\* Where a name is counted, its words stand.
LEMMA NameMatchesAre ==
    ASSUME NEW name, IsName(name), NEW text, IsList(text)
    PROVE  /\ NameMatches(name, text) \in Seq(1..Len(text))
           /\ \A i \in ToSet(NameMatches(name, text)) :
                    i \in 1..Len(text) /\ MatchesAt(CoreName(name), text, i)
  <1> DEFINE words == CoreName(name)
             stops == [i \in DOMAIN text |->
                IF words # <<>> /\ MatchesAt(words, text, i) THEN i + Len(words) ELSE 0]
             N == Len(text)
  <1>1. N \in Nat /\ DOMAIN text = 1..N
    BY ListIs
  <1>2. words \in Seq(ToSet(name)) /\ Len(words) \in Nat \ {0}
    BY CoreNameIs
  <1>3. NameMatches(name, text) = LeftToRight(stops)
    BY DEF NameMatches
  <1> HIDE DEF words, N
  <1>4. stops \in Seq(Nat) /\ Len(stops) = N /\ Stepping(stops)
        /\ \A i \in 1..N : stops[i] # 0 => MatchesAt(words, text, i)
    <2>1. \A i \in 1..N : (IF words # <<>> /\ MatchesAt(words, text, i) THEN i + Len(words) ELSE 0) \in Nat
      BY <1>2
    <2>2. stops \in Seq(Nat) /\ Len(stops) = N
      BY <1>1, <2>1, IsASeq
    <2>3. \A i \in 1..N : stops[i] = IF words # <<>> /\ MatchesAt(words, text, i) THEN i + Len(words) ELSE 0
      BY <1>1
    <2> HIDE DEF stops
    <2>4. QED
      BY <1>2, <2>2, <2>3 DEF Stepping
  <1> HIDE DEF stops
  <1>5. LeftToRight(stops) \in Seq(1..N) /\ Disjointly(LeftToRight(stops), stops)
    BY <1>4, LeftToRightTakes
  <1>6. ASSUME NEW i \in ToSet(LeftToRight(stops)) PROVE i \in 1..N /\ MatchesAt(words, text, i)
    <2>1. PICK k \in 1..Len(LeftToRight(stops)) : LeftToRight(stops)[k] = i
      BY <1>5, SeqMeets
    <2>2. i \in 1..N
      BY <1>5, <2>1, ElementOfSeq
    <2>3. stops[i] # 0
      BY <1>5, <2>1 DEF Disjointly
    <2>4. QED
      BY <1>4, <2>2, <2>3
  <1>7. QED
    BY <1>3, <1>5, <1>6 DEF words, N

\* Where words stand, the text reaches as far as they do.
LEMMA MatchFits ==
    ASSUME NEW words, Len(words) \in Nat \ {0}, NEW text, IsList(text),
           NEW i \in 1..Len(text), MatchesAt(words, text, i)
    PROVE  i + Len(words) \in 2..(Len(text) + 1) /\ i < i + Len(words)
  <1>1. Len(text) \in Nat /\ i + Len(words) - 1 <= Len(text)
    BY ListIs DEF MatchesAt
  <1>2. QED
    BY <1>1

-----------------------------------------------------------------------------
(* Mentions.                                                               *)

\* What a search of an answer looks for, and what it records of a match.
SeekOf(name, kind, entity) == [name |-> name, kind |-> kind, entity |-> entity]
Seeks(brandNames, rivals) ==
    {SeekOf(n, "brand", Brand) : n \in ToSet(OrElse(brandNames, Brand))}
    \cup {SeekOf(n, "context", Brand) : n \in ToSet(Context)}
    \cup UNION {{SeekOf(n, "competitor", rivals[r].name) : n \in ToSet(OrElse(rivals[r].names, rivals[r].name))} :
                    r \in DOMAIN rivals}

\* The brand and the rivals as an answer is searched for them: named as in the
\* request, under names of at least a word.
Searchable(brandNames, rivals) ==
    /\ IsList(brandNames) /\ \A n \in ToSet(brandNames) : IsName(n)
    /\ DOMAIN rivals = 1..Len(Rivals)
    /\ \A r \in 1..Len(Rivals) :
          /\ rivals[r].name = Rivals[r].name
          /\ IsList(rivals[r].names) /\ \A n \in ToSet(rivals[r].names) : IsName(n)

LEMMA RequestIs ==
    /\ IsName(Brand) /\ IsList(BrandNames) /\ IsList(Context)
    /\ \A n \in BrandsOwn : IsName(n)
    /\ Len(Rivals) \in Nat /\ DOMAIN Rivals = 1..Len(Rivals)
    /\ \A r \in 1..Len(Rivals) :
          /\ IsList(Rivals[r].names) /\ IsName(Rivals[r].name)
          /\ RivalsApart => Rivals[r].name # Brand
          /\ \A n \in NamesOf(Rivals[r]) : IsName(n)
  <1>1. IsList(Rivals)
    BY ScoringAssumption DEF ScoringAssumption
  <1>2. Len(Rivals) \in Nat /\ DOMAIN Rivals = 1..Len(Rivals)
    BY <1>1, ListIs
  <1>3. IsList(Context)
    <2>1. IsList(<<>>)
      BY DEF IsList, ToSet
    <2>2. QED
      BY <2>1, ScoringAssumption DEF ScoringAssumption, Context
  <1>4. QED
    BY <1>2, <1>3, ScoringAssumption DEF ScoringAssumption, BrandsOwn, RivalNames, NamesOf, RivalsApart

\* Looking for the names of a list.
LEMMA SeekIs ==
    ASSUME NEW names, IsList(names), NEW kind, NEW entity
    PROVE  Seek(names, kind, entity) \in Seq({SeekOf(n, kind, entity) : n \in ToSet(names)})
  <1> DEFINE S == {SeekOf(n, kind, entity) : n \in ToSet(names)}
  <1>1. Len(names) \in Nat /\ DOMAIN names = 1..Len(names) /\ \A i \in 1..Len(names) : names[i] \in ToSet(names)
    BY ListIs
  <1>2. \A i \in 1..Len(names) : SeekOf(names[i], kind, entity) \in S
    BY <1>1
  <1> HIDE DEF S
  <1>3. [i \in 1..Len(names) |-> SeekOf(names[i], kind, entity)] \in Seq(S)
    BY <1>1, <1>2, IsASeq
  <1>4. Seek(names, kind, entity) = [i \in 1..Len(names) |-> SeekOf(names[i], kind, entity)]
    BY <1>1 DEF Seek, SeekOf
  <1>5. QED
    BY <1>3, <1>4 DEF S

LEMMA OrElseIs ==
    ASSUME NEW names, IsList(names), NEW display, IsName(display), \A n \in ToSet(names) : IsName(n)
    PROVE  /\ IsList(OrElse(names, display))
           /\ \A n \in ToSet(OrElse(names, display)) : IsName(n) /\ n \in {display} \cup ToSet(names)
  <1>1. CASE names = <<>>
    <2>1. OrElse(names, display) = <<display>>
      BY <1>1 DEF OrElse
    <2>2. ToSet(<<display>>) = {display}
      BY DEF ToSet
    <2>3. <<display>> \in Seq({display})
      OBVIOUS
    <2>4. QED
      BY <2>1, <2>2, <2>3 DEF IsList
  <1>2. CASE names # <<>>
    BY <1>2 DEF OrElse
  <1>3. QED
    BY <1>1, <1>2

LEMMA SoughtAre ==
    ASSUME NEW brandNames, NEW rivals, Searchable(brandNames, rivals)
    PROVE  /\ Sought(brandNames, rivals) \in Seq(Seeks(brandNames, rivals))
           /\ \A s \in Seeks(brandNames, rivals) : IsName(s.name)
           /\ \A s \in Seeks(brandNames, rivals) :
                  \/ s.kind \in {"brand", "context"} /\ s.entity = Brand
                  \/ s.kind = "competitor" /\ \E r \in 1..Len(Rivals) : s.entity = Rivals[r].name
  <1> DEFINE S == Seeks(brandNames, rivals)
             lists == [r \in DOMAIN rivals |->
                        Seek(OrElse(rivals[r].names, rivals[r].name), "competitor", rivals[r].name)]
             a == Seek(OrElse(brandNames, Brand), "brand", Brand)
             b == Seek(Context, "context", Brand)
             n == Len(Rivals)
  <1>1. /\ IsName(Brand) /\ IsList(Context) /\ \A m \in ToSet(Context) : IsName(m)
        /\ n \in Nat /\ \A r \in 1..n : IsName(Rivals[r].name)
    BY RequestIs DEF BrandsOwn
  <1>2. /\ IsList(brandNames) /\ (\A m \in ToSet(brandNames) : IsName(m)) /\ DOMAIN rivals = 1..n
        /\ \A r \in 1..n : /\ rivals[r].name = Rivals[r].name
                           /\ IsList(rivals[r].names) /\ \A m \in ToSet(rivals[r].names) : IsName(m)
    BY DEF Searchable
  <1>3. IsList(OrElse(brandNames, Brand)) /\ \A m \in ToSet(OrElse(brandNames, Brand)) : IsName(m)
    BY <1>1, <1>2, OrElseIs
  <1>4. \A r \in 1..n : /\ IsList(OrElse(rivals[r].names, rivals[r].name))
                        /\ \A m \in ToSet(OrElse(rivals[r].names, rivals[r].name)) : IsName(m)
    BY <1>1, <1>2, OrElseIs
  <1>5. a \in Seq(S)
    <2>1. a \in Seq({SeekOf(m, "brand", Brand) : m \in ToSet(OrElse(brandNames, Brand))})
      BY <1>3, SeekIs
    <2>2. {SeekOf(m, "brand", Brand) : m \in ToSet(OrElse(brandNames, Brand))} \subseteq S
      BY DEF Seeks
    <2> HIDE DEF S, a
    <2>3. QED
      BY <2>1, <2>2, SeqMonotonic
  <1>6. b \in Seq(S)
    <2>1. b \in Seq({SeekOf(m, "context", Brand) : m \in ToSet(Context)})
      BY <1>1, SeekIs
    <2>2. {SeekOf(m, "context", Brand) : m \in ToSet(Context)} \subseteq S
      BY DEF Seeks
    <2> HIDE DEF S, b
    <2>3. QED
      BY <2>1, <2>2, SeqMonotonic
  <1>7. lists \in Seq(Seq(S))
    <2> DEFINE L(r) == Seek(OrElse(rivals[r].names, rivals[r].name), "competitor", rivals[r].name)
               Q(r) == {SeekOf(m, "competitor", rivals[r].name) : m \in ToSet(OrElse(rivals[r].names, rivals[r].name))}
    <2>1. ASSUME NEW r \in 1..n PROVE L(r) \in Seq(S)
      <3>1. L(r) \in Seq(Q(r))
        BY <1>4, SeekIs
      <3>2. Q(r) \subseteq S
        BY <1>2 DEF Seeks
      <3> HIDE DEF S, L, Q
      <3>3. QED
        BY <3>1, <3>2, SeqMonotonic
    <2>2. [r \in 1..n |-> L(r)] \in Seq(Seq(S))
      <3> HIDE DEF L, S
      <3>1. QED
        BY <1>1, <2>1, IsASeq
    <2>3. lists = [r \in 1..n |-> L(r)]
      BY <1>2
    <2>4. QED
      BY <2>2, <2>3
  <1>8. Sought(brandNames, rivals) = a \o b \o FlattenSeq(lists)
    BY DEF Sought
  <1>9. Sought(brandNames, rivals) \in Seq(S)
    <2> HIDE DEF S, a, b, lists
    <2>1. FlattenSeq(lists) \in Seq(S)
      BY <1>7, FlattenIn
    <2>2. a \o b \in Seq(S)
      BY <1>5, <1>6, ConcatProperties
    <2>3. a \o b \o FlattenSeq(lists) \in Seq(S)
      BY <2>1, <2>2, ConcatProperties
    <2>4. QED
      BY <1>8, <2>3
  <1>10. ASSUME NEW s \in S
         PROVE  /\ IsName(s.name)
                /\ \/ s.kind \in {"brand", "context"} /\ s.entity = Brand
                   \/ s.kind = "competitor" /\ \E r \in 1..n : s.entity = Rivals[r].name
    <2>1. CASE \E m \in ToSet(OrElse(brandNames, Brand)) : s = SeekOf(m, "brand", Brand)
      BY <1>3, <2>1 DEF SeekOf
    <2>2. CASE \E m \in ToSet(Context) : s = SeekOf(m, "context", Brand)
      BY <1>1, <2>2 DEF SeekOf
    <2>3. CASE \E r \in 1..n : \E m \in ToSet(OrElse(rivals[r].names, rivals[r].name)) :
                    s = SeekOf(m, "competitor", rivals[r].name)
      <3>1. PICK r \in 1..n : \E m \in ToSet(OrElse(rivals[r].names, rivals[r].name)) :
                    s = SeekOf(m, "competitor", rivals[r].name)
        BY <2>3
      <3>2. PICK m \in ToSet(OrElse(rivals[r].names, rivals[r].name)) : s = SeekOf(m, "competitor", rivals[r].name)
        BY <3>1
      <3>3. s.name = m /\ s.kind = "competitor" /\ s.entity = rivals[r].name
        BY <3>2 DEF SeekOf
      <3>4. QED
        BY <1>2, <1>4, <3>2, <3>3
    <2>4. QED
      BY <1>2, <2>1, <2>2, <2>3 DEF Seeks
  <1>11. QED
    BY <1>9, <1>10

\* The names of the products.
Products == {Brand} \cup {Rivals[r].name : r \in 1..Len(Rivals)}

\* A mention of an answer, and the search that found it.
MentionSet(text) ==
    [start : 1..Len(text), stop : 2..(Len(text) + 1), kind : {"brand", "competitor"}, name : Products]
Found(m, text, seek) ==
    /\ m.start < m.stop
    /\ m.stop = m.start + Len(CoreName(seek.name)) /\ MatchesAt(CoreName(seek.name), text, m.start)
    /\ m.kind = IF seek.kind = "competitor" THEN "competitor" ELSE "brand"
    /\ m.name = seek.entity
    /\ RivalsApart => (m.kind = "brand" <=> m.name = Brand)

\* The mentions of an answer are matches that stand one after another.
Mentions(ms, text, S) ==
    /\ ms \in Seq(MentionSet(text))
    /\ \A k \in 1..Len(ms) : \E seek \in S : Found(ms[k], text, seek)
    /\ \A j, k \in 1..Len(ms) : j < k => ms[j].stop <= ms[k].start

LEMMA MentionsAre ==
    ASSUME NEW text, IsList(text), NEW brandNames, NEW rivals, Searchable(brandNames, rivals)
    PROVE  Mentions(FindMentions(text, brandNames, rivals), text, Seeks(brandNames, rivals))
  <1> DEFINE S == Seeks(brandNames, rivals)
             sought == Sought(brandNames, rivals)
             at == [i \in DOMAIN text |-> PlaceOf(sought, {s \in ToSet(sought) : Counts(s, text, i)})]
             stops == [i \in DOMAIN text |-> IF at[i] = 0 THEN 0 ELSE i + Len(CoreName(sought[at[i]].name))]
             starts == LeftToRight(stops)
             N == Len(text)
             M == Len(starts)
             Mention(k) == [ start |-> starts[k],
                             stop  |-> stops[starts[k]],
                             kind  |-> IF sought[at[starts[k]]].kind = "competitor" THEN "competitor" ELSE "brand",
                             name  |-> sought[at[starts[k]]].entity ]
             ms == FindMentions(text, brandNames, rivals)
  <1>0. N \in Nat /\ DOMAIN text = 1..N
    BY ListIs
  <1>1. /\ sought \in Seq(S) /\ \A s \in S : IsName(s.name)
        /\ \A s \in S : \/ s.kind \in {"brand", "context"} /\ s.entity = Brand
                        \/ s.kind = "competitor" /\ \E r \in 1..Len(Rivals) : s.entity = Rivals[r].name
    BY SoughtAre
  <1> HIDE DEF sought, S, N
  <1>2. ASSUME NEW i \in 1..N
        PROVE  /\ at[i] \in 0..Len(sought)
               /\ at[i] # 0 => sought[at[i]] \in S /\ Counts(sought[at[i]], text, i)
    <2> DEFINE P == {s \in ToSet(sought) : Counts(s, text, i)}
    <2>1. at[i] = PlaceOf(sought, P)
      BY <1>0
    <2>2. PlaceOf(sought, P) \in 0..Len(sought) /\ (PlaceOf(sought, P) # 0 => FirstIn(sought, P, PlaceOf(sought, P)))
      <3> HIDE DEF P
      <3>1. QED
        BY <1>1, PlaceOfIs
    <2>3. ToSet(sought) \subseteq S
      BY <1>1, SeqOfItsItems
    <2>4. QED
      BY <2>1, <2>2, <2>3 DEF FirstIn
  <1> HIDE DEF at
  <1>3. ASSUME NEW i \in 1..N, at[i] # 0
        PROVE  /\ sought[at[i]] \in S
               /\ MatchesAt(CoreName(sought[at[i]].name), text, i)
               /\ i + Len(CoreName(sought[at[i]].name)) \in 2..(N + 1)
               /\ i < i + Len(CoreName(sought[at[i]].name))
    <2> DEFINE s == sought[at[i]]
    <2>1. s \in S /\ IsName(s.name) /\ i \in ToSet(NameMatches(s.name, text))
      BY <1>1, <1>2, <1>3 DEF Counts
    <2>2. MatchesAt(CoreName(s.name), text, i) /\ Len(CoreName(s.name)) \in Nat \ {0}
      BY <2>1, NameMatchesAre, CoreNameIs
    <2>3. QED
      BY <2>1, <2>2, MatchFits DEF N
  <1>4. stops \in Seq(Nat) /\ Len(stops) = N /\ Stepping(stops)
        /\ \A i \in 1..N : stops[i] = IF at[i] = 0 THEN 0 ELSE i + Len(CoreName(sought[at[i]].name))
    <2> DEFINE stop(i) == IF at[i] = 0 THEN 0 ELSE i + Len(CoreName(sought[at[i]].name))
    <2>1. \A i \in 1..N : stop(i) \in Nat /\ (stop(i) # 0 => i < stop(i))
      BY <1>0, <1>3
    <2>2. stops = [i \in 1..N |-> stop(i)]
      BY <1>0
    <2> HIDE DEF stop, stops
    <2>3. stops \in Seq(Nat) /\ Len(stops) = N
      BY <1>0, <2>1, <2>2, IsASeq
    <2>4. \A i \in 1..N : stops[i] = stop(i)
      BY <2>2
    <2>5. Stepping(stops)
      BY <2>1, <2>3, <2>4 DEF Stepping
    <2>6. QED
      BY <2>3, <2>4, <2>5 DEF stop
  <1> HIDE DEF stops
  <1>5. starts \in Seq(1..N) /\ Disjointly(starts, stops)
    BY <1>4, LeftToRightTakes
  <1>6. M \in Nat /\ DOMAIN starts = 1..M /\ \A k \in 1..M : starts[k] \in 1..N /\ at[starts[k]] # 0
    <2>1. M \in Nat /\ DOMAIN starts = 1..M /\ \A k \in 1..M : starts[k] \in 1..N
      BY <1>5, LenProperties, ElementOfSeq
    <2>2. \A k \in 1..M : stops[starts[k]] # 0
      BY <1>5 DEF Disjointly
    <2> HIDE DEF starts, M
    <2>3. QED
      BY <1>4, <2>1, <2>2
  <1>7. ms = [k \in 1..M |-> Mention(k)]
    <2>1. ms = [k \in DOMAIN starts |-> Mention(k)]
      BY DEF FindMentions, at, stops, sought
    <2> HIDE DEF Mention, starts, M
    <2>2. QED
      BY <1>6, <2>1
  <1>8. \A j, k \in 1..M : j < k => stops[starts[j]] <= starts[k]
    BY <1>5 DEF Disjointly
  <1> HIDE DEF starts, M
  <1>9. ASSUME NEW k \in 1..M
        PROVE  /\ Mention(k) \in MentionSet(text)
               /\ \E seek \in S : Found(Mention(k), text, seek)
    <2> DEFINE i == starts[k]
               s == sought[at[i]]
    <2>1. i \in 1..N /\ at[i] # 0
      BY <1>6
    <2>2. s \in S /\ MatchesAt(CoreName(s.name), text, i) /\ stops[i] = i + Len(CoreName(s.name))
          /\ stops[i] \in 2..(N + 1) /\ i < stops[i]
      BY <1>3, <1>4, <2>1
    <2>3. \/ s.kind \in {"brand", "context"} /\ s.entity = Brand
          \/ /\ s.kind = "competitor" /\ \E r \in 1..Len(Rivals) : s.entity = Rivals[r].name
             /\ RivalsApart => s.entity # Brand
      BY <1>1, <2>2, RequestIs
    <2>4. s.entity \in Products
      BY <2>3 DEF Products
    <2>5. Mention(k) = [ start |-> i, stop |-> stops[i],
                         kind |-> IF s.kind = "competitor" THEN "competitor" ELSE "brand", name |-> s.entity ]
      OBVIOUS
    <2> HIDE DEF Mention, i, s
    <2> DEFINE kind == IF s.kind = "competitor" THEN "competitor" ELSE "brand"
    <2>6. kind \in {"brand", "competitor"} /\ (RivalsApart => (kind = "brand" <=> s.entity = Brand))
      BY <2>3
    <2>7. Mention(k) \in MentionSet(text)
      <3> HIDE DEF kind
      <3>1. Mention(k) = [start |-> i, stop |-> stops[i], kind |-> kind, name |-> s.entity]
        BY <2>5 DEF kind
      <3>2. QED
        BY <2>1, <2>2, <2>4, <2>6, <3>1 DEF MentionSet, N
    <2>8. Found(Mention(k), text, s)
      BY <2>2, <2>5, <2>6 DEF Found
    <2>9. QED
      BY <2>2, <2>7, <2>8
  <1>10. \A k \in 1..M : Mention(k).start = starts[k] /\ Mention(k).stop = stops[starts[k]]
    OBVIOUS
  <1> HIDE DEF Mention
  <1>11. ms \in Seq(MentionSet(text)) /\ Len(ms) = M /\ \A k \in 1..M : ms[k] = Mention(k)
    <2>1. [k \in 1..M |-> Mention(k)] \in Seq(MentionSet(text))
      BY <1>6, <1>9, IsASeq
    <2> HIDE DEF ms
    <2>2. QED
      BY <1>6, <1>7, <2>1
  <1> HIDE DEF ms
  <1>12. Mentions(ms, text, S)
    BY <1>8, <1>9, <1>10, <1>11 DEF Mentions
  <1>13. QED
    BY <1>12 DEF ms, S

-----------------------------------------------------------------------------
(* Parts.                                                                  *)

PartSet(text) == [text : Seq(ToSet(text)), kind : {"normal", "brand", "competitor"}, name : {<<>>} \cup Products]
TextsOf(parts) == [i \in 1..Len(parts) |-> parts[i].text]
ShownPart(text, m) == Part(SubSeq(text, m.start, m.stop - 1), m.kind, m.name)

\* The parts are the text up to place c, cut into pieces that are not empty.
Pieces(parts, text, c) ==
    /\ parts \in Seq(PartSet(text))
    /\ c \in 1..(Len(text) + 1) /\ FlattenSeq(TextsOf(parts)) = SubSeq(text, 1, c - 1)
    /\ \A i \in 1..Len(parts) : parts[i].text # <<>>

\* Of the parts, those at the places h are the first n mentions in order, and
\* the others are plain.
Placed(h, parts, text, ms, n) ==
    /\ h \in [1..n -> 1..Len(parts)]
    /\ \A j, k \in 1..n : j < k => h[j] < h[k]
    /\ \A k \in 1..n : parts[h[k]] = ShownPart(text, ms[k])
    /\ \A i \in 1..Len(parts) : \/ parts[i].kind = "normal" /\ parts[i].name = <<>>
                                \/ \E k \in 1..n : h[k] = i

LEMMA TextsAre ==
    ASSUME NEW text, NEW parts \in Seq(PartSet(text))
    PROVE  TextsOf(parts) \in Seq(Seq(ToSet(text))) /\ Len(TextsOf(parts)) = Len(parts)
  <1>1. Len(parts) \in Nat /\ \A i \in 1..Len(parts) : parts[i] \in PartSet(text)
    BY LenProperties, ElementOfSeq
  <1>2. \A i \in 1..Len(parts) : parts[i].text \in Seq(ToSet(text))
    BY <1>1 DEF PartSet
  <1>3. QED
    BY <1>1, <1>2, IsASeq DEF TextsOf

\* The next piece.
LEMMA AddPiece ==
    ASSUME NEW text, IsList(text), NEW parts, NEW c, Pieces(parts, text, c),
           NEW d \in 2..(Len(text) + 1), c < d,
           NEW p \in PartSet(text), p.text = SubSeq(text, c, d - 1)
    PROVE  Pieces(Append(parts, p), text, d)
  <1> DEFINE more == Append(parts, p)
             T == ToSet(text)
             n == Len(parts)
  <1>1. text \in Seq(T) /\ Len(text) \in Nat /\ n \in Nat /\ parts \in Seq(PartSet(text))
        /\ c \in 1..(Len(text) + 1)
    BY ListIs, LenProperties DEF IsList, Pieces
  <1>2. /\ more \in Seq(PartSet(text)) /\ Len(more) = n + 1 /\ more[n + 1] = p
        /\ \A i \in 1..n : more[i] = parts[i]
    BY <1>1, AppendProperties
  <1>3. \A i \in 1..(n + 1) : i = n + 1 \/ i \in 1..n
    BY <1>1
  <1> HIDE DEF more, n
  <1>4. TextsOf(parts) \in Seq(Seq(T)) /\ Len(TextsOf(parts)) = n
    BY <1>1, TextsAre DEF n
  <1>5. TextsOf(more) \in Seq(Seq(T)) /\ Len(TextsOf(more)) = n + 1
    BY <1>2, TextsAre
  <1>6. p.text \in Seq(T) /\ p.text # <<>>
    <2>1. p.text \in Seq(T)
      BY DEF PartSet
    <2>2. \A i \in c..(d - 1) : text[i] \in T
      BY <1>1, ListIs
    <2>3. Len(SubSeq(text, c, d - 1)) = (d - 1) - c + 1
      BY <1>1, <2>2, SubSeqProperties
    <2>4. Len(p.text) # 0
      BY <1>1, <2>3
    <2>5. QED
      BY <2>1, <2>4, EmptySeq
  <1>7. TextsOf(more) = Append(TextsOf(parts), p.text)
    <2> DEFINE s == Append(TextsOf(parts), p.text)
    <2>1. /\ s \in Seq(Seq(T)) /\ Len(s) = n + 1 /\ s[n + 1] = p.text
          /\ \A i \in 1..n : s[i] = TextsOf(parts)[i]
      <3> DEFINE t == TextsOf(parts)
                 x == p.text
      <3> HIDE DEF t, x
      <3>1. t \in Seq(Seq(T)) /\ x \in Seq(T) /\ Len(t) = n
        BY <1>4, <1>6 DEF t, x
      <3>2. /\ Append(t, x) \in Seq(Seq(T)) /\ Len(Append(t, x)) = n + 1 /\ Append(t, x)[n + 1] = x
            /\ \A i \in 1..n : Append(t, x)[i] = t[i]
        BY <3>1, AppendProperties
      <3>3. QED
        BY <3>2 DEF t, x
    <2> HIDE DEF s
    <2>2. \A i \in 1..n : TextsOf(parts)[i] = parts[i].text
      BY DEF TextsOf, n
    <2>3. \A i \in 1..(n + 1) : TextsOf(more)[i] = more[i].text
      BY <1>2 DEF TextsOf
    <2>4. \A i \in 1..(n + 1) : TextsOf(more)[i] = s[i]
      BY <1>1, <1>2, <1>3, <2>1, <2>2, <2>3
    <2>5. TextsOf(more) = s
      BY <1>5, <2>1, <2>4, SeqEqual
    <2>6. QED
      BY <2>5 DEF s
  <1>8. FlattenSeq(TextsOf(more)) = SubSeq(text, 1, c - 1) \o SubSeq(text, c, d - 1)
    BY <1>4, <1>6, <1>7, FlattenAppend DEF Pieces
  <1>9. SubSeq(text, 1, c - 1) \o SubSeq(text, c, d - 1) = SubSeq(text, 1, d - 1)
    <2>1. 1 \in 1..(Len(text) + 1) /\ c - 1 \in (1 - 1)..Len(text) /\ d - 1 \in (c - 1)..Len(text) /\ (c - 1) + 1 = c
      BY <1>1
    <2>2. SubSeq(text, 1, c - 1) \o SubSeq(text, (c - 1) + 1, d - 1) = SubSeq(text, 1, d - 1)
      BY <1>1, <2>1, ConcatAdjacentSubSeq
    <2>3. QED
      BY <2>1, <2>2
  <1>10. \A i \in 1..(n + 1) : more[i].text # <<>>
    <2>1. \A i \in 1..n : parts[i].text # <<>>
      BY DEF Pieces, n
    <2>2. QED
      BY <1>2, <1>3, <1>6, <2>1
  <1>11. d \in 1..(Len(text) + 1)
    BY <1>1
  <1>12. Pieces(more, text, d)
    BY <1>2, <1>8, <1>9, <1>10, <1>11 DEF Pieces
  <1>13. QED
    BY <1>12 DEF more

\* A plain piece between the mentions leaves their places.
LEMMA PlacePlain ==
    ASSUME NEW text, NEW parts \in Seq(PartSet(text)), NEW ms, NEW n \in Nat, NEW h,
           Placed(h, parts, text, ms, n), NEW p \in PartSet(text), p.kind = "normal", p.name = <<>>
    PROVE  Placed(h, Append(parts, p), text, ms, n)
  <1> DEFINE more == Append(parts, p)
             l == Len(parts)
  <1>1. l \in Nat
    BY LenProperties
  <1>2. Len(more) = l + 1 /\ more[l + 1] = p /\ \A i \in 1..l : more[i] = parts[i]
    BY AppendProperties
  <1>3. \A i \in 1..(l + 1) : i = l + 1 \/ i \in 1..l
    BY <1>1
  <1> HIDE DEF more, l
  <1>4. /\ h \in [1..n -> 1..l] /\ \A j, k \in 1..n : j < k => h[j] < h[k]
        /\ \A k \in 1..n : parts[h[k]] = ShownPart(text, ms[k])
        /\ \A i \in 1..l : \/ parts[i].kind = "normal" /\ parts[i].name = <<>>
                           \/ \E k \in 1..n : h[k] = i
    BY DEF Placed, l
  <1>5. h \in [1..n -> 1..(l + 1)]
    BY <1>1, <1>4
  <1>6. \A i \in 1..(l + 1) : \/ more[i].kind = "normal" /\ more[i].name = <<>>
                              \/ \E k \in 1..n : h[k] = i
    BY <1>2, <1>3, <1>4
  <1>7. \A k \in 1..n : more[h[k]] = ShownPart(text, ms[k])
    BY <1>2, <1>4
  <1>8. Placed(h, more, text, ms, n)
    BY <1>2, <1>4, <1>5, <1>6, <1>7 DEF Placed
  <1>9. QED
    BY <1>8 DEF more

\* The next mention takes the next place.
LEMMA PlaceShown ==
    ASSUME NEW text, NEW parts \in Seq(PartSet(text)), NEW ms, NEW n \in Nat \ {0}, NEW h,
           Placed(h, parts, text, ms, n - 1), ShownPart(text, ms[n]) \in PartSet(text)
    PROVE  \E q : Placed(q, Append(parts, ShownPart(text, ms[n])), text, ms, n)
  <1> DEFINE p == ShownPart(text, ms[n])
             more == Append(parts, p)
             l == Len(parts)
             q == [k \in 1..n |-> IF k = n THEN l + 1 ELSE h[k]]
  <1>1. l \in Nat
    BY LenProperties
  <1>2. Len(more) = l + 1 /\ more[l + 1] = p /\ \A i \in 1..l : more[i] = parts[i]
    <2> HIDE DEF p
    <2>1. QED
      BY AppendProperties DEF p
  <1>3. (\A i \in 1..(l + 1) : i = l + 1 \/ i \in 1..l) /\ (\A k \in 1..n : k = n \/ k \in 1..(n - 1)) /\ n \in 1..n
    BY <1>1
  <1> HIDE DEF more, l, p
  <1>4. /\ h \in [1..(n - 1) -> 1..l] /\ \A j, k \in 1..(n - 1) : j < k => h[j] < h[k]
        /\ \A k \in 1..(n - 1) : parts[h[k]] = ShownPart(text, ms[k])
        /\ \A i \in 1..l : \/ parts[i].kind = "normal" /\ parts[i].name = <<>>
                           \/ \E k \in 1..(n - 1) : h[k] = i
    BY DEF Placed, l
  <1>5. q[n] = l + 1 /\ \A k \in 1..(n - 1) : k \in 1..n /\ q[k] = h[k]
    BY <1>3
  <1>6. q \in [1..n -> 1..(l + 1)]
    <2>1. \A k \in 1..n : q[k] \in 1..(l + 1)
      BY <1>1, <1>3, <1>4, <1>5
    <2>2. QED
      BY <2>1
  <1> HIDE DEF q
  <1>7. ASSUME NEW j \in 1..n, NEW k \in 1..n, j < k PROVE q[j] < q[k]
    <2>1. j \in 1..(n - 1) /\ h[j] \in 1..l
      BY <1>4, <1>7
    <2>2. CASE k = n
      BY <1>1, <1>5, <2>1, <2>2
    <2>3. CASE k # n
      BY <1>3, <1>4, <1>5, <1>7, <2>1, <2>3
    <2>4. QED
      BY <2>2, <2>3
  <1>8. \A k \in 1..n : more[q[k]] = ShownPart(text, ms[k])
    <2>1. more[q[n]] = ShownPart(text, ms[n])
      BY <1>2, <1>5 DEF p
    <2>2. \A k \in 1..(n - 1) : more[q[k]] = ShownPart(text, ms[k])
      BY <1>2, <1>4, <1>5
    <2>3. QED
      BY <1>3, <2>1, <2>2
  <1>9. \A i \in 1..(l + 1) : \/ more[i].kind = "normal" /\ more[i].name = <<>>
                              \/ \E k \in 1..n : q[k] = i
    BY <1>2, <1>3, <1>4, <1>5
  <1>10. Placed(q, more, text, ms, n)
    BY <1>2, <1>6, <1>7, <1>8, <1>9 DEF Placed
  <1>11. QED
    BY <1>10 DEF more, p

\* The parts that are built are the whole text, and show each mention.
LEMMA PartsShow ==
    ASSUME NEW text, IsList(text), NEW S, NEW ms, Mentions(ms, text, S)
    PROVE  /\ Pieces(BuildParts(text, ms), text, Len(text) + 1)
           /\ \E h : Placed(h, BuildParts(text, ms), text, ms, Len(ms))
  <1> DEFINE N == Len(text)
             M == Len(ms)
             Cursor(m) == IF m = 0 THEN 1 ELSE ms[m].stop
             Plain(from, to) == IF from <= to THEN <<Part(SubSeq(text, from, to), "normal", <<>>)>> ELSE <<>>
             PlainPart(from, to) == Part(SubSeq(text, from, to), "normal", <<>>)
             Link(m) == Append(Plain(Cursor(m - 1), ms[m].start - 1), ShownPart(text, ms[m]))
             links == [m \in 1..M |-> Link(m)]
             P == PartSet(text)
  <1>1. N \in Nat /\ text \in Seq(ToSet(text)) /\ \A i \in 1..N : text[i] \in ToSet(text)
    BY ListIs DEF IsList
  <1>2. /\ ms \in Seq(MentionSet(text)) /\ M \in Nat /\ DOMAIN ms = 1..M
        /\ \A m \in 1..M : ms[m] \in MentionSet(text)
        /\ \A j, k \in 1..M : j < k => ms[j].stop <= ms[k].start
        /\ \A m \in 1..M : ms[m].start < ms[m].stop
    BY LenProperties, ElementOfSeq DEF Mentions, Found
  <1>3. BuildParts(text, ms) = FlattenSeq(links) \o Plain(Cursor(M), N)
    BY <1>2 DEF BuildParts, ShownPart
  <1>4. ASSUME NEW from \in Int, NEW to \in Int, from >= 1, to <= N PROVE SubSeq(text, from, to) \in Seq(ToSet(text))
    <2>1. \A i \in from..to : text[i] \in ToSet(text)
      BY <1>1, <1>4
    <2>2. QED
      BY <2>1, SubSeqProperties
  <1> HIDE DEF N, M
  <1>5. ASSUME NEW m \in 1..M
        PROVE  /\ ms[m].start \in 1..N /\ ms[m].stop \in 2..(N + 1) /\ ms[m].start < ms[m].stop
               /\ ms[m].kind \in {"brand", "competitor"} /\ ms[m].name \in Products
               /\ Cursor(m) = ms[m].stop /\ Cursor(m - 1) \in 1..ms[m].start
    <2>1. /\ ms[m].start \in 1..N /\ ms[m].stop \in 2..(N + 1) /\ ms[m].start < ms[m].stop
          /\ ms[m].kind \in {"brand", "competitor"} /\ ms[m].name \in Products
      BY <1>2 DEF MentionSet, N
    <2>2. Cursor(m) = ms[m].stop
      OBVIOUS
    <2>3. CASE m = 1
      BY <2>1, <2>2, <2>3
    <2>4. CASE m # 1
      <3>1. m - 1 \in 1..M /\ m - 1 < m /\ m - 1 # 0
        BY <1>2, <2>4
      <3>2. ms[m - 1].stop <= ms[m].start /\ ms[m - 1].stop \in 2..(N + 1)
        BY <1>2, <3>1 DEF MentionSet, N
      <3>3. QED
        BY <2>1, <2>2, <3>1, <3>2
    <2>5. QED
      BY <2>3, <2>4
  <1> HIDE DEF Cursor
  <1>6. ASSUME NEW from \in Int, NEW to \in Int, from >= 1, to <= N
        PROVE  /\ PlainPart(from, to) \in P /\ PlainPart(from, to).kind = "normal" /\ PlainPart(from, to).name = <<>>
               /\ PlainPart(from, to).text = SubSeq(text, from, to)
    <2>1. SubSeq(text, from, to) \in Seq(ToSet(text))
      BY <1>4, <1>6
    <2>2. QED
      BY <2>1 DEF Part, PartSet
  <1>7. ASSUME NEW m \in 1..M
        PROVE  ShownPart(text, ms[m]) \in P /\ ShownPart(text, ms[m]).text = SubSeq(text, ms[m].start, ms[m].stop - 1)
    <2>1. SubSeq(text, ms[m].start, ms[m].stop - 1) \in Seq(ToSet(text))
      BY <1>1, <1>4, <1>5
    <2>2. QED
      BY <1>5, <2>1 DEF ShownPart, Part, PartSet
  <1> DEFINE Sound(parts, c, n) == Pieces(parts, text, c) /\ \E h : Placed(h, parts, text, ms, n)
  <1>8. ASSUME NEW parts, NEW c \in 1..(N + 1), NEW n \in Nat, Sound(parts, c, n), NEW d \in 1..(N + 1), c <= d
        PROVE  Plain(c, d - 1) \in Seq(P) /\ Sound(parts \o Plain(c, d - 1), d, n)
    <2>1. parts \in Seq(P)
      BY <1>8 DEF Pieces
    <2>2. CASE c = d
      <3>1. Plain(c, d - 1) = <<>> /\ <<>> \in Seq(P) /\ parts \o <<>> = parts
        BY <2>1, <2>2, ConcatEmptySeq, EmptySeq
      <3> HIDE DEF Plain
      <3>2. QED
        BY <1>8, <2>2, <3>1
    <2>3. CASE c # d
      <3> DEFINE p == PlainPart(c, d - 1)
      <3>1. p \in P /\ p.kind = "normal" /\ p.name = <<>> /\ p.text = SubSeq(text, c, d - 1)
        BY <1>1, <1>6, <1>8
      <3>2. Plain(c, d - 1) = <<p>> /\ d \in 2..(N + 1) /\ c < d
        BY <1>1, <1>8, <2>3
      <3> HIDE DEF p, Plain
      <3>3. <<p>> \in Seq(P) /\ parts \o <<p>> = Append(parts, p)
        BY <2>1, <3>1
      <3>4. Pieces(Append(parts, p), text, d)
        BY <1>8, <3>1, <3>2, AddPiece DEF N
      <3>5. PICK h : Placed(h, parts, text, ms, n)
        BY <1>8
      <3>6. Placed(h, Append(parts, p), text, ms, n)
        BY <2>1, <3>1, <3>5, PlacePlain
      <3>7. QED
        BY <3>2, <3>3, <3>4, <3>6
    <2>4. QED
      BY <2>2, <2>3
  <1> HIDE DEF Plain
  <1>9. ASSUME NEW m \in 1..M, NEW parts, Sound(parts, Cursor(m - 1), m - 1)
        PROVE  Link(m) \in Seq(P) /\ Sound(parts \o Link(m), Cursor(m), m)
    <2> DEFINE plain == Plain(Cursor(m - 1), ms[m].start - 1)
               p == ShownPart(text, ms[m])
               before == parts \o plain
    <2>0. m - 1 \in Nat /\ m \in Nat \ {0} /\ parts \in Seq(P)
      BY <1>2, <1>9 DEF Pieces
    <2>1. plain \in Seq(P) /\ Sound(before, ms[m].start, m - 1)
      <3> DEFINE c == Cursor(m - 1)
                 d == ms[m].start
      <3>1. c \in 1..(N + 1) /\ d \in 1..(N + 1) /\ c <= d
        BY <1>1, <1>5
      <3> HIDE DEF c, d, Sound
      <3>2. Sound(parts, c, m - 1)
        BY <1>9 DEF c
      <3>3. Plain(c, d - 1) \in Seq(P) /\ Sound(parts \o Plain(c, d - 1), d, m - 1)
        BY <1>8, <2>0, <3>1, <3>2
      <3>4. QED
        BY <3>3 DEF c, d
    <2>2. p \in P /\ p.text = SubSeq(text, ms[m].start, ms[m].stop - 1)
      BY <1>7
    <2> HIDE DEF p, plain
    <2>3. Link(m) = Append(plain, p)
      BY DEF plain, p
    <2>4. Append(plain, p) \in Seq(P) /\ parts \o Append(plain, p) = Append(before, p)
      <3>1. Append(plain, p) = plain \o <<p>> /\ <<p>> \in Seq(P) /\ before \in Seq(P)
        BY <2>0, <2>1, <2>2, ConcatProperties
      <3>2. parts \o (plain \o <<p>>) = before \o <<p>>
        BY <2>0, <2>1, <3>1, ConcatAssociative
      <3>3. before \o <<p>> = Append(before, p)
        <4> HIDE DEF before
        <4>1. QED
          BY <2>2, <3>1
      <3>4. QED
        BY <2>1, <2>2, <3>1, <3>2, <3>3, AppendProperties
    <2> HIDE DEF before
    <2>5. Pieces(Append(before, p), text, ms[m].stop)
      BY <1>5, <2>1, <2>2, AddPiece DEF N
    <2>6. PICK h : Placed(h, before, text, ms, m - 1)
      BY <2>1
    <2>7. \E q : Placed(q, Append(before, p), text, ms, m)
      <3>1. before \in Seq(P)
        BY <2>1 DEF Pieces
      <3>2. QED
        BY <2>0, <2>2, <2>6, <3>1, PlaceShown DEF p
    <2>8. QED
      BY <1>5, <2>3, <2>4, <2>5, <2>7
  <1>10. links \in Seq(Seq(P)) /\ Len(links) = M /\ \A m \in 1..M : links[m] = Link(m)
    <2>1. ASSUME NEW m \in 1..M PROVE Link(m) \in Seq(P)
      <3> DEFINE plain == Plain(Cursor(m - 1), ms[m].start - 1)
                 p == ShownPart(text, ms[m])
      <3>1. plain \in Seq(P)
        <4>1. CASE Cursor(m - 1) <= ms[m].start - 1
          <5> DEFINE p0 == PlainPart(Cursor(m - 1), ms[m].start - 1)
          <5>1. p0 \in P
            BY <1>1, <1>5, <1>6
          <5>2. plain = <<p0>>
            BY <4>1 DEF Plain
          <5> HIDE DEF p0, plain
          <5>3. QED
            BY <5>1, <5>2
        <4>2. CASE ~(Cursor(m - 1) <= ms[m].start - 1)
          BY <4>2 DEF Plain
        <4>3. QED
          BY <4>1, <4>2
      <3>2. p \in P
        BY <1>7
      <3> HIDE DEF plain, p
      <3>3. Append(plain, p) \in Seq(P)
        BY <3>1, <3>2, AppendProperties
      <3>4. QED
        BY <3>3 DEF plain, p
    <2> HIDE DEF Link
    <2>2. QED
      BY <1>2, <2>1, IsASeq
  <1> HIDE DEF Link, links
  <1>11. PICK f : FlattenRun(links, P, f)
    BY <1>10, FlattenUnfolds
  <1>12. f[0] = <<>> /\ FlattenSeq(links) = f[M] /\ \A m \in 1..M : f[m] = f[m - 1] \o Link(m)
    BY <1>10, <1>11 DEF FlattenRun
  <1> DEFINE D == {m \in 0..M : Sound(f[m], Cursor(m), m)}
  <1>13. 0 \in D /\ D \in SUBSET (0..M)
    <2>1. Pieces(<<>>, text, 1)
      <3>1. TextsOf(<<>>) = <<>> /\ FlattenSeq(<<>>) = <<>>
        BY DEF TextsOf, FlattenSeq
      <3>2. SubSeq(text, 1, 1 - 1) = <<>>
        BY SubSeqEmpty
      <3>3. <<>> \in Seq(P) /\ 1 \in 1..(N + 1) /\ \A i \in 1..Len(<<>>) : FALSE
        BY <1>1, EmptySeq
      <3>4. QED
        BY <3>1, <3>2, <3>3 DEF Pieces, N
    <2>2. Placed([k \in 1..0 |-> 1], <<>>, text, ms, 0)
      BY DEF Placed
    <2>3. Cursor(0) = 1 /\ 0 \in 0..M
      BY <1>2 DEF Cursor
    <2>4. QED
      BY <1>12, <2>1, <2>2, <2>3
  <1>14. ASSUME NEW m \in 1..M, m - 1 \in D PROVE m \in D
    <2>1. Sound(f[m - 1], Cursor(m - 1), m - 1) /\ m \in 0..M
      BY <1>2, <1>14
    <2> HIDE DEF Sound
    <2>2. Sound(f[m - 1] \o Link(m), Cursor(m), m)
      BY <1>9, <2>1
    <2>3. QED
      BY <1>12, <2>1, <2>2
  <1>15. D = 0..M
    <2> HIDE DEF D
    <2>1. QED
      BY <1>2, <1>13, <1>14, InductionUpTo
  <1>16. Sound(FlattenSeq(links), Cursor(M), M)
    <2>1. M \in D
      BY <1>2, <1>15
    <2>2. QED
      BY <1>12, <2>1
  <1>17. Cursor(M) \in 1..(N + 1) /\ N + 1 \in 1..(N + 1) /\ (N + 1) - 1 = N
    <2>1. Cursor(M) \in 1..(N + 1)
      BY <1>16 DEF Pieces, N
    <2>2. QED
      BY <1>1, <2>1
  <1>18. Sound(FlattenSeq(links) \o Plain(Cursor(M), N), N + 1, M)
    <2> HIDE DEF Sound
    <2>1. Sound(FlattenSeq(links) \o Plain(Cursor(M), (N + 1) - 1), N + 1, M)
      BY <1>2, <1>8, <1>16, <1>17
    <2>2. QED
      BY <1>17, <2>1
  <1>19. QED
    BY <1>3, <1>18 DEF N, M, links

-----------------------------------------------------------------------------
(* What one answer is searched for.                                        *)

Known == OrElse(BrandNames, Brand)

\* A name not in the request is looked for only once it is verified.
Earned(s, text) ==
    \/ s.kind # "competitor" /\ (s.name \in BrandsOwn \/ VerifiedAlias(s.name, text, BrandsOwn, RivalNames))
    \/ /\ s.kind = "competitor"
       /\ \E r \in 1..Len(Rivals) :
            /\ s.entity = Rivals[r].name
            /\ \/ s.name \in NamesOf(Rivals[r])
               \/ VerifiedAlias(s.name, text, NamesOf(Rivals[r]), Others(r, ToSet(Known)))

LEMMA ReplyIs ==
    ASSUME NEW text \in Answers, NEW reply \in Replies
    PROVE  /\ IsList(text) /\ IsList(reply.mentionText) /\ IsList(reply.competitorMentions)
           /\ \A s \in ToSet(reply.competitorMentions) : IsList(s.mentionText)
  BY AnalysisAssumption DEF AnalysisAssumption

LEMMA KnownIs == IsList(Known) /\ \A n \in ToSet(Known) : IsName(n) /\ n \in BrandsOwn
  <1>1. IsName(Brand) /\ IsList(BrandNames) /\ \A n \in ToSet(BrandNames) : IsName(n)
    BY RequestIs DEF BrandsOwn
  <1>2. QED
    BY <1>1, OrElseIs DEF Known, BrandsOwn

\* A list and one more.
LEMMA ListAppend ==
    ASSUME NEW s, IsList(s), NEW x
    PROVE  IsList(Append(s, x)) /\ ToSet(Append(s, x)) = ToSet(s) \cup {x}
  <1> DEFINE T == ToSet(s) \cup {x}
  <1>1. s \in Seq(T)
    BY SeqMonotonic DEF IsList
  <1> HIDE DEF T
  <1>2. <<x>> \in Seq(T) /\ x \in T
    BY DEF T
  <1>3. /\ Append(s, x) \in Seq(T) /\ Len(Append(s, x)) = Len(s) + 1 /\ Append(s, x)[Len(s) + 1] = x
        /\ \A i \in 1..Len(s) : Append(s, x)[i] = s[i]
    BY <1>1, <1>2, AppendProperties
  <1> DEFINE a == Append(s, x)
             n == Len(s)
  <1>4. n \in Nat /\ DOMAIN s = 1..n /\ DOMAIN a = 1..(n + 1)
    BY <1>1, <1>3, LenProperties
  <1>5. a \in Seq(T) /\ a[n + 1] = x /\ \A i \in 1..n : a[i] = s[i]
    BY <1>3
  <1> HIDE DEF a, n
  <1>6. IsList(a)
    BY <1>5, SeqOfItsItems DEF IsList
  <1>7. (\A i \in 1..(n + 1) : i = n + 1 \/ i \in 1..n) /\ n + 1 \in 1..(n + 1) /\ \A i \in 1..n : i \in 1..(n + 1)
    BY <1>4
  <1>8. ToSet(a) = ToSet(s) \cup {x}
    BY <1>4, <1>5, <1>7 DEF ToSet
  <1>9. QED
    BY <1>6, <1>8 DEF a

LEMMA BrandSoughtIs ==
    ASSUME NEW text \in Answers, NEW reply \in Replies
    PROVE  /\ IsList(BrandSought(text, reply)) /\ BrandSought(text, reply) # <<>>
           /\ ToSet(Known) \subseteq ToSet(BrandSought(text, reply))
           /\ \A n \in ToSet(BrandSought(text, reply)) :
                  IsName(n) /\ (n \in BrandsOwn \/ VerifiedAlias(n, text, BrandsOwn, RivalNames))
  <1> DEFINE m == reply.mentionText
             ok == VerifiedAlias(m, text, BrandsOwn, RivalNames) /\ m \notin ToSet(Known)
  <1>0. Known # <<>>
    BY DEF Known, OrElse
  <1>1. BrandSought(text, reply) = IF ok THEN Append(Known, m) ELSE Known
    BY DEF BrandSought, Known, RivalNames
  <1>2. IsList(m)
    BY ReplyIs
  <1> HIDE DEF m
  <1>3. CASE ok
    <2>1. IsName(m)
      BY <1>2, <1>3 DEF VerifiedAlias, PlausibleAlias, IsName
    <2>2. IsList(Append(Known, m)) /\ ToSet(Append(Known, m)) = ToSet(Known) \cup {m}
      BY KnownIs, ListAppend
    <2>3. Append(Known, m) # <<>>
      <3>1. m \in ToSet(Append(Known, m))
        BY <2>2
      <3>2. ToSet(<<>>) = {}
        BY DEF ToSet
      <3>3. QED
        BY <3>1, <3>2
    <2>4. QED
      BY <1>1, <1>3, <2>1, <2>2, <2>3, KnownIs
  <1>4. CASE ~ok
    BY <1>0, <1>1, <1>4, KnownIs
  <1>5. QED
    BY <1>3, <1>4

\* A suggestion is accepted for a rival by what a rival of its name was sent with.
Granted(n, text, r) ==
    \E c \in 1..Len(Rivals) :
        /\ Rivals[c].name = Rivals[r].name
        /\ VerifiedAlias(n, text, NamesOf(Rivals[c]), Others(c, ToSet(Known)))

LEMMA ClaimedIs ==
    ASSUME NEW r \in 1..Len(Rivals)
    PROVE  Claimed(r) \in 1..Len(Rivals) /\ Rivals[Claimed(r)].name = Rivals[r].name
  <1> DEFINE named == {c \in ToSet(Rivals) : c.name = Rivals[r].name}
             p == PlaceOf(Rivals, named)
  <1>1. Rivals \in Seq(ToSet(Rivals)) /\ Len(Rivals) \in Nat /\ DOMAIN Rivals = 1..Len(Rivals)
    BY RequestIs, ScoringAssumption DEF ScoringAssumption, IsList
  <1>2. Rivals[r] \in ToSet(Rivals)
    BY <1>1, SeqMeets
  <1>3. Rivals[r] \in named
    BY <1>2
  <1> HIDE DEF named
  <1>4. p \in 0..Len(Rivals) /\ p # 0 /\ FirstIn(Rivals, named, p)
    BY <1>1, <1>2, <1>3, PlaceOfIs
  <1>5. p \in 1..Len(Rivals) /\ Rivals[p] \in named
    BY <1>1, <1>4 DEF FirstIn
  <1>6. QED
    BY <1>5 DEF Claimed, named

\* The names a rival is looked for by: its own, and those accepted for it.
LEMMA RivalSoughtIs ==
    ASSUME NEW text \in Answers, NEW reply \in Replies, NEW brandNames, ToSet(Known) \subseteq brandNames,
           NEW r \in 1..Len(Rivals)
    PROVE  LET rival == WithSuggestions(text, reply.competitorMentions, brandNames)[r]
           IN  /\ rival.name = Rivals[r].name /\ IsList(rival.names)
               /\ \A n \in ToSet(rival.names) :
                    /\ IsName(n)
                    /\ n \in NamesOf(Rivals[r]) \/ Granted(n, text, r)
  <1> DEFINE c == Claimed(r)
             said == reply.competitorMentions
             fit == {s \in ToSet(said) :
                        /\ s.competitor = Rivals[r].name
                        /\ VerifiedAlias(s.mentionText, text, NamesOf(Rivals[c]), Others(c, brandNames))
                        /\ s.mentionText \notin ToSet(Rivals[r].names)}
             accepted == Sift(said, fit)
             column == Column(accepted, "mentionText")
             own == Rivals[r].names
             rival == WithSuggestions(text, said, brandNames)[r]
             Good(n) == IsName(n) /\ Granted(n, text, r)
  <1>0. c \in 1..Len(Rivals) /\ Rivals[c].name = Rivals[r].name
    BY ClaimedIs
  <1>1. IsList(said) /\ \A s \in ToSet(said) : IsList(s.mentionText)
    BY ReplyIs
  <1>2. IsList(own) /\ r \in DOMAIN Rivals /\ \A n \in NamesOf(Rivals[r]) : IsName(n)
    BY RequestIs
  <1>3. rival.name = Rivals[r].name /\ rival.names = own \o FirstSeen(column)
    BY <1>2 DEF WithSuggestions, Accepted
  <1>4. accepted \in Seq(ToSet(said)) /\ ToSet(accepted) = ToSet(said) \cap fit
    <2> HIDE DEF said, fit
    <2>1. QED
      BY <1>1, SiftIs DEF IsList
  <1>5. ASSUME NEW s \in ToSet(accepted) PROVE Good(s.mentionText)
    <2>1. s \in ToSet(said) /\ VerifiedAlias(s.mentionText, text, NamesOf(Rivals[c]), Others(c, brandNames))
      BY <1>4
    <2> DEFINE n == s.mentionText
    <2>2. IsList(n)
      BY <1>1, <2>1
    <2> HIDE DEF n
    <2>3. VerifiedAlias(n, text, NamesOf(Rivals[c]), Others(c, brandNames))
      BY <2>1 DEF n
    <2>4. Others(c, ToSet(Known)) \subseteq Others(c, brandNames)
      BY DEF Others
    <2> HIDE DEF c
    <2>5. n # <<>> /\ VerifiedAlias(n, text, NamesOf(Rivals[c]), Others(c, ToSet(Known)))
      BY <2>3, <2>4 DEF VerifiedAlias, PlausibleAlias
    <2>6. QED
      BY <1>0, <2>2, <2>5 DEF IsName, Granted, n
  <1> HIDE DEF accepted, fit, said, rival
  <1> DEFINE G == {s.mentionText : s \in ToSet(accepted)}
             k == Len(accepted)
  <1>6. column \in Seq(G)
    <2>1. k \in Nat /\ DOMAIN accepted = 1..k /\ \A i \in 1..k : accepted[i] \in ToSet(accepted)
      BY <1>4, LenProperties DEF ToSet
    <2>2. column = [i \in 1..k |-> accepted[i].mentionText]
      BY <2>1 DEF Column
    <2>3. \A i \in 1..k : accepted[i].mentionText \in G
      BY <2>1
    <2> HIDE DEF column, G, k
    <2>4. QED
      BY <2>1, <2>2, <2>3, IsASeq
  <1> HIDE DEF column
  <1>7. FirstSeen(column) \in Seq(G)
    BY <1>6, FirstSeenHas
  <1>8. \A n \in G : Good(n)
    BY <1>5
  <1> DEFINE new == FirstSeen(column)
             T == ToSet(own) \cup G
  <1>9. own \in Seq(T) /\ new \in Seq(T)
    <2> HIDE DEF G
    <2>1. QED
      BY <1>2, <1>7, SeqMonotonic DEF IsList
  <1> HIDE DEF new, T, own, G
  <1>10. own \o new \in Seq(T)
    BY <1>9, ConcatProperties
  <1>11. IsList(own \o new) /\ ToSet(own \o new) \subseteq T
    BY <1>10, SeqOfItsItems DEF IsList
  <1>12. \A n \in T : IsName(n) /\ (n \in NamesOf(Rivals[r]) \/ Good(n))
    BY <1>2, <1>8 DEF T, own, NamesOf
  <1>13. QED
    BY <1>3, <1>11, <1>12 DEF rival, said, new

LEMMA SearchedFor ==
    ASSUME NEW text \in Answers, NEW reply \in Replies
    PROVE  LET names == BrandSought(text, reply)
               rivals == WithSuggestions(text, reply.competitorMentions, ToSet(names))
           IN  Searchable(names, rivals) /\ \A s \in Seeks(names, rivals) : Earned(s, text)
  <1> DEFINE names == BrandSought(text, reply)
             rivals == WithSuggestions(text, reply.competitorMentions, ToSet(names))
  <1>1. /\ IsList(names) /\ names # <<>> /\ ToSet(Known) \subseteq ToSet(names)
        /\ \A n \in ToSet(names) : IsName(n) /\ (n \in BrandsOwn \/ VerifiedAlias(n, text, BrandsOwn, RivalNames))
    BY BrandSoughtIs
  <1> HIDE DEF names
  <1>2. DOMAIN Rivals = 1..Len(Rivals)
    BY RequestIs
  <1>3. DOMAIN rivals = 1..Len(Rivals)
    BY <1>2 DEF WithSuggestions
  <1>4. \A r \in 1..Len(Rivals) :
            /\ rivals[r].name = Rivals[r].name /\ IsList(rivals[r].names)
            /\ \A n \in ToSet(rivals[r].names) :
                    IsName(n) /\ (n \in NamesOf(Rivals[r]) \/ Granted(n, text, r))
    BY <1>1, RivalSoughtIs
  <1> HIDE DEF rivals
  <1>5. Searchable(names, rivals)
    BY <1>1, <1>3, <1>4 DEF Searchable
  <1>6. ASSUME NEW s \in Seeks(names, rivals) PROVE Earned(s, text)
    <2>1. CASE \E n \in ToSet(OrElse(names, Brand)) : s = SeekOf(n, "brand", Brand)
      <3>1. PICK n \in ToSet(names) : s = SeekOf(n, "brand", Brand)
        BY <1>1, <2>1 DEF OrElse
      <3>2. s.name = n /\ s.kind = "brand"
        BY <3>1 DEF SeekOf
      <3>3. QED
        BY <1>1, <3>1, <3>2 DEF Earned
    <2>2. CASE \E n \in ToSet(Context) : s = SeekOf(n, "context", Brand)
      <3>1. PICK n \in ToSet(Context) : s = SeekOf(n, "context", Brand)
        BY <2>2
      <3>2. s.name = n /\ s.kind = "context" /\ n \in BrandsOwn
        BY <3>1 DEF SeekOf, BrandsOwn
      <3>3. QED
        BY <3>2 DEF Earned
    <2>3. CASE \E r \in 1..Len(Rivals) : \E n \in ToSet(OrElse(rivals[r].names, rivals[r].name)) :
                    s = SeekOf(n, "competitor", rivals[r].name)
      <3>1. PICK r \in 1..Len(Rivals) : \E n \in ToSet(OrElse(rivals[r].names, rivals[r].name)) :
                    s = SeekOf(n, "competitor", rivals[r].name)
        BY <2>3
      <3>2. PICK n \in ToSet(OrElse(rivals[r].names, rivals[r].name)) : s = SeekOf(n, "competitor", rivals[r].name)
        BY <3>1
      <3>3. s.name = n /\ s.kind = "competitor" /\ s.entity = Rivals[r].name
        BY <1>4, <3>2 DEF SeekOf
      <3>4. n \in {Rivals[r].name} \cup ToSet(rivals[r].names)
        <4>1. IsName(Rivals[r].name)
          BY RequestIs
        <4>2. QED
          BY <1>4, <3>2, <4>1, OrElseIs
      <3>5. n \in NamesOf(Rivals[r]) \/ Granted(n, text, r)
        BY <1>4, <3>4 DEF NamesOf
      <3>6. QED
        BY <3>3, <3>5 DEF Earned, Granted
    <2>4. QED
      BY <1>3, <2>1, <2>2, <2>3 DEF Seeks
  <1>7. QED
    BY <1>5, <1>6 DEF names, rivals

-----------------------------------------------------------------------------
(* The evidence of a mention.                                              *)

LEMMA GreatestOf ==
    ASSUME NEW b \in Nat, NEW S \in SUBSET (0..b), S # {}
    PROVE  \E m \in S : \A k \in S : k <= m
  <1> DEFINE T == {b - k : k \in S}
  <1>1. T \in SUBSET Nat /\ T # {}
    <2>1. \A k \in S : b - k \in Nat
      OBVIOUS
    <2>2. QED
      BY <2>1
  <1>2. PICK m \in T : \A k \in T : m <= k
    BY <1>1, LeastOf
  <1>3. PICK k \in S : m = b - k
    OBVIOUS
  <1>4. ASSUME NEW j \in S PROVE j <= k
    <2>1. b - k <= b - j
      BY <1>2, <1>3
    <2>2. j \in 0..b /\ k \in 0..b
      OBVIOUS
    <2>3. QED
      BY <2>1, <2>2
  <1>5. QED
    BY <1>4

\* The sentence around a stretch of the text holds all of it.
LEMMA SentenceHolds ==
    ASSUME NEW text, IsList(text), NEW start \in 1..Len(text), NEW stop \in 2..(Len(text) + 1), start < stop
    PROVE  /\ IsList(SentenceAround(text, start, stop))
           /\ \A i \in start..(stop - 1) :
                  \E j \in DOMAIN SentenceAround(text, start, stop) : SentenceAround(text, start, stop)[j] = text[i]
  <1> DEFINE N == Len(text)
             before == {i \in 1..(start - 1) : text[i] \in Ends}
             after == {i \in stop..N : text[i] \in Ends}
             first == IF before = {} THEN 1 ELSE 1 + CHOOSE i \in before : \A j \in before : j <= i
             last == IF after = {} THEN N ELSE (CHOOSE i \in after : \A j \in after : i <= j) - 1
             sentence == SubSeq(text, first, last)
  <1>1. N \in Nat /\ \A i \in 1..N : text[i] \in ToSet(text)
    BY ListIs
  <1>2. SentenceAround(text, start, stop) = sentence
    BY DEF SentenceAround
  <1>3. first \in 1..start
    <2>1. CASE before = {}
      BY <2>1
    <2>2. CASE before # {}
      <3>1. before \in SUBSET (0..N)
        BY <1>1
      <3>2. \E i \in before : \A j \in before : j <= i
        <4> HIDE DEF before
        <4>1. QED
          BY <1>1, <2>2, <3>1, GreatestOf
      <3> DEFINE x == CHOOSE i \in before : \A j \in before : j <= i
      <3>3. x \in before
        <4> HIDE DEF before
        <4>1. QED
          BY <3>2
      <3>4. first = 1 + x
        BY <2>2
      <3> HIDE DEF x, first
      <3>5. QED
        BY <1>1, <3>3, <3>4
    <2>3. QED
      BY <2>1, <2>2
  <1>4. last \in (stop - 1)..N
    <2>1. CASE after = {}
      BY <1>1, <2>1
    <2>2. CASE after # {}
      <3>1. after \in SUBSET Nat
        BY <1>1
      <3>2. \E i \in after : \A j \in after : i <= j
        <4> HIDE DEF after
        <4>1. QED
          BY <2>2, <3>1, LeastOf
      <3> DEFINE x == CHOOSE i \in after : \A j \in after : i <= j
      <3>3. x \in after
        <4> HIDE DEF after
        <4>1. QED
          BY <3>2
      <3>4. last = x - 1
        BY <2>2
      <3> HIDE DEF x, last
      <3>5. QED
        BY <1>1, <3>3, <3>4
    <2>3. QED
      BY <2>1, <2>2
  <1> HIDE DEF first, last, N
  <1>5. /\ sentence \in Seq(ToSet(text)) /\ Len(sentence) = IF first <= last THEN last - first + 1 ELSE 0
        /\ \A i \in 1..(last - first + 1) : sentence[i] = text[first + i - 1]
    <2>1. \A i \in first..last : text[i] \in ToSet(text)
      BY <1>1, <1>3, <1>4
    <2>2. first \in Int /\ last \in Int
      BY <1>1, <1>3, <1>4
    <2>3. QED
      BY <2>1, <2>2, SubSeqProperties
  <1>6. first \in Int /\ last \in Int /\ first <= start /\ stop - 1 <= last /\ start \in Int /\ stop \in Int
    BY <1>1, <1>3, <1>4 DEF N
  <1> HIDE DEF sentence
  <1>7. DOMAIN sentence = 1..(last - first + 1)
    <2>1. first <= last
      BY <1>6
    <2>2. QED
      BY <1>5, <2>1, LenProperties
  <1>8. ASSUME NEW i \in start..(stop - 1) PROVE \E j \in DOMAIN sentence : sentence[j] = text[i]
    <2>1. i - first + 1 \in 1..(last - first + 1) /\ first + (i - first + 1) - 1 = i
      BY <1>6
    <2>2. QED
      BY <1>5, <1>7, <2>1
  <1>9. IsList(sentence)
    BY <1>5, SeqOfItsItems DEF IsList
  <1>10. QED
    BY <1>2, <1>8, <1>9

\* The head word of a name in the request is one of the words it is looked for by.
LEMMA HeadWordCounts ==
    ASSUME DistinctiveNames, NEW n \in BrandsOwn \cup RivalNames
    PROVE  IsName(n) /\ HeadWord(n) \in ToSet(CoreName(n)) /\ HeadWord(n) \notin CorporateSuffixes \cup {""}
  <1> DEFINE at == PlaceOf(n, ToSet(n) \ Articles)
  <1>1. IsName(n)
    BY RequestIs DEF RivalNames
  <1>2. HeadWord(n) \notin CorporateSuffixes \cup {""}
    BY DEF DistinctiveNames
  <1>3. n \in Seq(ToSet(n))
    BY <1>1 DEF IsName, IsList
  <1>4. at \in 0..Len(n) /\ (at # 0 => n[at] \in ToSet(n))
    BY <1>3, PlaceOfIs DEF FirstIn
  <1>5. HeadWord(n) = IF at = 0 THEN "" ELSE n[at]
    BY DEF HeadWord
  <1> HIDE DEF at
  <1>6. HeadWord(n) \in ToSet(n) \ CorporateSuffixes
    BY <1>2, <1>4, <1>5
  <1>7. QED
    BY <1>1, <1>2, <1>6, CoreNameIs

\* Words that stand in a text are in the sentence they stand in.
LEMMA WordInSentence ==
    ASSUME NEW text, IsList(text), NEW words, IsList(words), Len(words) \in Nat \ {0},
           NEW start \in 1..Len(text), MatchesAt(words, text, start), NEW w \in ToSet(words)
    PROVE  LET sentence == SentenceAround(text, start, start + Len(words))
           IN  \E i \in DOMAIN sentence : Lower(sentence[i]) = w
  <1> DEFINE stop == start + Len(words)
             sentence == SentenceAround(text, start, stop)
  <1>1. stop \in 2..(Len(text) + 1) /\ start < stop
    BY MatchFits
  <1>2. \A i \in start..(stop - 1) : \E j \in DOMAIN sentence : sentence[j] = text[i]
    BY <1>1, SentenceHolds
  <1>3. DOMAIN words = 1..Len(words)
    BY ListIs
  <1>4. PICK k \in 1..Len(words) : words[k] = w
    BY ListIs
  <1>5. Lower(text[start + k - 1]) = w
    BY <1>3, <1>4 DEF MatchesAt
  <1>6. Len(text) \in Nat /\ Len(words) \in Nat
    BY ListIs
  <1>7. start + k - 1 \in start..(stop - 1)
    BY <1>4, <1>6
  <1> HIDE DEF sentence, stop
  <1>8. PICK j \in DOMAIN sentence : sentence[j] = text[start + k - 1]
    BY <1>2, <1>7
  <1>9. Lower(sentence[j]) = w
    BY <1>5, <1>8
  <1>10. QED
    BY <1>9 DEF sentence, stop

\* A name that is counted in a text has each of its words there.
LEMMA NamedHasWords ==
    ASSUME NEW name, IsName(name), NEW text, IsList(text), Names(name, text), NEW w \in ToSet(CoreName(name))
    PROVE  \E i \in DOMAIN text : Lower(text[i]) = w
  <1> DEFINE words == CoreName(name)
             found == NameMatches(name, text)
  <1>1. found \in Seq(1..Len(text)) /\ \A i \in ToSet(found) : i \in 1..Len(text) /\ MatchesAt(words, text, i)
    BY NameMatchesAre
  <1>2. found # <<>>
    BY DEF Names
  <1>3. words \in Seq(ToSet(name)) /\ Len(words) \in Nat \ {0}
    BY CoreNameIs
  <1> HIDE DEF words, found
  <1>4. PICK i \in 1..Len(text) : MatchesAt(words, text, i)
    <2>1. Head(found) \in ToSet(found)
      BY <1>1, <1>2, SeqMeets
    <2>2. QED
      BY <1>1, <2>1
  <1>5. PICK k \in 1..Len(words) : words[k] = w
    BY <1>3, SeqMeets DEF words
  <1>6. DOMAIN words = 1..Len(words) /\ Len(text) \in Nat /\ DOMAIN text = 1..Len(text)
    BY <1>3, LenProperties, ListIs
  <1>7. Lower(text[i + k - 1]) = w /\ i + Len(words) - 1 <= Len(text)
    BY <1>4, <1>5, <1>6 DEF MatchesAt
  <1>8. i + k - 1 \in 1..Len(text)
    BY <1>3, <1>6, <1>7
  <1>9. QED
    BY <1>6, <1>7, <1>8

\* What stands for an entity, in one sentence with the head word of its own.
Evident(words, text, own) ==
    \E start \in 1..Len(text) :
        /\ MatchesAt(words, text, start)
        /\ LET sentence == SentenceAround(text, start, start + Len(words))
           IN  \E i \in DOMAIN sentence : Lower(sentence[i]) \in {HeadWord(n) : n \in own}

LEMMA OwnIsEvident ==
    ASSUME DistinctiveNames, NEW text, IsList(text), NEW own \in SUBSET (BrandsOwn \cup RivalNames),
           NEW name, IsName(name), NEW start \in 1..Len(text), MatchesAt(CoreName(name), text, start),
           name \in own \/ \E others : VerifiedAlias(name, text, own, others)
    PROVE  Evident(CoreName(name), text, own)
  <1> DEFINE words == CoreName(name)
             heads == {HeadWord(n) : n \in own}
  <1>1. /\ words \in Seq(ToSet(name)) /\ Len(words) \in Nat \ {0}
        /\ \A w \in ToSet(name) \ CorporateSuffixes : w \in ToSet(words)
    BY CoreNameIs
  <1>2. IsList(words)
    BY <1>1, SeqOfItsItems DEF IsList
  <1>3. ASSUME NEW w \in heads, w \in ToSet(words) PROVE Evident(words, text, own)
    <2> HIDE DEF words, heads
    <2>1. \E i \in DOMAIN SentenceAround(text, start, start + Len(words)) :
                Lower(SentenceAround(text, start, start + Len(words))[i]) = w
      BY <1>1, <1>2, <1>3, WordInSentence DEF words
    <2>2. QED
      BY <1>3, <2>1 DEF Evident, heads, words
  <1>4. CASE name \in own
    <2>1. HeadWord(name) \in ToSet(words) /\ HeadWord(name) \in heads
      BY <1>4, HeadWordCounts
    <2> HIDE DEF heads, words
    <2>2. QED
      BY <1>3, <2>1 DEF words
  <1>5. CASE \E w \in heads : w \in ToSet(name)
    <2>1. PICK w \in heads : w \in ToSet(name)
      BY <1>5
    <2>2. w \notin CorporateSuffixes
      BY <2>1, HeadWordCounts
    <2>3. w \in ToSet(words)
      BY <1>1, <2>1, <2>2
    <2> HIDE DEF heads, words
    <2>4. QED
      BY <1>3, <2>1, <2>3 DEF words
  <1>6. CASE NamedAlongside(name, text, own)
    <2>1. PICK s \in ToSet(NameMatches(name, text)), o \in own \ {name} :
                Names(o, SentenceAround(text, s, s + Len(words)))
      BY <1>6 DEF NamedAlongside
    <2>2. s \in 1..Len(text) /\ MatchesAt(words, text, s)
      BY <2>1, NameMatchesAre
    <2> DEFINE sentence == SentenceAround(text, s, s + Len(words))
    <2>3. IsList(sentence)
      <3> HIDE DEF words
      <3>1. s + Len(words) \in 2..(Len(text) + 1) /\ s < s + Len(words)
        BY <1>1, <2>2, MatchFits
      <3>2. QED
        BY <2>2, <3>1, SentenceHolds
    <2>4. IsName(o) /\ HeadWord(o) \in ToSet(CoreName(o)) /\ HeadWord(o) \in heads
      BY <2>1, HeadWordCounts
    <2> HIDE DEF words, heads, sentence
    <2>5. \E i \in DOMAIN sentence : Lower(sentence[i]) = HeadWord(o)
      BY <2>1, <2>3, <2>4, NamedHasWords DEF sentence
    <2>6. QED
      BY <2>2, <2>4, <2>5 DEF Evident, heads, sentence, words
  <1>7. ASSUME NEW others, VerifiedAlias(name, text, own, others)
        PROVE  (\E w \in heads : w \in ToSet(name)) \/ NamedAlongside(name, text, own)
    BY <1>7 DEF VerifiedAlias, PlausibleAlias
  <1>8. QED
    <2> HIDE DEF words, heads
    <2>1. QED
      BY <1>4, <1>5, <1>6, <1>7 DEF words

\* More names of its own and fewer of others only help a name.
LEMMA AliasWidens ==
    ASSUME NEW name, NEW text, NEW own, NEW wider, own \subseteq wider, NEW others,
           VerifiedAlias(name, text, own, others)
    PROVE  VerifiedAlias(name, text, wider, others)
  <1>1. PlausibleAlias(name, text, own, others) /\ \A o \in others : ~Overlaps(name, o)
    BY DEF VerifiedAlias
  <1>2. ({HeadWord(o) : o \in own} \ {""}) \subseteq ({HeadWord(o) : o \in wider} \ {""})
    OBVIOUS
  <1>3. NamedAlongside(name, text, own) => NamedAlongside(name, text, wider)
    BY DEF NamedAlongside
  <1>4. PlausibleAlias(name, text, wider, others)
    BY <1>1, <1>2, <1>3 DEF PlausibleAlias
  <1>5. QED
    BY <1>1, <1>4 DEF VerifiedAlias

\* What EveryMentionIsEvidenced asks of a part.
Evidenced(part, text) ==
    LET named == {r \in DOMAIN Rivals : Rivals[r].name = part.name}
        own == IF part.kind = "brand" THEN BrandsOwn ELSE UNION {NamesOf(Rivals[r]) : r \in named}
        others == (UNION {NamesOf(Rivals[r]) : r \in DOMAIN Rivals \ named})
                  \cup IF part.kind = "brand" THEN {} ELSE ToSet(Known)
        words == [i \in DOMAIN part.text |-> Lower(part.text[i])]
        whole == {words} \cup {Append(words, suffix) : suffix \in CorporateSuffixes}
    IN  /\ Evident(words, text, own)
        /\ \E n \in whole : CoreName(n) = words /\ (n \in own \/ \A o \in others : ~Overlaps(n, o))

LEMMA MentionEvidenced ==
    ASSUME DistinctiveNames, NEW text, IsList(text), NEW m \in MentionSet(text), NEW seek, IsName(seek.name),
           Found(m, text, seek), Earned(seek, text)
    PROVE  Evidenced(ShownPart(text, m), text)
  <1> DEFINE part == ShownPart(text, m)
             words == CoreName(seek.name)
             name == seek.name
             shown == [i \in DOMAIN part.text |-> Lower(part.text[i])]
             named == {r \in DOMAIN Rivals : Rivals[r].name = part.name}
             own == IF part.kind = "brand" THEN BrandsOwn ELSE UNION {NamesOf(Rivals[r]) : r \in named}
             others == (UNION {NamesOf(Rivals[r]) : r \in DOMAIN Rivals \ named})
                       \cup IF part.kind = "brand" THEN {} ELSE ToSet(Known)
  <1>1. part.text = SubSeq(text, m.start, m.stop - 1) /\ part.kind = m.kind /\ part.name = m.name
    BY DEF ShownPart, Part
  <1>2. /\ m.start < m.stop /\ m.stop = m.start + Len(words) /\ MatchesAt(words, text, m.start)
        /\ m.kind = IF seek.kind = "competitor" THEN "competitor" ELSE "brand"
        /\ m.name = seek.entity
    BY DEF Found
  <1>3. m.start \in 1..Len(text) /\ m.stop \in 2..(Len(text) + 1) /\ Len(text) \in Nat
    BY ListIs DEF MentionSet
  <1>4. /\ words \in Seq(ToSet(name)) /\ Len(words) \in Nat \ {0}
        /\ name = words \/ \E suffix \in CorporateSuffixes : name = Append(words, suffix)
    BY CoreNameIs
  <1>5. shown = words
    <2> DEFINE s == SubSeq(text, m.start, m.stop - 1)
    <2>1. m.stop - 1 - m.start + 1 = Len(words) /\ m.start <= m.stop - 1 /\ m.start \in Int /\ m.stop - 1 \in Int
      <3> HIDE DEF words
      <3>1. QED
        BY <1>2, <1>3, <1>4
    <2>2. \A i \in m.start..(m.stop - 1) : text[i] \in ToSet(text)
      BY <1>3, ListIs
    <2>3. /\ s \in Seq(ToSet(text)) /\ Len(s) = Len(words)
          /\ \A i \in 1..Len(words) : s[i] = text[m.start + i - 1]
      <3>1. /\ s \in Seq(ToSet(text)) /\ Len(s) = IF m.start <= m.stop - 1 THEN m.stop - 1 - m.start + 1 ELSE 0
            /\ \A i \in 1..(m.stop - 1 - m.start + 1) : s[i] = text[m.start + i - 1]
        BY <2>1, <2>2, SubSeqProperties
      <3> HIDE DEF s, words
      <3>2. QED
        BY <2>1, <3>1
    <2>4. DOMAIN words = 1..Len(words) /\ words = [i \in 1..Len(words) |-> words[i]]
      <3> HIDE DEF words
      <3>1. QED
        BY <1>4, LenProperties
    <2>5. \A i \in 1..Len(words) : Lower(text[m.start + i - 1]) = words[i]
      BY <1>2, <2>4 DEF MatchesAt
    <2>6. DOMAIN s = 1..Len(words)
      <3> HIDE DEF s, words
      <3>1. QED
        BY <2>3, LenProperties
    <2> HIDE DEF s, words, part
    <2>7. \A i \in 1..Len(words) : Lower(s[i]) = words[i]
      BY <2>3, <2>5
    <2>8. shown = [i \in 1..Len(words) |-> Lower(s[i])]
      BY <1>1, <2>6 DEF s
    <2>9. QED
      BY <2>4, <2>7, <2>8
  <1>6. /\ name \in own \/ \E rest : VerifiedAlias(name, text, own, rest)
        /\ name \in own \/ \A o \in others : ~Overlaps(name, o)
        /\ own \subseteq BrandsOwn \cup RivalNames
    <2>1. CASE seek.kind # "competitor"
      <3>1. own = BrandsOwn /\ others \subseteq RivalNames
        BY <1>1, <1>2, <2>1 DEF RivalNames
      <3>2. name \in BrandsOwn \/ VerifiedAlias(name, text, BrandsOwn, RivalNames)
        BY <2>1 DEF Earned
      <3> HIDE DEF own, others, name
      <3>3. QED
        BY <3>1, <3>2 DEF VerifiedAlias
    <2>2. CASE seek.kind = "competitor"
      <3>1. PICK r \in 1..Len(Rivals) :
                /\ seek.entity = Rivals[r].name
                /\ name \in NamesOf(Rivals[r]) \/ VerifiedAlias(name, text, NamesOf(Rivals[r]), Others(r, ToSet(Known)))
        BY <2>2 DEF Earned
      <3>2. r \in named /\ named \subseteq 1..Len(Rivals)
        BY <1>1, <1>2, <3>1, RequestIs
      <3>3. part.kind # "brand"
        BY <1>1, <1>2, <2>2
      <3> HIDE DEF named
      <3>4. NamesOf(Rivals[r]) \subseteq own /\ own \subseteq RivalNames
        <4>1. own = UNION {NamesOf(Rivals[q]) : q \in named}
          BY <3>3
        <4> HIDE DEF own
        <4>2. QED
          BY <3>2, <4>1, RequestIs DEF RivalNames
      <3>5. others \subseteq Others(r, ToSet(Known))
        <4> DEFINE rest(d) == UNION {NamesOf(Rivals[q]) : q \in DOMAIN Rivals \ d}
        <4>1. others = rest(named) \cup ToSet(Known)
          BY <3>3
        <4>2. Others(r, ToSet(Known)) = ToSet(Known) \cup rest({r})
          BY DEF Others
        <4>3. rest(named) \subseteq rest({r})
          BY <3>2
        <4> HIDE DEF others, rest
        <4>4. QED
          BY <4>1, <4>2, <4>3
      <3> HIDE DEF own, others, name
      <3>6. VerifiedAlias(name, text, NamesOf(Rivals[r]), Others(r, ToSet(Known)))
                => VerifiedAlias(name, text, own, Others(r, ToSet(Known)))
        BY <3>4, AliasWidens
      <3>7. QED
        BY <3>1, <3>4, <3>5, <3>6 DEF VerifiedAlias
    <2>3. QED
      BY <2>1, <2>2
  <1>7. Evident(words, text, own)
    <2> HIDE DEF own, others
    <2>1. own \in SUBSET (BrandsOwn \cup RivalNames)
      BY <1>6
    <2>2. IsName(name) /\ MatchesAt(CoreName(name), text, m.start)
      BY <1>2
    <2> HIDE DEF name
    <2>3. QED
      BY <1>3, <1>6, <2>1, <2>2, OwnIsEvident DEF name
  <1>8. \E n \in {words} \cup {Append(words, suffix) : suffix \in CorporateSuffixes} :
            CoreName(n) = words /\ (n \in own \/ \A o \in others : ~Overlaps(n, o))
    <2> HIDE DEF own, others
    <2>1. CoreName(name) = words
      OBVIOUS
    <2> HIDE DEF words, name
    <2>2. QED
      BY <1>4, <1>6, <2>1
  <1> HIDE DEF part
  <1>9. Evidenced(part, text)
    <2> HIDE DEF words
    <2>1. QED
      BY <1>5, <1>7, <1>8 DEF Evidenced
  <1>10. QED
    BY <1>9 DEF part

-----------------------------------------------------------------------------
(* Rounding.                                                               *)

LEMMA DivisionIs ==
    ASSUME NEW n \in Nat, NEW d \in Nat \ {0}
    PROVE  /\ n \div d \in Nat /\ n % d \in 0..(d - 1)
           /\ n = d * (n \div d) + (n % d)
  <1>1. n \div d \in Int /\ n % d \in 0..(d - 1)
    OBVIOUS
  <1>2. n = d * (n \div d) + (n % d)
    OBVIOUS
  <1>3. SUFFICES ASSUME n \div d < 0 PROVE FALSE
    BY <1>1, <1>2
  <1>4. QED
    BY <1>3

\* Multiplication by a positive number keeps the order.
LEMMA TimesKeepsOrder ==
    ASSUME NEW d \in Nat \ {0}, NEW a \in Int, NEW b \in Int
    PROVE  /\ a < b => d * a + d <= d * b
           /\ d * a \in Int /\ d * b \in Int /\ d * (a + 1) = d * a + d /\ d * a = a * d
  <1>1. d * a \in Int /\ d * b \in Int /\ d * (a + 1) = d * a + d /\ d * a = a * d
    OBVIOUS
  <1>2. ASSUME a < b PROVE d * a + d <= d * b
    <2> DEFINE k == b - a - 1
    <2>1. k \in Nat /\ b = a + 1 + k
      BY <1>2
    <2> HIDE DEF k
    <2>2. d * k \in Nat
      BY <2>1
    <2>3. d * b = d * a + d + d * k
      BY <2>1
    <2>4. QED
      BY <1>1, <2>2, <2>3
  <1>3. QED
    BY <1>1, <1>2

\* A quotient between whole numbers is rounded to one between them.
LEMMA RoundBounds ==
    ASSUME NEW n \in Nat, NEW d \in Nat \ {0}, NEW lo \in Nat, NEW hi \in Nat, d * lo <= n, n <= d * hi
    PROVE  RoundHalfEven(n, d) \in lo..hi
  <1> DEFINE q == n \div d
             r == n % d
  <1>1. q \in Nat /\ r \in 0..(d - 1) /\ n = d * q + r
    BY DivisionIs
  <1>2. RoundHalfEven(n, d) = q \/ (RoundHalfEven(n, d) = q + 1 /\ r # 0)
    <2>1. RoundHalfEven(n, d) = IF 2 * r > d \/ (2 * r = d /\ q % 2 = 1) THEN q + 1 ELSE q
      BY DEF RoundHalfEven
    <2> HIDE DEF q, r
    <2>2. r = 0 => ~(2 * r > d) /\ 2 * r # d
      OBVIOUS
    <2>3. QED
      BY <2>1, <2>2
  <1> HIDE DEF q, r
  <1>3. lo <= q
    <2>1. lo > q => d * q + d <= d * lo
      BY <1>1, TimesKeepsOrder
    <2>2. d * q \in Int /\ d * lo \in Int
      BY <1>1, TimesKeepsOrder
    <2>3. QED
      BY <1>1, <2>1, <2>2
  <1>4. q <= hi /\ (r # 0 => q + 1 <= hi)
    <2>1. hi < q => d * hi + d <= d * q
      BY <1>1, TimesKeepsOrder
    <2>2. d * q \in Int /\ d * hi \in Int
      BY <1>1, TimesKeepsOrder
    <2>3. q <= hi
      BY <1>1, <2>1, <2>2
    <2>4. q = hi => r = 0
      BY <1>1, <2>2
    <2>5. QED
      BY <1>1, <2>3, <2>4
  <1>5. QED
    BY <1>1, <1>2, <1>3, <1>4

\* The same where either neighbour may be taken; and no neighbour is further
\* from the quotient than half.
LEMMA NearestIs ==
    ASSUME NEW n \in Nat, NEW d \in Nat \ {0}, NEW q \in Nearest(n, d)
    PROVE  /\ q \in Nat /\ 2 * (d * q) <= 2 * n + d /\ 2 * n <= 2 * (d * q) + d
           /\ \A lo, hi \in Nat : d * lo <= n /\ n <= d * hi => q \in lo..hi
  <1>1. n \div d \in Nat
    BY DivisionIs
  <1>2. q \in Nat /\ 2 * (q * d - n) <= d /\ 2 * (n - q * d) <= d
    BY <1>1 DEF Nearest
  <1>3. d * q \in Nat /\ q * d = d * q
    BY <1>2
  <1>4. 2 * (d * q) <= 2 * n + d /\ 2 * n <= 2 * (d * q) + d
    BY <1>2, <1>3
  <1>5. ASSUME NEW lo \in Nat, NEW hi \in Nat, d * lo <= n, n <= d * hi PROVE q \in lo..hi
    <2>1. d * lo \in Nat /\ d * hi \in Nat
      OBVIOUS
    <2>2. q < lo => d * q + d <= d * lo
      BY <1>2, TimesKeepsOrder
    <2>3. hi < q => d * hi + d <= d * q
      BY <1>2, TimesKeepsOrder
    <2> DEFINE x == d * q
               y == d * lo
               z == d * hi
    <2>4. /\ x \in Nat /\ y \in Nat /\ z \in Nat /\ y <= n /\ n <= z
          /\ (q < lo => x + d <= y) /\ (hi < q => z + d <= x) /\ 2 * x <= 2 * n + d /\ 2 * n <= 2 * x + d
      BY <1>3, <1>4, <1>5, <2>1, <2>2, <2>3
    <2> HIDE DEF x, y, z
    <2>5. QED
      BY <1>2, <2>4
  <1>6. QED
    BY <1>2, <1>4, <1>5

\* A share of a whole is a percentage, 0 exactly when there is none of it and,
\* of a whole of at most 199, not only by rounding; and 100 only when it is all.
LEMMA PercentIs ==
    ASSUME NEW n \in Nat, NEW d \in Nat, n <= d, NEW q \in Percent(n, d)
    PROVE  /\ q \in 0..100 /\ (n = 0 => q = 0)
           /\ d <= 199 => /\ q = 0 => n = 0
                          /\ q = 100 => n = d
           /\ d # 0 /\ n = d => q = 100
  <1>1. CASE d = 0
    BY <1>1 DEF Percent
  <1>2. CASE d # 0
    <2>1. q \in Nearest(100 * n, d) /\ 100 * n \in Nat /\ d \in Nat \ {0}
      BY <1>2 DEF Percent
    <2>2. /\ q \in Nat /\ 2 * (d * q) <= 2 * (100 * n) + d /\ 2 * (100 * n) <= 2 * (d * q) + d
          /\ \A lo, hi \in Nat : d * lo <= 100 * n /\ 100 * n <= d * hi => q \in lo..hi
      BY <2>1, NearestIs
    <2>3. q \in 0..100
      <3>1. d * 0 <= 100 * n /\ 100 * n <= d * 100
        OBVIOUS
      <3>2. QED
        BY <2>2, <3>1
    <2>4. n = 0 => q = 0
      <3>1. n = 0 => d * 0 <= 100 * n /\ 100 * n <= d * 0
        OBVIOUS
      <3>2. n = 0 => q \in 0..0
        BY <2>2, <3>1
      <3>3. QED
        BY <3>2
    <2>5. q = 0 => 200 * n <= d
      <3>1. q = 0 => d * q = 0
        OBVIOUS
      <3>2. QED
        BY <2>2, <3>1
    <2>6. q = 100 => 200 * d <= 200 * n + d
      <3>1. q = 100 => d * q = 100 * d
        OBVIOUS
      <3>2. QED
        BY <2>2, <3>1
    <2>7. n = d => q = 100
      <3>1. n = d => d * 100 <= 100 * n /\ 100 * n <= d * 100
        OBVIOUS
      <3>2. n = d => q \in 100..100
        BY <2>2, <3>1
      <3>3. QED
        BY <3>2
    <2>8. d <= 199 => (q = 0 => n = 0) /\ (q = 100 => n = d)
      BY <2>5, <2>6
    <2>9. QED
      BY <2>3, <2>4, <2>7, <2>8
  <1>3. QED
    BY <1>1, <1>2

-----------------------------------------------------------------------------
(* The numbers of one answer.                                              *)

\* A list without repetition has as many items as places.
LEMMA InjectiveCount ==
    ASSUME NEW T, NEW s \in Seq(T), IsInjective(s)
    PROVE  IsFiniteSet(ToSet(s)) /\ Cardinality(ToSet(s)) = Len(s)
  <1> DEFINE n == Len(s)
             f == [i \in 1..n |-> s[i]]
  <1>1. n \in Nat /\ DOMAIN s = 1..n
    BY LenProperties
  <1>2. Numbers(f, n, ToSet(s))
    <2>1. \A i \in 1..n : f[i] \in ToSet(s)
      BY <1>1 DEF ToSet
    <2>2. \A x \in ToSet(s) : \E i \in 1..n : f[i] = x
      BY <1>1 DEF ToSet
    <2>3. \A i, j \in 1..n : f[i] = f[j] => i = j
      BY <1>1 DEF IsInjective
    <2> HIDE DEF n
    <2>4. QED
      BY <2>1, <2>2, <2>3 DEF Numbers
  <1> HIDE DEF n, f
  <1>3. QED
    BY <1>1, <1>2, NumberedCount DEF n

\* There is a product for the brand and for each rival.
LEMMA ProductsAreFew ==
    IsFiniteSet(Products) /\ Cardinality(Products) <= 1 + Len(Rivals) /\ Cardinality(Products) \in Nat
  <1> DEFINE n == Len(Rivals)
             f == [r \in 1..n |-> Rivals[r].name]
             R == {Rivals[r].name : r \in 1..n}
  <1>1. n \in Nat /\ DOMAIN Rivals = 1..n
    BY RequestIs
  <1>2. f \in Surjection(1..n, R)
    BY DEF Surjection
  <1>3. IsFiniteSet(1..n) /\ Cardinality(1..n) = n
    <2>1. IsFiniteSet(1..n) /\ Cardinality(1..n) = IF 1 > n THEN 0 ELSE n - 1 + 1
      BY <1>1, FS_Interval
    <2>2. QED
      BY <1>1, <2>1
  <1>4. Products = R \cup {Brand}
    BY DEF Products
  <1> HIDE DEF f, R
  <1>5. IsFiniteSet(R) /\ Cardinality(R) <= n /\ Cardinality(R) \in Nat
    BY <1>2, <1>3, FS_Surjection, FS_CardinalityType
  <1>6. IsFiniteSet(R \cup {Brand}) /\ Cardinality(R \cup {Brand}) = IF Brand \in R THEN Cardinality(R) ELSE Cardinality(R) + 1
    BY <1>5, FS_AddElement
  <1>7. QED
    BY <1>1, <1>4, <1>5, <1>6

\* The brand's rank is one more than the rivals first mentioned before it.
BrandAt(ms) == PlaceOf([m \in DOMAIN ms |-> ms[m].name], {Brand})

LEMMA RankIs ==
    ASSUME NEW text, NEW S, NEW ms, Mentions(ms, text, S)
    PROVE  /\ ComputeRank(ms) \in 0..(1 + Len(Rivals))
           /\ BrandAt(ms) \in 0..Len(ms)
           /\ ComputeRank(ms) = 0 <=> BrandAt(ms) = 0
           /\ BrandAt(ms) # 0 => ComputeRank(ms) = 1 + Cardinality({ms[k].name : k \in 1..(BrandAt(ms) - 1)})
           /\ RivalsApart /\ BrandAt(ms) = 0 => \A k \in 1..Len(ms) : ms[k].kind = "competitor"
           /\ RivalsApart /\ BrandAt(ms) # 0 =>
                /\ ms[BrandAt(ms)].kind = "brand"
                /\ \A k \in 1..(BrandAt(ms) - 1) : ms[k].kind = "competitor"
  <1> DEFINE n == Len(ms)
             names == [m \in DOMAIN ms |-> ms[m].name]
             b == PlaceOf(names, {Brand})
             rank == PlaceOf(FirstSeen(names), {Brand})
  <1>1. /\ n \in Nat /\ DOMAIN ms = 1..n
        /\ \A k \in 1..n : /\ ms[k].name \in Products /\ ms[k].kind \in {"brand", "competitor"}
                           /\ RivalsApart => (ms[k].kind = "brand" <=> ms[k].name = Brand)
    <2>1. ms \in Seq(MentionSet(text)) /\ \A k \in 1..n : RivalsApart => (ms[k].kind = "brand" <=> ms[k].name = Brand)
      BY DEF Mentions, Found
    <2>2. n \in Nat /\ DOMAIN ms = 1..n /\ \A k \in 1..n : ms[k] \in MentionSet(text)
      BY <2>1, LenProperties, ElementOfSeq
    <2>3. QED
      BY <2>1, <2>2 DEF MentionSet
  <1> HIDE DEF n
  <1>2. names \in Seq(Products) /\ Len(names) = n /\ \A k \in 1..n : names[k] = ms[k].name
    <2>1. names = [k \in 1..n |-> ms[k].name]
      BY <1>1
    <2> HIDE DEF names
    <2>2. QED
      BY <1>1, <2>1, IsASeq
  <1> HIDE DEF names
  <1>3. /\ b \in 0..n
        /\ b = 0 => \A k \in 1..n : names[k] # Brand
        /\ b # 0 => names[b] = Brand /\ \A k \in 1..(b - 1) : names[k] # Brand
    <2>1. b \in 0..n /\ (b = 0 <=> ToSet(names) \cap {Brand} = {}) /\ (b # 0 => FirstIn(names, {Brand}, b))
      BY <1>2, PlaceOfIs
    <2>2. \A k \in 1..n : names[k] \in ToSet(names)
      BY <1>2, SeqMeets
    <2>3. QED
      BY <2>1, <2>2 DEF FirstIn
  <1>4. rank = IF Brand \notin ToSet(names) THEN 0 ELSE 1 + Cardinality({names[k] : k \in 1..(b - 1)})
    BY <1>2, FirstSeenOnce
  <1>5. Brand \in ToSet(names) <=> b # 0
    BY <1>2, <1>3, SeqMeets
  <1>6. rank \in 0..(1 + Len(Rivals))
    <2> DEFINE seen == FirstSeen(names)
    <2>1. seen \in Seq(Products) /\ ToSet(seen) \subseteq Products /\ IsInjective(seen)
      BY <1>2, FirstSeenHas, FirstSeenOnce, SeqOfItsItems
    <2> HIDE DEF seen
    <2>2. Cardinality(ToSet(seen)) = Len(seen) /\ Len(seen) \in Nat
      BY <2>1, InjectiveCount, LenProperties
    <2>3. Cardinality(ToSet(seen)) <= Cardinality(Products)
      BY <2>1, ProductsAreFew, FS_Subset
    <2>4. rank \in 0..Len(seen)
      BY <2>1, PlaceOfIs DEF seen
    <2> HIDE DEF rank
    <2>5. QED
      BY <2>2, <2>3, <2>4, ProductsAreFew, RequestIs
  <1>7. rank = 0 <=> b = 0
    <2>1. b # 0 => Cardinality({names[k] : k \in 1..(b - 1)}) \in Nat
      <3> SUFFICES ASSUME b # 0 PROVE Cardinality({names[k] : k \in 1..(b - 1)}) \in Nat
        OBVIOUS
      <3> DEFINE B == {names[k] : k \in 1..(b - 1)}
      <3> HIDE DEF b
      <3>1. B \subseteq Products
        <4>1. \A k \in 1..(b - 1) : k \in 1..n
          BY <1>1, <1>3
        <4>2. QED
          BY <1>1, <1>2, <4>1
      <3>2. QED
        BY <3>1, ProductsAreFew, FS_Subset, FS_CardinalityType
    <2> HIDE DEF rank, b
    <2>2. QED
      BY <1>4, <1>5, <2>1
  <1> HIDE DEF b, rank
  <1>8. {names[k] : k \in 1..(b - 1)} = {ms[k].name : k \in 1..(b - 1)} /\ \A k \in 1..(b - 1) : k \in 1..n
    BY <1>1, <1>2, <1>3
  <1>9. RivalsApart /\ b = 0 => \A k \in 1..n : ms[k].kind = "competitor"
    BY <1>1, <1>2, <1>3
  <1>10. RivalsApart /\ b # 0 => ms[b].kind = "brand" /\ \A k \in 1..(b - 1) : ms[k].kind = "competitor"
    BY <1>1, <1>2, <1>3, <1>8
  <1>11. QED
    BY <1>3, <1>4, <1>5, <1>6, <1>7, <1>8, <1>9, <1>10 DEF ComputeRank, BrandAt, b, rank, names, n

\* Visibility and sentiment are percentages.
LEMMA RankScoreIs ==
    ASSUME NEW rank \in Nat \ {0}
    PROVE  RankScore(rank) \in 0..100
  BY DEF RankScore

LEMMA MultiplierIs ==
    /\ Sentiments = {"Positive", "Neutral", "Negative"}
    /\ \A s \in Sentiments : Multiplier[s] \in 0..100
  BY DEF Sentiments, Multiplier

LEMMA VisibilityIs ==
    ASSUME NEW mentioned \in BOOLEAN, NEW rank \in Nat, NEW sentiment \in Sentiments
    PROVE  VisibilityScore(mentioned, rank, sentiment) \in 0..100
  <1>1. CASE ~mentioned \/ rank = None
    BY <1>1 DEF VisibilityScore
  <1>2. CASE ~(~mentioned \/ rank = None)
    <2> DEFINE a == RankScore(rank)
               b == Multiplier[sentiment]
    <2>1. a \in 0..100 /\ b \in 0..100
      BY <1>2, RankScoreIs, MultiplierIs DEF None
    <2>2. VisibilityScore(mentioned, rank, sentiment) = RoundHalfEven(a * b, 100)
      BY <1>2 DEF VisibilityScore
    <2> HIDE DEF a, b
    <2>3. a * b \in Nat /\ a * b <= 100 * 100
      <3>1. a * b \in Nat /\ (a < 100 => b * a + b <= b * 100) /\ b * a = a * b
        <4>1. CASE b = 0
          BY <2>1, <4>1
        <4>2. CASE b # 0
          BY <2>1, <4>2, TimesKeepsOrder
        <4>3. QED
          BY <4>1, <4>2
      <3>2. a = 100 => a * b = b * 100
        BY <2>1
      <3>3. QED
        BY <2>1, <3>1, <3>2
    <2>4. 100 * 0 <= a * b
      BY <2>3
    <2> DEFINE n == a * b
    <2> HIDE DEF n
    <2>5. RoundHalfEven(n, 100) \in 0..100
      <3>1. n \in Nat /\ 100 * 0 <= n /\ n <= 100 * 100
        BY <2>3, <2>4 DEF n
      <3> DEFINE z == 0
                 t == 100
      <3>2. z \in Nat /\ t \in Nat \ {0} /\ t * z <= n /\ n <= t * t
        BY <3>1
      <3> HIDE DEF z, t
      <3>3. RoundHalfEven(n, t) \in z..t
        BY <3>1, <3>2, RoundBounds
      <3>4. QED
        BY <3>3 DEF z, t
    <2>6. QED
      BY <2>2, <2>5 DEF n
  <1>3. QED
    BY <1>1, <1>2

-----------------------------------------------------------------------------
(* The analysis of one answer.                                             *)

BrandParts(parts) == {i \in 1..Len(parts) : parts[i].kind = "brand"}

\* The numbers of an analysis, and that they are those of its parts.
Scored(e) ==
    /\ e.mentioned \in BOOLEAN /\ e.sentiment \in Sentiments /\ e.vis \in 0..100
    /\ e.rank \in 0..(1 + Len(Rivals))
    /\ e.quoted = e.mentioned
    /\ Len(e.parts) \in Nat /\ DOMAIN e.parts = 1..Len(e.parts)
Counted(e) ==
    /\ Scored(e)
    /\ e.rank = 0 <=> ~e.mentioned
    /\ e.mentioned <=> BrandParts(e.parts) # {}
    /\ \A i \in 1..Len(e.parts) : e.parts[i].kind = "brand" <=> e.parts[i].name = Brand

\* The parts are the answer, and its rank what they show.
Whole(e, text) ==
    LET brandAt == BrandParts(e.parts)
        first == CHOOSE i \in brandAt : \A j \in brandAt : i <= j
        before == {e.parts[i].name : i \in {k \in 1..(first - 1) : e.parts[k].kind = "competitor"}}
    IN  /\ FlattenSeq(TextsOf(e.parts)) = text
        /\ \A i \in 1..Len(e.parts) : e.parts[i].text # <<>>
        /\ e.rank = IF brandAt = {} THEN None ELSE 1 + Cardinality(before)

\* Where the mentions stand among the parts.
LEMMA PlacedParts ==
    ASSUME RivalsApart, NEW text, NEW S, NEW ms, Mentions(ms, text, S), NEW parts \in Seq(PartSet(text)),
           NEW h, Placed(h, parts, text, ms, Len(ms))
    PROVE  /\ \A i \in 1..Len(parts) : parts[i].kind = "brand" <=> parts[i].name = Brand
           /\ BrandParts(parts) = {} <=> BrandAt(ms) = 0
           /\ BrandAt(ms) # 0 =>
                /\ h[BrandAt(ms)] \in BrandParts(parts)
                /\ \A i \in BrandParts(parts) : h[BrandAt(ms)] <= i
                /\ {parts[i].name : i \in {k \in 1..(h[BrandAt(ms)] - 1) : parts[k].kind = "competitor"}}
                        = {ms[k].name : k \in 1..(BrandAt(ms) - 1)}
  <1> DEFINE n == Len(ms)
             l == Len(parts)
             b == BrandAt(ms)
  <1>1. /\ n \in Nat /\ l \in Nat
        /\ \A k \in 1..n : ms[k].kind \in {"brand", "competitor"} /\ (ms[k].kind = "brand" <=> ms[k].name = Brand)
    <2>1. ms \in Seq(MentionSet(text)) /\ \A k \in 1..n : ms[k].kind = "brand" <=> ms[k].name = Brand
      BY DEF Mentions, Found
    <2>2. n \in Nat /\ l \in Nat /\ \A k \in 1..n : ms[k] \in MentionSet(text)
      BY <2>1, LenProperties, ElementOfSeq
    <2>3. QED
      BY <2>1, <2>2 DEF MentionSet
  <1>2. /\ b \in 0..n
        /\ b = 0 => \A k \in 1..n : ms[k].kind = "competitor"
        /\ b # 0 => ms[b].kind = "brand" /\ \A k \in 1..(b - 1) : ms[k].kind = "competitor"
    BY RankIs
  <1>3. /\ h \in [1..n -> 1..l] /\ \A j, k \in 1..n : j < k => h[j] < h[k]
        /\ \A k \in 1..n : parts[h[k]] = ShownPart(text, ms[k])
        /\ \A i \in 1..l : \/ parts[i].kind = "normal" /\ parts[i].name = <<>>
                           \/ \E k \in 1..n : h[k] = i
    BY DEF Placed
  <1> HIDE DEF n, l, b
  <1>4. \A k \in 1..n : parts[h[k]].kind = ms[k].kind /\ parts[h[k]].name = ms[k].name
    <2> SUFFICES ASSUME NEW k \in 1..n PROVE parts[h[k]].kind = ms[k].kind /\ parts[h[k]].name = ms[k].name
      OBVIOUS
    <2> DEFINE m == ms[k]
               p == parts[h[k]]
    <2>1. p = ShownPart(text, m)
      BY <1>3
    <2> HIDE DEF m, p
    <2>2. p.kind = m.kind /\ p.name = m.name
      BY <2>1 DEF ShownPart, Part
    <2>3. QED
      BY <2>2 DEF m, p
  <1>5. Brand # <<>>
    <2>1. IsName(Brand)
      BY RequestIs
    <2>2. QED
      BY <2>1 DEF IsName
  <1>6. \A i \in 1..l : parts[i].kind = "brand" <=> parts[i].name = Brand
    <2> SUFFICES ASSUME NEW i \in 1..l PROVE parts[i].kind = "brand" <=> parts[i].name = Brand
      OBVIOUS
    <2>1. CASE parts[i].kind = "normal" /\ parts[i].name = <<>>
      BY <1>5, <2>1
    <2>2. CASE \E k \in 1..n : h[k] = i
      BY <1>1, <1>4, <2>2
    <2>3. QED
      BY <1>3, <2>1, <2>2
  <1>7. \A i \in 1..l : parts[i].kind # "normal" => \E k \in 1..n : h[k] = i
    BY <1>3
  <1>8. \A i \in BrandParts(parts) : i \in 1..l /\ \E k \in 1..n : h[k] = i /\ ms[k].kind = "brand"
    <2> SUFFICES ASSUME NEW i \in BrandParts(parts) PROVE i \in 1..l /\ \E k \in 1..n : h[k] = i /\ ms[k].kind = "brand"
      OBVIOUS
    <2>1. i \in 1..l /\ parts[i].kind = "brand"
      BY DEF BrandParts, l
    <2>2. PICK k \in 1..n : h[k] = i
      BY <1>7, <2>1
    <2>3. QED
      BY <1>4, <2>1, <2>2
  <1>9. \A k \in 1..n : h[k] \in 1..l /\ (ms[k].kind = "brand" => h[k] \in BrandParts(parts))
    BY <1>3, <1>4 DEF BrandParts, l
  <1>10. BrandParts(parts) = {} <=> b = 0
    BY <1>1, <1>2, <1>8, <1>9
  <1>11. ASSUME b # 0
         PROVE  /\ h[b] \in BrandParts(parts) /\ \A i \in BrandParts(parts) : h[b] <= i
                /\ {parts[i].name : i \in {k \in 1..(h[b] - 1) : parts[k].kind = "competitor"}}
                        = {ms[k].name : k \in 1..(b - 1)}
    <2>1. b \in 1..n /\ h[b] \in BrandParts(parts) /\ h[b] \in 1..l
      BY <1>1, <1>2, <1>9, <1>11
    <2>2. ASSUME NEW i \in BrandParts(parts) PROVE h[b] <= i
      <3>1. PICK k \in 1..n : h[k] = i /\ ms[k].kind = "brand"
        BY <1>8
      <3>2. k \notin 1..(b - 1)
        BY <1>2, <1>11, <3>1
      <3>3. k = b \/ b < k
        BY <1>1, <2>1, <3>2
      <3>4. QED
        BY <1>1, <1>3, <1>9, <2>1, <3>1, <3>3
    <2>3. ASSUME NEW i \in 1..(h[b] - 1), parts[i].kind = "competitor"
          PROVE  \E k \in 1..(b - 1) : parts[i].name = ms[k].name
      <3>1. i \in 1..l /\ i < h[b]
        BY <1>1, <2>1
      <3>2. PICK k \in 1..n : h[k] = i
        BY <1>7, <2>3, <3>1
      <3>3. ~(b <= k)
        <4>1. b = k => h[b] = h[k]
          OBVIOUS
        <4>2. b < k => h[b] < h[k]
          BY <1>3, <2>1
        <4>3. QED
          BY <1>1, <2>1, <3>1, <3>2, <4>1, <4>2
      <3>4. k \in 1..(b - 1)
        BY <1>1, <2>1, <3>3
      <3>5. QED
        BY <1>4, <3>2, <3>4
    <2>4. ASSUME NEW k \in 1..(b - 1)
          PROVE  \E i \in 1..(h[b] - 1) : parts[i].kind = "competitor" /\ parts[i].name = ms[k].name
      <3>1. k \in 1..n /\ k < b /\ ms[k].kind = "competitor"
        BY <1>1, <1>2, <1>11, <2>1
      <3>2. h[k] < h[b] /\ h[k] \in 1..l
        BY <1>3, <1>9, <2>1, <3>1
      <3>3. h[k] \in 1..(h[b] - 1)
        BY <1>1, <2>1, <3>2
      <3>4. QED
        BY <1>4, <3>1, <3>3
    <2>5. {parts[i].name : i \in {k \in 1..(h[b] - 1) : parts[k].kind = "competitor"}} = {ms[k].name : k \in 1..(b - 1)}
      <3> DEFINE A == {k \in 1..(h[b] - 1) : parts[k].kind = "competitor"}
      <3>1. ASSUME NEW x, x \in {parts[i].name : i \in A} PROVE x \in {ms[k].name : k \in 1..(b - 1)}
        BY <2>3, <3>1
      <3>2. ASSUME NEW x, x \in {ms[k].name : k \in 1..(b - 1)} PROVE x \in {parts[i].name : i \in A}
        <4>1. PICK k \in 1..(b - 1) : x = ms[k].name
          BY <3>2
        <4>2. PICK i \in 1..(h[b] - 1) : parts[i].kind = "competitor" /\ parts[i].name = ms[k].name
          BY <2>4
        <4>3. QED
          BY <4>1, <4>2
      <3> HIDE DEF A
      <3>3. {parts[i].name : i \in A} = {ms[k].name : k \in 1..(b - 1)}
        BY <3>1, <3>2
      <3>4. QED
        BY <3>3 DEF A
    <2>6. QED
      BY <2>1, <2>2, <2>5
  <1>12. QED
    BY <1>6, <1>10, <1>11 DEF l, b

\* Whatever the models reply.
LEMMA AnalysisIs ==
    ASSUME NEW text \in Answers, NEW reply \in Replies
    PROVE  LET e == AnalyzeOnePrompt(text, reply)
           IN  /\ Scored(e)
               /\ RivalsApart => Counted(e) /\ Whole(e, text)
               /\ DistinctiveNames =>
                    \A i \in 1..Len(e.parts) : e.parts[i].kind # "normal" => Evidenced(e.parts[i], text)
  <1> DEFINE names == BrandSought(text, reply)
             rivals == WithSuggestions(text, reply.competitorMentions, ToSet(names))
             ms == FindMentions(text, names, rivals)
             mentioned == \E m \in ToSet(ms) : m.kind = "brand"
             sentiment == IF reply.sentiment \in Sentiments THEN reply.sentiment ELSE "Neutral"
             rank == ComputeRank(ms)
             vis == VisibilityScore(mentioned, rank, sentiment)
             parts == BuildParts(text, ms)
             S == Seeks(names, rivals)
             e == AnalyzeOnePrompt(text, reply)
  <1>1. IsList(text) /\ Searchable(names, rivals) /\ \A s \in S : Earned(s, text)
    BY ReplyIs, SearchedFor
  <1>2. e = [mentioned |-> mentioned, sentiment |-> sentiment, rank |-> rank, vis |-> vis,
             quoted |-> mentioned, parts |-> parts]
    BY DEF AnalyzeOnePrompt
  <1> HIDE DEF names, rivals, S, e
  <1>3. Mentions(ms, text, S) /\ \A s \in S : IsName(s.name)
    BY <1>1, MentionsAre, SoughtAre DEF S
  <1> HIDE DEF ms
  <1>4. Pieces(parts, text, Len(text) + 1)
    BY <1>1, <1>3, PartsShow
  <1>5. PICK h : Placed(h, parts, text, ms, Len(ms))
    BY <1>1, <1>3, PartsShow
  <1> HIDE DEF parts
  <1>6. /\ parts \in Seq(PartSet(text)) /\ FlattenSeq(TextsOf(parts)) = text
        /\ \A i \in 1..Len(parts) : parts[i].text # <<>>
    <2>1. Len(text) \in Nat /\ text \in Seq(ToSet(text))
      BY <1>1, ListIs DEF IsList
    <2>2. (Len(text) + 1) - 1 = Len(text)
      BY <2>1
    <2>3. SubSeq(text, 1, Len(text)) = text
      BY <2>1, SubSeqFull
    <2>4. QED
      BY <1>4, <2>2, <2>3 DEF Pieces
  <1>7. Len(parts) \in Nat /\ DOMAIN parts = 1..Len(parts)
    BY <1>6, LenProperties
  <1>8. rank \in 0..(1 + Len(Rivals)) /\ rank \in Nat
    <2>1. Len(Rivals) \in Nat
      BY RequestIs
    <2>2. rank \in 0..(1 + Len(Rivals))
      BY <1>3, RankIs
    <2> HIDE DEF rank
    <2>3. QED
      BY <2>1, <2>2
  <1>9. mentioned \in BOOLEAN /\ sentiment \in Sentiments
    BY MultiplierIs
  <1>10. vis \in 0..100
    <2> HIDE DEF mentioned, sentiment, rank
    <2>1. QED
      BY <1>8, <1>9, VisibilityIs
  <1>11. /\ e.mentioned = mentioned /\ e.sentiment = sentiment /\ e.rank = rank /\ e.vis = vis
         /\ e.quoted = mentioned /\ e.parts = parts
    <2> HIDE DEF mentioned, sentiment, rank, vis
    <2>1. QED
      BY <1>2, Zenon
  <1>12. Scored(e)
    <2> HIDE DEF mentioned, sentiment, rank, vis
    <2>1. QED
      BY <1>7, <1>8, <1>9, <1>10, <1>11, Zenon DEF Scored
  <1>13. ASSUME RivalsApart PROVE Counted(e) /\ Whole(e, text)
    <2>1. /\ \A i \in 1..Len(parts) : parts[i].kind = "brand" <=> parts[i].name = Brand
          /\ BrandParts(parts) = {} <=> BrandAt(ms) = 0
          /\ BrandAt(ms) # 0 =>
                /\ h[BrandAt(ms)] \in BrandParts(parts)
                /\ \A i \in BrandParts(parts) : h[BrandAt(ms)] <= i
                /\ {parts[i].name : i \in {k \in 1..(h[BrandAt(ms)] - 1) : parts[k].kind = "competitor"}}
                        = {ms[k].name : k \in 1..(BrandAt(ms) - 1)}
      BY <1>3, <1>5, <1>6, <1>13, PlacedParts
    <2>2. /\ BrandAt(ms) \in 0..Len(ms) /\ (rank = 0 <=> BrandAt(ms) = 0)
          /\ BrandAt(ms) = 0 => \A k \in 1..Len(ms) : ms[k].kind = "competitor"
          /\ BrandAt(ms) # 0 => /\ rank = 1 + Cardinality({ms[k].name : k \in 1..(BrandAt(ms) - 1)})
                                /\ ms[BrandAt(ms)].kind = "brand"
      BY <1>3, <1>13, RankIs
    <2>3. mentioned <=> BrandAt(ms) # 0
      <3>1. ms \in Seq(MentionSet(text))
        BY <1>3 DEF Mentions
      <3>2. Len(ms) \in Nat
        BY <3>1, LenProperties
      <3>3. \A m \in ToSet(ms) : \E k \in 1..Len(ms) : ms[k] = m
        BY <3>1, SeqMeets
      <3>4. \A k \in 1..Len(ms) : ms[k] \in ToSet(ms)
        BY <3>1, SeqMeets
      <3>5. BrandAt(ms) # 0 => BrandAt(ms) \in 1..Len(ms)
        BY <2>2, <3>2
      <3>6. QED
        BY <2>2, <3>3, <3>4, <3>5
    <2> HIDE DEF mentioned, sentiment, rank, vis
    <2>4. Counted(e)
      <3>1. mentioned <=> BrandParts(parts) # {}
        BY <2>1, <2>3
      <3>2. rank = 0 <=> ~mentioned
        BY <2>2, <2>3
      <3>3. QED
        BY <1>11, <1>12, <2>1, <3>1, <3>2, Zenon DEF Counted
    <2>5. Whole(e, text)
      <3> DEFINE first == CHOOSE i \in BrandParts(parts) : \A j \in BrandParts(parts) : i <= j
                 before == {parts[i].name : i \in {k \in 1..(first - 1) : parts[k].kind = "competitor"}}
      <3>1. BrandAt(ms) # 0 => first = h[BrandAt(ms)]
        <4> SUFFICES ASSUME BrandAt(ms) # 0 PROVE first = h[BrandAt(ms)]
          OBVIOUS
        <4> DEFINE a == h[BrandAt(ms)]
                   B == BrandParts(parts)
        <4>1. a \in B /\ (\A i \in B : a <= i) /\ B \subseteq Nat
          BY <2>1 DEF BrandParts
        <4> HIDE DEF a, B
        <4>2. \A i, j \in B : (\A k \in B : i <= k) /\ (\A k \in B : j <= k) => i = j
          BY <4>1
        <4>3. (CHOOSE i \in B : \A j \in B : i <= j) = a
          BY <4>1, <4>2
        <4>4. QED
          BY <4>3 DEF B, a
      <3> HIDE DEF first
      <3>2. rank = IF BrandParts(parts) = {} THEN None ELSE 1 + Cardinality(before)
        BY <2>1, <2>2, <3>1 DEF None
      <3> HIDE DEF before
      <3>3. QED
        BY <1>6, <1>11, <3>2 DEF Whole, first, before
    <2>6. QED
      BY <2>4, <2>5
  <1>14. ASSUME DistinctiveNames, NEW i \in 1..Len(parts), parts[i].kind # "normal" PROVE Evidenced(parts[i], text)
    <2>1. PICK k \in 1..Len(ms) : h[k] = i
      BY <1>5, <1>14 DEF Placed
    <2>2. parts[i] = ShownPart(text, ms[k])
      BY <1>5, <2>1 DEF Placed
    <2>3. PICK s \in S : Found(ms[k], text, s)
      BY <1>3 DEF Mentions
    <2>4. ms[k] \in MentionSet(text)
      BY <1>3, ElementOfSeq DEF Mentions
    <2> DEFINE m == ms[k]
    <2> HIDE DEF m
    <2>5. Evidenced(ShownPart(text, m), text)
      BY <1>1, <1>3, <1>14, <2>3, <2>4, MentionEvidenced DEF m
    <2>6. QED
      BY <2>2, <2>5 DEF m
  <1>15. QED
    BY <1>11, <1>12, <1>13, <1>14 DEF e

-----------------------------------------------------------------------------
(* The state.                                                              *)

\* Only which items of the list are kept matters.
LEMMA SiftSame ==
    ASSUME NEW T, NEW seq \in Seq(T), NEW S, NEW R, \A x \in ToSet(seq) : x \in S <=> x \in R
    PROVE  Sift(seq, S) = Sift(seq, R)
  <1> DEFINE N == Len(seq)
  <1>1. N \in Nat /\ \A n \in 1..N : seq[n] \in ToSet(seq)
    BY LenProperties, SeqMeets
  <1>2. PICK f : SiftRun(seq, S, T, f)
    BY SiftUnfolds
  <1>3. PICK g : SiftRun(seq, R, T, g)
    BY SiftUnfolds
  <1> DEFINE D == {n \in 0..N : f[n] = g[n]}
  <1>4. D = 0..N
    <2>1. D \in SUBSET (0..N) /\ 0 \in D
      BY <1>1, <1>2, <1>3 DEF SiftRun
    <2>2. ASSUME NEW n \in 1..N, n - 1 \in D PROVE n \in D
      <3>1. f[n] = SiftStep(seq, S, f[n - 1], n) /\ g[n] = SiftStep(seq, R, g[n - 1], n)
        BY <1>2, <1>3 DEF SiftRun
      <3>2. f[n - 1] = g[n - 1] /\ (seq[n] \in S <=> seq[n] \in R) /\ n \in 0..N
        BY <1>1, <2>2
      <3>3. QED
        BY <3>1, <3>2 DEF SiftStep
    <2> HIDE DEF N, D
    <2>3. QED
      BY <1>1, <2>1, <2>2, InductionUpTo
  <1>5. N \in D
    <2> HIDE DEF D
    <2>1. QED
      BY <1>1, <1>4
  <1>6. QED
    BY <1>2, <1>3, <1>5 DEF SiftRun

\* What an analysis can be, whatever is replied.
Analysed(e, text) ==
    /\ Scored(e)
    /\ RivalsApart => Counted(e) /\ Whole(e, text)
    /\ DistinctiveNames =>
          \A i \in 1..Len(e.parts) : e.parts[i].kind # "normal" => Evidenced(e.parts[i], text)

LEMMA AnalysesAre ==
    ASSUME NEW text \in Answers, NEW e \in Analyses[text]
    PROVE  Analysed(e, text)
  <1>1. PICK reply \in Replies : e = AnalyzeOnePrompt(text, reply)
    BY DEF Analyses
  <1> DEFINE d == AnalyzeOnePrompt(text, reply)
  <1>2. Analysed(d, text)
    BY AnalysisIs DEF Analysed
  <1> HIDE DEF d
  <1>3. e = d
    BY <1>1 DEF d
  <1>4. QED
    BY <1>2, <1>3

\* The request's personas and prompts.
LEMMA PersonasAre ==
    /\ Personas \in Seq(ToSet(Personas)) /\ IsInjective(Personas)
    /\ \A s \in ToSet(Personas) :
          /\ PromptsOf[s] \in Seq(Prompts) /\ PromptsOf[s] # <<>> /\ IsInjective(PromptsOf[s])
          /\ ToSet(PromptsOf[s]) \subseteq Prompts
    /\ \A p \in Prompts : \E s \in ToSet(Personas) : p \in ToSet(PromptsOf[s])
    /\ \A s, t \in ToSet(Personas) : s # t => ToSet(PromptsOf[s]) \cap ToSet(PromptsOf[t]) = {}
    /\ Cardinality(Prompts) <= 199 /\ MaxSources \in Nat
  <1>1. ASSUME NEW s \in ToSet(Personas)
        PROVE  /\ PromptsOf[s] \in Seq(Prompts) /\ PromptsOf[s] # <<>> /\ IsInjective(PromptsOf[s])
               /\ ToSet(PromptsOf[s]) \subseteq Prompts
    <2>1. IsName(PromptsOf[s]) /\ IsInjective(PromptsOf[s])
      BY AnalysisAssumption
    <2>2. ToSet(PromptsOf[s]) \subseteq Prompts
      BY DEF Prompts
    <2>3. PromptsOf[s] \in Seq(ToSet(PromptsOf[s])) /\ PromptsOf[s] # <<>>
      BY <2>1 DEF IsName, IsList
    <2> DEFINE q == PromptsOf[s]
    <2> HIDE DEF q
    <2>4. q \in Seq(ToSet(q)) /\ ToSet(q) \subseteq Prompts => q \in Seq(Prompts)
      OBVIOUS
    <2>5. QED
      BY <2>1, <2>2, <2>3, <2>4 DEF q
  <1>2. \A p \in Prompts : \E s \in ToSet(Personas) : p \in ToSet(PromptsOf[s])
    BY DEF Prompts
  <1>3. Personas \in Seq(ToSet(Personas)) /\ IsInjective(Personas)
    BY AnalysisAssumption DEF IsList
  <1>4. /\ \A s, t \in ToSet(Personas) : s # t => ToSet(PromptsOf[s]) \cap ToSet(PromptsOf[t]) = {}
        /\ Cardinality(Prompts) <= 199 /\ MaxSources \in Nat
    BY AnalysisAssumption
  <1>5. QED
    BY <1>1, <1>2, <1>3, <1>4

\* The page run_job makes of some results.
PageFrom(results, r) ==
    LET all == AllExchanges(results)
    IN  \E shares \in ProductShares(results),
           presence \in Percent(Len(Mentioning(all)), Len(all)),
           sov \in ShareOfVoice(ProductCounts(results)),
           tone \in Tone(Mentioning(all)),
           top \in TopCompetitors(ProductCounts(results)) :
        \E measured \in 0..MaxSources : \E named \in 0..measured :
        \E authority \in Percent(named, measured) :
        \E score \in Composite(presence, sov, Ranking(Mentioning(all)), tone, authority, measured > 0) :
           r = <<[ score          |-> score,
                   mentioned      |-> Len(Mentioning(all)),
                   total          |-> Len(all),
                   failedPrompts  |-> FailedPrompts(results),
                   failedPersonas |-> Len(Personas) - Len(results),
                   sentiment      |-> SentimentOf(all),
                   counts         |-> ProductCounts(results),
                   shares         |-> shares,
                   topCompetitor  |-> top,
                   presence       |-> presence,
                   sov            |-> sov,
                   strength       |-> Strength(Mentioning(all)),
                   ranking        |-> Ranking(Mentioning(all)),
                   tone           |-> tone,
                   authority      |-> authority,
                   measured       |-> measured ]>>

KeptResult(s) ==
    PersonaResult([i \in DOMAIN Kept(s) |-> exchange[Kept(s)[i]]], Len(PromptsOf[s]) - Len(Kept(s)))

PromptsOK ==
    /\ call \in [Prompts -> {"asked", "answered", "done", "failed"}]
    /\ answer \in [Prompts -> Answers \cup {<<>>}]
    /\ \A p \in Prompts : call[p] \in {"answered", "done"} => answer[p] \in Answers
    /\ DOMAIN exchange = {p \in Prompts : call[p] = "done"}
    /\ \A p \in DOMAIN exchange : exchange[p] \in Analyses[answer[p]]

PersonasOK ==
    /\ persona \in [ToSet(Personas) -> {"running", "done", "error"}]
    /\ DOMAIN summary = {s \in ToSet(Personas) : persona[s] = "done"}
    /\ \A s \in ToSet(Personas) : persona[s] # "running" =>
          Settled(s) /\ (persona[s] = "done" <=> Kept(s) # <<>>)
    /\ \A s \in DOMAIN summary : summary[s] = KeptResult(s)

\* The inductive invariant: what is analysed comes of an answer; a persona that
\* has settled keeps what its prompts gave; the page is made of the summaries,
\* and none of them can change once it is there.
AnalysisInv ==
    /\ PromptsOK
    /\ PersonasOK
    /\ report # <<>> =>
          /\ \A s \in ToSet(Personas) : persona[s] # "running"
          /\ Results # <<>> /\ PageFrom(Results, report)

LEMMA AnalysisInit == Init => AnalysisInv
  <1> SUFFICES ASSUME Init PROVE AnalysisInv
    OBVIOUS
  <1>1. DOMAIN exchange = {} /\ DOMAIN summary = {} /\ report = <<>>
    BY DEF Init
  <1>2. PromptsOK
    BY <1>1 DEF Init, PromptsOK
  <1>3. PersonasOK
    BY <1>1 DEF Init, PersonasOK
  <1>4. QED
    BY <1>1, <1>2, <1>3 DEF AnalysisInv

\* A settled persona's prompts do not change.
LEMMA SettledStays ==
    ASSUME NEW s \in ToSet(Personas), \A q \in ToSet(PromptsOf[s]) : call'[q] = call[q]
    PROVE  /\ Settled(s) => Settled(s)'
           /\ Kept(s)' = Kept(s)
  <1>1. Settled(s) => Settled(s)'
    BY DEF Settled
  <1> DEFINE q == PromptsOf[s]
             S == {p \in Prompts : call[p] = "done"}
             R == {p \in Prompts : call'[p] = "done"}
  <1>2. q \in Seq(Prompts) /\ \A x \in ToSet(q) : x \in S <=> x \in R
    BY PersonasAre
  <1>3. Kept(s) = Sift(q, S) /\ Kept(s)' = Sift(q, R)
    BY DEF Kept
  <1> HIDE DEF q, S, R
  <1>4. Sift(q, S) = Sift(q, R)
    BY <1>2, SiftSame
  <1>5. QED
    BY <1>1, <1>3, <1>4

LEMMA KeptAre ==
    ASSUME NEW s \in ToSet(Personas)
    PROVE  /\ Kept(s) \in Seq(Prompts) /\ ToSet(Kept(s)) = {p \in ToSet(PromptsOf[s]) : call[p] = "done"}
           /\ Len(Kept(s)) \in Nat /\ DOMAIN Kept(s) = 1..Len(Kept(s))
           /\ \A i \in 1..Len(Kept(s)) : Kept(s)[i] \in ToSet(Kept(s))
           /\ IsInjective(Kept(s))
  <1> DEFINE q == PromptsOf[s]
             S == {p \in Prompts : call[p] = "done"}
             k == Kept(s)
  <1>1. q \in Seq(Prompts) /\ IsInjective(q) /\ ToSet(q) \subseteq Prompts
    BY PersonasAre
  <1>2. k = Sift(q, S) /\ ToSet(q) \cap S = {p \in ToSet(q) : call[p] = "done"}
    BY <1>1 DEF Kept
  <1> HIDE DEF q, S, k
  <1>3. k \in Seq(Prompts) /\ ToSet(k) = ToSet(q) \cap S /\ IsInjective(k)
    BY <1>1, <1>2, SiftIs, SiftCounts
  <1>4. Len(k) \in Nat /\ DOMAIN k = 1..Len(k) /\ \A i \in 1..Len(k) : k[i] \in ToSet(k)
    BY <1>3, LenProperties, SeqMeets
  <1>5. QED
    BY <1>2, <1>3, <1>4 DEF q, k

\* A step of a prompt that has not settled disturbs no persona that has.
LEMMA PromptStep ==
    ASSUME AnalysisInv, NEW p \in Prompts, call[p] \in {"asked", "answered"},
           \A q \in Prompts \ {p} : call'[q] = call[q],
           \A q \in DOMAIN exchange : exchange'[q] = exchange[q],
           UNCHANGED <<persona, summary, report>>
    PROVE  PersonasOK' /\ report' = <<>>
  <1>1. PersonasOK
    BY DEF AnalysisInv
  <1>2. DOMAIN exchange = {q \in Prompts : call[q] = "done"}
    BY DEF AnalysisInv, PromptsOK
  <1>3. ASSUME NEW s \in ToSet(Personas), persona[s] # "running"
        PROVE  p \notin ToSet(PromptsOf[s]) /\ Settled(s)' /\ Kept(s)' = Kept(s)
    <2>1. Settled(s)
      BY <1>1, <1>3 DEF PersonasOK
    <2>2. p \notin ToSet(PromptsOf[s])
      BY <2>1 DEF Settled
    <2>3. \A q \in ToSet(PromptsOf[s]) : call'[q] = call[q]
      BY <2>2, PersonasAre
    <2>4. QED
      BY <2>1, <2>2, <2>3, SettledStays
  <1>4. report = <<>>
    <2> SUFFICES ASSUME report # <<>> PROVE FALSE
      OBVIOUS
    <2>1. PICK s \in ToSet(Personas) : p \in ToSet(PromptsOf[s])
      BY PersonasAre
    <2>2. persona[s] # "running"
      BY DEF AnalysisInv
    <2>3. QED
      BY <1>3, <2>1, <2>2
  <1>5. ASSUME NEW s \in DOMAIN summary PROVE summary'[s] = KeptResult(s)'
    <2>1. s \in ToSet(Personas) /\ persona[s] # "running" /\ summary'[s] = KeptResult(s)
      BY <1>1 DEF PersonasOK
    <2>2. Kept(s)' = Kept(s)
      BY <1>3, <2>1
    <2> DEFINE k == Kept(s)
               a == [i \in DOMAIN k |-> exchange[k[i]]]
               b == [i \in DOMAIN k |-> exchange'[k[i]]]
    <2>3. /\ KeptResult(s) = PersonaResult(a, Len(PromptsOf[s]) - Len(k))
          /\ KeptResult(s)' = PersonaResult(b, Len(PromptsOf[s]) - Len(k))
      BY <2>2 DEF KeptResult
    <2>4. \A i \in DOMAIN k : k[i] \in DOMAIN exchange
      BY <1>2, <2>1, KeptAre, PersonasAre
    <2> HIDE DEF k
    <2>5. a = b
      BY <2>4
    <2> HIDE DEF a, b
    <2>6. QED
      BY <2>1, <2>3, <2>5
  <1>6. PersonasOK'
    BY <1>1, <1>3, <1>5 DEF PersonasOK
  <1>7. QED
    BY <1>4, <1>6

LEMMA AnalysisStep == AnalysisInv /\ [Next]_vars => AnalysisInv'
  <1> SUFFICES ASSUME AnalysisInv, [Next]_vars PROVE AnalysisInv'
    OBVIOUS
  <1>1. PromptsOK /\ PersonasOK
    BY DEF AnalysisInv
  <1>2. ASSUME NEW p \in Prompts, Answer(p) PROVE AnalysisInv'
    <2>1. PromptsOK'
      BY <1>1, <1>2 DEF PromptsOK, Answer
    <2>2. PersonasOK' /\ report' = <<>>
      BY <1>1, <1>2, PromptStep DEF Answer, PromptsOK
    <2>3. QED
      BY <2>1, <2>2 DEF AnalysisInv
  <1>3. ASSUME NEW p \in Prompts, Classify(p) PROVE AnalysisInv'
    <2>1. PICK analysis \in Analyses[answer[p]] :
              exchange' = [q \in DOMAIN exchange \cup {p} |-> IF q = p THEN analysis ELSE exchange[q]]
      BY <1>3 DEF Classify
    <2>2. p \notin DOMAIN exchange /\ call' = [call EXCEPT ![p] = "done"] /\ answer' = answer /\ call[p] = "answered"
      BY <1>1, <1>3 DEF Classify, PromptsOK
    <2>3. PromptsOK'
      <3>1. DOMAIN exchange' = {q \in Prompts : call'[q] = "done"}
        BY <1>1, <2>1, <2>2 DEF PromptsOK
      <3>2. \A q \in DOMAIN exchange' : exchange'[q] \in Analyses[answer'[q]]
        BY <1>1, <2>1, <2>2 DEF PromptsOK
      <3>3. QED
        BY <1>1, <2>2, <3>1, <3>2 DEF PromptsOK
    <2>4. PersonasOK' /\ report' = <<>>
      BY <1>1, <1>3, <2>1, <2>2, PromptStep DEF Classify, PromptsOK
    <2>5. QED
      BY <2>3, <2>4 DEF AnalysisInv
  <1>4. ASSUME NEW p \in Prompts, PromptFails(p) PROVE AnalysisInv'
    <2>1. PromptsOK'
      BY <1>1, <1>4 DEF PromptsOK, PromptFails
    <2>2. PersonasOK' /\ report' = <<>>
      BY <1>1, <1>4, PromptStep DEF PromptFails, PromptsOK
    <2>3. QED
      BY <2>1, <2>2 DEF AnalysisInv
  <1>5. ASSUME NEW s \in ToSet(Personas), PersonaDone(s) \/ PersonaFails(s) PROVE AnalysisInv'
    <2>1. /\ persona[s] = "running" /\ Settled(s) /\ UNCHANGED <<call, answer, exchange, report>>
          /\ \/ Kept(s) # <<>> /\ persona' = [persona EXCEPT ![s] = "done"]
             \/ Kept(s) = <<>> /\ persona' = [persona EXCEPT ![s] = "error"]
      BY <1>5 DEF PersonaDone, PersonaFails
    <2>2. report' = <<>>
      BY <2>1 DEF AnalysisInv
    <2>3. PromptsOK'
      BY <1>1, <2>1 DEF PromptsOK
    <2>4. ASSUME NEW t \in ToSet(Personas)
          PROVE  Settled(t)' = Settled(t) /\ Kept(t)' = Kept(t) /\ KeptResult(t)' = KeptResult(t)
      BY <2>1 DEF Settled, Kept, KeptResult
    <2>5. \A t \in DOMAIN summary' : summary'[t] = KeptResult(t)
      <3>1. CASE PersonaDone(s)
        BY <1>1, <3>1 DEF PersonaDone, PersonasOK, KeptResult
      <3>2. CASE PersonaFails(s)
        BY <1>1, <3>2 DEF PersonaFails, PersonasOK
      <3>3. QED
        BY <1>5, <3>1, <3>2
    <2>6. DOMAIN summary' = {t \in ToSet(Personas) : persona'[t] = "done"}
      <3>1. CASE PersonaDone(s)
        BY <1>1, <3>1 DEF PersonaDone, PersonasOK
      <3>2. CASE PersonaFails(s)
        BY <1>1, <3>2 DEF PersonaFails, PersonasOK
      <3>3. QED
        BY <1>5, <3>1, <3>2
    <2>7. persona' \in [ToSet(Personas) -> {"running", "done", "error"}]
      BY <1>1, <2>1 DEF PersonasOK
    <2>8. ASSUME NEW t \in ToSet(Personas), persona'[t] # "running"
          PROVE  Settled(t) /\ (persona'[t] = "done" <=> Kept(t) # <<>>)
      BY <1>1, <2>1, <2>8 DEF PersonasOK
    <2>9. PersonasOK'
      BY <2>4, <2>5, <2>6, <2>7, <2>8 DEF PersonasOK
    <2>10. QED
      BY <2>2, <2>3, <2>9 DEF AnalysisInv
  <1>6. ASSUME UNCHANGED <<call, answer, exchange, persona, summary>>
        PROVE  PromptsOK' /\ PersonasOK' /\ Results' = Results
    <2>1. PromptsOK'
      BY <1>1, <1>6 DEF PromptsOK
    <2>2. \A t : Settled(t)' = Settled(t) /\ Kept(t)' = Kept(t) /\ KeptResult(t)' = KeptResult(t)
      BY <1>6 DEF Settled, Kept, KeptResult
    <2>3. PersonasOK'
      BY <1>1, <1>6, <2>2 DEF PersonasOK
    <2>4. QED
      BY <1>6, <2>1, <2>3 DEF Results, Shown, Done, Namesakes
  <1>7. CASE Complete
    <2>1. PageFrom(Results, report') /\ Results # <<>> /\ \A s \in ToSet(Personas) : persona[s] # "running"
      BY <1>7 DEF Complete, Page, PageFrom
    <2>2. PromptsOK' /\ PersonasOK' /\ Results' = Results /\ persona' = persona
      BY <1>6, <1>7 DEF Complete
    <2>3. QED
      BY <2>1, <2>2 DEF AnalysisInv
  <1>8. CASE UNCHANGED vars
    <2>1. PromptsOK' /\ PersonasOK' /\ Results' = Results /\ persona' = persona /\ report' = report
      BY <1>6, <1>8 DEF vars
    <2>2. QED
      BY <2>1 DEF AnalysisInv
  <1>9. QED
    BY <1>2, <1>3, <1>4, <1>5, <1>7, <1>8 DEF Next

THEOREM AnalysisInvHolds == Spec => []AnalysisInv
  <1>1. QED
    BY AnalysisInit, AnalysisStep, PTL DEF Spec

-----------------------------------------------------------------------------
(* What is promised of every state: the prompts.                           *)

LEMMA ExchangesAre ==
    ASSUME AnalysisInv, NEW p \in DOMAIN exchange
    PROVE  /\ p \in Prompts /\ answer[p] \in Answers /\ Analysed(exchange[p], answer[p])
           /\ DOMAIN exchange[p].parts = 1..Len(exchange[p].parts)
  <1> DEFINE e == exchange[p]
             text == answer[p]
  <1>1. p \in Prompts /\ text \in Answers /\ e \in Analyses[text]
    BY DEF AnalysisInv, PromptsOK
  <1> HIDE DEF e, text
  <1>2. Analysed(e, text)
    BY <1>1, AnalysesAre
  <1>3. DOMAIN e.parts = 1..Len(e.parts)
    BY <1>2 DEF Analysed, Scored
  <1>4. QED
    BY <1>1, <1>2, <1>3 DEF e, text

\* Every prompt, persona and analysis has the values the code gives it
\* (pipeline.py, ExchangeAnalysis and PersonaResult), whatever the models reply.
THEOREM AnalysisTypeCorrect == Spec => []TypeOK
  <1>1. AnalysisInv => TypeOK
    <2> SUFFICES ASSUME AnalysisInv PROVE TypeOK
      OBVIOUS
    <2>1. \A p \in DOMAIN exchange : exchange[p].vis \in 0..100 /\ exchange[p].rank \in 0..(1 + Len(Rivals))
      BY ExchangesAre DEF Analysed, Scored
    <2>2. Len(report) <= 1
      <3>1. CASE report = <<>>
        BY <3>1
      <3>2. CASE report # <<>>
        <4>1. \E page : report = <<page>>
          BY <3>2 DEF AnalysisInv, PageFrom
        <4>2. QED
          BY <4>1
      <3>3. QED
        BY <3>1, <3>2
    <2>3. QED
      BY <2>1, <2>2 DEF AnalysisInv, PromptsOK, PersonasOK, TypeOK
  <1>2. QED
    BY <1>1, AnalysisInvHolds, PTL

\* The parts a client highlights are the answer, whole, and the rank is what
\* they show (scoring.py: find_mentions, build_parts and compute_rank agree),
\* for every answer, every reply and every request that sends no rival under the
\* brand's own name: of one that does, compute_rank (scoring.py:209-211) ranks
\* the brand where only the rival is highlighted.
THEOREM AnswersAreShownWhole ==
    ASSUME RivalsApart
    PROVE  Spec => []AnswerIsShownWhole
  <1>1. AnalysisInv => AnswerIsShownWhole
    <2> SUFFICES ASSUME AnalysisInv, NEW p \in DOMAIN exchange
                 PROVE  LET parts == exchange[p].parts
                            brandAt == {i \in DOMAIN parts : parts[i].kind = "brand"}
                            first == CHOOSE i \in brandAt : \A j \in brandAt : i <= j
                            before == {parts[i].name : i \in {k \in 1..(first - 1) : parts[k].kind = "competitor"}}
                        IN  /\ FlattenSeq([i \in DOMAIN parts |-> parts[i].text]) = answer[p]
                            /\ \A i \in DOMAIN parts : parts[i].text # <<>>
                            /\ exchange[p].mentioned <=> brandAt # {}
                            /\ exchange[p].rank = IF brandAt = {} THEN None ELSE 1 + Cardinality(before)
      BY DEF AnswerIsShownWhole
    <2> DEFINE e == exchange[p]
               text == answer[p]
               parts == e.parts
    <2>1. Counted(e) /\ Whole(e, text) /\ DOMAIN parts = 1..Len(parts)
      BY ExchangesAre DEF Analysed
    <2> HIDE DEF e, text
    <2>2. BrandParts(parts) = {i \in DOMAIN parts : parts[i].kind = "brand"} /\ TextsOf(parts) = [i \in DOMAIN parts |-> parts[i].text]
      BY <2>1 DEF BrandParts, TextsOf
    <2>3. e.mentioned <=> BrandParts(parts) # {}
      BY <2>1 DEF Counted
    <2>4. QED
      BY <2>1, <2>2, <2>3 DEF Whole, e, text
  <1>2. QED
    BY <1>1, AnalysisInvHolds, PTL

\* Whatever name the classifier suggests, what is highlighted for an entity is
\* evidenced by the request's own names (pipeline.py, verified_alias), of every
\* request whose names have a head word that is no corporate suffix: a name like
\* "The Group" is looked for as "the", which is no evidence of its head word.
THEOREM MentionsAreEvidenced ==
    ASSUME DistinctiveNames
    PROVE  Spec => []EveryMentionIsEvidenced
  <1>1. ASSUME AnalysisInv, NEW p \in DOMAIN exchange, NEW part \in ToSet(exchange[p].parts), part.kind # "normal"
        PROVE  Evidenced(part, answer[p]) /\ IsList(answer[p])
    <2>1. Analysed(exchange[p], answer[p]) /\ answer[p] \in Answers /\ DOMAIN exchange[p].parts = 1..Len(exchange[p].parts)
      BY <1>1, ExchangesAre
    <2>2. PICK i \in 1..Len(exchange[p].parts) : part = exchange[p].parts[i]
      BY <2>1 DEF ToSet
    <2>3. QED
      BY <1>1, <2>1, <2>2, AnalysisAssumption DEF Analysed
  <1>2. AnalysisInv => EveryMentionIsEvidenced
    <2> SUFFICES ASSUME AnalysisInv, NEW p \in DOMAIN exchange, NEW part \in ToSet(exchange[p].parts), part.kind # "normal"
                 PROVE  LET named == {r \in DOMAIN Rivals : Rivals[r].name = part.name}
                            own == IF part.kind = "brand" THEN BrandsOwn ELSE UNION {NamesOf(Rivals[r]) : r \in named}
                            others == (UNION {NamesOf(Rivals[r]) : r \in DOMAIN Rivals \ named})
                                      \cup IF part.kind = "brand" THEN {} ELSE ToSet(OrElse(BrandNames, Brand))
                            words == [i \in DOMAIN part.text |-> Lower(part.text[i])]
                            whole == {words} \cup {Append(words, suffix) : suffix \in CorporateSuffixes}
                            Sentence(start) == SentenceAround(answer[p], start, start + Len(words))
                        IN  /\ \E start \in DOMAIN answer[p] :
                                  /\ MatchesAt(words, answer[p], start)
                                  /\ \E i \in DOMAIN Sentence(start) : Lower(Sentence(start)[i]) \in {HeadWord(n) : n \in own}
                            /\ \E n \in whole :
                                  CoreName(n) = words /\ (n \in own \/ \A o \in others : ~Overlaps(n, o))
      BY DEF EveryMentionIsEvidenced
    <2> DEFINE text == answer[p]
    <2>1. Evidenced(part, text) /\ IsList(text)
      BY <1>1
    <2> HIDE DEF text
    <2>2. DOMAIN text = 1..Len(text)
      BY <2>1, ListIs
    <2>3. QED
      BY <2>1, <2>2 DEF Evidenced, Evident, Known, text
  <1>3. QED
    BY <1>2, AnalysisInvHolds, PTL

-----------------------------------------------------------------------------
(* One persona's summary.                                                  *)

Naming(s) == {e \in ToSet(s) : e.mentioned}
NamingAt(s) == {i \in 1..Len(s) : s[i].mentioned}

LEMMA MentioningIs ==
    ASSUME NEW T, NEW s \in Seq(T)
    PROVE  /\ Mentioning(s) \in Seq(T) /\ ToSet(Mentioning(s)) = Naming(s)
           /\ Len(Mentioning(s)) = Cardinality(NamingAt(s))
           /\ Len(Mentioning(s)) \in Nat /\ Len(Mentioning(s)) <= Len(s)
           /\ DOMAIN Mentioning(s) = 1..Len(Mentioning(s))
           /\ Mentioning(s) = <<>> <=> Naming(s) = {}
           /\ Mentioning(s) = <<>> <=> Len(Mentioning(s)) = 0
           /\ \A i \in 1..Len(Mentioning(s)) : Mentioning(s)[i] \in T /\ Mentioning(s)[i].mentioned
  <1> DEFINE S == {e \in ToSet(s) : e.mentioned}
             m == Mentioning(s)
  <1>1. m = Sift(s, S) /\ Naming(s) = S
    BY DEF Mentioning, Naming
  <1>2. \A i \in 1..Len(s) : s[i] \in ToSet(s)
    BY SeqMeets
  <1>3. {i \in 1..Len(s) : s[i] \in S} = NamingAt(s)
    BY <1>2 DEF NamingAt
  <1>4. S \subseteq ToSet(s) /\ \A e \in S : e.mentioned
    OBVIOUS
  <1> HIDE DEF S, m
  <1>5. m \in Seq(T) /\ ToSet(m) = S
    <2>1. m \in Seq(T) /\ ToSet(m) = ToSet(s) \cap S
      BY <1>1, SiftIs
    <2>2. ToSet(s) \cap S = S
      BY <1>4
    <2>3. QED
      BY <2>1, <2>2
  <1>6. Len(m) \in Nat /\ Len(m) = Cardinality(NamingAt(s))
    BY <1>1, <1>3, SiftCounts
  <1>7. Len(m) <= Len(s)
    BY <1>1, SiftKeeps
  <1>8. (m = <<>> <=> S = {}) /\ (m = <<>> <=> Len(m) = 0) /\ DOMAIN m = 1..Len(m)
    BY <1>5, SeqMeets, LenProperties
  <1>9. \A i \in 1..Len(m) : m[i] \in T /\ m[i].mentioned
    BY <1>4, <1>5, SeqMeets, ElementOfSeq
  <1>10. QED
    BY <1>1, <1>5, <1>6, <1>7, <1>8, <1>9 DEF m

\* The commonest of a list's items is one of them.
LEMMA MostCommonIs ==
    ASSUME NEW T, NEW s \in Seq(T), s # <<>>
    PROVE  MostCommon(s) \in ToSet(s)
  <1> DEFINE n == Len(s)
             Count(x) == Cardinality({i \in DOMAIN s : s[i] = x})
             top == {x \in ToSet(s) : \A y \in ToSet(s) : Count(y) <= Count(x)}
             C == {Count(x) : x \in ToSet(s)}
  <1>1. n \in Nat /\ DOMAIN s = 1..n /\ ToSet(s) # {}
    BY LenProperties, SeqMeets
  <1>2. IsFiniteSet(1..n) /\ Cardinality(1..n) = n
    <2> HIDE DEF n
    <2>1. IsFiniteSet(1..n) /\ Cardinality(1..n) = IF 1 > n THEN 0 ELSE n - 1 + 1
      BY <1>1, FS_Interval
    <2>2. QED
      BY <1>1, <2>1
  <1> HIDE DEF n
  <1>3. ASSUME NEW x PROVE Count(x) \in 0..n
    <2> DEFINE P == {i \in DOMAIN s : s[i] = x}
    <2>1. P \subseteq 1..n
      BY <1>1
    <2> HIDE DEF P
    <2>2. IsFiniteSet(P) /\ Cardinality(P) <= n /\ Cardinality(P) \in Nat
      BY <1>2, <2>1, FS_Subset, FS_CardinalityType
    <2>3. QED
      BY <1>1, <2>2 DEF P
  <1> HIDE DEF Count
  <1>4. C \in SUBSET (0..n) /\ C # {}
    BY <1>1, <1>3
  <1>5. PICK m \in C : \A k \in C : k <= m
    <2> HIDE DEF C
    <2>1. QED
      BY <1>1, <1>4, GreatestOf
  <1>6. PICK x \in ToSet(s) : m = Count(x)
    OBVIOUS
  <1>7. x \in top
    BY <1>5, <1>6
  <1>8. MostCommon(s) = s[PlaceOf(s, top)]
    BY DEF MostCommon, Count
  <1>9. top \subseteq ToSet(s)
    OBVIOUS
  <1> HIDE DEF top
  <1>10. PlaceOf(s, top) # 0 /\ s[PlaceOf(s, top)] \in top
    BY <1>6, <1>7, PlaceOfIs DEF FirstIn
  <1>11. QED
    BY <1>8, <1>9, <1>10

LEMMA SentimentIs ==
    ASSUME NEW T, NEW s \in Seq(T), Naming(s) # {}
    PROVE  SentimentOf(s) \in {e.sentiment : e \in Naming(s)}
  <1> DEFINE m == Mentioning(s)
             c == Column(m, "sentiment")
             V == {e.sentiment : e \in Naming(s)}
  <1>1. m # <<>> /\ Len(m) \in Nat /\ DOMAIN m = 1..Len(m) /\ Len(m) # 0
    BY MentioningIs
  <1>2. \A i \in 1..Len(m) : m[i] \in Naming(s)
    <2>1. m \in Seq(T) /\ ToSet(m) = Naming(s)
      BY MentioningIs
    <2> HIDE DEF m
    <2>2. QED
      BY <2>1, SeqMeets
  <1>3. SentimentOf(s) = MostCommon(c)
    BY <1>1 DEF SentimentOf
  <1> HIDE DEF m
  <1>4. c = [i \in 1..Len(m) |-> m[i].sentiment] /\ \A i \in 1..Len(m) : m[i].sentiment \in V
    BY <1>1, <1>2 DEF Column
  <1> HIDE DEF c, V
  <1>5. c \in Seq(V) /\ c # <<>>
    BY <1>1, <1>4, IsASeq
  <1>6. MostCommon(c) \in V
    BY <1>5, MostCommonIs, SeqOfItsItems
  <1>7. QED
    BY <1>3, <1>6 DEF V

\* The representative is an analysis, of the ranked the nearest to the top.
LEMMA RepresentativeIs ==
    ASSUME NEW T, NEW s \in Seq(T), s # <<>>, \A e \in T : Counted(e)
    PROVE  /\ Representative(s) \in ToSet(s)
           /\ Naming(s) # {} => Representative(s) \in Naming(s) /\ \A e \in Naming(s) : Representative(s).rank <= e.rank
  <1> DEFINE ranked == ToSet(Ranked(s))
             S == {e \in ToSet(s) : e.rank # None}
             nearest == {a \in ranked : \A b \in ranked : ~Nearer(b, a)}
             seen == {a \in ToSet(s) : \A b \in ToSet(s) : b.vis <= a.vis}
             best == IF ranked # {} THEN nearest ELSE seen
  <1>1. \A e \in ToSet(s) : e.rank \in Nat /\ e.vis \in 0..100 /\ (e.rank # None <=> e.mentioned)
    <2>1. ToSet(s) \subseteq T /\ Len(Rivals) \in Nat
      BY SeqOfItsItems, RequestIs
    <2>2. \A e \in T : e.rank \in 0..(1 + Len(Rivals)) /\ e.vis \in 0..100 /\ (e.rank = 0 <=> ~e.mentioned)
      BY DEF Counted, Scored
    <2>3. QED
      BY <2>1, <2>2 DEF None
  <1>2. ranked = Naming(s)
    <2>1. S = Naming(s) /\ S \subseteq ToSet(s)
      BY <1>1 DEF Naming
    <2>2. Ranked(s) = Sift(s, S)
      BY DEF Ranked
    <2> HIDE DEF S
    <2>3. ToSet(Ranked(s)) = ToSet(s) \cap S
      BY <2>2, SiftIs
    <2>4. ToSet(s) \cap S = S
      BY <2>1
    <2>5. QED
      BY <2>1, <2>3, <2>4 DEF ranked
  <1>3. Naming(s) \subseteq ToSet(s) /\ ToSet(s) # {}
    BY SeqMeets DEF Naming
  <1> HIDE DEF ranked
  <1>4. ASSUME ranked # {} PROVE nearest # {}
    <2> DEFINE R == {a.rank : a \in ranked}
    <2>1. R \in SUBSET Nat /\ R # {}
      BY <1>1, <1>2, <1>3, <1>4
    <2>2. PICK m \in R : \A k \in R : m <= k
      <3> HIDE DEF R
      <3>1. QED
        BY <2>1, LeastOf
    <2> DEFINE V == {a.vis : a \in {b \in ranked : b.rank = m}}
               top == 100
    <2>3. V \in SUBSET (0..top) /\ V # {} /\ top \in Nat
      BY <1>1, <1>2, <1>3, <2>2
    <2>4. PICK v \in V : \A k \in V : k <= v
      <3> HIDE DEF V, top
      <3>1. QED
        BY <2>3, GreatestOf
    <2>5. PICK a \in ranked : a.rank = m /\ a.vis = v
      OBVIOUS
    <2>6. ASSUME NEW b \in ranked PROVE ~Nearer(b, a)
      <3>1. b.rank \in Nat /\ a.rank \in Nat /\ b.vis \in Nat /\ a.vis \in Nat
        <4>1. a \in ToSet(s) /\ b \in ToSet(s)
          BY <1>2, <1>3
        <4>2. a.vis \in 0..100 /\ b.vis \in 0..100 /\ a.rank \in Nat /\ b.rank \in Nat
          BY <1>1, <4>1
        <4>3. \A w \in 0..100 : w \in Nat
          OBVIOUS
        <4>4. QED
          BY <4>2, <4>3, Zenon
      <3>2. a.rank <= b.rank /\ (b.rank = a.rank => b.vis <= a.vis)
        BY <2>2, <2>4, <2>5
      <3>3. QED
        BY <3>1, <3>2 DEF Nearer
    <2>7. QED
      BY <2>6
  <1>5. seen # {}
    <2> DEFINE V == {a.vis : a \in ToSet(s)}
               top == 100
    <2>1. V \in SUBSET (0..top) /\ V # {} /\ top \in Nat
      BY <1>1, <1>3
    <2>2. PICK v \in V : \A k \in V : k <= v
      <3> HIDE DEF V, top
      <3>1. QED
        BY <2>1, GreatestOf
    <2>3. PICK a \in ToSet(s) : a.vis = v
      OBVIOUS
    <2>4. QED
      BY <2>2, <2>3
  <1>6. best # {} /\ best \subseteq ToSet(s)
    BY <1>2, <1>3, <1>4, <1>5
  <1>7. Representative(s) = s[PlaceOf(s, best)]
    BY DEF Representative, ranked
  <1>8. Representative(s) \in best
    <2> HIDE DEF best
    <2>1. PlaceOf(s, best) # 0 /\ s[PlaceOf(s, best)] \in best
      BY <1>6, PlaceOfIs DEF FirstIn
    <2>2. QED
      BY <1>7, <2>1
  <1>9. ASSUME Naming(s) # {}, NEW e \in Naming(s)
        PROVE  Representative(s) \in Naming(s) /\ Representative(s).rank <= e.rank
    <2>1. Representative(s) \in ranked /\ ~Nearer(e, Representative(s))
      BY <1>2, <1>8, <1>9
    <2>2. e.rank \in Nat /\ Representative(s).rank \in Nat
      BY <1>1, <1>2, <1>3, <2>1
    <2>3. QED
      BY <1>2, <2>1, <2>2 DEF Nearer
  <1>10. QED
    BY <1>6, <1>8, <1>9

LEMMA OpportunityIs ==
    ASSUME NEW mentioned \in BOOLEAN, NEW vis
    PROVE  Opportunity(mentioned, vis) = "Critical Gap" <=> ~mentioned
  <1>1. CASE ~mentioned
    BY <1>1 DEF Opportunity
  <1>2. CASE mentioned
    BY <1>2 DEF Opportunity
  <1>3. QED
    BY <1>1, <1>2

CardTells(r, s, failed) ==
    /\ r.exchanges = s /\ r.failed = failed
    /\ r.mentioned <=> Naming(s) # {}
    /\ r.opportunity = "Critical Gap" <=> Naming(s) = {}
    /\ \E e \in ToSet(s) :
         /\ r.quoted = e.quoted /\ r.parts = e.parts /\ r.rank = e.rank
         /\ Naming(s) # {} => e \in Naming(s) /\ \A f \in Naming(s) : e.rank <= f.rank
    /\ Naming(s) # {} => r.sentiment \in {e.sentiment : e \in Naming(s)}

\* A card tells what its analyses do.
LEMMA CardIs ==
    ASSUME NEW T, NEW s \in Seq(T), s # <<>>, \A e \in T : Counted(e), NEW failed
    PROVE  CardTells(PersonaResult(s, failed), s, failed)
  <1> DEFINE shown == Representative(s)
             mentioned == \E a \in ToSet(s) : a.mentioned
             vis == RoundHalfEven(Total(Column(s, "vis")), Len(s))
             sentiment == SentimentOf(s)
             opportunity == Opportunity(mentioned, vis)
             r == PersonaResult(s, failed)
             rank == shown.rank
             quoted == shown.quoted
             parts == shown.parts
  <1>1. /\ shown \in ToSet(s)
        /\ Naming(s) # {} => shown \in Naming(s) /\ \A e \in Naming(s) : shown.rank <= e.rank
    BY RepresentativeIs
  <1>2. mentioned \in BOOLEAN /\ (mentioned <=> Naming(s) # {})
    BY DEF Naming
  <1>3. r = [mentioned |-> mentioned, sentiment |-> sentiment, vis |-> vis, rank |-> rank, quoted |-> quoted,
             parts |-> parts, opportunity |-> opportunity, exchanges |-> s, failed |-> failed]
    BY DEF PersonaResult
  <1> HIDE DEF mentioned, vis, r
  <1>4. opportunity = "Critical Gap" <=> Naming(s) = {}
    BY <1>2, OpportunityIs
  <1>5. Naming(s) # {} => sentiment \in {e.sentiment : e \in Naming(s)}
    BY SentimentIs
  <1> HIDE DEF sentiment, opportunity, rank, quoted, parts
  <1>6. /\ r.mentioned = mentioned /\ r.sentiment = sentiment /\ r.rank = rank /\ r.quoted = quoted
        /\ r.parts = parts /\ r.opportunity = opportunity /\ r.exchanges = s /\ r.failed = failed
    BY <1>3, Zenon
  <1>7. /\ r.quoted = shown.quoted /\ r.parts = shown.parts /\ r.rank = shown.rank
    BY <1>6 DEF quoted, parts, rank
  <1>8. r.mentioned <=> Naming(s) # {}
    BY <1>2, <1>6
  <1> HIDE DEF shown
  <1>9. QED
    BY <1>1, <1>4, <1>5, <1>6, <1>7, <1>8 DEF r, CardTells

LEMMA CardsAgree ==
    ASSUME AnalysisInv, RivalsApart, NEW s \in DOMAIN summary
    PROVE  CardAgrees(s)
  <1> DEFINE k == Kept(s)
             a == [i \in 1..Len(k) |-> exchange[k[i]]]
             T == {exchange[p] : p \in DOMAIN exchange}
             failed == Len(PromptsOf[s]) - Len(k)
             r == summary[s]
             naming == {e \in ToSet(r.exchanges) : \E part \in ToSet(e.parts) : part.kind = "brand"}
  <1>1. s \in ToSet(Personas) /\ k # <<>> /\ r = PersonaResult([i \in DOMAIN k |-> exchange[k[i]]], failed)
    BY DEF AnalysisInv, PersonasOK, KeptResult
  <1>2. /\ Len(k) \in Nat /\ DOMAIN k = 1..Len(k) /\ Len(k) # 0
        /\ \A i \in 1..Len(k) : k[i] \in DOMAIN exchange
    <2>1. /\ k \in Seq(Prompts) /\ ToSet(k) = {p \in ToSet(PromptsOf[s]) : call[p] = "done"}
          /\ Len(k) \in Nat /\ DOMAIN k = 1..Len(k) /\ \A i \in 1..Len(k) : k[i] \in ToSet(k)
      BY <1>1, KeptAre
    <2>2. DOMAIN exchange = {p \in Prompts : call[p] = "done"} /\ ToSet(PromptsOf[s]) \subseteq Prompts
      BY <1>1, PersonasAre DEF AnalysisInv, PromptsOK
    <2> HIDE DEF k
    <2>3. QED
      BY <1>1, <2>1, <2>2
  <1>3. \A e \in T : Counted(e) /\ DOMAIN e.parts = 1..Len(e.parts)
    BY ExchangesAre DEF Analysed
  <1> HIDE DEF k
  <1>4. r = PersonaResult(a, failed)
    BY <1>1, <1>2
  <1>5. a = [i \in 1..Len(k) |-> a[i]] /\ \A i \in 1..Len(k) : a[i] \in T
    BY <1>2
  <1> HIDE DEF T
  <1>6. a \in Seq(T) /\ Len(a) = Len(k) /\ a # <<>>
    BY <1>2, <1>5, IsASeq
  <1> HIDE DEF a, failed, r
  <1>15. \A e \in T : Counted(e)
    BY <1>3
  <1>16. CardTells(r, a, failed)
    BY <1>4, <1>6, <1>15, CardIs
  <1>7. /\ r.exchanges = a /\ r.failed = failed
        /\ r.mentioned <=> Naming(a) # {}
        /\ r.opportunity = "Critical Gap" <=> Naming(a) = {}
        /\ Naming(a) # {} => r.sentiment \in {e.sentiment : e \in Naming(a)}
    BY <1>16 DEF CardTells
  <1>8. PICK e \in ToSet(a) :
            /\ r.quoted = e.quoted /\ r.parts = e.parts /\ r.rank = e.rank
            /\ Naming(a) # {} => e \in Naming(a) /\ \A f \in Naming(a) : e.rank <= f.rank
    BY <1>16 DEF CardTells
  <1>9. ASSUME NEW d \in ToSet(a)
        PROVE  /\ d.mentioned <=> \E part \in ToSet(d.parts) : part.kind = "brand"
               /\ d.quoted = d.mentioned
    <2>1. d \in T
      BY <1>6, SeqOfItsItems
    <2>2. Counted(d) /\ DOMAIN d.parts = 1..Len(d.parts)
      BY <1>3, <2>1
    <2>3. QED
      BY <2>2 DEF Counted, Scored, BrandParts, ToSet
  <1>10. naming = Naming(a)
    BY <1>7, <1>9 DEF Naming
  <1>11. r.quoted <=> \E part \in ToSet(r.parts) : part.kind = "brand"
    BY <1>8, <1>9
  <1>12. Len(r.exchanges) + r.failed = Len(PromptsOf[s])
    <2>1. Len(PromptsOf[s]) \in Nat
      BY <1>1, PersonasAre, LenProperties
    <2>2. QED
      <3> DEFINE l == Len(PromptsOf[s])
                 n == Len(k)
      <3>1. l \in Nat /\ n \in Nat /\ failed = l - n /\ Len(r.exchanges) = n /\ r.failed = failed
        BY <1>2, <1>6, <1>7, <2>1 DEF failed
      <3> HIDE DEF l, n
      <3>2. Len(r.exchanges) + r.failed = l
        BY <3>1
      <3>3. QED
        BY <3>2 DEF l
  <1>13. naming # {} => /\ \E d \in naming : d.parts = r.parts /\ d.rank = r.rank
                        /\ \A d \in naming : r.rank <= d.rank
                        /\ r.sentiment \in {d.sentiment : d \in naming}
    BY <1>7, <1>8, <1>10
  <1> HIDE DEF naming
  <1>14. QED
    BY <1>7, <1>10, <1>11, <1>12, <1>13 DEF CardAgrees, r, naming

-----------------------------------------------------------------------------
(* The page's numbers over some analyses.                                  *)

\* What lies between two multiples is rounded to between them.
LEMMA MeanIs ==
    ASSUME NEW lo \in Nat, NEW hi \in Nat, NEW s \in Seq(lo..hi), s # <<>>
    PROVE  /\ Total(s) \in Nat /\ Len(s) \in Nat \ {0}
           /\ RoundHalfEven(Total(s), Len(s)) \in lo..hi
           /\ \A q \in Nearest(Total(s), Len(s)) : q \in lo..hi
  <1> DEFINE n == Len(s)
             t == Total(s)
  <1>1. n \in Nat \ {0} /\ s \in Seq(Int) /\ \A i \in 1..n : lo <= s[i] /\ s[i] <= hi
    <2>1. n \in Nat /\ n # 0 /\ \A i \in 1..n : s[i] \in lo..hi
      BY LenProperties, ElementOfSeq, EmptySeq
    <2>2. lo..hi \subseteq Int
      OBVIOUS
    <2> DEFINE R == lo..hi
    <2> HIDE DEF R
    <2>3. s \in Seq(R) /\ R \subseteq Int => s \in Seq(Int)
      OBVIOUS
    <2>4. s \in Seq(Int)
      BY <2>2, <2>3 DEF R
    <2>5. QED
      BY <2>1, <2>4
  <1>2. t \in Int /\ lo * n <= t /\ t <= hi * n
    BY <1>1, TotalBounds
  <1> HIDE DEF n, t
  <1>3. n * lo <= t /\ t <= n * hi /\ t \in Nat
    <2>1. n * lo = lo * n /\ n * hi = hi * n /\ n * lo \in Nat
      BY <1>1
    <2>2. QED
      BY <1>2, <2>1
  <1>4. RoundHalfEven(t, n) \in lo..hi
    BY <1>1, <1>3, RoundBounds
  <1>5. \A q \in Nearest(t, n) : q \in lo..hi
    BY <1>1, <1>3, NearestIs
  <1>6. QED
    BY <1>1, <1>3, <1>4, <1>5 DEF n, t

LEMMA RankingIs ==
    ASSUME NEW T, NEW m \in Seq(T), \A e \in T : Counted(e)
    PROVE  Ranking(m) \in 0..100 /\ (m = <<>> => Ranking(m) = 0)
  <1> DEFINE kept == Ranked(m)
             ranks == Column(kept, "rank")
             S == {e \in ToSet(m) : e.rank # None}
             mean == RoundHalfEven(Total(ranks), Len(ranks))
             one == 1
             last == 1 + Len(Rivals)
  <1>1. kept = Sift(m, S)
    BY DEF Ranked
  <1>2. kept \in Seq(T \cap S) /\ Len(kept) <= Len(m)
    <2> HIDE DEF S
    <2>1. QED
      BY <1>1, SiftKeeps
  <1>3. one \in Nat /\ last \in Nat
    BY RequestIs
  <1>4. \A e \in T \cap S : e.rank \in one..last
    <2>1. \A e \in T : e.rank \in 0..last
      BY DEF Counted, Scored
    <2> HIDE DEF last
    <2>2. QED
      BY <1>3, <2>1 DEF None
  <1> DEFINE R == T \cap S
  <1> HIDE DEF kept, S, last, one, R
  <1>5. Len(kept) \in Nat /\ DOMAIN kept = 1..Len(kept) /\ \A i \in 1..Len(kept) : kept[i] \in T \cap S
    BY <1>2, LenProperties, ElementOfSeq
  <1>6. ranks = [i \in 1..Len(kept) |-> kept[i].rank] /\ \A i \in 1..Len(kept) : kept[i].rank \in one..last
    BY <1>4, <1>5 DEF Column
  <1> DEFINE B == one..last
  <1> HIDE DEF ranks, B
  <1>7. ranks \in Seq(B) /\ Len(ranks) = Len(kept)
    BY <1>5, <1>6, IsASeq DEF B
  <1>8. Ranking(m) = IF ranks = <<>> THEN 0 ELSE RankScore(mean)
    BY DEF Ranking, ranks, kept
  <1>9. ranks # <<>> => mean \in one..last
    BY <1>3, <1>7, MeanIs DEF B
  <1> HIDE DEF mean
  <1>10. ranks # <<>> => RankScore(mean) \in 0..100
    <2>1. \A x \in one..last : x \in Nat \ {0}
      BY <1>3 DEF one
    <2>2. QED
      BY <1>9, <2>1, RankScoreIs
  <1>11. m = <<>> => ranks = <<>>
    <2>1. m = <<>> => Len(m) = 0
      BY EmptySeq
    <2>2. m = <<>> => Len(ranks) = 0
      BY <1>2, <1>5, <1>7, <2>1
    <2>3. QED
      BY <1>7, <2>2, EmptySeq
  <1>12. QED
    BY <1>8, <1>10, <1>11

LEMMA ToneIs ==
    ASSUME NEW T, NEW m \in Seq(T), \A e \in T : Counted(e), NEW tone \in Tone(m)
    PROVE  tone \in 0..100 /\ (m = <<>> => tone = 0)
  <1> DEFINE tones == [i \in DOMAIN m |-> Multiplier[m[i].sentiment]]
             z == 0
             h == 100
             B == z..h
  <1>1. CASE m = <<>>
    BY <1>1 DEF Tone
  <1>2. CASE m # <<>>
    <2>1. Len(m) \in Nat /\ DOMAIN m = 1..Len(m) /\ Len(m) # 0 /\ \A i \in 1..Len(m) : m[i] \in T
      BY <1>2, LenProperties, ElementOfSeq, EmptySeq
    <2>2. \A i \in 1..Len(m) : Multiplier[m[i].sentiment] \in B
      <3>1. \A i \in 1..Len(m) : m[i].sentiment \in Sentiments
        BY <2>1 DEF Counted, Scored
      <3>2. QED
        BY <3>1, MultiplierIs
    <2>3. z \in Nat /\ h \in Nat
      OBVIOUS
    <2> HIDE DEF z, h, B
    <2>4. tones = [i \in 1..Len(m) |-> Multiplier[m[i].sentiment]]
      BY <2>1
    <2>5. tone \in Nearest(Total(tones), Len(m))
      BY <1>2 DEF Tone
    <2> HIDE DEF tones
    <2>6. tones \in Seq(B) /\ Len(tones) = Len(m) /\ tones # <<>>
      BY <2>1, <2>2, <2>4, IsASeq, EmptySeq
    <2>7. tone \in z..h
      BY <2>3, <2>5, <2>6, MeanIs DEF B
    <2>8. QED
      BY <1>2, <2>7 DEF z, h
  <1>3. QED
    BY <1>1, <1>2

\* The brand is product 1 and the rivals follow as they were sent.
LEMMA ProductNamesAre ==
    /\ DOMAIN ProductNames = 1..(1 + Len(Rivals)) /\ Len(Rivals) \in Nat
    /\ ProductNames[1] = Brand
    /\ \A i \in DOMAIN ProductNames : ProductNames[i] # <<>>
  <1> DEFINE n == Len(Rivals)
             names == Column(Rivals, "name")
             T == {Rivals[r].name : r \in 1..n}
  <1>1. n \in Nat /\ DOMAIN Rivals = 1..n /\ Brand # <<>> /\ \A r \in 1..n : Rivals[r].name # <<>>
    BY RequestIs DEF IsName
  <1>2. names = [r \in 1..n |-> Rivals[r].name]
    BY <1>1 DEF Column
  <1>3. \A r \in 1..n : Rivals[r].name \in T
    OBVIOUS
  <1> HIDE DEF n, T
  <1>4. names \in Seq(T) /\ Len(names) = n /\ \A r \in 1..n : names[r] = Rivals[r].name
    BY <1>1, <1>2, <1>3, IsASeq
  <1> HIDE DEF names
  <1>5. ProductNames = <<Brand>> \o names
    BY DEF ProductNames, names
  <1>6. /\ DOMAIN ProductNames = 1..(1 + n)
        /\ \A i \in 1..(1 + n) : ProductNames[i] = IF i = 1 THEN Brand ELSE names[i - 1]
    BY <1>1, <1>4, <1>5
  <1>7. \A i \in 1..(1 + n) : i # 1 => i - 1 \in 1..n
    BY <1>1
  <1>8. \A i \in 1..(1 + n) : ProductNames[i] # <<>>
    BY <1>1, <1>4, <1>6, <1>7
  <1>9. QED
    BY <1>1, <1>6, <1>8 DEF n

\* Counts of the products, none beyond a bound, that go by their names.
UpTo(counts, b) ==
    /\ counts \in Seq(Nat) /\ DOMAIN counts = DOMAIN ProductNames
    /\ \A i \in DOMAIN counts : counts[i] <= b
    /\ \A i, j \in DOMAIN counts : ProductNames[i] = ProductNames[j] => counts[i] = counts[j]

\* How many analyses name each product.
LEMMA CountsAre ==
    ASSUME NEW T, NEW results, NEW E \in Seq(T), E = AllExchanges(results), \A e \in T : Counted(e)
    PROVE  /\ UpTo(ProductCounts(results), Len(E))
           /\ ProductCounts(results)[1] = Len(Mentioning(E))
           /\ Len(E) \in Nat
  <1>1. Len(E) \in Nat /\ DOMAIN E = 1..Len(E) /\ \A i \in 1..Len(E) : E[i] \in T
    BY LenProperties, ElementOfSeq
  <1> DEFINE l == Len(E)
             counts == ProductCounts(results)
             Naming1(name) == {e \in DOMAIN E : ExchangeMentions(E[e], name)}
             k == 1 + Len(Rivals)
  <1>2. IsFiniteSet(1..l) /\ Cardinality(1..l) = l
    <2> HIDE DEF l
    <2>1. l \in Nat
      BY <1>1 DEF l
    <2>2. IsFiniteSet(1..l) /\ Cardinality(1..l) = IF 1 > l THEN 0 ELSE l - 1 + 1
      BY <2>1, FS_Interval
    <2>3. QED
      BY <2>1, <2>2
  <1>3. ASSUME NEW name PROVE Cardinality(Naming1(name)) \in Nat /\ Cardinality(Naming1(name)) <= l
    <2> DEFINE S == Naming1(name)
    <2>1. S \subseteq 1..l
      BY <1>1
    <2> HIDE DEF S, l
    <2>2. IsFiniteSet(S) /\ Cardinality(S) <= l /\ Cardinality(S) \in Nat
      BY <1>2, <2>1, FS_Subset, FS_CardinalityType
    <2>3. QED
      BY <2>2 DEF S
  <1>4. ASSUME NEW i \in 1..Len(E) PROVE ExchangeMentions(E[i], Brand) <=> E[i].mentioned
    <2> DEFINE e == E[i]
    <2>1. Counted(e)
      BY <1>1
    <2> HIDE DEF e
    <2>2. e.mentioned <=> \E q \in 1..Len(e.parts) : e.parts[q].name = Brand
      BY <2>1 DEF Counted, BrandParts
    <2>3. DOMAIN e.parts = 1..Len(e.parts)
      BY <2>1 DEF Counted, Scored
    <2>4. ExchangeMentions(e, Brand) <=> \E q \in 1..Len(e.parts) : e.parts[q].name = Brand
      BY <2>3 DEF ExchangeMentions, ToSet
    <2>5. QED
      BY <2>2, <2>4 DEF e
  <1>5. /\ DOMAIN ProductNames = 1..k /\ k \in Nat \ {0} /\ ProductNames[1] = Brand
    BY ProductNamesAre
  <1>6. counts = [i \in 1..k |-> Cardinality(Naming1(ProductNames[i]))]
    BY <1>5 DEF ProductCounts
  <1>7. counts[1] = Len(Mentioning(E))
    <2>1. counts[1] = Cardinality(Naming1(Brand))
      <3> HIDE DEF counts, k, Naming1
      <3>1. QED
        BY <1>5, <1>6
    <2>2. Naming1(Brand) = {i \in 1..Len(E) : E[i].mentioned}
      BY <1>1, <1>4
    <2>3. Len(Mentioning(E)) = Cardinality(NamingAt(E))
      BY MentioningIs
    <2>4. NamingAt(E) = {i \in 1..Len(E) : E[i].mentioned}
      BY DEF NamingAt
    <2>5. QED
      BY <2>1, <2>2, <2>3, <2>4
  <1> HIDE DEF Naming1, k, l
  <1>8. counts \in Seq(Nat) /\ Len(counts) = k /\ \A i \in 1..k : counts[i] = Cardinality(Naming1(ProductNames[i]))
    BY <1>3, <1>5, <1>6, IsASeq
  <1> HIDE DEF counts
  <1>9. UpTo(counts, l)
    BY <1>3, <1>5, <1>8 DEF UpTo
  <1>10. QED
    BY <1>1, <1>7, <1>9 DEF counts, l

\* Presence and share of voice are there together, and the share is the whole
\* exactly when no rival is named in more answers.
LEMMA SharesAgree ==
    ASSUME NEW counts, NEW b \in Nat, b <= 199, UpTo(counts, b),
           NEW sov \in ShareOfVoice(counts), NEW top \in TopCompetitors(counts)
    PROVE  /\ sov \in 0..100 /\ (sov = 0 <=> counts[1] = 0)
           /\ sov = 100 <=> counts[1] > 0 /\ top \in {<<>>} \cup
                    {ProductNames[i] : i \in {k \in DOMAIN counts : counts[k] <= counts[1]}}
  <1> DEFINE D == DOMAIN counts
             C == {counts[i] : i \in D}
             most == CHOOSE i \in D : \A j \in D : counts[j] <= counts[i]
             rivals == {i \in D : ProductNames[i] # Brand /\ counts[i] > 0}
  <1>1. 1 \in D /\ ProductNames[1] = Brand /\ \A i \in D : ProductNames[i] # <<>>
    BY ProductNamesAre DEF UpTo
  <1>2. /\ \A i \in D : counts[i] \in Nat /\ counts[i] <= b
        /\ \A i, j \in D : ProductNames[i] = ProductNames[j] => counts[i] = counts[j]
    <2>1. \A i \in D : counts[i] \in Nat
      BY LenProperties, ElementOfSeq DEF UpTo
    <2>2. QED
      BY <2>1 DEF UpTo
  <1>3. \E i \in D : \A j \in D : counts[j] <= counts[i]
    <2>1. C \in SUBSET (0..b) /\ C # {}
      BY <1>1, <1>2
    <2>2. PICK m \in C : \A k \in C : k <= m
      <3> HIDE DEF C
      <3>1. QED
        BY <2>1, GreatestOf
    <2>3. PICK i \in D : m = counts[i]
      OBVIOUS
    <2>4. QED
      BY <2>2, <2>3
  <1>4. most \in D /\ \A j \in D : counts[j] <= counts[most]
    BY <1>3
  <1>5. counts[1] = 0 => sov = 0
    BY DEF ShareOfVoice
  <1>6. counts[1] # 0 => sov \in Percent(counts[1], counts[most])
    BY DEF ShareOfVoice
  <1>7. top \in IF rivals = {} THEN {<<>>}
                ELSE {ProductNames[i] : i \in {k \in rivals : \A j \in rivals : counts[j] <= counts[k]}}
    BY DEF TopCompetitors
  <1> HIDE DEF most, C, D
  <1> DEFINE c == counts[1]
             d == counts[most]
  <1>8. c \in Nat /\ d \in Nat /\ c <= d /\ d <= 199
    <2>1. d <= b
      BY <1>2, <1>4
    <2>2. c \in Nat /\ d \in Nat /\ c <= d
      BY <1>1, <1>2, <1>4
    <2> HIDE DEF c, d
    <2>3. QED
      BY <2>1, <2>2
  <1>9. c # 0 => sov \in 0..100 /\ sov # 0 /\ (sov = 100 <=> c = d)
    <2> SUFFICES ASSUME c # 0 PROVE sov \in 0..100 /\ sov # 0 /\ (sov = 100 <=> c = d)
      OBVIOUS
    <2>1. sov \in Percent(c, d)
      BY <1>6
    <2> HIDE DEF c, d
    <2>2. QED
      BY <1>8, <2>1, PercentIs
  <1> DEFINE few == {<<>>} \cup {ProductNames[i] : i \in {k \in D : counts[k] <= counts[1]}}
  <1>11. ASSUME c > 0
         PROVE  c = d <=> top \in few
    <2>1. CASE rivals = {}
      <3>1. top = <<>>
        BY <1>7, <2>1
      <3>2. \A i \in D : counts[i] = counts[1] \/ counts[i] = 0
        BY <1>1, <1>2, <2>1
      <3>3. d <= c
        BY <1>4, <1>8, <3>2
      <3>4. QED
        BY <1>8, <3>1, <3>3
    <2>2. CASE rivals # {}
      <3>1. PICK i \in rivals : top = ProductNames[i] /\ \A j \in rivals : counts[j] <= counts[i]
        BY <1>7, <2>2
      <3>2. i \in D /\ ProductNames[i] # <<>>
        BY <1>1, <3>1
      <3>3. top \in few <=> counts[i] <= c
        <4>1. counts[i] <= c => top \in few
          BY <3>1, <3>2
        <4>2. ASSUME top \in few PROVE counts[i] <= c
          <5>1. PICK k \in D : counts[k] <= counts[1] /\ ProductNames[k] = ProductNames[i]
            BY <3>1, <3>2, <4>2
          <5>2. QED
            BY <1>2, <3>2, <5>1
        <4>3. QED
          BY <4>1, <4>2
      <3>4. c = d => counts[i] <= c
        BY <1>4, <3>2
      <3>5. ASSUME counts[i] <= c PROVE c = d
        <4>1. counts[most] = counts[1] \/ most \in rivals \/ d = 0
          BY <1>1, <1>2, <1>4
        <4>2. most \in rivals => d <= counts[i]
          BY <3>1
        <4>3. counts[i] \in Nat
          BY <1>2, <3>2
        <4>4. QED
          BY <1>8, <3>5, <4>1, <4>2, <4>3
      <3>6. QED
        BY <3>3, <3>4, <3>5
    <2>3. QED
      BY <2>1, <2>2
  <1>12. c = 0 => sov = 0
    BY <1>5
  <1>13. sov \in 0..100 /\ (sov = 0 <=> c = 0) /\ (sov = 100 => c # 0)
    <2> HIDE DEF c, d
    <2>1. QED
      BY <1>8, <1>9, <1>12
  <1>14. c > 0 <=> c # 0
    BY <1>8
  <1>15. sov = 100 <=> c > 0 /\ top \in few
    BY <1>9, <1>11, <1>13, <1>14
  <1>16. QED
    BY <1>13, <1>15 DEF D

\* The slices of a whole, each rounded by half at most, and none of nothing.
LEMMA SlicesAre ==
    ASSUME NEW counts \in Seq(Nat), NEW w \in Nat \ {0}, NEW f \in Slices(counts, w)
    PROVE  /\ Total(f) \in Nat /\ Total(counts) \in Nat /\ Len(counts) \in Nat
           /\ 2 * (w * Total(f)) <= 2000 * Total(counts) + w * Len(counts)
           /\ 2000 * Total(counts) <= 2 * (w * Total(f)) + w * Len(counts)
           /\ Total(counts) = 0 => Total(f) = 0
  <1> DEFINE n == Len(counts)
             most == 2000 + w
  <1>1. n \in Nat /\ DOMAIN counts = 1..n /\ \A i \in 1..n : counts[i] \in Nat
    BY LenProperties, ElementOfSeq
  <1>2. ASSUME NEW i \in 1..n
        PROVE  /\ f[i] \in Nat
               /\ 2 * (w * f[i]) <= 2000 * counts[i] + w /\ 2000 * counts[i] <= 2 * (w * f[i]) + w
               /\ counts[i] = 0 => f[i] = 0
    <2> DEFINE c == counts[i]
               q == f[i]
    <2>1. c \in Nat /\ q \in Nearest(1000 * c, w)
      BY <1>1 DEF Slices
    <2> HIDE DEF c, q
    <2> DEFINE x == 1000 * c
    <2>2. x \in Nat /\ q \in Nearest(x, w)
      BY <2>1
    <2> HIDE DEF x
    <2>3. /\ q \in Nat /\ 2 * (w * q) <= 2 * x + w /\ 2 * x <= 2 * (w * q) + w
          /\ \A lo, hi \in Nat : w * lo <= x /\ x <= w * hi => q \in lo..hi
      BY <2>2, NearestIs
    <2>4. c = 0 => q = 0
      <3>1. c = 0 => w * 0 <= x /\ x <= w * 0
        BY DEF x
      <3>2. c = 0 => q \in 0..0
        BY <2>3, <3>1
      <3>3. QED
        BY <3>2
    <2>5. 2 * x = 2000 * c
      BY <2>1 DEF x
    <2>6. QED
      BY <2>3, <2>4, <2>5 DEF c, q
  <1>3. DOMAIN f = 1..n /\ f = [i \in 1..n |-> f[i]]
    BY <1>1 DEF Slices
  <1> HIDE DEF n
  <1>4. f \in Seq(Nat) /\ Len(f) = n
    <2>1. \A i \in 1..n : f[i] \in Nat
      BY <1>2
    <2>2. [i \in 1..n |-> f[i]] \in Seq(Nat) /\ Len([i \in 1..n |-> f[i]]) = n
      BY <1>1, <2>1, IsASeq
    <2>3. QED
      BY <1>3, <2>2
  <1>5. f \in Seq(Int) /\ counts \in Seq(Int)
    BY <1>4
  <1>6. PICK F : TotalRun(f, F)
    BY <1>5, TotalUnfolds
  <1>7. PICK C : TotalRun(counts, C)
    BY <1>5, TotalUnfolds
  <1> DEFINE Fits(m) == /\ F[m] \in Nat /\ C[m] \in Nat
                        /\ 2 * (w * F[m]) <= 2000 * C[m] + w * m /\ 2000 * C[m] <= 2 * (w * F[m]) + w * m
                        /\ C[m] = 0 => F[m] = 0
             S == {m \in 0..n : Fits(m)}
  <1>8. 0 \in S
    <2>1. F[0] = 0 /\ C[0] = 0 /\ 0 \in 0..n
      BY <1>1, <1>6, <1>7 DEF TotalRun
    <2> DEFINE z == 0
    <2>2. w * z = 0 /\ z = 0
      OBVIOUS
    <2> HIDE DEF z
    <2>3. F[z] = z /\ C[z] = z /\ z \in 0..n
      BY <2>1 DEF z
    <2>4. z \in Nat /\ 2 * z <= 2000 * z + z /\ 2000 * z <= 2 * z + z
      BY <2>2
    <2>5. Fits(z)
      BY <2>2, <2>3, <2>4
    <2> HIDE DEF Fits
    <2>6. z \in S
      BY <2>3, <2>5
    <2> HIDE DEF S
    <2>7. QED
      BY <2>2, <2>6
  <1>9. ASSUME NEW m \in 1..n, m - 1 \in S PROVE m \in S
    <2> DEFINE x == f[m]
               c == counts[m]
               fm == F[m - 1]
               cm == C[m - 1]
               k == m - 1
    <2>1. F[m] = fm + x /\ C[m] = cm + c
      BY <1>4, <1>6, <1>7 DEF TotalRun, n
    <2>2. /\ fm \in Nat /\ cm \in Nat /\ k \in Nat /\ m = k + 1
          /\ 2 * (w * fm) <= 2000 * cm + w * k /\ 2000 * cm <= 2 * (w * fm) + w * k
          /\ cm = 0 => fm = 0
      BY <1>1, <1>9
    <2>3. /\ x \in Nat /\ c \in Nat /\ 2 * (w * x) <= 2000 * c + w /\ 2000 * c <= 2 * (w * x) + w
          /\ c = 0 => x = 0
      BY <1>1, <1>2
    <2> HIDE DEF x, c, fm, cm, k
    <2>4. /\ w * (fm + x) = w * fm + w * x /\ w * m = w * k + w
          /\ w * fm \in Nat /\ w * x \in Nat /\ w * k \in Nat
      BY <2>2, <2>3
    <2> DEFINE wf == w * fm
               wx == w * x
               wk == w * k
    <2>5. /\ 2 * (wf + wx) <= 2000 * (cm + c) + (wk + w) /\ 2000 * (cm + c) <= 2 * (wf + wx) + (wk + w)
      <3>1. /\ wf \in Nat /\ wx \in Nat /\ wk \in Nat
            /\ 2 * wf <= 2000 * cm + wk /\ 2000 * cm <= 2 * wf + wk
            /\ 2 * wx <= 2000 * c + w /\ 2000 * c <= 2 * wx + w
        BY <2>2, <2>3, <2>4
      <3> HIDE DEF wf, wx, wk
      <3>2. QED
        BY <2>2, <2>3, <3>1
    <2>6. cm + c = 0 => fm + x = 0
      BY <2>2, <2>3
    <2>7. fm + x \in Nat /\ cm + c \in Nat
      BY <2>2, <2>3
    <2>8. Fits(m)
      BY <2>1, <2>4, <2>5, <2>6, <2>7
    <2>9. QED
      BY <2>8
  <1>10. S = 0..n
    <2>1. S \in SUBSET (0..n)
      OBVIOUS
    <2> HIDE DEF S
    <2>2. QED
      BY <1>1, <1>8, <1>9, <2>1, InductionUpTo
  <1>11. Fits(n)
    BY <1>1, <1>10
  <1>12. Total(f) = F[n] /\ Total(counts) = C[n]
    BY <1>4, <1>6, <1>7 DEF TotalRun, n
  <1>13. QED
    BY <1>1, <1>11, <1>12 DEF n

\* Of all mentions of products the slices are one whole, but for the rounding.
LEMMA SlicesSum ==
    ASSUME NEW counts \in Seq(Nat),
           NEW f \in Slices(counts, IF Total(counts) = 0 THEN 1 ELSE Total(counts))
    PROVE  /\ Total(counts) \in Nat /\ Total(f) \in Nat /\ Len(counts) \in Nat
           /\ Total(counts) = 0 => Total(f) = 0
           /\ Total(counts) > 0 => /\ 2 * (Total(f) - 1000) <= Len(counts)
                                   /\ 2 * (1000 - Total(f)) <= Len(counts)
  <1> DEFINE all == Total(counts)
             w == IF all = 0 THEN 1 ELSE all
             sum == Total(f)
             n == Len(counts)
  <1>1. counts \in Seq(Int) /\ n \in Nat /\ \A i \in 1..n : counts[i] \in Nat
    BY LenProperties, ElementOfSeq
  <1>2. all \in Nat
    <2>1. PICK C : TotalRun(counts, C)
      BY <1>1, TotalUnfolds
    <2> DEFINE S == {m \in 0..n : C[m] \in Nat}
    <2>2. 0 \in S
      BY <1>1, <2>1 DEF TotalRun
    <2>3. ASSUME NEW m \in 1..n, m - 1 \in S PROVE m \in S
      <3>1. C[m] = C[m - 1] + counts[m] /\ C[m - 1] \in Nat /\ counts[m] \in Nat /\ m \in 0..n
        BY <1>1, <2>1, <2>3 DEF TotalRun
      <3>2. QED
        BY <3>1
    <2>4. S \in SUBSET (0..n)
      OBVIOUS
    <2> HIDE DEF S
    <2>5. S = 0..n
      BY <1>1, <2>2, <2>3, <2>4, InductionUpTo
    <2>6. C[n] \in Nat
      BY <1>1, <2>5 DEF S
    <2>7. QED
      BY <2>1, <2>6 DEF TotalRun
  <1> HIDE DEF all, n, sum
  <1>3. w \in Nat \ {0}
    BY <1>2
  <1>4. f \in Slices(counts, w)
    BY DEF all
  <1> HIDE DEF w
  <1>5. /\ sum \in Nat /\ 2 * (w * sum) <= 2000 * all + w * n /\ 2000 * all <= 2 * (w * sum) + w * n
        /\ all = 0 => sum = 0
    BY <1>3, <1>4, SlicesAre DEF all, n, sum
  <1>6. ASSUME all > 0 PROVE 2 * (sum - 1000) <= n /\ 2 * (1000 - sum) <= n
    <2> DEFINE a == 2 * sum
               c == 2000 + n
               e == 2 * sum + n
               t == 2000
    <2>1. a \in Int /\ c \in Int /\ e \in Int /\ t \in Int
      BY <1>1, <1>5
    <2>2. w = all
      BY <1>2, <1>6 DEF w
    <2>3. w * a <= w * c /\ w * t <= w * e
      <3>1. /\ w * a = 2 * (w * sum) /\ w * c = 2000 * w + w * n /\ w * t = 2000 * w
            /\ w * e = 2 * (w * sum) + w * n
        BY <1>1, <1>3, <1>5
      <3>2. QED
        BY <1>5, <2>2, <3>1
    <2> HIDE DEF a, c, e, t
    <2>4. (c < a => w * c + w <= w * a) /\ (e < t => w * e + w <= w * t)
      BY <1>3, <2>1, TimesKeepsOrder
    <2>5. w * a \in Int /\ w * c \in Int /\ w * e \in Int /\ w * t \in Int
      BY <1>3, <2>1
    <2>6. a <= c /\ t <= e
      BY <1>3, <2>1, <2>3, <2>4, <2>5
    <2>7. QED
      BY <1>1, <1>5, <2>6 DEF a, c, e, t
  <1>7. QED
    BY <1>1, <1>2, <1>5, <1>6 DEF all, n, sum

\* The headline score over its components, with measured sources and without.
Weighed(p, s, r, t) == 3 * p + 3 * s + 2 * r + t
ScoreFits(q, p, s, r, t, most) ==
    /\ q \in 0..100
    /\ p = 0 /\ s = 0 /\ r = 0 /\ t = 0 => q <= most
    /\ q >= 90 => p >= 60 /\ s >= 60

LEMMA CompositeIs ==
    ASSUME NEW p \in 0..100, NEW s \in 0..100, NEW r \in 0..100, NEW t \in 0..100, NEW a \in 0..100, NEW q
    PROVE  /\ q \in Nearest(Weighed(p, s, r, t) + a, 10) => ScoreFits(q, p, s, r, t, 10)
           /\ q \in Nearest(Weighed(p, s, r, t), 9) => ScoreFits(q, p, s, r, t, 0)
  <1> DEFINE rest == 3 * p + 3 * s + 2 * r + t
  <1>1. ASSUME q \in Nearest(rest + a, 10) PROVE ScoreFits(q, p, s, r, t, 10)
    <2> DEFINE n == rest + a
               d == 10
               z == 0
               h == 100
    <2>1. q \in Nearest(n, d)
      BY <1>1
    <2>2. n \in Nat /\ d \in Nat \ {0} /\ z \in Nat /\ h \in Nat /\ d \in Nat /\ d * z <= n /\ n <= d * h
      OBVIOUS
    <2> HIDE DEF n, d, z, h
    <2>3. /\ q \in Nat /\ 2 * (d * q) <= 2 * n + d /\ 2 * n <= 2 * (d * q) + d
          /\ \A lo, hi \in Nat : d * lo <= n /\ n <= d * hi => q \in lo..hi
      BY <2>1, <2>2, NearestIs
    <2>4. q \in z..h
      BY <2>2, <2>3
    <2>5. n <= d * d => q \in z..d
      BY <2>2, <2>3
    <2>6. q >= 90 => p >= 60 /\ s >= 60
      <3>1. 2 * (10 * q) <= 2 * (rest + a) + 10
        BY <2>3 DEF n, d
      <3>2. QED
        BY <2>3, <3>1
    <2>7. p = 0 /\ s = 0 /\ r = 0 /\ t = 0 => q <= 10
      <3>1. p = 0 /\ s = 0 /\ r = 0 /\ t = 0 => n <= d * d
        BY DEF n, d
      <3>2. QED
        BY <2>5, <3>1 DEF z, d
    <2>8. QED
      BY <2>4, <2>6, <2>7 DEF z, h, ScoreFits
  <1>2. ASSUME q \in Nearest(rest, 9) PROVE ScoreFits(q, p, s, r, t, 0)
    <2> DEFINE n == rest
               d == 9
               z == 0
               h == 100
    <2>1. q \in Nearest(n, d)
      BY <1>2
    <2>2. n \in Nat /\ d \in Nat \ {0} /\ z \in Nat /\ h \in Nat /\ d \in Nat /\ d * z <= n /\ n <= d * h
      OBVIOUS
    <2> HIDE DEF n, d, z, h
    <2>3. /\ q \in Nat /\ 2 * (d * q) <= 2 * n + d /\ 2 * n <= 2 * (d * q) + d
          /\ \A lo, hi \in Nat : d * lo <= n /\ n <= d * hi => q \in lo..hi
      BY <2>1, <2>2, NearestIs
    <2>4. q \in z..h
      BY <2>2, <2>3
    <2>5. n <= d * z => q \in z..z
      BY <2>2, <2>3
    <2>6. q >= 90 => p >= 60 /\ s >= 60
      <3>1. 2 * (9 * q) <= 2 * rest + 9
        BY <2>3 DEF n, d
      <3>2. QED
        BY <2>3, <3>1
    <2>7. p = 0 /\ s = 0 /\ r = 0 /\ t = 0 => q <= 0
      <3>1. p = 0 /\ s = 0 /\ r = 0 /\ t = 0 => n <= d * z
        BY DEF n, d, z
      <3>2. QED
        BY <2>5, <3>1 DEF z
    <2>8. QED
      BY <2>4, <2>6, <2>7 DEF z, h, ScoreFits
  <1>3. QED
    BY <1>1, <1>2 DEF Weighed

\* Leaving out a component that is zero never lowers the score.
LEMMA LeavingOutHelps ==
    ASSUME NEW p \in 0..100, NEW s \in 0..100, NEW r \in 0..100, NEW t \in 0..100,
           NEW none \in Composite(p, s, r, t, 0, FALSE)
    PROVE  \E zero \in Composite(p, s, r, t, 0, TRUE) : zero <= none
  <1> DEFINE rest == 3 * p + 3 * s + 2 * r + t
             x == rest + 0
             q == x \div 10
  <1>1. none \in Nearest(rest, 9) /\ Composite(p, s, r, t, 0, TRUE) = Nearest(x, 10)
    BY DEF Composite
  <1>2. rest \in Nat /\ x = rest
    OBVIOUS
  <1> HIDE DEF rest, x
  <1>3. none \in Nat /\ 2 * (9 * none) <= 2 * rest + 9 /\ 2 * rest <= 2 * (9 * none) + 9
    BY <1>1, <1>2, NearestIs
  <1>4. q \in Nat /\ 10 * q <= x /\ x <= 10 * q + 9
    BY <1>2, DivisionIs
  <1>5. Nearest(x, 10) = {k \in {q, q + 1} : 2 * (k * 10 - x) <= 10 /\ 2 * (x - k * 10) <= 10}
    BY DEF Nearest
  <1> HIDE DEF q
  <1>6. CASE x <= 10 * q + 5
    <2>1. q \in Nearest(x, 10)
      BY <1>2, <1>4, <1>5, <1>6
    <2>2. q <= none
      BY <1>2, <1>3, <1>4
    <2>3. QED
      BY <1>1, <2>1, <2>2
  <1>7. CASE x > 10 * q + 5
    <2>1. q + 1 \in Nearest(x, 10)
      BY <1>2, <1>4, <1>5, <1>7
    <2>2. q + 1 <= none
      BY <1>2, <1>3, <1>4, <1>7
    <2>3. QED
      BY <1>1, <2>1, <2>2
  <1>8. x <= 10 * q + 5 \/ x > 10 * q + 5
    BY <1>2, <1>4
  <1>9. QED
    BY <1>6, <1>7, <1>8

-----------------------------------------------------------------------------
(* The results against the prompts they come of.                           *)

LEMMA PromptsAreFew == IsFiniteSet(Prompts) /\ Cardinality(Prompts) <= 199
  <1> DEFINE n == Len(Personas)
             all == [i \in 1..n |-> PromptsOf[Personas[i]]]
  <1>1. n \in Nat /\ \A i \in 1..n : Personas[i] \in ToSet(Personas)
    BY PersonasAre, LenProperties, ElementOfSeq
  <1>2. \A i \in 1..n : PromptsOf[Personas[i]] \in Seq(Prompts)
    BY <1>1, PersonasAre
  <1> HIDE DEF n
  <1>3. all \in Seq(Seq(Prompts)) /\ Len(all) = n /\ \A i \in 1..n : all[i] = PromptsOf[Personas[i]]
    BY <1>1, <1>2, IsASeq
  <1> HIDE DEF all
  <1>4. ToSet(FlattenSeq(all)) = UNION {ToSet(all[i]) : i \in 1..Len(all)}
    BY <1>3, FlattenHas
  <1>5. \A p \in Prompts : p \in ToSet(FlattenSeq(all))
    <2>1. ASSUME NEW p \in Prompts PROVE \E i \in 1..n : p \in ToSet(all[i])
      <3>1. PICK s \in ToSet(Personas) : p \in ToSet(PromptsOf[s])
        BY PersonasAre
      <3>2. PICK i \in 1..n : Personas[i] = s
        BY PersonasAre, SeqMeets DEF n
      <3>3. QED
        BY <1>3, <3>1, <3>2
    <2>2. QED
      BY <1>3, <1>4, <2>1
  <1>6. IsFiniteSet(ToSet(FlattenSeq(all)))
    <2> DEFINE f == FlattenSeq(all)
    <2>1. f \in Seq(Prompts)
      BY <1>3, FlattenIn
    <2> HIDE DEF f
    <2>2. IsFiniteSet(ToSet(f))
      BY <2>1, ItemsOfSeq
    <2>3. QED
      BY <2>2 DEF f
  <1> DEFINE A == ToSet(FlattenSeq(all))
  <1> HIDE DEF A
  <1>7. IsFiniteSet(A) /\ Prompts \subseteq A
    BY <1>5, <1>6 DEF A
  <1>8. IsFiniteSet(Prompts)
    BY <1>7, FS_Subset
  <1>9. QED
    BY <1>8, PersonasAre

DonePersonas == {s \in ToSet(Personas) : persona[s] = "done"}

\* A list read backwards has the same items.
LEMMA ReverseHas ==
    ASSUME NEW T, NEW s \in Seq(T)
    PROVE  Reverse(s) \in Seq(T) /\ ToSet(Reverse(s)) = ToSet(s)
  <1> DEFINE n == Len(s)
             r == Reverse(s)
  <1>1. n \in Nat /\ \A i \in 1..n : s[i] \in T
    BY LenProperties, ElementOfSeq
  <1>2. r = [i \in 1..n |-> s[(n - i) + 1]]
    BY DEF Reverse
  <1> HIDE DEF n, r
  <1>3. \A i \in 1..n : (n - i) + 1 \in 1..n
    BY <1>1
  <1>4. r \in Seq(T) /\ Len(r) = n /\ \A i \in 1..n : r[i] = s[(n - i) + 1]
    BY <1>1, <1>2, <1>3, IsASeq
  <1>5. ASSUME NEW x \in ToSet(s) PROVE x \in ToSet(r)
    <2>1. PICK i \in 1..n : s[i] = x
      BY SeqMeets DEF n
    <2>2. (n - i) + 1 \in 1..n /\ (n - ((n - i) + 1)) + 1 = i
      BY <1>1
    <2>3. QED
      BY <1>4, <2>1, <2>2, SeqMeets
  <1>6. ASSUME NEW x \in ToSet(r) PROVE x \in ToSet(s)
    <2>1. PICK i \in 1..n : r[i] = x
      BY <1>4, SeqMeets
    <2>2. (n - i) + 1 \in 1..n
      BY <1>3
    <2>3. QED
      BY <1>4, <2>1, <2>2, SeqMeets DEF n
  <1>7. QED
    BY <1>4, <1>5, <1>6 DEF r

\* The personas whose results are shown: each is done and comes once, and all
\* that are done come where no two of them share an id.
LEMMA ShownIs ==
    /\ Shown \in Seq(ToSet(Personas)) /\ ToSet(Shown) \subseteq DonePersonas /\ IsInjective(Shown)
    /\ Len(Shown) \in Nat /\ DOMAIN Shown = 1..Len(Shown)
    /\ \A i \in 1..Len(Shown) : Shown[i] \in DonePersonas
    /\ Results = [i \in 1..Len(Shown) |-> summary[Shown[i]]] /\ Len(Results) = Len(Shown)
    /\ IdsApart => /\ ToSet(Shown) = DonePersonas
                   /\ Len(Personas) - Len(Results) = Cardinality(ToSet(Personas) \ DonePersonas)
  <1> DEFINE All == ToSet(Personas)
             back == Reverse(Personas)
             D == {s \in All : persona[s] = "done" /\ s = FirstOf(Personas, Namesakes(s))}
             d == Done
             r == Shown
  <1>1. Personas \in Seq(All) /\ IsInjective(Personas) /\ DonePersonas \subseteq All
    BY PersonasAre DEF DonePersonas
  <1>2. back \in Seq(All) /\ ToSet(back) = All
    BY <1>1, ReverseHas
  <1>3. \A s : \A t : IdOf[s] = IdOf[t] => Namesakes(s) = Namesakes(t)
    BY DEF Namesakes
  <1>4. \A s : Namesakes(s) \subseteq DonePersonas /\ \A t \in Namesakes(s) : IdOf[t] = IdOf[s]
    BY DEF Namesakes, DonePersonas
  <1>5. d = Sift(Personas, D) /\ D \subseteq All /\ D \subseteq DonePersonas
    BY DEF Done, DonePersonas
  <1> HIDE DEF All, back, d
  <1>6. ASSUME NEW s \in DonePersonas
        PROVE  FirstOf(Personas, Namesakes(s)) \in Namesakes(s) /\ FirstOf(back, Namesakes(s)) \in Namesakes(s)
    <2> DEFINE N == Namesakes(s)
    <2>1. s \in N /\ N \subseteq All
      BY <1>1, <1>4 DEF Namesakes, DonePersonas, All
    <2> HIDE DEF N
    <2>2. ToSet(Personas) \cap N # {} /\ ToSet(back) \cap N # {}
      BY <1>2, <2>1 DEF All
    <2>3. Personas[PlaceOf(Personas, N)] \in N
      BY <1>1, <2>2, PlaceOfIs DEF FirstIn
    <2>4. back[PlaceOf(back, N)] \in N
      BY <1>2, <2>2, PlaceOfIs DEF FirstIn
    <2>5. QED
      BY <2>3, <2>4 DEF FirstOf, N
  <1>7. d \in Seq(All) /\ ToSet(d) = D /\ IsInjective(d)
    <2> HIDE DEF D
    <2>1. ToSet(d) = ToSet(Personas) \cap D /\ d \in Seq(All) /\ IsInjective(d)
      BY <1>1, <1>5, SiftIs, SiftCounts
    <2>2. QED
      BY <1>5, <2>1 DEF All
  <1> DEFINE n == Len(d)
  <1>8. n \in Nat /\ DOMAIN d = 1..n /\ \A i \in 1..n : d[i] \in D
    <2> HIDE DEF D
    <2>1. QED
      BY <1>7, LenProperties, SeqMeets
  <1>9. r = [i \in 1..n |-> FirstOf(back, Namesakes(d[i]))]
    BY <1>8 DEF Shown, d, back
  <1>10. \A i \in 1..n : d[i] \in DonePersonas /\ r[i] \in Namesakes(d[i])
    BY <1>5, <1>6, <1>8, <1>9
  <1>11. \A i \in 1..n : r[i] \in DonePersonas /\ r[i] \in All
    BY <1>1, <1>4, <1>10
  <1> HIDE DEF n, r
  <1>12. r \in Seq(All) /\ Len(r) = n /\ DOMAIN r = 1..n
    <2>1. \A i \in 1..n : FirstOf(back, Namesakes(d[i])) \in All
      BY <1>9, <1>11
    <2>2. QED
      BY <1>8, <1>9, <2>1, IsASeq
  <1>13. ToSet(r) \subseteq DonePersonas
    BY <1>11, <1>12, SeqMeets
  <1>14. ASSUME NEW i \in 1..n, NEW j \in 1..n, r[i] = r[j] PROVE i = j
    <2>1. IdOf[d[i]] = IdOf[d[j]]
      BY <1>4, <1>10, <1>14
    <2>2. d[i] = FirstOf(Personas, Namesakes(d[i])) /\ d[j] = FirstOf(Personas, Namesakes(d[j]))
      BY <1>8
    <2>3. d[i] = d[j]
      BY <1>3, <2>1, <2>2
    <2>4. QED
      BY <1>7, <1>8, <2>3 DEF IsInjective
  <1>15. IsInjective(r)
    BY <1>12, <1>14 DEF IsInjective
  <1>16. Results = [i \in 1..n |-> summary[r[i]]] /\ Len(Results) = n
    <2>1. Results = [i \in 1..n |-> summary[r[i]]]
      BY <1>12 DEF Results, r
    <2>2. QED
      BY <1>8, <2>1
  <1>17. ASSUME IdsApart
         PROVE  ToSet(r) = DonePersonas /\ Len(Personas) - n = Cardinality(All \ DonePersonas)
    <2>1. \A s \in DonePersonas : Namesakes(s) \subseteq {s}
      BY <1>1, <1>4, <1>17 DEF IdsApart, All
    <2>2. \A s \in DonePersonas : s \in D
      BY <1>1, <1>6, <2>1 DEF DonePersonas, All
    <2>3. \A i \in 1..n : r[i] = d[i]
      BY <1>10, <2>1
    <2>4. ASSUME NEW s \in DonePersonas PROVE s \in ToSet(r)
      <3>1. s \in ToSet(d)
        BY <1>7, <2>2
      <3>2. PICK i \in 1..n : d[i] = s
        BY <1>7, <3>1, SeqMeets DEF n
      <3>3. QED
        BY <1>12, <2>3, <3>2, SeqMeets
    <2>5. ToSet(r) = DonePersonas
      BY <1>13, <2>4
    <2>6. Cardinality(DonePersonas) = n
      BY <1>12, <1>15, <2>5, InjectiveCount
    <2>7. IsFiniteSet(All) /\ Cardinality(All) = Len(Personas)
      BY <1>1, InjectiveCount DEF All
    <2>8. All \cap DonePersonas = DonePersonas
      BY <1>1
    <2>9. Cardinality(All \ DonePersonas) = Cardinality(All) - Cardinality(All \cap DonePersonas)
      BY <2>7, FS_Difference
    <2>10. QED
      BY <2>5, <2>6, <2>7, <2>8, <2>9
  <1>18. QED
    BY <1>8, <1>11, <1>12, <1>13, <1>15, <1>16, <1>17 DEF r, All

\* The exchanges of a persona that is done are the analyses of what it kept.
LEMMA SummaryIs ==
    ASSUME AnalysisInv, RivalsApart, NEW s \in DonePersonas
    PROVE  /\ s \in ToSet(Personas) /\ s \in DOMAIN summary /\ Kept(s) # <<>>
           /\ \A i \in 1..Len(Kept(s)) : Kept(s)[i] \in DOMAIN exchange
           /\ summary[s].exchanges = [i \in 1..Len(Kept(s)) |-> exchange[Kept(s)[i]]]
           /\ summary[s].failed = Len(PromptsOf[s]) - Len(Kept(s))
           /\ summary[s].mentioned <=> \E p \in ToSet(Kept(s)) : exchange[p].mentioned
  <1> DEFINE k == Kept(s)
             a == [i \in 1..Len(k) |-> exchange[k[i]]]
             T == {exchange[p] : p \in DOMAIN exchange}
             failed == Len(PromptsOf[s]) - Len(k)
             r == summary[s]
  <1>1. s \in ToSet(Personas) /\ s \in DOMAIN summary /\ k # <<>> /\ r = PersonaResult([i \in DOMAIN k |-> exchange[k[i]]], failed)
    BY DEF AnalysisInv, PersonasOK, KeptResult, DonePersonas
  <1>2. /\ Len(k) \in Nat /\ DOMAIN k = 1..Len(k) /\ Len(k) # 0
        /\ \A i \in 1..Len(k) : k[i] \in DOMAIN exchange
        /\ \A p \in ToSet(k) : \E i \in 1..Len(k) : k[i] = p
        /\ \A i \in 1..Len(k) : k[i] \in ToSet(k)
    <2>1. /\ k \in Seq(Prompts) /\ ToSet(k) = {p \in ToSet(PromptsOf[s]) : call[p] = "done"}
          /\ Len(k) \in Nat /\ DOMAIN k = 1..Len(k) /\ \A i \in 1..Len(k) : k[i] \in ToSet(k)
      BY <1>1, KeptAre
    <2>2. DOMAIN exchange = {p \in Prompts : call[p] = "done"} /\ ToSet(PromptsOf[s]) \subseteq Prompts
      BY <1>1, PersonasAre DEF AnalysisInv, PromptsOK
    <2> HIDE DEF k
    <2>3. \A p \in ToSet(k) : \E i \in 1..Len(k) : k[i] = p
      BY <2>1, SeqMeets
    <2>4. QED
      BY <1>1, <2>1, <2>2, <2>3
  <1>3. \A e \in T : Counted(e)
    BY ExchangesAre DEF Analysed
  <1> HIDE DEF k
  <1>4. r = PersonaResult(a, failed)
    BY <1>1, <1>2
  <1>5. a = [i \in 1..Len(k) |-> a[i]] /\ \A i \in 1..Len(k) : a[i] \in T
    BY <1>2
  <1>6. Len(a) = Len(k) /\ a # <<>>
    BY <1>2
  <1> HIDE DEF T
  <1>7. a \in Seq(T)
    BY <1>2, <1>5, IsASeq
  <1>8. \A i \in 1..Len(k) : a[i] = exchange[k[i]]
    OBVIOUS
  <1> HIDE DEF a, failed, r
  <1>9. CardTells(r, a, failed)
    BY <1>3, <1>4, <1>6, <1>7, CardIs
  <1>10. r.exchanges = a /\ r.failed = failed /\ (r.mentioned <=> Naming(a) # {})
    BY <1>9 DEF CardTells
  <1>11. Naming(a) # {} <=> \E p \in ToSet(k) : exchange[p].mentioned
    <2>1. \A e \in Naming(a) : e.mentioned /\ \E i \in 1..Len(a) : a[i] = e
      BY <1>7, SeqMeets DEF Naming
    <2>2. \A i \in 1..Len(a) : a[i].mentioned => a[i] \in Naming(a)
      BY <1>7, SeqMeets DEF Naming
    <2>3. QED
      BY <1>2, <1>6, <1>8, <2>1, <2>2
  <1>12. r.exchanges = a /\ r.failed = failed /\ (r.mentioned <=> \E p \in ToSet(k) : exchange[p].mentioned)
    BY <1>10, <1>11
  <1>13. QED
    BY <1>1, <1>2, <1>12 DEF r, a, k, failed

Exchanges == AllExchanges(Results)

KeptLists == [i \in 1..Len(Shown) |-> Kept(Shown[i])]
KeptPrompts == FlattenSeq(KeptLists)

LEMMA KeptListsAre ==
    ASSUME AnalysisInv, RivalsApart
    PROVE  /\ KeptLists \in Seq(Seq(DOMAIN exchange)) /\ Len(KeptLists) = Len(Shown)
           /\ \A i \in 1..Len(Shown) : KeptLists[i] = Kept(Shown[i])
           /\ Unshared(KeptLists)
  <1> DEFINE n == Len(Shown)
  <1>1. n \in Nat /\ \A i \in 1..n : Shown[i] \in DonePersonas /\ Shown[i] \in ToSet(Personas)
    BY ShownIs DEF DonePersonas
  <1>2. ASSUME NEW i \in 1..n PROVE Kept(Shown[i]) \in Seq(DOMAIN exchange)
    <2> DEFINE k == Kept(Shown[i])
    <2>1. k \in Seq(Prompts) /\ \A j \in 1..Len(k) : k[j] \in DOMAIN exchange
      BY <1>1, KeptAre, SummaryIs
    <2> HIDE DEF k
    <2>2. k \in Seq(DOMAIN exchange)
      BY <2>1
    <2>3. QED
      BY <2>2 DEF k
  <1> HIDE DEF n
  <1>3. KeptLists = [i \in 1..n |-> Kept(Shown[i])]
    BY DEF KeptLists, n
  <1>4. KeptLists \in Seq(Seq(DOMAIN exchange)) /\ Len(KeptLists) = n /\ \A i \in 1..n : KeptLists[i] = Kept(Shown[i])
    BY <1>1, <1>2, <1>3, IsASeq
  <1>5. ASSUME NEW i \in 1..n PROVE IsInjective(KeptLists[i])
    BY <1>1, <1>4, KeptAre
  <1>6. ASSUME NEW i \in 1..n, NEW j \in 1..n, i # j PROVE ToSet(KeptLists[i]) \cap ToSet(KeptLists[j]) = {}
    <2>1. Shown[i] # Shown[j]
      <3>1. DOMAIN Shown = 1..n /\ IsInjective(Shown)
        BY ShownIs DEF n
      <3>2. QED
        BY <1>6, <3>1 DEF IsInjective
    <2>2. ToSet(PromptsOf[Shown[i]]) \cap ToSet(PromptsOf[Shown[j]]) = {}
      BY <1>1, <2>1, PersonasAre
    <2>3. /\ ToSet(Kept(Shown[i])) \subseteq ToSet(PromptsOf[Shown[i]])
          /\ ToSet(Kept(Shown[j])) \subseteq ToSet(PromptsOf[Shown[j]])
      BY <1>1, KeptAre
    <2>4. QED
      BY <1>4, <2>2, <2>3
  <1>7. QED
    BY <1>4, <1>5, <1>6 DEF Unshared, n

\* The page's exchanges are the analyses of the prompts that are done.
LEMMA ExchangesCome ==
    ASSUME AnalysisInv, RivalsApart
    PROVE  /\ KeptPrompts \in Seq(DOMAIN exchange) /\ IsInjective(KeptPrompts)
           /\ Exchanges = [i \in 1..Len(KeptPrompts) |-> exchange[KeptPrompts[i]]]
           /\ IdsApart /\ (\A s \in ToSet(Personas) : persona[s] # "running") => ToSet(KeptPrompts) = DOMAIN exchange
  <1> DEFINE n == Len(Shown)
             T == DOMAIN exchange
             U == {exchange[p] : p \in T}
             maps == Column(Results, "exchanges")
  <1>1. n \in Nat /\ \A i \in 1..n : Shown[i] \in DonePersonas /\ Shown[i] \in ToSet(Personas)
    BY ShownIs DEF DonePersonas
  <1>2. /\ KeptLists \in Seq(Seq(T)) /\ Len(KeptLists) = n /\ Unshared(KeptLists)
        /\ \A i \in 1..n : KeptLists[i] = Kept(Shown[i])
    BY KeptListsAre
  <1>3. /\ ToSet(KeptPrompts) = UNION {ToSet(KeptLists[i]) : i \in 1..Len(KeptLists)}
        /\ IsInjective(KeptPrompts) /\ KeptPrompts \in Seq(T)
    <2> HIDE DEF T, n
    <2>1. QED
      BY <1>2, FlattenHas, FlattenIn DEF KeptPrompts
  <1>4. maps = [i \in 1..n |-> summary[Shown[i]].exchanges]
    BY ShownIs DEF Column
  <1>5. \A i \in 1..n : maps[i] = [j \in 1..Len(KeptLists[i]) |-> exchange[KeptLists[i][j]]]
    <2> SUFFICES ASSUME NEW i \in 1..n PROVE maps[i] = [j \in 1..Len(KeptLists[i]) |-> exchange[KeptLists[i][j]]]
      OBVIOUS
    <2> DEFINE s == Shown[i]
    <2>1. s \in DonePersonas /\ maps[i] = summary[s].exchanges /\ KeptLists[i] = Kept(s)
      BY <1>1, <1>2, <1>4
    <2> HIDE DEF s, maps
    <2>2. summary[s].exchanges = [j \in 1..Len(Kept(s)) |-> exchange[Kept(s)[j]]]
      BY <2>1, SummaryIs
    <2>3. QED
      BY <2>1, <2>2
  <1>6. \A i \in 1..n : maps[i] \in Seq(U)
    <2> SUFFICES ASSUME NEW i \in 1..n PROVE maps[i] \in Seq(U)
      OBVIOUS
    <2> DEFINE k == KeptLists[i]
    <2>1. k \in Seq(T)
      BY <1>2, ElementOfSeq
    <2>2. Len(k) \in Nat /\ \A j \in 1..Len(k) : k[j] \in T
      BY <2>1, LenProperties, ElementOfSeq
    <2> HIDE DEF k
    <2>3. [j \in 1..Len(k) |-> exchange[k[j]]] \in Seq(U)
      BY <2>2, IsASeq
    <2>4. QED
      BY <1>5, <2>3 DEF k
  <1> DEFINE V == Seq(U)
  <1>7. maps \in Seq(Seq(U)) /\ Len(maps) = n
    <2> HIDE DEF V, U
    <2>1. \A i \in 1..n : summary[Shown[i]].exchanges \in V
      BY <1>4, <1>6 DEF V
    <2> HIDE DEF n, maps
    <2>2. maps \in Seq(V) /\ Len(maps) = n
      BY <1>1, <1>4, <2>1, IsASeq
    <2>3. QED
      BY <2>2 DEF V
  <1>8. Exchanges = [i \in 1..Len(KeptPrompts) |-> exchange[KeptPrompts[i]]]
    <2> DEFINE g == [p \in T |-> exchange[p]]
    <2>1. g \in [T -> U]
      OBVIOUS
    <2>2. \A i \in 1..n : \A j \in 1..Len(KeptLists[i]) : KeptLists[i][j] \in T
      BY <1>2, ElementOfSeq
    <2>3. \A p \in T : g[p] = exchange[p]
      OBVIOUS
    <2> HIDE DEF g, T, U, n, maps, V
    <2>4. \A i \in 1..n : maps[i] = MapOf(g, KeptLists[i])
      BY <1>5, <2>2, <2>3 DEF MapOf
    <2>5. FlattenSeq(maps) = MapOf(g, FlattenSeq(KeptLists))
      <3>1. Mapping(g, KeptLists, maps)
        BY <1>2, <1>7, <2>4 DEF Mapping
      <3>2. KeptLists \in Seq(Seq(T)) /\ maps \in Seq(Seq(U))
        BY <1>2, <1>7
      <3>3. QED
        BY <2>1, <3>1, <3>2, FlattenMaps
    <2>6. Exchanges = FlattenSeq(maps)
      BY DEF Exchanges, AllExchanges, maps
    <2>7. \A i \in 1..Len(KeptPrompts) : KeptPrompts[i] \in T
      BY <1>3, ElementOfSeq
    <2>8. Exchanges = [i \in 1..Len(KeptPrompts) |-> g[KeptPrompts[i]]]
      BY <2>5, <2>6 DEF KeptPrompts, MapOf
    <2>9. QED
      BY <2>3, <2>7, <2>8
  <1>9. ASSUME IdsApart, \A s \in ToSet(Personas) : persona[s] # "running"
        PROVE  ToSet(KeptPrompts) = T
    <2>1. ToSet(KeptPrompts) \subseteq T
      <3> HIDE DEF T
      <3>1. QED
        BY <1>3, SeqOfItsItems
    <2>2. ASSUME NEW p \in T PROVE p \in ToSet(KeptPrompts)
      <3>1. p \in Prompts /\ call[p] = "done"
        BY DEF AnalysisInv, PromptsOK
      <3>2. PICK s \in ToSet(Personas) : p \in ToSet(PromptsOf[s])
        BY <3>1, PersonasAre
      <3>3. p \in ToSet(Kept(s))
        BY <3>1, <3>2, KeptAre
      <3>4. Kept(s) # <<>>
        BY <3>2, <3>3, KeptAre, SeqMeets
      <3>5. s \in DonePersonas
        BY <1>9, <3>4 DEF AnalysisInv, PersonasOK, DonePersonas
      <3>6. PICK i \in 1..n : Shown[i] = s
        BY <1>9, <3>5, ShownIs, SeqMeets
      <3>7. QED
        BY <1>2, <1>3, <3>3, <3>6
    <2>3. QED
      BY <2>1, <2>2
  <1>10. QED
    BY <1>3, <1>8, <1>9

-----------------------------------------------------------------------------
(* The page against the prompts.                                           *)

NamingPrompts == {p \in Prompts : call[p] = "done" /\ exchange[p].mentioned}

\* Each exchange of the page is one prompt's, and every prompt that is done has
\* one where no two personas share an id.
LEMMA PageCounts ==
    ASSUME AnalysisInv, RivalsApart, \A s \in ToSet(Personas) : persona[s] # "running"
    PROVE  /\ Exchanges \in Seq({exchange[p] : p \in DOMAIN exchange}) /\ Len(Exchanges) \in Nat
           /\ Len(Exchanges) <= 199
           /\ IdsApart => /\ Len(Exchanges) = Cardinality(DOMAIN exchange)
                          /\ Len(Mentioning(Exchanges)) = Cardinality(NamingPrompts)
                          /\ Naming(Exchanges) = {exchange[p] : p \in NamingPrompts}
  <1> DEFINE T == DOMAIN exchange
             U == {exchange[p] : p \in T}
             k == KeptPrompts
             E == Exchanges
             n == Len(k)
  <1>1. /\ k \in Seq(T) /\ IsInjective(k) /\ (IdsApart => ToSet(k) = T) /\ E = [i \in 1..n |-> exchange[k[i]]]
    BY ExchangesCome
  <1>2. T = {p \in Prompts : call[p] = "done"}
    BY DEF AnalysisInv, PromptsOK
  <1>3. NamingPrompts = {p \in T : exchange[p].mentioned}
    BY <1>2 DEF NamingPrompts
  <1> HIDE DEF k, E
  <1>4. n \in Nat /\ DOMAIN k = 1..n /\ \A i \in 1..n : k[i] \in T
    BY <1>1, LenProperties, ElementOfSeq
  <1>5. \A i \in 1..n : exchange[k[i]] \in U
    BY <1>4
  <1> HIDE DEF T, U, n
  <1>6. E \in Seq(U) /\ Len(E) = n /\ \A i \in 1..n : E[i] = exchange[k[i]]
    BY <1>1, <1>4, <1>5, IsASeq
  <1>7. n = Cardinality(ToSet(k)) /\ ToSet(k) \subseteq T
    BY <1>1, InjectiveCount, SeqOfItsItems DEF n
  <1>8. n <= 199
    <2>1. ToSet(k) \subseteq Prompts
      BY <1>2, <1>7
    <2> DEFINE K == ToSet(k)
    <2> HIDE DEF K
    <2>2. K \subseteq Prompts /\ n = Cardinality(K)
      BY <1>7, <2>1 DEF K
    <2>3. Cardinality(K) <= Cardinality(Prompts) /\ Cardinality(Prompts) \in Nat
      BY <2>2, PromptsAreFew, FS_Subset, FS_CardinalityType
    <2>4. QED
      BY <1>4, <2>2, <2>3, PromptsAreFew
  <1>9. ASSUME IdsApart PROVE Len(Mentioning(E)) = Cardinality(NamingPrompts)
    <2> DEFINE named == Sift(k, NamingPrompts)
               P == {i \in 1..Len(k) : k[i] \in NamingPrompts}
    <2>1. named \in Seq(T) /\ IsInjective(named) /\ Len(named) = Cardinality(P)
      BY <1>1, SiftIs, SiftCounts
    <2>2. ToSet(named) = NamingPrompts
      <3>1. ToSet(named) = ToSet(k) \cap NamingPrompts
        BY <1>1, SiftIs
      <3>2. QED
        BY <1>1, <1>3, <1>9, <3>1
    <2>3. P = NamingAt(E)
      BY <1>3, <1>4, <1>6 DEF NamingAt, n
    <2> HIDE DEF named, P
    <2>4. Cardinality(ToSet(named)) = Len(named)
      BY <2>1, InjectiveCount
    <2>5. Len(Mentioning(E)) = Cardinality(NamingAt(E))
      BY <1>6, MentioningIs
    <2>6. QED
      BY <2>1, <2>2, <2>3, <2>4, <2>5
  <1>10. ASSUME IdsApart PROVE Naming(E) = {exchange[p] : p \in NamingPrompts}
    <2>1. ASSUME NEW e \in Naming(E) PROVE \E p \in NamingPrompts : e = exchange[p]
      <3>1. e \in ToSet(E) /\ e.mentioned
        BY DEF Naming
      <3>2. PICK i \in 1..n : E[i] = e
        BY <1>6, <3>1, SeqMeets
      <3>3. QED
        BY <1>3, <1>4, <1>6, <3>1, <3>2
    <2>2. ASSUME NEW p \in NamingPrompts PROVE exchange[p] \in Naming(E)
      <3>1. p \in ToSet(k) /\ exchange[p].mentioned
        BY <1>1, <1>3, <1>10
      <3>2. PICK i \in 1..n : k[i] = p
        BY <1>1, <3>1, SeqMeets DEF n
      <3>3. E[i] = exchange[p] /\ E[i] \in ToSet(E)
        BY <1>6, <3>2, SeqMeets
      <3>4. QED
        BY <3>1, <3>3 DEF Naming
    <2>3. QED
      BY <2>1, <2>2
  <1>11. IdsApart => n = Cardinality(T)
    BY <1>1, <1>7
  <1>12. QED
    BY <1>4, <1>6, <1>8, <1>9, <1>10, <1>11 DEF T, U, E

\* Every prompt of a persona that is done is an exchange of the page or counted
\* as failed.
LEMMA PageTells ==
    ASSUME AnalysisInv, RivalsApart, IdsApart
    PROVE  Len(Exchanges) + FailedPrompts(Results) = Cardinality(UNION {ToSet(PromptsOf[s]) : s \in DonePersonas})
  <1> DEFINE n == Len(Shown)
             asked == [i \in 1..n |-> PromptsOf[Shown[i]]]
             kept == [i \in 1..n |-> Len(KeptLists[i])]
             failed == Column(Results, "failed")
             lens == [i \in 1..n |-> Len(PromptsOf[Shown[i]])]
             all == FlattenSeq(asked)
  <1>1. n \in Nat /\ \A i \in 1..n : Shown[i] \in DonePersonas /\ Shown[i] \in ToSet(Personas)
    BY ShownIs DEF DonePersonas
  <1>2. \A i \in 1..n : PromptsOf[Shown[i]] \in Seq(Prompts) /\ IsInjective(PromptsOf[Shown[i]])
    BY <1>1, PersonasAre
  <1>3. /\ KeptLists \in Seq(Seq(DOMAIN exchange)) /\ Len(KeptLists) = n
        /\ \A i \in 1..n : KeptLists[i] = Kept(Shown[i])
    BY KeptListsAre
  <1>4. \A i \in 1..n : Len(KeptLists[i]) \in Nat
    BY <1>1, <1>3, KeptAre
  <1>5. \A i \in 1..n : Len(PromptsOf[Shown[i]]) \in Nat
    BY <1>2, LenProperties
  <1>6. failed = [i \in 1..n |-> summary[Shown[i]].failed]
    BY ShownIs DEF Column
  <1>7. \A i \in 1..n : summary[Shown[i]].failed = Len(PromptsOf[Shown[i]]) - Len(KeptLists[i])
    BY <1>1, <1>3, SummaryIs
  <1>8. /\ asked \in Seq(Seq(Prompts)) /\ Len(asked) = n /\ \A i \in 1..n : asked[i] = PromptsOf[Shown[i]]
    <2> DEFINE V == Seq(Prompts)
    <2> HIDE DEF V, n
    <2>1. \A i \in 1..n : PromptsOf[Shown[i]] \in V
      BY <1>2 DEF V
    <2>2. asked \in Seq(V) /\ Len(asked) = n /\ \A i \in 1..n : asked[i] = PromptsOf[Shown[i]]
      BY <1>1, <2>1, IsASeq
    <2>3. QED
      BY <2>2 DEF V
  <1> HIDE DEF n, failed
  <1>9. /\ kept \in Seq(Int) /\ Len(kept) = n /\ \A i \in 1..n : kept[i] = Len(KeptLists[i])
    BY <1>1, <1>4, IsASeq
  <1>10. /\ lens \in Seq(Int) /\ Len(lens) = n /\ \A i \in 1..n : lens[i] = Len(PromptsOf[Shown[i]])
    BY <1>1, <1>5, IsASeq
  <1>11. /\ failed \in Seq(Int) /\ Len(failed) = n /\ \A i \in 1..n : failed[i] = lens[i] - kept[i]
    <2>1. \A i \in 1..n : summary[Shown[i]].failed \in Int
      <3> SUFFICES ASSUME NEW i \in 1..n PROVE summary[Shown[i]].failed \in Int
        OBVIOUS
      <3> DEFINE x == summary[Shown[i]].failed
                 y == Len(PromptsOf[Shown[i]])
                 z == Len(KeptLists[i])
      <3>1. x = y - z /\ y \in Nat /\ z \in Nat
        BY <1>4, <1>5, <1>7
      <3> HIDE DEF x, y, z
      <3>2. x \in Int
        BY <3>1
      <3>3. QED
        BY <3>2 DEF x
    <2>2. failed \in Seq(Int) /\ Len(failed) = n
      BY <1>1, <1>6, <2>1, IsASeq
    <2>3. \A i \in 1..n : failed[i] = lens[i] - kept[i]
      BY <1>6, <1>7, <1>9, <1>10
    <2>4. QED
      BY <2>2, <2>3
  <1> HIDE DEF asked, kept, lens
  <1>12. Total(kept) + Total(failed) = Total(lens)
    <2>1. \A i \in 1..n : lens[i] = kept[i] + failed[i]
      <3>1. \A i \in 1..n : kept[i] \in Int /\ lens[i] \in Int
        BY <1>4, <1>5, <1>9, <1>10
      <3>2. QED
        BY <1>11, <3>1
    <2>2. Adding(kept, failed, lens)
      BY <1>9, <1>10, <1>11, <2>1 DEF Adding
    <2>3. QED
      BY <1>9, <1>10, <1>11, <2>2, TotalAdds
  <1>13. Len(Exchanges) = Total(kept)
    <2>1. KeptPrompts \in Seq(DOMAIN exchange) /\ Exchanges = [i \in 1..Len(KeptPrompts) |-> exchange[KeptPrompts[i]]]
      BY ExchangesCome
    <2>2. Len(KeptPrompts) \in Nat
      BY <2>1, LenProperties
    <2>3. Len(Exchanges) = Len(KeptPrompts)
      BY <2>1, <2>2
    <2>4. Len(KeptPrompts) = Total(kept)
      <3>1. Lengths(kept, KeptLists)
        BY <1>3, <1>9 DEF Lengths
      <3>2. QED
        BY <1>3, <1>9, <3>1, FlattenLen DEF KeptPrompts
    <2>5. QED
      BY <2>3, <2>4
  <1>14. Len(all) = Total(lens)
    <2>1. Lengths(lens, asked)
      BY <1>8, <1>10 DEF Lengths
    <2>2. QED
      BY <1>8, <1>10, <2>1, FlattenLen
  <1>15. all \in Seq(Prompts) /\ IsInjective(all) /\ ToSet(all) = UNION {ToSet(asked[i]) : i \in 1..Len(asked)}
    <2>1. ASSUME NEW i \in 1..n, NEW j \in 1..n, i # j PROVE ToSet(asked[i]) \cap ToSet(asked[j]) = {}
      <3>1. Shown[i] # Shown[j]
        <4>1. DOMAIN Shown = 1..n /\ IsInjective(Shown)
          BY ShownIs DEF n
        <4>2. QED
          BY <2>1, <4>1 DEF IsInjective
      <3>2. QED
        BY <1>1, <1>8, <3>1, PersonasAre
    <2>2. Unshared(asked)
      BY <1>2, <1>8, <2>1 DEF Unshared
    <2>3. QED
      BY <1>8, <2>2, FlattenHas, FlattenIn
  <1>16. ToSet(all) = UNION {ToSet(PromptsOf[s]) : s \in DonePersonas}
    <2>1. ASSUME NEW p \in ToSet(all) PROVE p \in UNION {ToSet(PromptsOf[s]) : s \in DonePersonas}
      BY <1>1, <1>8, <1>15, <2>1
    <2>2. ASSUME NEW s \in DonePersonas, NEW p \in ToSet(PromptsOf[s]) PROVE p \in ToSet(all)
      <3>1. PICK i \in 1..n : Shown[i] = s
        BY ShownIs, SeqMeets DEF n
      <3>2. QED
        BY <1>8, <1>15, <2>2, <3>1
    <2>3. QED
      BY <2>1, <2>2
  <1> HIDE DEF all
  <1>17. Cardinality(ToSet(all)) = Len(all)
    BY <1>15, InjectiveCount
  <1>18. FailedPrompts(Results) = Total(failed)
    BY DEF FailedPrompts, failed
  <1>19. QED
    BY <1>12, <1>13, <1>14, <1>16, <1>17, <1>18

\* A persona's card says the brand is named when some prompt's answer does.
LEMMA CardsName ==
    ASSUME AnalysisInv, RivalsApart, \A s \in ToSet(Personas) : persona[s] # "running"
    PROVE  (\E s \in DonePersonas : summary[s].mentioned) <=> NamingPrompts # {}
  <1>1. ASSUME NEW s \in DonePersonas, summary[s].mentioned PROVE NamingPrompts # {}
    <2>1. PICK p \in ToSet(Kept(s)) : exchange[p].mentioned
      BY <1>1, SummaryIs
    <2>2. p \in Prompts /\ call[p] = "done"
      <3>1. s \in ToSet(Personas)
        BY DEF DonePersonas
      <3>2. ToSet(Kept(s)) = {q \in ToSet(PromptsOf[s]) : call[q] = "done"}
        BY <3>1, KeptAre
      <3>3. ToSet(PromptsOf[s]) \subseteq Prompts
        BY <3>1, PersonasAre
      <3>4. QED
        BY <3>2, <3>3
    <2>3. QED
      BY <2>1, <2>2 DEF NamingPrompts
  <1>2. ASSUME NEW p \in NamingPrompts PROVE \E s \in DonePersonas : summary[s].mentioned
    <2>1. p \in Prompts /\ call[p] = "done" /\ exchange[p].mentioned
      BY DEF NamingPrompts
    <2>2. PICK s \in ToSet(Personas) : p \in ToSet(PromptsOf[s])
      BY <2>1, PersonasAre
    <2>3. p \in ToSet(Kept(s))
      BY <2>1, <2>2, KeptAre
    <2>4. Kept(s) # <<>>
      BY <2>2, <2>3, KeptAre, SeqMeets
    <2>5. s \in DonePersonas
      BY <1>2, <2>2, <2>4 DEF AnalysisInv, PersonasOK, DonePersonas
    <2>6. QED
      BY <2>1, <2>3, <2>5, SummaryIs
  <1>3. QED
    BY <1>1, <1>2

-----------------------------------------------------------------------------
(* What is promised of every page.                                         *)

PageHolds(page, named) ==
    /\ page.measured \in 0..MaxSources /\ named \in 0..page.measured
    /\ page.shares \in ProductShares(Results)
    /\ page.presence \in Percent(Len(Mentioning(Exchanges)), Len(Exchanges))
    /\ page.sov \in ShareOfVoice(ProductCounts(Results))
    /\ page.ranking = Ranking(Mentioning(Exchanges))
    /\ page.tone \in Tone(Mentioning(Exchanges))
    /\ page.authority \in Percent(named, page.measured)
    /\ page.topCompetitor \in TopCompetitors(ProductCounts(Results))
    /\ page.score \in Composite(page.presence, page.sov, page.ranking, page.tone, page.authority, page.measured > 0)
    /\ page.mentioned = Len(Mentioning(Exchanges)) /\ page.total = Len(Exchanges)
    /\ page.failedPrompts = FailedPrompts(Results) /\ page.failedPersonas = Len(Personas) - Len(Results)
    /\ page.sentiment = SentimentOf(Exchanges) /\ page.counts = ProductCounts(Results)

LEMMA PageIs ==
    ASSUME AnalysisInv, report # <<>>
    PROVE  /\ \A s \in ToSet(Personas) : persona[s] # "running"
           /\ \E named : PageHolds(report[1], named)
  <1>1. (\A s \in ToSet(Personas) : persona[s] # "running") /\ PageFrom(Results, report)
    BY DEF AnalysisInv
  <1> DEFINE all == Exchanges
             mentioned == Len(Mentioning(all))
             total == Len(all)
             failedPrompts == FailedPrompts(Results)
             failedPersonas == Len(Personas) - Len(Results)
             sentiment == SentimentOf(all)
             counts == ProductCounts(Results)
             slices == ProductShares(Results)
             strength == Strength(Mentioning(all))
             ranking == Ranking(Mentioning(all))
             voices == ShareOfVoice(counts)
             tones == Tone(Mentioning(all))
             tops == TopCompetitors(counts)
             Made(shares, presence, sov, tone, top, authority, measured, score) ==
                <<[ score |-> score, mentioned |-> mentioned, total |-> total,
                    failedPrompts |-> failedPrompts, failedPersonas |-> failedPersonas,
                    sentiment |-> sentiment, counts |-> counts, shares |-> shares,
                    topCompetitor |-> top, presence |-> presence, sov |-> sov,
                    strength |-> strength, ranking |-> ranking, tone |-> tone,
                    authority |-> authority, measured |-> measured ]>>
             page == report[1]
  <1>2. \E shares \in slices, presence \in Percent(mentioned, total), sov \in voices, tone \in tones, top \in tops :
        \E measured \in 0..MaxSources : \E named \in 0..measured : \E authority \in Percent(named, measured) :
        \E score \in Composite(presence, sov, ranking, tone, authority, measured > 0) :
           report = Made(shares, presence, sov, tone, top, authority, measured, score)
    BY <1>1 DEF PageFrom, Exchanges
  <1> HIDE DEF mentioned, total, failedPrompts, failedPersonas, sentiment, counts, slices, strength, ranking, voices, tones, tops
  <1>3. PICK shares \in slices, presence \in Percent(mentioned, total), sov \in voices, tone \in tones, top \in tops :
        \E measured \in 0..MaxSources : \E named \in 0..measured : \E authority \in Percent(named, measured) :
        \E score \in Composite(presence, sov, ranking, tone, authority, measured > 0) :
           report = Made(shares, presence, sov, tone, top, authority, measured, score)
    BY <1>2, Zenon
  <1>8. PICK measured \in 0..MaxSources :
        \E named \in 0..measured : \E authority \in Percent(named, measured) :
        \E score \in Composite(presence, sov, ranking, tone, authority, measured > 0) :
           report = Made(shares, presence, sov, tone, top, authority, measured, score)
    BY <1>3, Zenon
  <1>9. PICK named \in 0..measured : \E authority \in Percent(named, measured) :
        \E score \in Composite(presence, sov, ranking, tone, authority, measured > 0) :
           report = Made(shares, presence, sov, tone, top, authority, measured, score)
    BY <1>8, Zenon
  <1>10. PICK authority \in Percent(named, measured) :
        \E score \in Composite(presence, sov, ranking, tone, authority, measured > 0) :
           report = Made(shares, presence, sov, tone, top, authority, measured, score)
    BY <1>9, Zenon
  <1>4. PICK score \in Composite(presence, sov, ranking, tone, authority, measured > 0) :
           report = Made(shares, presence, sov, tone, top, authority, measured, score)
    BY <1>10, Zenon
  <1>5. /\ page.score = score /\ page.mentioned = mentioned /\ page.total = total
        /\ page.failedPrompts = failedPrompts /\ page.failedPersonas = failedPersonas
        /\ page.sentiment = sentiment /\ page.counts = counts /\ page.shares = shares
        /\ page.topCompetitor = top /\ page.presence = presence /\ page.sov = sov
        /\ page.ranking = ranking /\ page.tone = tone
        /\ page.authority = authority /\ page.measured = measured
    BY <1>4
  <1> HIDE DEF page, Made
  <1>6. PageHolds(page, named)
    <2>1. page.score \in Composite(page.presence, page.sov, page.ranking, page.tone, page.authority, page.measured > 0)
      BY <1>4, <1>5
    <2>2. /\ page.measured \in 0..MaxSources /\ named \in 0..page.measured
          /\ page.authority \in Percent(named, page.measured)
      BY <1>5, <1>8, <1>9, <1>10
    <2>3. /\ page.tone \in Tone(Mentioning(Exchanges)) /\ page.shares \in ProductShares(Results)
          /\ page.sov \in ShareOfVoice(ProductCounts(Results))
          /\ page.topCompetitor \in TopCompetitors(ProductCounts(Results))
      BY <1>3, <1>5 DEF tones, slices, voices, tops, counts
    <2>4. page.presence \in Percent(Len(Mentioning(Exchanges)), Len(Exchanges))
      BY <1>3, <1>5 DEF mentioned, total
    <2>5. /\ page.mentioned = Len(Mentioning(Exchanges)) /\ page.total = Len(Exchanges)
          /\ page.failedPrompts = FailedPrompts(Results) /\ page.failedPersonas = Len(Personas) - Len(Results)
          /\ page.sentiment = SentimentOf(Exchanges) /\ page.counts = ProductCounts(Results)
          /\ page.ranking = Ranking(Mentioning(Exchanges))
      BY <1>5 DEF mentioned, total, failedPrompts, failedPersonas, sentiment, counts, ranking
    <2>6. QED
      BY <2>1, <2>2, <2>3, <2>4, <2>5 DEF PageHolds
  <1>7. QED
    BY <1>1, <1>6 DEF page

\* The components of the page's score, and its products.
LEMMA ScoresAre ==
    ASSUME AnalysisInv, RivalsApart, report # <<>>, NEW named, PageHolds(report[1], named)
    PROVE  LET page == report[1]
               m == Len(Mentioning(Exchanges))
           IN  /\ page.presence \in 0..100 /\ page.sov \in 0..100 /\ page.ranking \in 0..100
               /\ page.tone \in 0..100 /\ page.authority \in 0..100 /\ page.measured \in Nat
               /\ page.presence = 0 <=> m = 0
               /\ page.sov = 0 <=> m = 0
               /\ m = 0 => page.ranking = 0 /\ page.tone = 0
               /\ page.sov = 100 <=> page.counts[1] > 0 /\ page.topCompetitor \in {<<>>} \cup
                    {ProductNames[i] : i \in {k \in DOMAIN page.counts : page.counts[k] <= page.counts[1]}}
               /\ m \in Nat /\ page.counts[1] = m
               /\ \A i \in DOMAIN page.counts : page.counts[i] <= page.total
               /\ Total(page.counts) = 0 => Total(page.shares) = 0
               /\ Total(page.counts) > 0 => /\ 2 * (Total(page.shares) - 1000) <= Len(page.counts)
                                            /\ 2 * (1000 - Total(page.shares)) <= Len(page.counts)
  <1> DEFINE page == report[1]
             E == Exchanges
             T == {exchange[p] : p \in DOMAIN exchange}
             m == Mentioning(E)
             counts == ProductCounts(Results)
             slices == ProductShares(Results)
             b == Len(E)
  <1>1. \A s \in ToSet(Personas) : persona[s] # "running"
    BY PageIs
  <1>2. E \in Seq(T) /\ b \in Nat /\ b <= 199 /\ E = AllExchanges(Results)
    BY <1>1, PageCounts DEF Exchanges
  <1>3. \A e \in T : Counted(e)
    BY ExchangesAre DEF Analysed
  <1>6. /\ page.measured \in 0..MaxSources /\ named \in 0..page.measured /\ page.shares \in slices
        /\ page.presence \in Percent(Len(m), b) /\ page.sov \in ShareOfVoice(counts)
        /\ page.ranking = Ranking(m) /\ page.tone \in Tone(m) /\ page.authority \in Percent(named, page.measured)
        /\ page.topCompetitor \in TopCompetitors(counts) /\ page.counts = counts /\ page.total = b
    BY DEF PageHolds
  <1> HIDE DEF T, E
  <1>4. /\ Len(m) \in Nat /\ Len(m) <= b /\ (m = <<>> <=> Len(m) = 0) /\ m \in Seq(T)
    BY <1>2, MentioningIs
  <1>5. UpTo(counts, b) /\ counts[1] = Len(m)
    BY <1>2, <1>3, CountsAre
  <1>14. slices = Slices(counts, IF Total(counts) = 0 THEN 1 ELSE Total(counts))
    BY DEF ProductShares
  <1> HIDE DEF page, m, counts, slices, b
  <1>7. page.presence \in 0..100 /\ (page.presence = 0 <=> Len(m) = 0)
    <2> DEFINE l == Len(m)
    <2> HIDE DEF l
    <2>1. l \in Nat /\ l <= b /\ page.presence \in Percent(l, b)
      BY <1>4, <1>6 DEF l
    <2>2. page.presence \in 0..100 /\ (page.presence = 0 <=> l = 0)
      BY <1>2, <2>1, PercentIs DEF b
    <2>3. QED
      BY <2>2 DEF l
  <1>8. /\ page.sov \in 0..100 /\ (page.sov = 0 <=> counts[1] = 0)
        /\ page.sov = 100 <=> counts[1] > 0 /\ page.topCompetitor \in {<<>>} \cup
                    {ProductNames[i] : i \in {k \in DOMAIN counts : counts[k] <= counts[1]}}
    <2> DEFINE v == page.sov
               top == page.topCompetitor
    <2>1. v \in ShareOfVoice(counts) /\ top \in TopCompetitors(counts)
      BY <1>6
    <2> HIDE DEF v, top
    <2>2. /\ v \in 0..100 /\ (v = 0 <=> counts[1] = 0)
          /\ v = 100 <=> counts[1] > 0 /\ top \in {<<>>} \cup
                    {ProductNames[i] : i \in {k \in DOMAIN counts : counts[k] <= counts[1]}}
      BY <1>2, <1>5, <2>1, SharesAgree DEF b
    <2>3. QED
      BY <2>2 DEF v, top
  <1>9. page.ranking \in 0..100 /\ (m = <<>> => page.ranking = 0)
    BY <1>3, <1>4, <1>6, RankingIs
  <1>10. page.tone \in 0..100 /\ (m = <<>> => page.tone = 0)
    BY <1>3, <1>4, <1>6, ToneIs
  <1>11. page.authority \in 0..100 /\ page.measured \in Nat
    <2>1. page.measured \in Nat /\ named \in Nat /\ named <= page.measured
      BY <1>6, PersonasAre
    <2> DEFINE d == page.measured
               q == page.authority
    <2> HIDE DEF d, q
    <2>2. d \in Nat /\ named \in Nat /\ named <= d /\ q \in Percent(named, d)
      BY <1>6, <2>1 DEF d, q
    <2>3. q \in 0..100
      BY <2>2, PercentIs
    <2>4. QED
      BY <2>1, <2>3 DEF q
  <1>15. /\ Total(counts) = 0 => Total(page.shares) = 0
         /\ Total(counts) > 0 => /\ 2 * (Total(page.shares) - 1000) <= Len(counts)
                                 /\ 2 * (1000 - Total(page.shares)) <= Len(counts)
    <2> DEFINE f == page.shares
    <2>1. counts \in Seq(Nat) /\ f \in Slices(counts, IF Total(counts) = 0 THEN 1 ELSE Total(counts))
      BY <1>5, <1>6, <1>14 DEF UpTo
    <2> HIDE DEF f
    <2>2. /\ Total(counts) = 0 => Total(f) = 0
          /\ Total(counts) > 0 => 2 * (Total(f) - 1000) <= Len(counts) /\ 2 * (1000 - Total(f)) <= Len(counts)
      BY <2>1, SlicesSum
    <2>3. QED
      BY <2>2 DEF f
  <1>16. \A i \in DOMAIN counts : counts[i] <= b
    BY <1>5 DEF UpTo
  <1>12. /\ page.presence \in 0..100 /\ page.sov \in 0..100 /\ page.ranking \in 0..100
         /\ page.tone \in 0..100 /\ page.authority \in 0..100 /\ page.measured \in Nat
         /\ page.presence = 0 <=> Len(m) = 0
         /\ page.sov = 0 <=> Len(m) = 0
         /\ Len(m) = 0 => page.ranking = 0 /\ page.tone = 0
         /\ Len(m) \in Nat /\ page.counts[1] = Len(m)
    BY <1>4, <1>5, <1>6, <1>7, <1>8, <1>9, <1>10, <1>11
  <1>13. QED
    BY <1>6, <1>8, <1>12, <1>15, <1>16 DEF page, m, E

\* The headline score is a percentage of which a brand no answer names has at
\* most the tenth of its sources, that needs presence and share of voice to be
\* high, and that an empty source search never lowers (aggregation.py,
\* compute_composite_score), whatever the answers, however their quotients are
\* rounded and whichever personas share an id; of every request that sends no
\* rival under the brand's own name (one that does has Share of Voice 100 without
\* a mention, aggregation.py:38,110-113).
THEOREM HeadlinesAreEarned ==
    ASSUME RivalsApart
    PROVE  Spec => []HeadlineIsEarned
  <1>1. AnalysisInv => HeadlineIsEarned
    <2> SUFFICES ASSUME AnalysisInv, report # <<>>
                 PROVE  LET page == report[1]
                            withNone == Composite(page.presence, page.sov, page.ranking, page.tone, 0, FALSE)
                            withZero == Composite(page.presence, page.sov, page.ranking, page.tone, 0, TRUE)
                        IN  /\ page.score \in 0..100
                            /\ page.mentioned = 0 => page.score <= IF page.measured = 0 THEN 0 ELSE 10
                            /\ page.score >= 90 => page.presence >= 60 /\ page.sov >= 60
                            /\ \A none \in withNone : \E zero \in withZero : zero <= none
      BY DEF HeadlineIsEarned
    <2> DEFINE page == report[1]
               p == page.presence
               s == page.sov
               r == page.ranking
               t == page.tone
               a == page.authority
               has == page.measured > 0
    <2>1. PICK named : PageHolds(page, named)
      BY PageIs
    <2>2. /\ p \in 0..100 /\ s \in 0..100 /\ r \in 0..100 /\ t \in 0..100 /\ a \in 0..100
          /\ page.mentioned = 0 => p = 0 /\ s = 0 /\ r = 0 /\ t = 0
          /\ page.measured \in Nat
      <3>1. page.mentioned = Len(Mentioning(Exchanges))
        BY <2>1 DEF PageHolds
      <3>2. QED
        BY <2>1, <3>1, ScoresAre
    <2>3. page.score \in Composite(p, s, r, t, a, has)
      BY <2>1 DEF PageHolds
    <2>4. has \in BOOLEAN /\ (has <=> page.measured # 0)
      BY <2>2
    <2> HIDE DEF page, p, s, r, t, a, has
    <2>5. /\ page.score \in 0..100
          /\ p = 0 /\ s = 0 /\ r = 0 /\ t = 0 => (has => page.score <= 10) /\ (~has => page.score <= 0)
          /\ page.score >= 90 => p >= 60 /\ s >= 60
      <3> DEFINE q == page.score
      <3>1. CASE has
        <4>1. q \in Nearest(Weighed(p, s, r, t) + a, 10)
          BY <2>3, <3>1 DEF Composite, Weighed
        <4> HIDE DEF q
        <4>2. ScoreFits(q, p, s, r, t, 10)
          BY <2>2, <4>1, CompositeIs
        <4>3. QED
          BY <3>1, <4>2 DEF ScoreFits, q
      <3>2. CASE ~has
        <4>1. q \in Nearest(Weighed(p, s, r, t), 9)
          BY <2>3, <3>2 DEF Composite, Weighed
        <4> HIDE DEF q
        <4>2. ScoreFits(q, p, s, r, t, 0)
          BY <2>2, <4>1, CompositeIs
        <4>3. QED
          BY <3>2, <4>2 DEF ScoreFits, q
      <3>3. QED
        BY <2>4, <3>1, <3>2
    <2>6. page.mentioned = 0 => page.score <= IF page.measured = 0 THEN 0 ELSE 10
      BY <2>2, <2>4, <2>5
    <2>7. \A none \in Composite(p, s, r, t, 0, FALSE) : \E zero \in Composite(p, s, r, t, 0, TRUE) : zero <= none
      BY <2>2, LeavingOutHelps
    <2>8. QED
      BY <2>5, <2>6, <2>7 DEF page, p, s, r, t
  <1>2. QED
    BY <1>1, AnalysisInvHolds, PTL

\* Every number of a card and of the page agrees with the prompts it counts, and
\* with the others, and the product shares are of one whole (aggregation.py and
\* pipeline.py, _aggregate), for every answer, reply and failure; of every request
\* in which no two personas share an id and no rival has the brand's name.
THEOREM AllNumbersAgree ==
    ASSUME IdsApart, RivalsApart
    PROVE  Spec => []NumbersAgree
  <1>1. ASSUME AnalysisInv, report # <<>>
        PROVE  LET page == report[1]
                   shown == {s \in ToSet(Personas) : persona[s] = "done"}
                   naming == {p \in Prompts : call[p] = "done" /\ exchange[p].mentioned}
                   mentions == Total(page.counts)
               IN  /\ page.mentioned = page.counts[1]
                   /\ page.mentioned = Cardinality(naming)
                   /\ page.total = Cardinality(DOMAIN exchange)
                   /\ page.failedPersonas = Cardinality(ToSet(Personas) \ shown)
                   /\ page.total + page.failedPrompts
                           = Cardinality(UNION {ToSet(PromptsOf[s]) : s \in shown})
                   /\ \A i \in DOMAIN page.counts : page.counts[i] <= page.total
                   /\ mentions = 0 => Total(page.shares) = 0
                   /\ mentions > 0 => /\ 2 * (Total(page.shares) - 1000) <= Len(page.counts)
                                      /\ 2 * (1000 - Total(page.shares)) <= Len(page.counts)
                   /\ page.presence = 0 <=> page.sov = 0
                   /\ page.sov = 100 <=> page.counts[1] > 0 /\ page.topCompetitor \in {<<>>} \cup
                           {ProductNames[i] : i \in {k \in DOMAIN page.counts : page.counts[k] <= page.counts[1]}}
                   /\ (\E s \in shown : summary[s].mentioned) <=> page.presence > 0
                   /\ page.presence > 0 => page.sentiment \in {exchange[p].sentiment : p \in naming}
    <2> DEFINE page == report[1]
               m == Len(Mentioning(Exchanges))
               E == Exchanges
               T == {exchange[p] : p \in DOMAIN exchange}
    <2>1. PICK named : PageHolds(page, named)
      BY <1>1, PageIs
    <2>2. /\ page.mentioned = m /\ page.total = Len(E) /\ page.sentiment = SentimentOf(E)
          /\ page.failedPrompts = FailedPrompts(Results) /\ page.failedPersonas = Len(Personas) - Len(Results)
      BY <2>1 DEF PageHolds
    <2>3. /\ page.presence \in 0..100 /\ (page.presence = 0 <=> m = 0) /\ (page.sov = 0 <=> m = 0)
          /\ page.sov = 100 <=> page.counts[1] > 0 /\ page.topCompetitor \in {<<>>} \cup
                    {ProductNames[i] : i \in {k \in DOMAIN page.counts : page.counts[k] <= page.counts[1]}}
          /\ m \in Nat /\ page.counts[1] = m
          /\ \A i \in DOMAIN page.counts : page.counts[i] <= page.total
          /\ Total(page.counts) = 0 => Total(page.shares) = 0
          /\ Total(page.counts) > 0 => /\ 2 * (Total(page.shares) - 1000) <= Len(page.counts)
                                       /\ 2 * (1000 - Total(page.shares)) <= Len(page.counts)
      BY <1>1, <2>1, ScoresAre
    <2>4. \A s \in ToSet(Personas) : persona[s] # "running"
      BY <1>1, PageIs
    <2>5. /\ E \in Seq(T) /\ Len(E) = Cardinality(DOMAIN exchange) /\ m = Cardinality(NamingPrompts)
          /\ Naming(E) = {exchange[p] : p \in NamingPrompts}
      BY <1>1, <2>4, PageCounts
    <2>6. Len(E) + FailedPrompts(Results) = Cardinality(UNION {ToSet(PromptsOf[s]) : s \in DonePersonas})
      BY <1>1, PageTells
    <2>7. Len(Personas) - Len(Results) = Cardinality(ToSet(Personas) \ DonePersonas)
      BY ShownIs
    <2>8. (\E s \in DonePersonas : summary[s].mentioned) <=> NamingPrompts # {}
      BY <1>1, <2>4, CardsName
    <2>9. m = 0 <=> NamingPrompts = {}
      <3>1. IsFiniteSet(NamingPrompts)
        BY PromptsAreFew, FS_Subset DEF NamingPrompts
      <3>2. QED
        BY <2>5, <3>1, FS_EmptySet
    <2> HIDE DEF page, m, T, E
    <2>10. page.presence > 0 <=> NamingPrompts # {}
      <3> DEFINE p == page.presence
      <3> HIDE DEF p
      <3>1. p \in 0..100 /\ (p = 0 <=> m = 0)
        BY <2>3 DEF p
      <3>2. p > 0 <=> NamingPrompts # {}
        BY <2>9, <3>1
      <3>3. QED
        BY <3>2 DEF p
    <2>11. NamingPrompts # {} => page.sentiment \in {exchange[p].sentiment : p \in NamingPrompts}
      <3> SUFFICES ASSUME NamingPrompts # {} PROVE page.sentiment \in {exchange[p].sentiment : p \in NamingPrompts}
        OBVIOUS
      <3>1. Naming(E) # {}
        BY <2>5
      <3>2. SentimentOf(E) \in {e.sentiment : e \in Naming(E)}
        BY <2>5, <3>1, SentimentIs
      <3>3. QED
        BY <2>2, <2>5, <3>2
    <2>12. /\ page.mentioned = page.counts[1] /\ page.mentioned = Cardinality(NamingPrompts)
           /\ page.total = Cardinality(DOMAIN exchange)
           /\ page.failedPersonas = Cardinality(ToSet(Personas) \ DonePersonas)
           /\ page.total + page.failedPrompts = Cardinality(UNION {ToSet(PromptsOf[s]) : s \in DonePersonas})
           /\ page.presence = 0 <=> page.sov = 0
      BY <2>2, <2>3, <2>5, <2>6, <2>7
    <2>13. /\ (\E s \in DonePersonas : summary[s].mentioned) <=> page.presence > 0
           /\ page.presence > 0 => page.sentiment \in {exchange[p].sentiment : p \in NamingPrompts}
      BY <2>8, <2>10, <2>11
    <2>14. QED
      BY <2>3, <2>12, <2>13 DEF page, DonePersonas, NamingPrompts
  <1>2. AnalysisInv => NumbersAgree
    BY <1>1, CardsAgree DEF NumbersAgree
  <1>3. QED
    BY <1>2, AnalysisInvHolds, PTL
===============================================================================
