-------------------------- MODULE Grounding_proof --------------------------
(***************************************************************************)
(* Proofs about Grounding: for any questions, searches, pages, answers and *)
(* caps, whichever stage fails or fails open, what is shown is vouched for *)
(* and measured on the page it links, thin coverage is said, and the paid  *)
(* reader is a last resort.                                                *)
(***************************************************************************)
EXTENDS Grounding, Lists_proof

-----------------------------------------------------------------------------
(* What the screen lets through.                                           *)

\* The pages a source may link, by what the search said.
CleanPages(r) ==
    {p \in Pages \ OwnPages :
        \/ \E s \in ToSet(r.ran) \ Leaky : p \in ToSet(r.results[s].pages)
        \/ p \in ToSet(r.cited) /\ \A s \in Leaky \cap ToSet(r.ran) : p \notin ToSet(r.results[s].pages)}

LEMMA ResponseIsWhole ==
    ASSUME NEW r \in Responses
    PROVE  /\ r.ran \in Seq(Searches) /\ r.cited \in Seq(Pages)
           /\ \A s \in ToSet(r.ran) :
                /\ r.results[s].pages \in Seq(Pages)
                /\ r.results[s].ok \/ r.results[s].pages = <<>>
  BY GroundingAssumption

\* Every hit came from one search that ran, or was quoted.
HitsOf(r) ==
    {h \in [page : Pages, by : SUBSET Searches] :
        \/ \E s \in ToSet(r.ran) : h.by = {s} /\ h.page \in ToSet(r.results[s].pages)
        \/ h.page \in ToSet(r.cited) /\ h.by = FoundBy(r, h.page)}

LEMMA HitsHaveAnOrigin ==
    ASSUME NEW r \in Responses
    PROVE  Hits(r) \in Seq(HitsOf(r))
  <1> DEFINE H == HitsOf(r)
             found == [i \in DOMAIN r.ran |-> Results(r, r.ran[i])]
             quoted == [i \in DOMAIN r.cited |-> [page |-> r.cited[i], by |-> FoundBy(r, r.cited[i])]]
  <1>1. /\ r.ran \in Seq(Searches) /\ r.cited \in Seq(Pages)
        /\ \A s \in ToSet(r.ran) : r.results[s].pages \in Seq(Pages)
    BY ResponseIsWhole
  <1>2. Len(r.ran) \in Nat /\ DOMAIN r.ran = 1..Len(r.ran) /\ Len(r.cited) \in Nat /\ DOMAIN r.cited = 1..Len(r.cited)
    BY <1>1, LenProperties
  <1>3. ToSet(r.ran) \subseteq Searches
    BY <1>1, <1>2, ElementOfSeq DEF ToSet
  <1>4. ASSUME NEW s \in ToSet(r.ran) PROVE Results(r, s) \in Seq(H)
    <2> DEFINE list == r.results[s].pages
               e == [i \in 1..Len(list) |-> [page |-> list[i], by |-> {s}]]
    <2>1. list \in Seq(Pages) /\ Len(list) \in Nat /\ DOMAIN list = 1..Len(list)
      BY <1>1, LenProperties
    <2>2. ASSUME NEW i \in 1..Len(list) PROVE [page |-> list[i], by |-> {s}] \in H
      <3>1. list[i] \in Pages /\ list[i] \in ToSet(list) /\ s \in Searches
        BY <1>3, <2>1, ElementOfSeq DEF ToSet
      <3>2. QED
        BY <3>1 DEF HitsOf
    <2> HIDE DEF H
    <2>3. e \in Seq(H)
      BY <2>1, <2>2, IsASeq
    <2>4. QED
      BY <2>1, <2>3 DEF Results
  <1>5. found \in Seq(Seq(H))
    <2>1. \A i \in 1..Len(r.ran) : Results(r, r.ran[i]) \in Seq(H)
      <3> HIDE DEF H
      <3>1. QED
        BY <1>2, <1>4 DEF ToSet
    <2> HIDE DEF H
    <2>2. [i \in 1..Len(r.ran) |-> Results(r, r.ran[i])] \in Seq(Seq(H))
      BY <1>2, <2>1, IsASeq
    <2>3. QED
      BY <1>2, <2>2
  <1>6. quoted \in Seq(H)
    <2>1. ASSUME NEW i \in 1..Len(r.cited) PROVE [page |-> r.cited[i], by |-> FoundBy(r, r.cited[i])] \in H
      <3>1. r.cited[i] \in Pages /\ r.cited[i] \in ToSet(r.cited)
        BY <1>1, <1>2, ElementOfSeq DEF ToSet
      <3>2. FoundBy(r, r.cited[i]) \in SUBSET Searches
        BY <1>3 DEF FoundBy
      <3>3. QED
        BY <3>1, <3>2 DEF HitsOf
    <2> HIDE DEF H
    <2>2. [i \in 1..Len(r.cited) |-> [page |-> r.cited[i], by |-> FoundBy(r, r.cited[i])]] \in Seq(H)
      BY <1>2, <2>1, IsASeq
    <2>3. QED
      BY <1>2, <2>2
  <1> HIDE DEF H, found, quoted
  <1>7. FlattenSeq(found) \in Seq(H)
    BY <1>5, FlattenIn
  <1>8. Hits(r) = FlattenSeq(found) \o quoted
    BY DEF Hits, found, quoted
  <1>9. QED
    BY <1>6, <1>7, <1>8, ConcatProperties DEF H

\* What the screen lets through may be linked.
LEMMA ScreenedIsClean ==
    ASSUME NEW r \in Responses
    PROVE  Screened(r) \in Seq(CleanPages(r))
  <1> DEFINE S == {h \in ToSet(Hits(r)) : ~(h.by # {} /\ h.by \subseteq Leaky) /\ h.page \notin OwnPages}
             kept == Sift(Hits(r), S)
  <1>1. kept \in Seq(HitsOf(r) \cap S)
    BY HitsHaveAnOrigin, SiftKeeps
  <1>2. \A s \in ToSet(r.ran) : r.results[s].ok \/ r.results[s].pages = <<>>
    BY ResponseIsWhole
  <1>3. ASSUME NEW h \in HitsOf(r) \cap S PROVE h.page \in CleanPages(r)
    <2>1. h.page \in Pages \ OwnPages /\ ~(h.by # {} /\ h.by \subseteq Leaky)
      BY DEF HitsOf
    <2>2. CASE \E s \in ToSet(r.ran) : h.by = {s} /\ h.page \in ToSet(r.results[s].pages)
      BY <2>1, <2>2 DEF CleanPages
    <2>3. CASE h.page \in ToSet(r.cited) /\ h.by = FoundBy(r, h.page)
      <3>1. CASE h.by = {}
        <4>1. \A s \in ToSet(r.ran) : h.page \notin ToSet(r.results[s].pages)
          <5>1. \A s \in ToSet(r.ran) : r.results[s].pages = <<>> => h.page \notin ToSet(r.results[s].pages)
            BY DEF ToSet
          <5>2. QED
            BY <1>2, <2>3, <3>1, <5>1 DEF FoundBy
        <4>2. QED
          BY <2>1, <2>3, <4>1 DEF CleanPages
      <3>2. CASE h.by # {}
        BY <2>1, <2>3, <3>2 DEF CleanPages, FoundBy
      <3>3. QED
        BY <3>1, <3>2
    <2>4. QED
      BY <2>2, <2>3 DEF HitsOf
  <1>4. Screened(r) = [i \in DOMAIN kept |-> kept[i].page]
    BY DEF Screened
  <1> HIDE DEF kept
  <1>5. Len(kept) \in Nat /\ DOMAIN kept = 1..Len(kept)
    BY <1>1, LenProperties
  <1>6. ASSUME NEW i \in 1..Len(kept) PROVE kept[i].page \in CleanPages(r)
    BY <1>1, <1>3, ElementOfSeq
  <1>7. [i \in 1..Len(kept) |-> kept[i].page] \in Seq(CleanPages(r))
    BY <1>5, <1>6, IsASeq
  <1>8. QED
    BY <1>4, <1>5, <1>7

-----------------------------------------------------------------------------
(* Evidence and ranking.                                                   *)

\* What is known of a page: a text comes only with a page that is there.
KnownOf(c) ==
    /\ c.text = <<>> \/ \E b \in Bodies : c.text = <<b>>
    /\ c.text # <<>> => c.alive = "yes"

LEMMA LeastIs ==
    ASSUME NEW a \in Nat, NEW b \in Nat
    PROVE  Least(a, b) \in Nat /\ Least(a, b) <= a /\ Least(a, b) <= b /\ (Least(a, b) = a \/ Least(a, b) = b)
  BY DEF Least

\* Mentions are counted, and none in the text means that the text has none.
LEMMA MentionsAreCounted ==
    ASSUME NEW c, KnownOf(c), NEW who \in {"brand", "rival"}
    PROVE  /\ BodyMentions(c, who) \in Nat
           /\ c.text = <<>> => BodyMentions(c, who) = 0
           /\ c.text # <<>> => /\ c.text[1][who] \in Nat
                               /\ BodyMentions(c, who) <= c.text[1][who]
                               /\ BodyMentions(c, who) = 0 => c.text[1][who] = 0
  <1>1. CASE c.text = <<>>
    BY <1>1 DEF BodyMentions
  <1>2. CASE c.text # <<>>
    <2>1. PICK b \in Bodies : c.text = <<b>>
      BY <1>2 DEF KnownOf
    <2>2. b["brand"] \in Nat /\ b["rival"] \in Nat
      BY GroundingAssumption
    <2>3. c.text[1] = b /\ b[who] \in Nat /\ BodyCap \in Nat /\ BodyCap # 0
      BY <2>1, <2>2 DEF BodyCap
    <2>4. BodyMentions(c, who) = Least(b[who], BodyCap)
      BY <1>2, <2>3 DEF BodyMentions
    <2>5. QED
      BY <1>2, <2>3, <2>4, LeastIs
  <1>3. QED
    BY <1>1, <1>2

LEMMA PageMentionsAreCounted ==
    ASSUME NEW p \in Pages, NEW c, KnownOf(c)
    PROVE  PageMentions(p, c) \in Nat
  <1>1. Titles[p] \in Nat /\ Passages[p] \in Nat
    BY GroundingAssumption
  <1>2. BodyMentions(c, "brand") \in Nat
    BY MentionsAreCounted
  <1>3. QED
    BY <1>1, <1>2 DEF PageMentions

\* The ranking orders the pages of a list: it is total, and has no cycle.
LEMMA EvidenceOrders ==
    ASSUME NEW n \in Nat, NEW m, NEW q, NEW ahead,
           \A i \in 1..n : m[i] \in Nat /\ q[i] \in BOOLEAN,
           ahead = [j \in 1..n |-> {i \in 1..n :
                        \/ m[i] > m[j]
                        \/ m[i] = m[j] /\ q[i] /\ ~q[j]
                        \/ m[i] = m[j] /\ q[i] = q[j] /\ i < j}]
    PROVE  StrictOrder(n, ahead)
  <1> DEFINE Over(i, j) == \/ m[i] > m[j]
                           \/ m[i] = m[j] /\ q[i] /\ ~q[j]
                           \/ m[i] = m[j] /\ q[i] = q[j] /\ i < j
  <1>1. DOMAIN ahead = 1..n /\ \A i, j \in 1..n : i \in ahead[j] <=> Over(i, j)
    OBVIOUS
  <1>2. \A i \in 1..n : ahead[i] \subseteq 1..n
    OBVIOUS
  <1>3. \A i \in 1..n : ~Over(i, i)
    OBVIOUS
  <1>4. ASSUME NEW i \in 1..n, NEW j \in 1..n, NEW k \in 1..n, Over(i, j), Over(j, k) PROVE Over(i, k)
    BY <1>4
  <1>5. ASSUME NEW i \in 1..n, NEW j \in 1..n, i # j PROVE Over(i, j) \/ Over(j, i)
    BY <1>5
  <1> HIDE DEF Over
  <1>6. QED
    BY <1>1, <1>2, <1>3, <1>4, <1>5 DEF StrictOrder

\* So does a count alone.
LEMMA CountOrders ==
    ASSUME NEW n \in Nat, NEW m, NEW ahead,
           \A i \in 1..n : m[i] \in Nat,
           ahead = [j \in 1..n |-> {i \in 1..n : m[i] > m[j] \/ (m[i] = m[j] /\ i < j)}]
    PROVE  StrictOrder(n, ahead)
  <1> DEFINE Over(i, j) == m[i] > m[j] \/ (m[i] = m[j] /\ i < j)
  <1>1. DOMAIN ahead = 1..n /\ \A i, j \in 1..n : i \in ahead[j] <=> Over(i, j)
    OBVIOUS
  <1>2. \A i \in 1..n : ahead[i] \subseteq 1..n
    OBVIOUS
  <1>3. \A i \in 1..n : ~Over(i, i)
    OBVIOUS
  <1>4. ASSUME NEW i \in 1..n, NEW j \in 1..n, NEW k \in 1..n, Over(i, j), Over(j, k) PROVE Over(i, k)
    BY <1>4
  <1>5. ASSUME NEW i \in 1..n, NEW j \in 1..n, i # j PROVE Over(i, j) \/ Over(j, i)
    BY <1>5
  <1> HIDE DEF Over
  <1>6. QED
    BY <1>1, <1>2, <1>3, <1>4, <1>5 DEF StrictOrder

LEMMA RankPagesOrders ==
    ASSUME NEW P \in SUBSET Pages, NEW s \in Seq(P), NEW check, \A p \in P : KnownOf(check[p])
    PROVE  /\ RankPages(s, check) \in Seq(P) /\ Len(RankPages(s, check)) = Len(s)
           /\ ToSet(RankPages(s, check)) = ToSet(s)
           /\ \A k, l \in 1..Len(s) : k < l =>
                LET a == RankPages(s, check)[k]
                    b == RankPages(s, check)[l]
                IN  PageMentions(b, check[b]) <= PageMentions(a, check[a])
  <1> DEFINE n == Len(s)
             M(p) == PageMentions(p, check[p])
             m == [i \in 1..n |-> M(s[i])]
             q == [i \in 1..n |-> Quoted(s[i])]
             ahead == [j \in 1..n |-> {i \in 1..n :
                        \/ m[i] > m[j]
                        \/ m[i] = m[j] /\ q[i] /\ ~q[j]
                        \/ m[i] = m[j] /\ q[i] = q[j] /\ i < j}]
             A == Arranged(ahead)
             R == RankPages(s, check)
  <1>1. n \in Nat /\ DOMAIN s = 1..n /\ \A i \in 1..n : s[i] \in P
    BY LenProperties, ElementOfSeq
  <1>2. \A p \in P : M(p) \in Nat
    BY PageMentionsAreCounted
  <1>3. R = [k \in 1..n |-> s[A[k]]]
    <2>1. ahead = [j \in DOMAIN s |-> {i \in DOMAIN s :
                        \/ M(s[i]) > M(s[j])
                        \/ M(s[i]) = M(s[j]) /\ Quoted(s[i]) /\ ~Quoted(s[j])
                        \/ M(s[i]) = M(s[j]) /\ Quoted(s[i]) = Quoted(s[j]) /\ i < j}]
      <3> HIDE DEF M, n
      <3>1. QED
        BY <1>1
    <2> HIDE DEF ahead, m, q, n
    <2>2. QED
      BY <1>1, <2>1 DEF RankPages
  <1> HIDE DEF M, n, R
  <1>4. StrictOrder(n, ahead)
    <2>1. \A i \in 1..n : m[i] \in Nat /\ q[i] \in BOOLEAN
      BY <1>1, <1>2 DEF Quoted
    <2> HIDE DEF m, q
    <2>2. QED
      BY <1>1, <2>1, EvidenceOrders
  <1>5. \A i, j \in 1..n : i \in ahead[j] => M(s[j]) <= M(s[i])
    BY <1>1, <1>2
  <1> HIDE DEF ahead
  <1>6. /\ A \in [1..n -> 1..n]
        /\ \A i \in 1..n : \E k \in 1..n : A[k] = i
        /\ \A k, l \in 1..n : k < l => A[k] \in ahead[A[l]]
    BY <1>1, <1>4, ArrangedIsInOrder
  <1> HIDE DEF A
  <1>7. \A k \in 1..n : s[A[k]] \in P
    BY <1>1, <1>6
  <1>8. R \in Seq(P) /\ Len(R) = n /\ DOMAIN R = 1..n /\ \A k \in 1..n : R[k] = s[A[k]]
    <2>1. [k \in 1..n |-> s[A[k]]] \in Seq(P)
      BY <1>1, <1>7, IsASeq
    <2>2. QED
      BY <1>1, <1>3, <2>1
  <1>9. ToSet(R) = ToSet(s)
    <2>1. \A i \in 1..n : \E k \in 1..n : R[k] = s[i]
      BY <1>6, <1>8
    <2>2. \A k \in 1..n : A[k] \in 1..n
      BY <1>6
    <2>3. ASSUME NEW x \in ToSet(R) PROVE x \in ToSet(s)
      BY <1>1, <1>8, <2>2 DEF ToSet
    <2>4. ASSUME NEW x \in ToSet(s) PROVE x \in ToSet(R)
      <3>1. PICK i \in 1..n : x = s[i]
        BY <1>1 DEF ToSet
      <3>2. QED
        BY <1>8, <2>1, <3>1 DEF ToSet
    <2>5. QED
      BY <2>3, <2>4
  <1>10. ASSUME NEW k \in 1..n, NEW l \in 1..n, k < l PROVE M(R[l]) <= M(R[k])
    <2>1. A[k] \in 1..n /\ A[l] \in 1..n /\ A[k] \in ahead[A[l]]
      BY <1>6, <1>10
    <2>2. QED
      BY <1>5, <1>8, <2>1
  <1>11. QED
    BY <1>8, <1>9, <1>10 DEF n, R, M

LEMMA FirstFewIs ==
    ASSUME NEW T, NEW s \in Seq(T), NEW n \in Nat
    PROVE  /\ FirstFew(s, n) \in Seq(T) /\ Len(FirstFew(s, n)) <= n
           /\ ToSet(FirstFew(s, n)) \subseteq ToSet(s)
  <1> DEFINE k == Least(n, Len(s))
             F == SubSeq(s, 1, k)
  <1>1. Len(s) \in Nat /\ DOMAIN s = 1..Len(s)
    BY LenProperties
  <1>2. k \in Nat /\ k <= n /\ k \in 0..Len(s)
    <2>1. \A l \in Nat : Least(n, l) \in 0..l /\ Least(n, l) <= n
      BY DEF Least
    <2>2. QED
      BY <1>1, <2>1
  <1> HIDE DEF k
  <1>3. F \in Seq(T) /\ Len(F) = k /\ \A i \in 1..k : F[i] = s[i]
    BY <1>2, SubSeqFromStart
  <1>4. DOMAIN F = 1..k /\ 1..k \subseteq 1..Len(s)
    BY <1>1, <1>2, <1>3, LenProperties
  <1>5. ToSet(F) \subseteq ToSet(s)
    BY <1>1, <1>3, <1>4 DEF ToSet
  <1>6. FirstFew(s, n) = F
    BY DEF FirstFew, k
  <1>7. QED
    BY <1>2, <1>3, <1>5, <1>6

-----------------------------------------------------------------------------
(* The invariant, and what it says of the pages to check and to read.      *)

\* Where a run is, and what it has grouped: clean pages, each with its host.
GroupsInv ==
    /\ stage \in {"search", "filter", "enrich", "check", "fallback", "measure", "done"}
    /\ response \in Responses \cup {NoResponse}
    /\ stage \notin {"search", "done"} => response \in Responses
    /\ order \in Seq(Domains) /\ DOMAIN pages = ToSet(order)
    /\ \A d \in DOMAIN pages : pages[d] \in Seq(CleanPages(response) \cap On(d)) /\ pages[d] # <<>>
    /\ stage \in {"search", "filter"} => order = <<>>
    /\ DOMAIN origin \in {{}, ToSet(order)}

\* What has been checked and read.
ChecksInv ==
    /\ DOMAIN checks \subseteq Pages /\ \A p \in DOMAIN checks : KnownOf(checks[p])
    /\ stage \in {"fallback", "measure"} => DOMAIN checks = CandidatePages
    /\ fetched \subseteq DOMAIN checks /\ Cardinality(fetched) <= MaxFetched
    /\ stage \in {"search", "filter", "enrich", "check", "fallback"} => fetched = {}

\* What is shown, once the run has returned.
ShownInv ==
    /\ stage # "done" => sources = <<>> /\ sitelist = {}
    /\ DOMAIN sources \subseteq Domains /\ sitelist \subseteq Domains /\ unreadable \in Nat
    /\ SourcesAreVouchedFor /\ BadgeIsMeasured /\ ThinCoverageIsSaid

GroundingInv == GroupsInv /\ ChecksInv /\ ShownInv

LEMMA ChecksAreKnown ==
    ASSUME GroundingInv
    PROVE  \A p : KnownOf(CheckOf(p)) /\ KnownOf(Unread)
  BY DEF GroundingInv, ChecksInv, CheckOf, KnownOf, Unread

\* The pages a domain is judged by are its own, and clean.
LEMMA CheckedAreClean ==
    ASSUME GroundingInv, NEW d \in DOMAIN pages
    PROVE  /\ Checked(d) \in Seq(CleanPages(response) \cap On(d))
           /\ ToSet(Checked(d)) \subseteq CleanPages(response) \cap On(d)
  <1> DEFINE P == CleanPages(response) \cap On(d)
  <1>1. P \in SUBSET Pages /\ pages[d] \in Seq(P)
    BY DEF GroundingInv, GroupsInv, CleanPages
  <1>2. \A p \in P : KnownOf(NotRead[p])
    BY <1>1, ChecksAreKnown DEF NotRead
  <1> HIDE DEF P
  <1>3. Ranked(d) \in Seq(P)
    BY <1>1, <1>2, RankPagesOrders DEF Ranked
  <1>4. Checked(d) \in Seq(P)
    BY <1>3, FirstFewIs, GroundingAssumption DEF Checked
  <1>5. ToSet(Checked(d)) \subseteq P
    BY <1>4, SeqOfItsItems
  <1>6. QED
    BY <1>4, <1>5 DEF P

\* A domain that is kept was said to be independent.
LEMMA KeptAreIndependent ==
    ASSUME GroundingInv
    PROVE  /\ KeptDomains \in Seq(ToSet(order))
           /\ \A d \in ToSet(KeptDomains) : d \in DOMAIN pages /\ d \in Domains /\ origin[d] = "independent"
  <1>1. order \in Seq(Domains) /\ DOMAIN pages = ToSet(order)
    BY DEF GroundingInv, GroupsInv
  <1>2. ToSet(order) \subseteq Domains
    BY <1>1, SeqOfItsItems
  <1> DEFINE S == {d \in DOMAIN origin : origin[d] = "independent"}
  <1>3. \A d \in S : origin[d] = "independent"
    OBVIOUS
  <1> HIDE DEF S
  <1>4. Sift(order, S) \in Seq(ToSet(order)) /\ ToSet(Sift(order, S)) = ToSet(order) \cap S
    BY <1>1, SiftIs
  <1>5. KeptDomains = Sift(order, S)
    BY DEF KeptDomains, S
  <1>6. QED
    BY <1>1, <1>2, <1>3, <1>4, <1>5

\* A page to check is one of the best of its own domain.
LEMMA CandidatesByDomain ==
    ASSUME GroundingInv
    PROVE  /\ CandidatePages \subseteq Pages
           /\ \A p \in CandidatePages : DomainOf[p] \in ToSet(KeptDomains) /\ p \in ToSet(Checked(DomainOf[p]))
           /\ \A d \in ToSet(KeptDomains) : ToSet(Checked(d)) \subseteq CandidatePages
  <1>1. \A d \in ToSet(KeptDomains) : ToSet(Checked(d)) \subseteq CleanPages(response) \cap On(d)
    BY KeptAreIndependent, CheckedAreClean
  <1>2. \A d \in ToSet(KeptDomains) : \A p \in ToSet(Checked(d)) : p \in Pages /\ DomainOf[p] = d
    BY <1>1 DEF On
  <1>3. QED
    BY <1>2 DEF CandidatePages

LEMMA CandidatesStand ==
    ASSUME UNCHANGED <<response, pages, order, origin>>
    PROVE  CandidatePages' = CandidatePages
  <1>1. KeptDomains' = KeptDomains
    BY DEF KeptDomains
  <1>2. \A d : Checked(d)' = Checked(d)
    BY DEF Checked, Ranked, RankPages, Quoted, PageMentions, NotRead
  <1>3. QED
    BY <1>1, <1>2 DEF CandidatePages

-----------------------------------------------------------------------------
(* The pages the paid reader is sent.                                      *)

Blocked(d) ==
    /\ \A p \in ToSet(Checked(d)) : ~Readable(CheckOf(p))
    /\ \E p \in ToSet(Checked(d)) : NeedsFallback(CheckOf(p))

LEMMA TargetIsUnread ==
    ASSUME GroundingInv, NEW d \in ToSet(KeptDomains), Blocked(d)
    PROVE  Target(d) \in ToSet(Checked(d)) /\ NeedsFallback(CheckOf(Target(d)))
  <1> DEFINE S == {p \in Pages : NeedsFallback(CheckOf(p))}
             P == CleanPages(response) \cap On(d)
  <1>1. Checked(d) \in Seq(P) /\ ToSet(Checked(d)) \subseteq Pages
    <2>1. P \subseteq Pages
      BY DEF CleanPages
    <2>2. QED
      BY <2>1, KeptAreIndependent, CheckedAreClean
  <1>2. \E p \in ToSet(Checked(d)) : p \in S
    BY <1>1 DEF Blocked
  <1>3. \A p \in S : NeedsFallback(CheckOf(p))
    OBVIOUS
  <1> HIDE DEF S, P
  <1>4. Sift(Checked(d), S) \in Seq(P) /\ ToSet(Sift(Checked(d), S)) = ToSet(Checked(d)) \cap S
    BY <1>1, SiftIs
  <1>5. Head(Sift(Checked(d), S)) \in ToSet(Checked(d)) \cap S
    BY <1>2, <1>4, SeqMeets
  <1>6. Target(d) = Head(Sift(Checked(d), S))
    BY DEF Target, S
  <1>7. QED
    BY <1>3, <1>5, <1>6

LEMMA TargetsAreOfBlocked ==
    ASSUME GroundingInv
    PROVE  /\ Cardinality(ToSet(FallbackTargets)) <= MaxFetched
           /\ \A p \in ToSet(FallbackTargets) : \E d \in ToSet(KeptDomains) : Blocked(d) /\ p = Target(d)
  <1> DEFINE B == {d \in ToSet(KeptDomains) : Blocked(d)}
             blocked == Sift(KeptDomains, B)
             n == Len(blocked)
             m == [i \in 1..n |-> Len(pages[blocked[i]])]
             ahead == [j \in DOMAIN blocked |-> {i \in DOMAIN blocked :
                            \/ Len(pages[blocked[i]]) > Len(pages[blocked[j]])
                            \/ Len(pages[blocked[i]]) = Len(pages[blocked[j]]) /\ i < j}]
             sorted == Arranged(ahead)
             X == {Target(d) : d \in B}
             list == [k \in DOMAIN blocked |-> Target(blocked[sorted[k]])]
  <1>1. FallbackTargets = FirstFew(list, MaxFetched)
    BY DEF FallbackTargets, Blocked
  <1>2. KeptDomains \in Seq(ToSet(order)) /\ \A d \in B : d \in DOMAIN pages
    BY KeptAreIndependent
  <1>3. \A p \in X : \E d \in ToSet(KeptDomains) : Blocked(d) /\ p = Target(d)
    OBVIOUS
  <1>4. \A d \in DOMAIN pages : Len(pages[d]) \in Nat
    BY LenProperties DEF GroundingInv, GroupsInv
  <1>5. blocked \in Seq(ToSet(order) \cap B)
    <2> HIDE DEF B
    <2>1. QED
      BY <1>2, SiftKeeps
  <1> HIDE DEF blocked
  <1>6. n \in Nat /\ DOMAIN blocked = 1..n /\ \A i \in 1..n : blocked[i] \in B
    BY <1>5, LenProperties, ElementOfSeq
  <1> HIDE DEF n
  <1>7. StrictOrder(n, ahead)
    <2>1. \A i \in 1..n : m[i] \in Nat
      <3> HIDE DEF B
      <3>1. QED
        BY <1>2, <1>4, <1>6
    <2>2. ahead = [j \in 1..n |-> {i \in 1..n : m[i] > m[j] \/ (m[i] = m[j] /\ i < j)}]
      <3>1. \A i \in 1..n : m[i] = Len(pages[blocked[i]])
        OBVIOUS
      <3>2. ahead = [j \in 1..n |-> {i \in 1..n :
                            \/ Len(pages[blocked[i]]) > Len(pages[blocked[j]])
                            \/ Len(pages[blocked[i]]) = Len(pages[blocked[j]]) /\ i < j}]
        BY <1>6
      <3> HIDE DEF m, ahead
      <3>3. QED
        BY <3>1, <3>2
    <2> HIDE DEF m, ahead
    <2>3. QED
      BY <1>6, <2>1, <2>2, CountOrders
  <1> HIDE DEF ahead
  <1>8. sorted \in [1..n -> 1..n]
    BY <1>6, <1>7, ArrangedIsInOrder
  <1> HIDE DEF sorted
  <1>9. \A k \in 1..n : Target(blocked[sorted[k]]) \in X
    BY <1>6, <1>8
  <1>10. list \in Seq(X)
    <2> HIDE DEF X
    <2>1. [k \in 1..n |-> Target(blocked[sorted[k]])] \in Seq(X)
      BY <1>6, <1>9, IsASeq
    <2>2. QED
      BY <1>6, <2>1
  <1> HIDE DEF list, X
  <1>11. /\ FallbackTargets \in Seq(X) /\ Len(FallbackTargets) <= MaxFetched
    BY <1>1, <1>10, FirstFewIs, GroundingAssumption
  <1>12. ToSet(FallbackTargets) \subseteq X
    BY <1>11, SeqOfItsItems
  <1>13. Cardinality(ToSet(FallbackTargets)) <= MaxFetched
    <2> DEFINE c == Cardinality(ToSet(FallbackTargets))
               l == Len(FallbackTargets)
    <2>1. c <= l /\ c \in Nat /\ l \in Nat /\ l <= MaxFetched /\ MaxFetched \in Nat
      BY <1>11, ItemsOfSeq, LenProperties, GroundingAssumption
    <2> HIDE DEF c, l
    <2>2. c <= MaxFetched
      BY <2>1
    <2>3. QED
      BY <2>2 DEF c
  <1>14. QED
    BY <1>3, <1>12, <1>13

-----------------------------------------------------------------------------
(* The page a source links.                                                *)

LEMMA BestOfLive ==
    ASSUME GroundingInv, NEW d \in ToSet(KeptDomains), Live(d) # <<>>
    PROVE  LET best == Head(Live(d))
           IN  /\ best \in ToSet(Checked(d)) /\ CheckOf(best).alive # "no"
               /\ \A p \in ToSet(Checked(d)) : CheckOf(p).alive # "no" =>
                        PageMentions(p, CheckOf(p)) <= PageMentions(best, CheckOf(best))
  <1> DEFINE P == CleanPages(response) \cap On(d)
             R == RankPages(Checked(d), Known)
             M(p) == PageMentions(p, CheckOf(p))
  <1>1. P \in SUBSET Pages /\ Checked(d) \in Seq(P)
    BY KeptAreIndependent, CheckedAreClean DEF CleanPages
  <1>2. \A p \in P : Known[p] = CheckOf(p) /\ KnownOf(Known[p]) /\ M(p) \in Nat
    <2>1. \A p \in P : p \in Pages /\ KnownOf(CheckOf(p))
      BY <1>1, ChecksAreKnown
    <2> HIDE DEF P
    <2>2. \A p \in P : Known[p] = CheckOf(p)
      BY <2>1 DEF Known
    <2>3. \A p \in P : M(p) \in Nat
      BY <2>1, PageMentionsAreCounted
    <2>4. QED
      BY <2>1, <2>2, <2>3
  <1> HIDE DEF P
  <1>3. R \in Seq(P) /\ Len(R) = Len(Checked(d)) /\ ToSet(R) = ToSet(Checked(d))
    BY <1>1, <1>2, RankPagesOrders
  <1>4. \A k, l \in 1..Len(R) : k < l => M(R[l]) <= M(R[k])
    <2>1. \A k, l \in 1..Len(Checked(d)) : k < l =>
                PageMentions(R[l], Known[R[l]]) <= PageMentions(R[k], Known[R[k]])
      BY <1>1, <1>2, RankPagesOrders
    <2>2. \A k \in 1..Len(R) : R[k] \in P
      BY <1>3, ElementOfSeq
    <2>3. \A k \in 1..Len(R) : PageMentions(R[k], Known[R[k]]) = M(R[k])
      BY <1>2, <2>2
    <2> HIDE DEF R, M
    <2>4. QED
      BY <1>3, <2>1, <2>3
  <1>5. Live(d) = Sift(R, NotDead)
    BY DEF Live
  <1> HIDE DEF R, M
  <1>6. PICK k \in 1..Len(R) : FirstIn(R, NotDead, k) /\ Head(Live(d)) = R[k]
    BY <1>3, <1>5, SiftHead
  <1>7. R[k] \in P /\ R[k] \in ToSet(Checked(d)) /\ R[k] \in NotDead
    BY <1>3, <1>6, ElementOfSeq, SeqMeets DEF FirstIn
  <1>8. ASSUME NEW p \in ToSet(Checked(d)), CheckOf(p).alive # "no" PROVE M(p) <= M(R[k])
    <2>1. PICK l \in 1..Len(R) : R[l] = p
      BY <1>3, SeqMeets
    <2>2. p \in P /\ p \in NotDead
      <3>1. p \in P
        BY <1>3, <2>1, ElementOfSeq
      <3>2. QED
        BY <1>1, <1>8, <3>1 DEF NotDead
    <2>3. ~(l < k)
      <3>1. k \in Nat /\ l \in Nat /\ (l < k => l \in 1..(k - 1))
        OBVIOUS
      <3>2. QED
        BY <1>6, <2>1, <2>2, <3>1 DEF FirstIn
    <2>4. CASE l = k
      BY <1>2, <2>1, <2>2, <2>4
    <2>5. CASE k < l
      BY <1>4, <2>1, <2>5
    <2>6. QED
      BY <2>3, <2>4, <2>5
  <1>9. QED
    BY <1>6, <1>7, <1>8 DEF NotDead, M

-----------------------------------------------------------------------------
(* The invariant holds, and every stage keeps it.                          *)

LEMMA NothingHasNoPlace == DOMAIN <<>> = {}
  <1>1. <<>> \in Seq({}) /\ Len(<<>>) = 0
    BY EmptySeq
  <1>2. DOMAIN <<>> = 1..0
    BY <1>1, LenProperties
  <1>3. IsFiniteSet(1..0) /\ Cardinality(1..0) = 0
    BY FS_Interval
  <1>4. 1..0 = {}
    BY <1>3, FS_EmptySet
  <1>5. QED
    BY <1>2, <1>4

LEMMA InitInv == Init => GroundingInv
  <1> SUFFICES ASSUME Init PROVE GroundingInv
    OBVIOUS
  <1>1. /\ stage = "search" /\ response = NoResponse
        /\ pages = <<>> /\ order = <<>> /\ origin = <<>> /\ checks = <<>>
        /\ fetched = {} /\ sources = <<>> /\ sitelist = {} /\ unreadable = 0 /\ note = {}
    BY DEF Init
  <1>2. DOMAIN <<>> = {} /\ ToSet(<<>>) = {} /\ Cardinality({}) = 0
    BY FS_EmptySet DEF ToSet
  <1>3. GroupsInv
    <2>1. order \in Seq(Domains)
      BY <1>1
    <2>2. DOMAIN pages = ToSet(order)
      BY <1>1, <1>2
    <2>3. QED
      BY <1>1, <1>2, <2>1, <2>2 DEF GroupsInv
  <1>4. ChecksInv
    BY <1>1, <1>2, GroundingAssumption DEF ChecksInv
  <1>5. ShownInv
    BY <1>1, <1>2 DEF ShownInv, SourcesAreVouchedFor, BadgeIsMeasured, ThinCoverageIsSaid
  <1>6. QED
    BY <1>3, <1>4, <1>5 DEF GroundingInv

\* Until it returns a run shows nothing.
LEMMA NothingIsShown ==
    ASSUME ShownInv, stage # "done", stage' # "done", UNCHANGED <<sources, sitelist, unreadable>>
    PROVE  ShownInv'
  <1>1. sources' = <<>> /\ DOMAIN <<>> = {} /\ sitelist' = {} /\ unreadable' \in Nat
    BY DEF ShownInv
  <1>2. SourcesAreVouchedFor' /\ BadgeIsMeasured' /\ ThinCoverageIsSaid'
    BY <1>1 DEF SourcesAreVouchedFor, BadgeIsMeasured, ThinCoverageIsSaid
  <1>3. QED
    BY <1>1, <1>2 DEF ShownInv

\* A failed stage returns nothing, and says so.
LEMMA GiveUpKeeps ==
    ASSUME GroundingInv, stage # "done",
           NEW why \in {"search failed", "independence unknown", "links unchecked"}, GiveUp(why),
           UNCHANGED <<response, pages, order, origin, checks, fetched>>
    PROVE  GroundingInv'
  <1>1. stage' = "done" /\ note' = {why} /\ UNCHANGED <<sources, sitelist, unreadable>>
    BY DEF GiveUp
  <1>2. GroupsInv'
    BY <1>1 DEF GroundingInv, GroupsInv, CleanPages, On
  <1>3. ChecksInv'
    BY <1>1 DEF GroundingInv, ChecksInv, KnownOf
  <1>4. sources' = <<>> /\ DOMAIN <<>> = {} /\ sitelist' = {} /\ unreadable' \in Nat
    <2>1. sources = <<>> /\ sitelist = {} /\ unreadable \in Nat
      BY DEF GroundingInv, ShownInv
    <2>2. DOMAIN <<>> = {}
      BY NothingHasNoPlace
    <2>3. sources' = sources /\ sitelist' = sitelist /\ unreadable' = unreadable
      BY <1>1
    <2>4. QED
      BY <2>1, <2>2, <2>3
  <1>5. SourcesAreVouchedFor' /\ BadgeIsMeasured' /\ ThinCoverageIsSaid'
    BY <1>1, <1>4 DEF SourcesAreVouchedFor, BadgeIsMeasured, ThinCoverageIsSaid
  <1>6. ShownInv'
    BY <1>1, <1>4, <1>5 DEF ShownInv
  <1>7. QED
    BY <1>2, <1>3, <1>6 DEF GroundingInv

LEMMA SearchKeeps ==
    ASSUME GroundingInv, Search
    PROVE  GroundingInv'
  <1>1. /\ stage = "search" /\ stage' = "filter" /\ response' \in Responses
        /\ UNCHANGED <<pages, order, origin, checks, fetched, sources, sitelist, unreadable, note>>
    BY DEF Search
  <1>2. order = <<>> /\ DOMAIN pages = {}
    BY <1>1 DEF GroundingInv, GroupsInv, ToSet
  <1>3. GroupsInv'
    BY <1>1, <1>2 DEF GroundingInv, GroupsInv
  <1>4. ChecksInv'
    BY <1>1 DEF GroundingInv, ChecksInv, KnownOf
  <1>5. ShownInv'
    BY <1>1, NothingIsShown DEF GroundingInv
  <1>6. QED
    BY <1>3, <1>4, <1>5 DEF GroundingInv

\* What is grouped under a domain is of that domain, and not nothing.
LEMMA ClassifyGroups ==
    ASSUME NEW C \in SUBSET Pages, NEW hits \in Seq(C), Classify(hits)
    PROVE  /\ order' \in Seq(Domains) /\ DOMAIN pages' = ToSet(order')
           /\ \A d \in DOMAIN pages' : pages'[d] \in Seq(C \cap On(d)) /\ pages'[d] # <<>>
  <1> DEFINE hosts == [i \in DOMAIN hits |-> DomainOf[hits[i]]]
  <1>1. Len(hits) \in Nat /\ DOMAIN hits = 1..Len(hits) /\ \A i \in 1..Len(hits) : hits[i] \in C
    BY LenProperties, ElementOfSeq
  <1>2. \A i \in 1..Len(hits) : DomainOf[hits[i]] \in Domains
    BY <1>1 DEF Domains
  <1>3. hosts \in Seq(Domains) /\ Len(hosts) = Len(hits) /\ \A i \in 1..Len(hits) : hosts[i] = DomainOf[hits[i]]
    <2>1. [i \in 1..Len(hits) |-> DomainOf[hits[i]]] \in Seq(Domains)
      BY <1>1, <1>2, IsASeq
    <2>2. QED
      BY <1>1, <2>1
  <1> HIDE DEF hosts
  <1>4. order' = FirstSeen(hosts) /\ pages' = [d \in ToSet(FirstSeen(hosts)) |-> PagesOn(hits, d)]
    BY DEF Classify, Hosts, hosts
  <1>5. FirstSeen(hosts) \in Seq(Domains) /\ ToSet(FirstSeen(hosts)) = ToSet(hosts)
    BY <1>3, FirstSeenHas
  <1>6. ASSUME NEW d \in ToSet(hosts) PROVE PagesOn(hits, d) \in Seq(C \cap On(d)) /\ PagesOn(hits, d) # <<>>
    <2>1. PICK i \in 1..Len(hits) : DomainOf[hits[i]] = d
      BY <1>3, SeqMeets
    <2>2. hits[i] \in ToSet(hits) \cap On(d)
      BY <1>1, <2>1 DEF ToSet, On
    <2>3. Sift(hits, On(d)) \in Seq(C \cap On(d)) /\ hits[i] \in ToSet(Sift(hits, On(d)))
      BY <2>2, SiftKeeps, SiftIs
    <2>4. /\ FirstSeen(Sift(hits, On(d))) \in Seq(C \cap On(d))
          /\ hits[i] \in ToSet(FirstSeen(Sift(hits, On(d))))
      BY <2>3, FirstSeenHas
    <2>5. FirstSeen(Sift(hits, On(d))) # <<>>
      BY <2>4, SeqMeets
    <2>6. QED
      BY <2>4, <2>5 DEF PagesOn
  <1>7. QED
    BY <1>4, <1>5, <1>6

LEMMA FilterKeeps ==
    ASSUME GroundingInv, Filter
    PROVE  GroundingInv'
  <1> DEFINE hits == Screened(response)
             C == CleanPages(response)
  <1>1. /\ stage = "filter" /\ stage' = "enrich"
        /\ UNCHANGED <<response, origin, checks, fetched, sources, sitelist, unreadable, note>>
    BY DEF Filter
  <1>2. response \in Responses /\ order = <<>> /\ C \in SUBSET Pages
    BY <1>1 DEF GroundingInv, GroupsInv, CleanPages
  <1>3. hits \in Seq(C)
    BY <1>2, ScreenedIsClean
  <1>4. PICK some \in Seq(C) : Classify(some)
    <2>1. CASE Classify(hits)
      BY <1>3, <2>1
    <2>2. CASE \E keep \in (SUBSET Domains) \ {{}} : Classify(Sift(hits, {p \in Pages : DomainOf[p] \in keep}))
      <3>1. \A S : Sift(hits, S) \in Seq(C)
        BY <1>3, SiftIs
      <3>2. QED
        BY <2>2, <3>1
    <2>3. QED
      BY <2>1, <2>2 DEF Filter
  <1> HIDE DEF C
  <1>5. /\ order' \in Seq(Domains) /\ DOMAIN pages' = ToSet(order')
        /\ \A d \in DOMAIN pages' : pages'[d] \in Seq(C \cap On(d)) /\ pages'[d] # <<>>
    BY <1>2, <1>4, ClassifyGroups
  <1>6. CleanPages(response)' = C
    BY <1>1 DEF C, CleanPages
  <1>7. DOMAIN origin' = {}
    <2>1. ToSet(order) = {}
      BY <1>2 DEF ToSet
    <2>2. DOMAIN origin = {}
      BY <2>1 DEF GroundingInv, GroupsInv
    <2>3. QED
      BY <1>1, <2>2
  <1>8. GroupsInv'
    BY <1>1, <1>2, <1>5, <1>6, <1>7 DEF GroupsInv, On
  <1>9. ChecksInv'
    BY <1>1 DEF GroundingInv, ChecksInv, KnownOf
  <1>10. ShownInv'
    BY <1>1, NothingIsShown DEF GroundingInv
  <1>11. QED
    BY <1>8, <1>9, <1>10 DEF GroundingInv

LEMMA EnrichKeeps ==
    ASSUME GroundingInv, Enrich
    PROVE  GroundingInv'
  <1>1. /\ stage = "enrich" /\ stage' = "check" /\ DOMAIN origin' = ToSet(order)
        /\ UNCHANGED <<response, pages, order, checks, fetched, sources, sitelist, unreadable, note>>
    BY DEF Enrich
  <1>2. GroupsInv'
    BY <1>1 DEF GroundingInv, GroupsInv, CleanPages, On
  <1>3. ChecksInv'
    BY <1>1 DEF GroundingInv, ChecksInv, KnownOf
  <1>4. ShownInv'
    BY <1>1, NothingIsShown DEF GroundingInv
  <1>5. QED
    BY <1>2, <1>3, <1>4 DEF GroundingInv

LEMMA CheckPagesKeeps ==
    ASSUME GroundingInv, CheckPages
    PROVE  GroundingInv'
  <1> DEFINE Outcomes == UNION {ChecksFor(fetch) : fetch \in Fetches}
  <1>1. /\ stage = "check" /\ stage' = "fallback" /\ checks' \in [CandidatePages -> Outcomes]
        /\ UNCHANGED <<response, pages, order, origin, fetched, sources, sitelist, unreadable, note>>
    BY DEF CheckPages
  <1>2. \A c \in Outcomes : KnownOf(c)
    <2> SUFFICES ASSUME NEW fetch \in Fetches, NEW c \in ChecksFor(fetch) PROVE KnownOf(c)
      OBVIOUS
    <2>1. c.alive = Alive(fetch) /\ c.text \in IF fetch = "html" THEN {<<b>> : b \in Bodies} ELSE {<<>>}
      BY DEF ChecksFor
    <2>2. CASE fetch = "html"
      <3>1. c.alive = "yes"
        BY <2>1, <2>2 DEF Alive
      <3>2. QED
        BY <2>1, <2>2, <3>1 DEF KnownOf
    <2>3. CASE fetch # "html"
      BY <2>1, <2>3 DEF KnownOf
    <2>4. QED
      BY <2>2, <2>3
  <1> HIDE DEF Outcomes
  <1>3. CandidatePages' = CandidatePages
    BY <1>1, CandidatesStand
  <1>4. GroupsInv'
    BY <1>1 DEF GroundingInv, GroupsInv, CleanPages, On
  <1>5. ChecksInv'
    <2>1. DOMAIN checks' = CandidatePages /\ \A p \in DOMAIN checks' : checks'[p] \in Outcomes
      BY <1>1
    <2>2. CandidatePages \subseteq Pages
      BY CandidatesByDomain
    <2>3. \A p \in DOMAIN checks' : KnownOf(checks'[p])
      BY <1>2, <2>1
    <2>4. fetched' = {} /\ Cardinality({}) <= MaxFetched
      BY <1>1, FS_EmptySet, GroundingAssumption DEF GroundingInv, ChecksInv
    <2>5. QED
      BY <1>1, <1>3, <2>1, <2>2, <2>3, <2>4 DEF ChecksInv, KnownOf
  <1>6. ShownInv'
    BY <1>1, NothingIsShown DEF GroundingInv
  <1>7. QED
    BY <1>4, <1>5, <1>6 DEF GroundingInv

\* The pages sent to the paid reader had been checked, and not read.
LEMMA TargetsAreChecked ==
    ASSUME GroundingInv, stage = "fallback", NEW p \in ToSet(FallbackTargets)
    PROVE  /\ p \in DOMAIN checks /\ checks[p].alive # "no"
           /\ \A q \in DOMAIN checks : DomainOf[q] = DomainOf[p] => checks[q].text = <<>>
           /\ \A q \in ToSet(FallbackTargets) : DomainOf[q] = DomainOf[p] => q = p
  <1>1. DOMAIN checks = CandidatePages
    BY DEF GroundingInv, ChecksInv
  <1>2. ASSUME NEW d \in ToSet(KeptDomains), Blocked(d)
        PROVE  /\ Target(d) \in DOMAIN checks /\ Target(d) \in ToSet(Checked(d))
               /\ DomainOf[Target(d)] = d /\ NeedsFallback(CheckOf(Target(d)))
    <2>1. Target(d) \in ToSet(Checked(d)) /\ NeedsFallback(CheckOf(Target(d)))
      BY <1>2, TargetIsUnread
    <2>2. Target(d) \in On(d)
      BY <2>1, KeptAreIndependent, CheckedAreClean
    <2>3. Target(d) \in CandidatePages
      BY <2>1, CandidatesByDomain
    <2>4. QED
      BY <1>1, <2>1, <2>2, <2>3 DEF On
  <1>3. PICK d \in ToSet(KeptDomains) : Blocked(d) /\ p = Target(d)
    BY TargetsAreOfBlocked
  <1>4. p \in DOMAIN checks /\ DomainOf[p] = d /\ NeedsFallback(checks[p])
    BY <1>2, <1>3 DEF CheckOf
  <1>5. ASSUME NEW q \in DOMAIN checks, DomainOf[q] = d PROVE checks[q].text = <<>>
    <2>1. q \in ToSet(Checked(d))
      BY <1>1, <1>5, CandidatesByDomain
    <2>2. ~Readable(checks[q])
      BY <1>3, <2>1 DEF Blocked, CheckOf
    <2>3. KnownOf(checks[q])
      BY DEF GroundingInv, ChecksInv
    <2>4. QED
      BY <2>2, <2>3 DEF Readable, KnownOf
  <1>6. ASSUME NEW q \in ToSet(FallbackTargets), DomainOf[q] = d PROVE q = p
    <2>1. PICK e \in ToSet(KeptDomains) : Blocked(e) /\ q = Target(e)
      BY TargetsAreOfBlocked
    <2>2. e = d
      BY <1>2, <1>6, <2>1
    <2>3. QED
      BY <1>3, <2>1, <2>2
  <1>7. QED
    BY <1>4, <1>5, <1>6 DEF NeedsFallback

LEMMA ReadBlockedKeeps ==
    ASSUME GroundingInv, ReadBlocked
    PROVE  GroundingInv'
  <1>1. /\ stage = "fallback" /\ stage' = "measure" /\ fetched' = ToSet(FallbackTargets)
        /\ UNCHANGED <<response, pages, order, origin, sources, sitelist, unreadable, note>>
    BY DEF ReadBlocked
  <1>2. PICK read \in SUBSET fetched' : \E text \in [read -> Bodies] :
            checks' = [p \in DOMAIN checks |->
                        IF p \in read THEN [alive |-> "yes", text |-> <<text[p]>>] ELSE checks[p]]
    BY DEF ReadBlocked
  <1>3. PICK text \in [read -> Bodies] :
            checks' = [p \in DOMAIN checks |->
                        IF p \in read THEN [alive |-> "yes", text |-> <<text[p]>>] ELSE checks[p]]
    BY <1>2
  <1>4. fetched' \subseteq DOMAIN checks
    BY <1>1, TargetsAreChecked
  <1>5. /\ DOMAIN checks' = DOMAIN checks
        /\ \A p \in read : checks'[p] = [alive |-> "yes", text |-> <<text[p]>>]
        /\ \A p \in DOMAIN checks \ read : checks'[p] = checks[p]
    BY <1>2, <1>3, <1>4
  <1>6. CandidatePages' = CandidatePages
    BY <1>1, CandidatesStand
  <1>7. GroupsInv'
    BY <1>1 DEF GroundingInv, GroupsInv, CleanPages, On
  <1>8. \A p \in DOMAIN checks' : KnownOf(checks'[p])
    <2>1. ASSUME NEW p \in read PROVE KnownOf(checks'[p])
      <3>1. text[p] \in Bodies
        BY <1>3
      <3> DEFINE c == [alive |-> "yes", text |-> <<text[p]>>]
      <3>2. checks'[p] = c
        BY <1>5
      <3>3. KnownOf(c)
        BY <3>1 DEF KnownOf
      <3>4. QED
        BY <3>2, <3>3
    <2>2. \A p \in DOMAIN checks : KnownOf(checks[p])
      BY DEF GroundingInv, ChecksInv
    <2>3. QED
      BY <1>5, <2>1, <2>2
  <1>9. ChecksInv'
    <2>1. DOMAIN checks = CandidatePages /\ DOMAIN checks \subseteq Pages
      BY <1>1 DEF GroundingInv, ChecksInv
    <2>2. Cardinality(fetched') <= MaxFetched
      BY <1>1, TargetsAreOfBlocked
    <2>3. QED
      BY <1>1, <1>4, <1>5, <1>6, <1>8, <2>1, <2>2 DEF ChecksInv, KnownOf
  <1>10. ShownInv'
    BY <1>1, NothingIsShown DEF GroundingInv
  <1>11. QED
    BY <1>7, <1>9, <1>10 DEF GroundingInv

-----------------------------------------------------------------------------
(* What the last stage shows.                                              *)

\* What Measured says of a domain that is shown.
LEMMA ShownIsMeasured ==
    ASSUME GroundingInv, stage = "measure", NEW d \in ToSet(KeptDomains),
           Live(d) # <<>>, Measured(d).visibility # UNVERIFIED
    PROVE  LET shown == Measured(d)
               page == shown.page
               text == checks[page].text
           IN  /\ DomainOf[page] = d /\ page \in CleanPages(response)
               /\ page \in DOMAIN checks /\ checks[page].alive # "no"
               /\ shown.visibility \in {"Visible", "Weak visibility", "Not visible"}
               /\ shown.visibility = "Not visible" =>
                        text # <<>> /\ text[1].brand = 0 /\ Titles[page] = 0
               /\ shown.visibility = "Visible" =>
                        Titles[page] + Passages[page] + (IF text = <<>> THEN 0 ELSE text[1].brand) >= 2
               /\ shown.gap = "open" => text[1].rival = 0
               /\ \A p \in DOMAIN checks : DomainOf[p] = d /\ checks[p].alive # "no" =>
                        PageMentions(p, checks[p]) <= shown.mentions
  <1> DEFINE page == Head(Live(d))
             c == checks[page]
             text == c.text
             m == PageMentions(page, c)
             body == BodyMentions(c, "brand")
             rivals == RivalMentions(c)
             v == Visibility(m, Readable(c))
  <1>1. /\ page \in ToSet(Checked(d)) /\ CheckOf(page).alive # "no"
        /\ \A p \in ToSet(Checked(d)) : CheckOf(p).alive # "no" =>
                PageMentions(p, CheckOf(p)) <= PageMentions(page, CheckOf(page))
    BY BestOfLive
  <1>2. DOMAIN checks = CandidatePages
    BY DEF GroundingInv, ChecksInv
  <1> HIDE DEF page
  <1>3. page \in CleanPages(response) /\ page \in On(d) /\ page \in CandidatePages
    BY <1>1, KeptAreIndependent, CheckedAreClean, CandidatesByDomain
  <1>4. page \in Pages /\ DomainOf[page] = d /\ CheckOf(page) = c /\ KnownOf(c)
    BY <1>2, <1>3 DEF On, CheckOf, GroundingInv, ChecksInv
  <1>5. /\ Measured(d).page = page /\ Measured(d).visibility = v /\ Measured(d).mentions = m
        /\ Measured(d).gap = Gap(v, rivals)
    BY <1>4 DEF Measured, page
  <1> HIDE DEF c
  <1>6. /\ Titles[page] \in Nat /\ Passages[page] \in Nat /\ body \in Nat /\ rivals \in Nat
        /\ text = <<>> => body = 0 /\ rivals = 0
        /\ text # <<>> => /\ text[1].brand \in Nat /\ text[1].rival \in Nat
                          /\ body <= text[1].brand /\ (body = 0 => text[1].brand = 0)
                          /\ (rivals = 0 => text[1].rival = 0)
    <2>1. Titles[page] \in Nat /\ Passages[page] \in Nat
      BY <1>4, GroundingAssumption
    <2>2. /\ body \in Nat
          /\ c.text = <<>> => body = 0
          /\ c.text # <<>> => /\ c.text[1]["brand"] \in Nat /\ body <= c.text[1]["brand"]
                              /\ body = 0 => c.text[1]["brand"] = 0
      BY <1>4, MentionsAreCounted
    <2>3. /\ BodyMentions(c, "rival") \in Nat
          /\ c.text = <<>> => BodyMentions(c, "rival") = 0
          /\ c.text # <<>> => /\ c.text[1]["rival"] \in Nat
                              /\ BodyMentions(c, "rival") = 0 => c.text[1]["rival"] = 0
      BY <1>4, MentionsAreCounted
    <2>4. rivals = BodyMentions(c, "rival")
      BY DEF RivalMentions
    <2> HIDE DEF body, rivals
    <2>5. QED
      BY <2>1, <2>2, <2>3, <2>4
  <1>7. m = Titles[page] + (IF Quoted(page) THEN Passages[page] ELSE 0) + body
    BY DEF PageMentions
  <1> HIDE DEF body, rivals, text, m
  <1>8. v # UNVERIFIED
    BY <1>5
  <1>9. m \in Nat /\ (m = 0 => Titles[page] = 0 /\ body = 0) /\ m <= Titles[page] + Passages[page] + body
    BY <1>6, <1>7
  <1>10. /\ v \in {"Visible", "Weak visibility", "Not visible"}
         /\ v = "Visible" => m >= 2
         /\ v = "Not visible" => m = 0 /\ Readable(c)
    <2>1. m >= 2 \/ m = 1 \/ m = 0
      BY <1>9
    <2>2. CASE m >= 2
      <3>1. v = "Visible"
        BY <2>2 DEF Visibility
      <3>2. QED
        BY <2>2, <3>1
    <2>3. CASE m = 1
      <3>1. v = "Weak visibility"
        BY <2>3 DEF Visibility
      <3>2. QED
        BY <3>1
    <2>4. CASE m = 0
      <3>1. v = IF Readable(c) THEN "Not visible" ELSE UNVERIFIED
        BY <2>4 DEF Visibility
      <3>2. v = "Not visible" /\ Readable(c)
        BY <1>8, <3>1
      <3>3. QED
        BY <2>4, <3>2
    <2>5. QED
      BY <2>1, <2>2, <2>3, <2>4
  <1> HIDE DEF v
  <1>11. v = "Not visible" => text # <<>> /\ text[1].brand = 0 /\ Titles[page] = 0
    <2>1. Readable(c) => text # <<>>
      BY DEF Readable, text
    <2>2. QED
      BY <1>6, <1>9, <1>10, <2>1
  <1>12. v = "Visible" => Titles[page] + Passages[page] + (IF text = <<>> THEN 0 ELSE text[1].brand) >= 2
    BY <1>6, <1>9, <1>10
  <1>13. Gap(v, rivals) = "open" => text[1].rival = 0
    <2>1. Gap(v, rivals) = "open" => v = "Not visible" /\ ~(rivals > 0)
      BY DEF Gap
    <2>2. ~(rivals > 0) => rivals = 0
      <3>1. rivals \in Nat
        BY <1>6
      <3>2. \A k \in Nat : ~(k > 0) => k = 0
        OBVIOUS
      <3>3. QED
        BY <3>1, <3>2, Zenon
    <2>3. QED
      BY <1>6, <1>11, <2>1, <2>2
  <1>14. ASSUME NEW p \in DOMAIN checks, DomainOf[p] = d, checks[p].alive # "no"
         PROVE  PageMentions(p, checks[p]) <= m
    <2>1. p \in ToSet(Checked(d)) /\ CheckOf(p) = checks[p]
      BY <1>2, <1>14, CandidatesByDomain DEF CheckOf
    <2>2. QED
      BY <1>1, <1>4, <1>14, <2>1 DEF m
  <1>15. c.alive # "no"
    BY <1>1, <1>4
  <1>16. QED
    BY <1>2, <1>3, <1>4, <1>5, <1>10, <1>11, <1>12, <1>13, <1>14, <1>15 DEF c, text

LEMMA MeasureKeeps ==
    ASSUME GroundingInv, Measure
    PROVE  GroundingInv'
  <1> DEFINE live == {d \in ToSet(KeptDomains) : Live(d) # <<>>}
             shown == {d \in live : Measured(d).visibility # UNVERIFIED}
  <1>1. /\ stage = "measure" /\ stage' = "done" /\ sources' = [d \in shown |-> Measured(d)]
        /\ sitelist' = live \ Communities /\ unreadable' = Cardinality(live \ shown)
        /\ note' = CoverageNote(Cardinality(shown), Cardinality(live \ shown))
        /\ UNCHANGED <<response, pages, order, origin, checks, fetched>>
    BY DEF Measure
  <1>2. live \subseteq Domains /\ shown \subseteq live /\ Cardinality(live \ shown) \in Nat
    <2>1. KeptDomains \in Seq(ToSet(order)) /\ ToSet(KeptDomains) \subseteq Domains
      BY KeptAreIndependent
    <2>2. IsFiniteSet(ToSet(KeptDomains)) /\ live \ shown \in SUBSET ToSet(KeptDomains)
      BY <2>1, ItemsOfSeq
    <2>3. Cardinality(live \ shown) \in Nat
      BY <2>2, FS_Subset, FS_CardinalityType
    <2>4. QED
      BY <2>1, <2>3
  <1>3. \A d \in shown : /\ d \in ToSet(KeptDomains) /\ origin[d] = "independent"
                         /\ Live(d) # <<>> /\ Measured(d).visibility # UNVERIFIED
    BY KeptAreIndependent
  <1> HIDE DEF live, shown
  <1>4. DOMAIN sources' = shown /\ \A d \in shown : sources'[d] = Measured(d)
    BY <1>1
  <1>5. GroupsInv'
    BY <1>1 DEF GroundingInv, GroupsInv, CleanPages, On
  <1>6. ChecksInv'
    BY <1>1 DEF GroundingInv, ChecksInv, KnownOf
  <1>7. SourcesAreVouchedFor'
    <2> SUFFICES ASSUME NEW d \in shown
                 PROVE  LET page == Measured(d).page IN
                        /\ DomainOf[page] = d /\ page \notin OwnPages
                        /\ \/ \E s \in ToSet(response.ran) \ Leaky : page \in ToSet(response.results[s].pages)
                           \/ page \in ToSet(response.cited) /\ \A s \in Leaky \cap ToSet(response.ran) : page \notin ToSet(response.results[s].pages)
                        /\ origin[d] = "independent"
                        /\ page \in DOMAIN checks /\ checks[page].alive # "no"
      BY <1>1, <1>4 DEF SourcesAreVouchedFor
    <2> DEFINE page == Measured(d).page
    <2>1. DomainOf[page] = d /\ page \in CleanPages(response) /\ page \in DOMAIN checks /\ checks[page].alive # "no"
      BY <1>1, <1>3, ShownIsMeasured
    <2> HIDE DEF page
    <2>2. QED
      BY <1>3, <2>1 DEF CleanPages, page
  <1>8. BadgeIsMeasured'
    <2>1. ASSUME NEW d \in shown
          PROVE  LET one == Measured(d)
                     text == checks[one.page].text
                 IN  /\ one.visibility \in {"Visible", "Weak visibility", "Not visible"}
                     /\ one.visibility = "Not visible" =>
                            text # <<>> /\ text[1].brand = 0 /\ Titles[one.page] = 0
                     /\ one.visibility = "Visible" =>
                            Titles[one.page] + Passages[one.page] + (IF text = <<>> THEN 0 ELSE text[1].brand) >= 2
                     /\ one.gap = "open" => text[1].rival = 0
                     /\ \A p \in DOMAIN checks : DomainOf[p] = d /\ checks[p].alive # "no" =>
                            PageMentions(p, checks[p]) <= one.mentions
      BY <1>1, <1>3, ShownIsMeasured
    <2>2. \A p, c : PageMentions(p, c)' = PageMentions(p, c)
      BY <1>1 DEF PageMentions, Quoted
    <2>3. QED
      BY <1>1, <1>4, <2>1, <2>2 DEF BadgeIsMeasured
  <1>9. ThinCoverageIsSaid'
    <2> DEFINE few == Cardinality(shown)
               unread == Cardinality(live \ shown)
    <2>1. note' = CoverageNote(few, unread)
      BY <1>1
    <2> HIDE DEF few, unread
    <2>2. few < Thin => note' # {}
      BY <2>1 DEF CoverageNote
    <2>3. note' \cap {"search failed", "independence unknown", "links unchecked"} = {}
      BY <2>1 DEF CoverageNote
    <2>4. note' = {} => Skipped = {}
      BY <2>1 DEF CoverageNote
    <2>5. ASSUME NEW i \in DOMAIN Questions, note' = {}
          PROVE  \E s \in ToSet(response.ran) \ Leaky :
                        /\ response.results[s].ok
                        /\ AttributeQueries(response.ran)[s] \in {k \in DOMAIN Questions : Questions[k] = Questions[i]}
      <3>1. PICK k \in Searched \cap DOMAIN Questions : Questions[k] = Questions[i]
        BY <2>4, <2>5 DEF Skipped
      <3>2. PICK s \in ToSet(response.ran) \ (Leaky \cup Errored(response)) : k = AttributeQueries(response.ran)[s]
        BY DEF Searched
      <3>3. QED
        BY <3>1, <3>2 DEF Errored
    <2>6. Cardinality(DOMAIN sources') = few
      BY <1>4 DEF few
    <2>7. response' = response
      BY <1>1
    <2>8. QED
      BY <2>2, <2>3, <2>5, <2>6, <2>7 DEF ThinCoverageIsSaid
  <1>10. ShownInv'
    BY <1>1, <1>2, <1>4, <1>7, <1>8, <1>9 DEF ShownInv
  <1>11. QED
    BY <1>5, <1>6, <1>10 DEF GroundingInv

LEMMA NextKeeps ==
    ASSUME GroundingInv, [Next]_vars
    PROVE  GroundingInv'
  <1>1. CASE SearchFails
    BY <1>1, GiveUpKeeps DEF SearchFails
  <1>2. CASE Search
    BY <1>2, SearchKeeps
  <1>3. CASE Filter
    BY <1>3, FilterKeeps
  <1>4. CASE Enrich
    BY <1>4, EnrichKeeps
  <1>5. CASE EnrichFails
    BY <1>5, GiveUpKeeps DEF EnrichFails
  <1>6. CASE CheckPages
    BY <1>6, CheckPagesKeeps
  <1>7. CASE CheckFails
    BY <1>7, GiveUpKeeps DEF CheckFails
  <1>8. CASE ReadBlocked
    BY <1>8, ReadBlockedKeeps
  <1>9. CASE Measure
    BY <1>9, MeasureKeeps
  <1>10. CASE UNCHANGED vars
    <2>1. UNCHANGED <<stage, response, pages, order, origin, checks, fetched, sources, sitelist, unreadable, note>>
      BY <1>10 DEF vars
    <2>2. GroupsInv' /\ CandidatePages' = CandidatePages
      BY <2>1, CandidatesStand DEF GroundingInv, GroupsInv, CleanPages, On
    <2>3. ChecksInv'
      BY <2>1, <2>2 DEF GroundingInv, ChecksInv, KnownOf
    <2>4. SourcesAreVouchedFor' /\ BadgeIsMeasured' /\ ThinCoverageIsSaid'
      BY <2>1 DEF GroundingInv, ShownInv, SourcesAreVouchedFor, BadgeIsMeasured, PageMentions, Quoted, ThinCoverageIsSaid
    <2>5. ShownInv'
      BY <2>1, <2>4 DEF GroundingInv, ShownInv
    <2>6. QED
      BY <2>2, <2>3, <2>5 DEF GroundingInv
  <1>11. QED
    BY <1>1, <1>2, <1>3, <1>4, <1>5, <1>6, <1>7, <1>8, <1>9, <1>10 DEF Next

-----------------------------------------------------------------------------
(* The theorems.                                                           *)

LEMMA InvHolds == Spec => []GroundingInv
  <1>1. Init => GroundingInv
    BY InitInv
  <1>2. GroundingInv /\ [Next]_vars => GroundingInv'
    BY NextKeeps
  <1>3. QED
    BY <1>1, <1>2, PTL DEF Spec

\* Every variable keeps to its type, every domain has a page and every page
\* is grouped under its own domain: _classify's groups as the stages use them.
THEOREM TypeCorrect == Spec => []TypeOK
  <1>1. GroundingInv => TypeOK
    <2> SUFFICES ASSUME GroundingInv PROVE TypeOK
      OBVIOUS
    <2>1. order \in Seq(Domains) /\ ToSet(order) \subseteq Domains
      BY SeqOfItsItems DEF GroundingInv, GroupsInv
    <2>2. ASSUME NEW d \in DOMAIN pages PROVE pages[d] # <<>> /\ \A p \in ToSet(pages[d]) : DomainOf[p] = d
      <3>1. pages[d] \in Seq(CleanPages(response) \cap On(d)) /\ pages[d] # <<>>
        BY DEF GroundingInv, GroupsInv
      <3>2. ToSet(pages[d]) \subseteq On(d)
        BY <3>1, SeqOfItsItems
      <3>3. QED
        BY <3>1, <3>2 DEF On
    <2>3. QED
      BY <2>1, <2>2 DEF GroundingInv, GroupsInv, ChecksInv, ShownInv, TypeOK
  <1>2. QED
    BY <1>1, InvHolds, PTL

\* Whatever stage of run_grounding() fails or fails open, a page that a source
\* links is of its domain, was surfaced by a clean search or quoted, is no
\* entity's own, was checked and is not dead, and its domain is independent.
THEOREM EverySourceIsVouchedFor == Spec => []SourcesAreVouchedFor
  <1>1. GroundingInv => SourcesAreVouchedFor
    BY DEF GroundingInv, ShownInv
  <1>2. QED
    BY <1>1, InvHolds, PTL

\* _measure_sources() takes the badge and the gap from the text of the very
\* page it links, and links the page of the domain with the most evidence.
THEOREM EveryBadgeIsMeasured == Spec => []BadgeIsMeasured
  <1>1. GroundingInv => BadgeIsMeasured
    BY DEF GroundingInv, ShownInv
  <1>2. QED
    BY <1>1, InvHolds, PTL

\* When run_grounding() returns little, or searched little, its note says so.
THEOREM ThinCoverageIsNeverSilent == Spec => []ThinCoverageIsSaid
  <1>1. GroundingInv => ThinCoverageIsSaid
    BY DEF GroundingInv, ShownInv
  <1>2. QED
    BY <1>1, InvHolds, PTL

\* _read_blocked_pages() sends to the paid reader no more pages than allowed,
\* one of a domain of which nothing was read, and none that is dead.
THEOREM PaidReaderIsLastResort == Spec => FallbackIsLastResort
  <1> DEFINE LastResort ==
                /\ Cardinality(fetched') <= MaxFetched
                /\ \A p \in fetched' \ fetched :
                        /\ p \in DOMAIN checks /\ checks[p].alive # "no"
                        /\ \A q \in DOMAIN checks : DomainOf[q] = DomainOf[p] =>
                                /\ checks[q].text = <<>>
                                /\ q \in fetched' => q = p
  <1>1. GroundingInv /\ [Next]_vars => [LastResort]_vars
    <2> SUFFICES ASSUME GroundingInv, [Next]_vars PROVE [LastResort]_vars
      OBVIOUS
    <2>1. CASE ReadBlocked
      <3>1. stage = "fallback" /\ fetched' = ToSet(FallbackTargets)
        BY <2>1 DEF ReadBlocked
      <3>2. Cardinality(fetched') <= MaxFetched
        BY <3>1, TargetsAreOfBlocked
      <3>3. QED
        BY <3>1, <3>2, TargetsAreChecked
    <2>2. CASE UNCHANGED fetched
      BY <2>2 DEF GroundingInv, ChecksInv
    <2>3. ReadBlocked \/ UNCHANGED fetched
      BY DEF Next, vars, SearchFails, Search, Filter, Enrich, EnrichFails, CheckPages, CheckFails, Measure
    <2>4. QED
      BY <2>1, <2>2, <2>3
  <1>2. QED
    BY <1>1, InvHolds, PTL DEF Spec, FallbackIsLastResort
=============================================================================
