----------------------------- MODULE Aggregation -----------------------------
(* The arithmetic over analysed answers: one persona's summary                *)
(* (app/services/pipeline.py, _aggregate) and the numbers of the result page  *)
(* (app/services/aggregation.py).  An exchange is one analysed prompt; the    *)
(* operators take sequences of them, in the order the code iterates.          *)
EXTENDS Scoring

Column(s, field) == [i \in DOMAIN s |-> s[i][field]]

\* The answers that name the brand, and those that rank it.
Mentioning(exchanges) == Sift(exchanges, {e \in ToSet(exchanges) : e.mentioned})
Ranked(exchanges) == Sift(exchanges, {e \in ToSet(exchanges) : e.rank # None})

\* Counter(...).most_common(1): the commonest; on a tie, the one met first.
MostCommon(s) ==
    LET Count(x) == Cardinality({i \in DOMAIN s : s[i] = x})
    IN  s[PlaceOf(s, {x \in ToSet(s) : \A y \in ToSet(s) : Count(y) <= Count(x)})]

\* Mutant: answers that do not name the brand count too.
SentimentOfAll(exchanges) ==
    IF exchanges = <<>> THEN "Neutral" ELSE MostCommon(Column(exchanges, "sentiment"))

\* The commonest sentiment of the answers that name the brand.
SentimentOf(exchanges) ==
    IF Mentioning(exchanges) = <<>> THEN "Neutral"
    ELSE MostCommon(Column(Mentioning(exchanges), "sentiment"))

\* The representative of a persona: of the ranked answers the nearest to the
\* top, the more visible on a tie, else the most visible; the first of equals.
Nearer(a, b) == a.rank < b.rank \/ (a.rank = b.rank /\ a.vis > b.vis)
Representative(analyses) ==
    LET ranked == ToSet(Ranked(analyses))
    IN  analyses[PlaceOf(analyses,
            IF ranked # {} THEN {a \in ranked : \A b \in ranked : ~Nearer(b, a)}
            ELSE {a \in ToSet(analyses) : \A b \in ToSet(analyses) : b.vis <= a.vis})]

\* _classify_opportunity
Opportunity(mentioned, vis) ==
    CASE ~mentioned -> "Critical Gap"
      [] mentioned /\ vis >= 80 -> "Defend"
      [] mentioned /\ vis >= 55 /\ vis < 80 -> "Grow"
      [] OTHER -> "High"

\* _aggregate, with the failed prompts run_persona adds.
PersonaResult(analyses, failed) ==
    LET shown == Representative(analyses)
        mentioned == \E a \in ToSet(analyses) : a.mentioned
        vis == RoundHalfEven(Total(Column(analyses, "vis")), Len(analyses))
    IN  [ mentioned   |-> mentioned,
          sentiment   |-> SentimentOf(analyses),
          vis         |-> vis,
          rank        |-> shown.rank,       \* the best rank is the representative's
          quoted      |-> shown.quoted,
          parts       |-> shown.parts,
          opportunity |-> Opportunity(mentioned, vis),
          exchanges   |-> analyses,
          failed      |-> failed ]

------------------------------------------------------------------------------
(* The result page.  `results` is the sequence of the personas' results.      *)

AllExchanges(results) == FlattenSeq(Column(results, "exchanges"))
FailedPrompts(results) == Total(Column(results, "failed"))

\* Rounding of a quotient that floats compute inexactly: on an exact tie the
\* build may give either neighbour.
Nearest(n, d) == {q \in {n \div d, (n \div d) + 1} : 2 * (q * d - n) <= d /\ 2 * (n - q * d) <= d}
Percent(n, d) == IF d = 0 THEN {0} ELSE Nearest(100 * n, d)

\* Mutant: the answer is searched again, for the names the request gave.
MentionsByRequest(exchange, name) ==
    LET text == FlattenSeq(Column(exchange.parts, "text"))
        names == IF name = Brand THEN OrElse(BrandNames, Brand)
                 ELSE LET r == CHOOSE q \in DOMAIN Rivals : Rivals[q].name = name
                      IN  OrElse(Rivals[r].names, name)
    IN  \E n \in ToSet(names) : Names(n, text)

\* _exchange_mentions: read from the names scoring attached to the parts.
ExchangeMentions(exchange, name) == \E part \in ToSet(exchange.parts) : part.name = name

\* build_products: the brand, then the rivals as they were sent; how many
\* answers name each.
ProductNames == <<Brand>> \o Column(Rivals, "name")
ProductCounts(results) ==
    LET exchanges == AllExchanges(results)
    IN  [i \in DOMAIN ProductNames |->
            Cardinality({e \in DOMAIN exchanges : ExchangeMentions(exchanges[e], ProductNames[i])})]

\* The products' slices of a whole, in thousandths.
Slices(counts, whole) ==
    {f \in [DOMAIN counts -> UNION {Nearest(1000 * counts[i], whole) : i \in DOMAIN counts}] :
        \A i \in DOMAIN counts : f[i] \in Nearest(1000 * counts[i], whole)}

\* Mutant: a product's slice of the personas (README.md:134-139).
SharesOfPersonas(results) == Slices(ProductCounts(results), Len(results))

\* build_products: a product's share of all mentions of products.
ProductShares(results) ==
    LET all == Total(ProductCounts(results))
    IN  Slices(ProductCounts(results), IF all = 0 THEN 1 ELSE all)

\* share_of_voice: the brand, which is product 1, against the most-mentioned one.
ShareOfVoice(counts) ==
    IF counts[1] = 0 THEN {0}
    ELSE Percent(counts[1], counts[CHOOSE i \in DOMAIN counts : \A j \in DOMAIN counts : counts[j] <= counts[i]])

\* top_competitor; the order of names settles a tie.
TopCompetitors(counts) ==
    LET rivals == {i \in DOMAIN counts : ProductNames[i] # Brand /\ counts[i] > 0}
    IN  IF rivals = {} THEN {<<>>}
        ELSE {ProductNames[i] : i \in {k \in rivals : \A j \in rivals : counts[j] <= counts[k]}}

\* build_score_breakdown, the sub-scores over the mentioning answers.
Strength(mentioning) ==
    IF mentioning = <<>> THEN 0
    ELSE RoundHalfEven(Total(Column(mentioning, "vis")), Len(mentioning))
Ranking(mentioning) ==
    LET ranks == Column(Ranked(mentioning), "rank")
    IN  IF ranks = <<>> THEN 0 ELSE RankScore(RoundHalfEven(Total(ranks), Len(ranks)))
Tone(mentioning) ==
    IF mentioning = <<>> THEN {0}
    ELSE Nearest(Total([i \in DOMAIN mentioning |-> Multiplier[mentioning[i].sentiment]]), Len(mentioning))

\* Mutant: the weights of presence and of source authority are swapped.
CompositeSwapped(presence, sov, ranking, tone, authority, hasSources) ==
    LET rest == presence + 3 * sov + 2 * ranking + tone
    IN  IF hasSources THEN Nearest(rest + 3 * authority, 10) ELSE Nearest(rest, 9)

\* compute_composite_score, weights in tenths.  Without a measured source
\* Source Authority is left out and the other weights carry the whole score.
Composite(presence, sov, ranking, tone, authority, hasSources) ==
    LET rest == 3 * presence + 3 * sov + 2 * ranking + tone
    IN  IF hasSources THEN Nearest(rest + authority, 10) ELSE Nearest(rest, 9)
==============================================================================
