------------------------------ MODULE Analysis -------------------------------
(* What one job computes: every prompt is answered by the model and its       *)
(* answer classified (app/services/pipeline.py, _analyze_one_prompt), the     *)
(* prompts of a persona run concurrently and any of them may fail             *)
(* (run_persona), and when every persona has settled the results are turned   *)
(* into the page the client sees (app/runner.py, run_job, with                *)
(* app/services/aggregation.py).  Job and stream bookkeeping is in RunJob.    *)
EXTENDS Aggregation

CONSTANTS
    Personas,   \* sequence of the personas that have prompts, in request order
    IdOf,       \* [persona -> the id it was sent with], not always its own (models.py:76)
    PromptsOf,  \* [persona -> sequence of its prompts, each a call of its own]
    Answers,    \* the texts the answering model may return
    Replies,    \* [sentiment, mentionText, competitorMentions]: what the
                \* classifying model may return, its quote left out
    MaxSources  \* bound: measured sources that reach the page

Prompts == UNION {ToSet(PromptsOf[s]) : s \in ToSet(Personas)}

ASSUME AnalysisAssumption ==
    /\ MaxSources \in Nat
    /\ IsList(Personas) /\ IsInjective(Personas)
    /\ \A s \in ToSet(Personas) : IsName(PromptsOf[s]) /\ IsInjective(PromptsOf[s])
    /\ \A s, t \in ToSet(Personas) : s # t => ToSet(PromptsOf[s]) \cap ToSet(PromptsOf[t]) = {}
    /\ \A text \in Answers : IsList(text)
    /\ \A reply \in Replies :
          /\ IsList(reply.mentionText) /\ IsList(reply.competitorMentions)
          /\ \A s \in ToSet(reply.competitorMentions) : IsList(s.mentionText)
    /\ Cardinality(Prompts) <= 199     \* at most 10 prompts of 10 personas (models.py)

\* No two personas share an id.  Nothing enforces it: what needs it says so.
IdsApart == \A s, t \in ToSet(Personas) : IdOf[s] = IdOf[t] => s = t

VARIABLES
    call,       \* [prompt -> asked, answered, done or failed]
    answer,     \* [prompt -> the text of its answer, <<>> before there is one]
    exchange,   \* the analysis of every prompt that is done
    persona,    \* [persona -> running, done or error]
    summary,    \* the result of every persona that is done
    report      \* <<>>, or <<the result page>> once the job completes

vars == <<call, answer, exchange, persona, summary, report>>

------------------------------------------------------------------------------
(* One prompt                                                                 *)

\* _apply_competitor_mentions: the rivals as this answer is searched for them.
\* A suggestion must name a listed rival, the first of that name, and pass
\* verified_alias; every rival of that name then has it.
Claimed(r) == PlaceOf(Rivals, {c \in ToSet(Rivals) : c.name = Rivals[r].name})
Others(r, brandNames) == brandNames \cup UNION {NamesOf(Rivals[q]) : q \in DOMAIN Rivals \ {r}}
Accepted(r, text, suggestions, brandNames) ==
    Sift(suggestions, {s \in ToSet(suggestions) :
        /\ s.competitor = Rivals[r].name
        /\ VerifiedAlias(s.mentionText, text, NamesOf(Rivals[Claimed(r)]), Others(Claimed(r), brandNames))
        /\ s.mentionText \notin ToSet(Rivals[r].names)})
WithSuggestions(text, suggestions, brandNames) ==
    [r \in DOMAIN Rivals |->
        [ name  |-> Rivals[r].name,
          names |-> Rivals[r].names
                    \o FirstSeen(Column(Accepted(r, text, suggestions, brandNames), "mentionText")) ]]

\* The names the brand is looked for by, with the one the reply may add.
BrandSought(text, reply) ==
    LET known == OrElse(BrandNames, Brand)
    IN  IF /\ VerifiedAlias(reply.mentionText, text, BrandsOwn, RivalNames)
           /\ reply.mentionText \notin ToSet(known)
        THEN Append(known, reply.mentionText) ELSE known

\* The rest of _analyze_one_prompt, once both models have replied, with
\* analyze_answer.  An unknown sentiment reads as Neutral; no mention, no quote.
AnalyzeOnePrompt(text, reply) ==
    LET names == BrandSought(text, reply)
        mentions == FindMentions(text, names, WithSuggestions(text, reply.competitorMentions, ToSet(names)))
        mentioned == \E m \in ToSet(mentions) : m.kind = "brand"
        sentiment == IF reply.sentiment \in Sentiments THEN reply.sentiment ELSE "Neutral"
        rank == ComputeRank(mentions)
    IN  [ mentioned |-> mentioned,
          sentiment |-> sentiment,
          rank      |-> rank,
          vis       |-> VisibilityScore(mentioned, rank, sentiment),
          quoted    |-> mentioned,      \* the model's quote, else the start of the answer
          parts     |-> BuildParts(text, mentions) ]

Analyses == [text \in Answers |-> {AnalyzeOnePrompt(text, reply) : reply \in Replies}]

------------------------------------------------------------------------------
Init ==
    /\ call = [p \in Prompts |-> "asked"]
    /\ answer = [p \in Prompts |-> <<>>]
    /\ exchange = <<>>
    /\ persona = [s \in ToSet(Personas) |-> "running"]
    /\ summary = <<>>
    /\ report = <<>>

\* call_text returns.
Answer(p) ==
    /\ call[p] = "asked"
    /\ \E text \in Answers : answer' = [answer EXCEPT ![p] = text]
    /\ call' = [call EXCEPT ![p] = "answered"]
    /\ UNCHANGED <<exchange, persona, summary, report>>

\* call_structured returns, and the answer is analysed without another await.
Classify(p) ==
    /\ call[p] = "answered"
    /\ \E analysis \in Analyses[answer[p]] :
           exchange' = [q \in DOMAIN exchange \cup {p} |-> IF q = p THEN analysis ELSE exchange[q]]
    /\ call' = [call EXCEPT ![p] = "done"]
    /\ UNCHANGED <<answer, persona, summary, report>>

\* Either call gives up after its retries.
PromptFails(p) ==
    /\ call[p] \in {"asked", "answered"}
    /\ call' = [call EXCEPT ![p] = "failed"]
    /\ UNCHANGED <<answer, exchange, persona, summary, report>>

Settled(s) == \A p \in ToSet(PromptsOf[s]) : call[p] \in {"done", "failed"}
Kept(s) == Sift(PromptsOf[s], {p \in Prompts : call[p] = "done"})

\* run_persona after its gather: keep what succeeded, fail when nothing did.
PersonaDone(s) ==
    /\ persona[s] = "running"
    /\ Settled(s)
    /\ Kept(s) # <<>>
    /\ persona' = [persona EXCEPT ![s] = "done"]
    /\ LET result == PersonaResult([i \in DOMAIN Kept(s) |-> exchange[Kept(s)[i]]],
                                   Len(PromptsOf[s]) - Len(Kept(s)))
       IN  summary' = [t \in DOMAIN summary \cup {s} |-> IF t = s THEN result ELSE summary[t]]
    /\ UNCHANGED <<call, answer, exchange, report>>

PersonaFails(s) ==
    /\ persona[s] = "running"
    /\ Settled(s)
    /\ Kept(s) = <<>>
    /\ persona' = [persona EXCEPT ![s] = "error"]
    /\ UNCHANGED <<call, answer, exchange, summary, report>>

\* results: a dictionary by persona id.  An id keeps the place of the first
\* persona that is done under it, and the result of the last.
Namesakes(s) == {t \in ToSet(Personas) : persona[t] = "done" /\ IdOf[t] = IdOf[s]}
FirstOf(list, S) == list[PlaceOf(list, S)]
Done == Sift(Personas, {s \in ToSet(Personas) : persona[s] = "done" /\ s = FirstOf(Personas, Namesakes(s))})
Shown == LET done == Done IN [i \in DOMAIN done |-> FirstOf(Reverse(Personas), Namesakes(done[i]))]
Results == LET shown == Shown IN [i \in DOMAIN shown |-> summary[shown[i]]]

\* The products, the sub-scores, the headline score and the overview.
Page(results, score, shares, presence, sov, tone, authority, measured, top) ==
    LET all == AllExchanges(results)
    IN  [ score          |-> score,
          mentioned      |-> Len(Mentioning(all)),
          total          |-> Len(all),
          failedPrompts  |-> FailedPrompts(results),
          failedPersonas |-> Len(Personas) - Len(results),
          sentiment      |-> SentimentOf(all),
          counts         |-> ProductCounts(results),
          shares         |-> shares,
          topCompetitor  |-> top,
          presence       |-> presence,
          sov            |-> sov,
          strength       |-> Strength(Mentioning(all)),
          ranking        |-> Ranking(Mentioning(all)),
          tone           |-> tone,
          authority      |-> authority,
          measured       |-> measured ]

\* run_job after its gather.  Of the sources only how many were measured, and
\* how many of those name the brand, matters here.
Complete ==
    /\ report = <<>>
    /\ \A s \in ToSet(Personas) : persona[s] # "running"
    /\ Results # <<>>
    /\ LET results == Results
           all == AllExchanges(results)
           counts == ProductCounts(results)
       IN  \E shares \in ProductShares(results),
              presence \in Percent(Len(Mentioning(all)), Len(all)),
              sov \in ShareOfVoice(counts),
              tone \in Tone(Mentioning(all)),
              top \in TopCompetitors(counts) :
           \E measured \in 0..MaxSources : \E named \in 0..measured :
           \E authority \in Percent(named, measured) :
           \E score \in Composite(presence, sov, Ranking(Mentioning(all)), tone, authority, measured > 0) :
              report' = <<Page(results, score, shares, presence, sov, tone, authority, measured, top)>>
    /\ UNCHANGED <<call, answer, exchange, persona, summary>>

Next ==
    \/ \E p \in Prompts : Answer(p) \/ Classify(p) \/ PromptFails(p)
    \/ \E s \in ToSet(Personas) : PersonaDone(s) \/ PersonaFails(s)
    \/ Complete

Spec == Init /\ [][Next]_vars

------------------------------------------------------------------------------
(* Properties                                                                 *)

\* Every prompt and every persona is in a state the code has; what is analysed
\* is exactly what succeeded, and a persona's result exists only once it is done.
TypeOK ==
    /\ call \in [Prompts -> {"asked", "answered", "done", "failed"}]
    /\ answer \in [Prompts -> Answers \cup {<<>>}]
    /\ persona \in [ToSet(Personas) -> {"running", "done", "error"}]
    /\ DOMAIN exchange = {p \in Prompts : call[p] = "done"}
    /\ DOMAIN summary = {s \in ToSet(Personas) : persona[s] = "done"}
    /\ \A p \in DOMAIN exchange : exchange[p].vis \in 0..100 /\ exchange[p].rank \in 0..(1 + Len(Rivals))
    /\ Len(report) <= 1

\* The parts a client highlights are the answer itself, cut and never lost,
\* repeated or overlapped; and the rank is what a reader of those parts counts:
\* the rivals highlighted before the brand first is.  (find_mentions drops
\* overlaps, build_parts cuts, compute_rank counts: three passes over one list.)
\* Of requests in which no rival has the brand's name (RivalsApart): such a rival
\* takes the brand's rank where the brand is not mentioned.
AnswerIsShownWhole ==
    \A p \in DOMAIN exchange :
        LET parts == exchange[p].parts
            brandAt == {i \in DOMAIN parts : parts[i].kind = "brand"}
            first == CHOOSE i \in brandAt : \A j \in brandAt : i <= j
            before == {parts[i].name : i \in {k \in 1..(first - 1) : parts[k].kind = "competitor"}}
        IN  /\ FlattenSeq([i \in DOMAIN parts |-> parts[i].text]) = answer[p]
            /\ \A i \in DOMAIN parts : parts[i].text # <<>>
            /\ exchange[p].mentioned <=> brandAt # {}
            /\ exchange[p].rank = IF brandAt = {} THEN None ELSE 1 + Cardinality(before)

\* The head word of every name in the request is a word of its own: not so of
\* "The Group", which is looked for as "the" and has "group" for head word.
DistinctiveNames == \A n \in BrandsOwn \cup RivalNames : HeadWord(n) \notin CorporateSuffixes \cup {""}

\* Invariant 2, a model never fills a measured field: whatever name the
\* classifier suggests, an entity is highlighted only by words that stand, in one
\* sentence of the answer, with the head word of a name the request gave for it;
\* and a name the request did not give never takes for one entity a name of
\* another.
EveryMentionIsEvidenced ==
    \A p \in DOMAIN exchange : \A part \in ToSet(exchange[p].parts) : part.kind # "normal" =>
        LET named == {r \in DOMAIN Rivals : Rivals[r].name = part.name}
            own == IF part.kind = "brand" THEN BrandsOwn ELSE UNION {NamesOf(Rivals[r]) : r \in named}
            others == (UNION {NamesOf(Rivals[r]) : r \in DOMAIN Rivals \ named})
                      \cup IF part.kind = "brand" THEN {} ELSE ToSet(OrElse(BrandNames, Brand))
            words == [i \in DOMAIN part.text |-> Lower(part.text[i])]
            whole == {words} \cup {Append(words, suffix) : suffix \in CorporateSuffixes}
            Sentence(start) == SentenceAround(answer[p], start, start + Len(words))
        IN  /\ \E start \in DOMAIN answer[p] :
                  /\ MatchesAt(words, answer[p], start)
                  /\ \E i \in DOMAIN Sentence(start) : Lower(Sentence(start)[i]) \in {HeadWord(n) : n \in own}
            /\ \E n \in whole :
                  CoreName(n) = words /\ (n \in own \/ \A o \in others : ~Overlaps(n, o))

\* The persona card and its exchanges tell one story: what it shows is the
\* exchange with the best rank, quoted exactly when that exchange names the
\* brand; Critical Gap means no exchange does; its sentiment is that of an
\* exchange that does; and every prompt is either an exchange or counted as
\* failed, which has none, although models.py:347 says "one entry per prompt
\* asked".
CardAgrees(s) ==
    LET r == summary[s]
        naming == {e \in ToSet(r.exchanges) : \E part \in ToSet(e.parts) : part.kind = "brand"}
    IN  /\ Len(r.exchanges) + r.failed = Len(PromptsOf[s])
        /\ r.mentioned <=> naming # {}
        /\ r.opportunity = "Critical Gap" <=> naming = {}
        /\ r.quoted <=> \E part \in ToSet(r.parts) : part.kind = "brand"
        /\ naming # {} =>
                /\ \E e \in naming : e.parts = r.parts /\ e.rank = r.rank
                /\ \A e \in naming : r.rank <= e.rank
                /\ r.sentiment \in {e.sentiment : e \in naming}

\* Invariant 8: every count is taken at the prompt level and they agree: each
\* persona card with its exchanges; the overview's mentions, the brand's product
\* count and the cards are one number; no product is counted beyond the answers
\* there are, and the shares are of one whole, all mentions of products: they sum
\* to 100% but for the rounding of each.  What the page leaves out it says: a
\* prompt asked is in its total, among its failed prompts, or of one of its failed
\* personas (whose prompts the first two leave out, aggregation.py:52).  Of
\* requests in which no two personas share an id (IdsApart) and no rival has the
\* brand's name (RivalsApart).
NumbersAgree ==
    /\ \A s \in DOMAIN summary : CardAgrees(s)
    /\ report # <<>> =>
        LET page == report[1]
            shown == {s \in ToSet(Personas) : persona[s] = "done"}
            naming == {p \in Prompts : call[p] = "done" /\ exchange[p].mentioned}
            mentions == Total(page.counts)
        IN  /\ page.mentioned = page.counts[1]
            /\ page.mentioned = Cardinality(naming)
            /\ page.total = Cardinality(DOMAIN exchange)
            /\ page.failedPersonas = Cardinality(ToSet(Personas) \ shown)
            /\ page.total + page.failedPrompts
                    = Cardinality(UNION {ToSet(PromptsOf[s]) : s \in shown})
            /\ \A i \in DOMAIN page.counts : page.counts[i] <= page.total
            /\ mentions = 0 => Total(page.shares) = 0
            /\ mentions > 0 => /\ 2 * (Total(page.shares) - 1000) <= Len(page.counts)
                               /\ 2 * (1000 - Total(page.shares)) <= Len(page.counts)
            /\ page.presence = 0 <=> page.sov = 0
            /\ page.sov = 100 <=> page.counts[1] > 0 /\ page.topCompetitor \in {<<>>} \cup
                    {ProductNames[i] : i \in {k \in DOMAIN page.counts : page.counts[k] <= page.counts[1]}}
            /\ (\E s \in shown : summary[s].mentioned) <=> page.presence > 0
            /\ page.presence > 0 => page.sentiment \in {exchange[p].sentiment : p \in naming}

\* The headline score (aggregation.py:217-241, which is not the average that
\* README.md:127-129 describes): a brand no answer names has at most the tenth that
\* sources give, and nothing without one; 90 and more needs both presence and share
\* of voice, so rank and tone alone never reach it; and an empty source search never
\* lowers it.  Of requests in which no rival has the brand's name (RivalsApart).
HeadlineIsEarned ==
    report # <<>> =>
        LET page == report[1]
            withNone == Composite(page.presence, page.sov, page.ranking, page.tone, 0, FALSE)
            withZero == Composite(page.presence, page.sov, page.ranking, page.tone, 0, TRUE)
        IN  /\ page.score \in 0..100
            /\ page.mentioned = 0 => page.score <= IF page.measured = 0 THEN 0 ELSE 10
            /\ page.score >= 90 => page.presence >= 60 /\ page.sov >= 60
            /\ \A none \in withNone : \E zero \in withZero : zero <= none
==============================================================================
