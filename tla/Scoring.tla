------------------------------- MODULE Scoring -------------------------------
(* Deterministic mention detection and scoring of one answer                *)
(* (app/services/scoring.py) and the check a model-suggested name must pass  *)
(* (app/services/pipeline.py).  No model call, no state: every definition is  *)
(* a function of the answer.                                                  *)
(*                                                                            *)
(* A text is a sequence of tokens: words and punctuation marks.  A name is a  *)
(* sequence of folded (lower-case) words.  The regular expressions of the     *)
(* code match whole words, ignore case and let any white space separate the   *)
(* words of a name, so on tokens a match is a run of consecutive words.       *)
EXTENDS Lists, SequencesExt

CONSTANTS
    Fold,           \* [token with a capital -> its lower-case form]
    Coded,          \* tokens with a digit or an inner capital ("A20", "iPhone")
    Ends,           \* marks that end a sentence: . ! ? and the line break
    Breaks,         \* marks after which a capital is forced: Ends and : ; - * ...
    Articles,       \* "the", "a", "an"
    Short,          \* folded words of fewer than _MIN_ALIAS_LEN characters
    CorporateSuffixes, \* folded: "inc", "group", "plc", ...
    CategoryWords,  \* folded words that start with a category term, none of
                    \* them exactly when the request has no such term
    Brand,          \* the brand's display name, itself a name
    BrandNames,     \* sequence of names: brand_match_names
    ContextNames,   \* sequence of names: brand_context_names
    Rivals          \* sequence of [name, names]: each competitor and its match_names

IsList(s) == s \in Seq(ToSet(s))
IsName(n) == IsList(n) /\ n # <<>>

\* BrandContext.of: without category words no context name ever counts.
Context == IF CategoryWords = {} THEN <<>> ELSE ContextNames

NamesOf(rival) == {rival.name} \cup ToSet(rival.names)
BrandsOwn == {Brand} \cup ToSet(BrandNames) \cup ToSet(Context)
RivalNames == UNION {NamesOf(Rivals[r]) : r \in DOMAIN Rivals}

ASSUME ScoringAssumption ==
    /\ Ends \subseteq Breaks
    /\ \A token \in DOMAIN Fold : Fold[token] \notin DOMAIN Fold
    /\ IsList(BrandNames) /\ IsList(ContextNames) /\ IsList(Rivals)
    /\ \A i \in DOMAIN Rivals : IsList(Rivals[i].names)
    /\ \A n \in BrandsOwn \cup RivalNames : IsName(n)

\* No competitor is sent under the brand's own name.  Nothing enforces it
\* (models.py:281): the properties that need it say so.
RivalsApart == \A r \in DOMAIN Rivals : Rivals[r].name # Brand

None == 0   \* rank is None: ranks count from 1

------------------------------------------------------------------------------
(* Matching                                                                  *)

Lower(token) == IF token \in DOMAIN Fold THEN Fold[token] ELSE token

\* _core_name: "PVH Corp" is looked for as "PVH"; a lone suffix is kept.
CoreName(name) ==
    IF Len(name) > 1 /\ name[Len(name)] \in CorporateSuffixes
    THEN SubSeq(name, 1, Len(name) - 1) ELSE name

MatchesAt(words, text, i) ==
    /\ i + Len(words) - 1 <= Len(text)
    /\ \A k \in DOMAIN words : Lower(text[i + k - 1]) = words[k]

\* name_matches: where the matcher counts the name.
NameMatches(name, text) ==
    LET words == CoreName(name)
    IN  LeftToRight([i \in DOMAIN text |->
            IF words # <<>> /\ MatchesAt(words, text, i) THEN i + Len(words) ELSE 0])

Names(name, text) == NameMatches(name, text) # <<>>

\* sentence_around: the sentence that holds text[start .. stop-1].
SentenceAround(text, start, stop) ==
    LET before == {i \in 1..(start - 1) : text[i] \in Ends}
        after  == {i \in stop..Len(text) : text[i] \in Ends}
        first  == IF before = {} THEN 1 ELSE 1 + CHOOSE i \in before : \A j \in before : j <= i
        last   == IF after = {} THEN Len(text) ELSE (CHOOSE i \in after : \A j \in after : i <= j) - 1
    IN  SubSeq(text, first, last)

AboutTheCategory(text, start, stop) ==
    \E i \in DOMAIN SentenceAround(text, start, stop) :
        Lower(SentenceAround(text, start, stop)[i]) \in CategoryWords

\* A name to look for, and the entity that a match is recorded under.
Seek(names, kind, entity) == [i \in DOMAIN names |-> [name |-> names[i], kind |-> kind, entity |-> entity]]

\* An entity sent without aliases is looked for by its display name.
OrElse(names, display) == IF names = <<>> THEN <<display>> ELSE names

\* What find_mentions looks for, in its order: where two names match at one
\* place, the earlier one counts.
Sought(brandNames, rivals) ==
       Seek(OrElse(brandNames, Brand), "brand", Brand)
    \o Seek(Context, "context", Brand)
    \o FlattenSeq([r \in DOMAIN rivals |->
            Seek(OrElse(rivals[r].names, rivals[r].name), "competitor", rivals[r].name)])

\* BrandContext: a context name counts only next to a category word.
Counts(seek, text, i) ==
    /\ i \in ToSet(NameMatches(seek.name, text))
    /\ seek.kind = "context" => AboutTheCategory(text, i, i + Len(CoreName(seek.name)))

\* find_mentions: sort by start, then drop what overlaps an earlier match.
FindMentions(text, brandNames, rivals) ==
    LET sought == Sought(brandNames, rivals)
        at == [i \in DOMAIN text |-> PlaceOf(sought, {s \in ToSet(sought) : Counts(s, text, i)})]
        stops == [i \in DOMAIN text |-> IF at[i] = 0 THEN 0 ELSE i + Len(CoreName(sought[at[i]].name))]
        starts == LeftToRight(stops)
    IN  [m \in DOMAIN starts |->
            LET seek == sought[at[starts[m]]]
            IN  [ start |-> starts[m],
                  stop  |-> stops[starts[m]],
                  kind  |-> IF seek.kind = "competitor" THEN "competitor" ELSE "brand",
                  name  |-> seek.entity ]]

------------------------------------------------------------------------------
(* What an answer is turned into                                             *)

Part(text, kind, name) == [text |-> text, kind |-> kind, name |-> name]

\* build_parts: the answer cut into highlighted mentions and the text between.
BuildParts(text, mentions) ==
    LET Cursor(m) == IF m = 0 THEN 1 ELSE mentions[m].stop
        Plain(from, to) == IF from <= to THEN <<Part(SubSeq(text, from, to), "normal", <<>>)>> ELSE <<>>
        Shown(m) == Part(SubSeq(text, m.start, m.stop - 1), m.kind, m.name)
    IN  FlattenSeq([m \in DOMAIN mentions |->
            Append(Plain(Cursor(m - 1), mentions[m].start - 1), Shown(mentions[m]))])
        \o Plain(Cursor(Len(mentions)), Len(text))

\* Mutant: every mention of a rival costs a place.
RankByMention(mentions) == PlaceOf(mentions, {m \in ToSet(mentions) : m.kind = "brand"})

\* compute_rank: the brand's place among the first mentions of each name, None
\* when it is not among them.
ComputeRank(mentions) ==
    PlaceOf(FirstSeen([m \in DOMAIN mentions |-> mentions[m].name]), {Brand})

\* rank_score: each place back costs 20 points.
RankScore(rank) == IF rank > 5 THEN 0 ELSE 100 - (rank - 1) * 20

\* SENTIMENT_MULTIPLIER, in hundredths.
Multiplier == [Positive |-> 100, Neutral |-> 70, Negative |-> 35]
Sentiments == DOMAIN Multiplier

\* Python's round of an exactly represented quotient: half to even.
RoundHalfEven(n, d) ==
    LET q == n \div d
        twice == 2 * (n % d)
    IN  IF twice > d \/ (twice = d /\ q % 2 = 1) THEN q + 1 ELSE q

\* compute_visibility_score.  The product is whole for every rank and sentiment.
VisibilityScore(mentioned, rank, sentiment) ==
    IF ~mentioned \/ rank = None THEN 0
    ELSE RoundHalfEven(RankScore(rank) * Multiplier[sentiment], 100)

------------------------------------------------------------------------------
(* Names the classifier suggests                                             *)

\* _head_word: the distinctive first word of a name; "" when it has none.
HeadWord(name) ==
    LET at == PlaceOf(name, ToSet(name) \ Articles)
    IN  IF at = 0 THEN "" ELSE name[at]

StartsSentence(text, i) == i = 1 \/ text[i - 1] \in Breaks

Capital(token) == token \in DOMAIN Fold

\* _written_like_a_name, of text[start .. stop-1].
WrittenLikeAName(text, start, stop) ==
    \/ \E i \in start..(stop - 1) : text[i] \in Coded
    \/ \E i \in (start + 1)..(stop - 1) : Capital(text[i])
    \/ Capital(text[start]) /\ ~StartsSentence(text, start)

\* _named_alongside: a sentence with the name also has one of the entity's own.
NamedAlongside(name, text, own) ==
    \E start \in ToSet(NameMatches(name, text)) : \E o \in own \ {name} :
        Names(o, SentenceAround(text, start, start + Len(CoreName(name))))

Overlaps(a, b) == Names(a, b) \/ Names(b, a)

\* All that verified_alias asks but the last; as a mutant, a name of another
\* entity is accepted.
PlausibleAlias(name, text, own, others) ==
    /\ name # <<>>
    /\ ~(Len(name) = 1 /\ name[1] \in Short)
    /\ \E start \in ToSet(NameMatches(name, text)) :
            WrittenLikeAName(text, start, start + Len(CoreName(name)))
    /\ \/ ({HeadWord(o) : o \in own} \ {""}) \cap ToSet(name) # {}
       \/ NamedAlongside(name, text, own)

\* verified_alias: whether a suggested name is accepted for an entity.
VerifiedAlias(name, text, own, others) ==
    /\ PlausibleAlias(name, text, own, others)
    /\ \A o \in others : ~Overlaps(name, o)
==============================================================================
