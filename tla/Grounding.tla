------------------------------ MODULE Grounding ------------------------------
(* Source grounding of one job (app/services/grounding.py, run_grounding, with *)
(* the rules of app/services/source_quality.py): search, screen, filter,       *)
(* classify origin, check the pages, read the blocked ones, measure.  Each     *)
(* stage is one action: between two of them the code awaits a model call or    *)
(* the network, and each has its own meaning of "failed".                      *)
EXTENDS Lists, Integers, Sequences, FiniteSets, SequencesExt

CONSTANTS
    Searches,       \* queries the searching model may run
    QueryWords,     \* [search -> set of its words]
    Leaky,          \* searches that name the brand or a competitor
    PromptLists,    \* per persona, the word sets of its prompts
    Pages,          \* URLs the web may return
    DomainOf,       \* [page -> its host]
    OwnPages,       \* pages on (or wrapping) an entity's site or a proxy host
    Communities,    \* hosts that are forums
    Titles,         \* [page -> 0..2]: how many of title and slug name the brand
    Passages,       \* [page -> 0..1]: whether a quoted passage names the brand
    Responses,      \* [ran, results, cited]: what the search call may return
    Bodies,         \* [brand, rival]: mentions in the text of a page that is read
    MaxChecked,     \* _MAX_PAGES_CHECKED_PER_DOMAIN
    MaxFetched,     \* web_fetch_max_pages
    Thin            \* fewer sources than this make the list "thin" (3 in the code)

Domains == {DomainOf[p] : p \in Pages}
NoQuestion == 0

\* _questions_to_search: one question per persona, rotating through its list.
Questions ==
    LET lists == Sift(PromptLists, ToSet(PromptLists) \ {<<>>})
    IN  [i \in DOMAIN lists |-> lists[i][((i - 1) % Len(lists[i])) + 1]]

ASSUME GroundingAssumption ==
    /\ {MaxChecked, MaxFetched, Thin} \subseteq Nat
    /\ MaxChecked > 0
    /\ Leaky \subseteq Searches
    /\ \A p \in Pages : Titles[p] \in Nat /\ Passages[p] \in Nat
    /\ \A b \in Bodies : b.brand \in Nat /\ b.rival \in Nat
    /\ OwnPages \subseteq Pages
    /\ Communities \subseteq Domains
    /\ \E i \in DOMAIN PromptLists : PromptLists[i] # <<>>    \* else run_job stops before
    /\ \A r \in Responses :
        /\ r.ran \in Seq(Searches) /\ IsInjective(r.ran) /\ r.cited \in Seq(Pages)
        /\ \A s \in ToSet(r.ran) :
                /\ r.results[s].pages \in Seq(Pages)
                /\ r.results[s].ok \/ r.results[s].pages = <<>>

VARIABLES
    stage,      \* the stage run_grounding is at; "done" when it has returned
    response,   \* the search response
    pages,      \* [domain -> sequence of its pages], the grouping of _classify
    order,      \* the domains in the order they were first seen
    origin,     \* [domain -> "independent", as the classification says, or "other"]
    checks,     \* [page -> its PageCheck], for the pages that were checked
    fetched,    \* the pages sent to web_fetch
    sources,    \* [domain -> its SourceIntel], for the sources shown
    sitelist,   \* the domains of the sitelist
    unreadable, \* sources not shown because no reader could open their page
    note        \* what the coverage note says

vars == <<stage, response, pages, order, origin, checks, fetched, sources, sitelist, unreadable, note>>

------------------------------------------------------------------------------
(* Screening the search                                                       *)

\* attribute_queries: the question each search came from.  First every search
\* takes the question that has most of its words, if that is at least half of
\* them; then what is left takes the next unclaimed question.
AttributeQueries(ran) ==
    LET Asked == DOMAIN Questions
        Common(s, i) == Cardinality(QueryWords[s] \cap Questions[i])
        Best(s, claimed) ==
            LET top == {i \in Asked : \A j \in Asked : Common(s, j) <= Common(s, i)}
                free == top \ claimed
                pick == IF free # {} THEN free ELSE top
            IN  CHOOSE i \in pick : \A j \in pick : i <= j
        Explained(s, claimed) ==
            Asked # {} /\ QueryWords[s] # {} /\ 2 * Common(s, Best(s, claimed)) >= Cardinality(QueryWords[s])
        Match(got, s) ==
            IF Explained(s, got.claimed)
            THEN [got EXCEPT !.of = (s :> Best(s, got.claimed)) @@ @, !.claimed = @ \cup {Best(s, got.claimed)}]
            ELSE [got EXCEPT !.left = Append(@, s)]
        Leftover(got, s) ==
            LET free == Asked \ got.claimed
                next == IF free = {} THEN NoQuestion ELSE CHOOSE i \in free : \A j \in free : i <= j
            IN  [got EXCEPT !.of = (s :> next) @@ @, !.claimed = @ \cup ({next} \ {NoQuestion})]
        matched == FoldLeft(Match, [of |-> <<>>, claimed |-> {}, left |-> <<>>], ran)
    IN  FoldLeft(Leftover, matched, matched.left).of

\* _extract_search: every hit in order, the results first, then the pages the
\* model quoted.  A quote carries the searches that returned its page.
FoundBy(r, p) == {s \in ToSet(r.ran) : r.results[s].ok /\ p \in ToSet(r.results[s].pages)}
Results(r, s) == [i \in DOMAIN r.results[s].pages |-> [page |-> r.results[s].pages[i], by |-> {s}]]
Hits(r) == FlattenSeq([i \in DOMAIN r.ran |-> Results(r, r.ran[i])])
           \o [i \in DOMAIN r.cited |-> [page |-> r.cited[i], by |-> FoundBy(r, r.cited[i])]]
Errored(r) == {s \in ToSet(r.ran) : ~r.results[s].ok}

\* Mutant: pages found by looking the brand up are kept.
ScreenedForSites(r) ==
    LET kept == Sift(Hits(r), {h \in ToSet(Hits(r)) : h.page \notin OwnPages})
    IN  [i \in DOMAIN kept |-> kept[i].page]

\* _screen_searches drops a hit that only brand lookups returned, and
\* _drop_entity_sites a page of an entity or behind a proxy.
Screened(r) ==
    LET kept == Sift(Hits(r), {h \in ToSet(Hits(r)) : /\ ~(h.by # {} /\ h.by \subseteq Leaky)
                                                      /\ h.page \notin OwnPages})
    IN  [i \in DOMAIN kept |-> kept[i].page]

\* _classify: distinct pages and domains in the order they were first seen.
On(d) == {p \in Pages : DomainOf[p] = d}
Hosts(s) == FirstSeen([i \in DOMAIN s |-> DomainOf[s[i]]])
PagesOn(s, d) == FirstSeen(Sift(s, On(d)))

\* The questions that surfaced a domain; a leaked search surfaces nothing.
SurfacedBy(d) ==
    {AttributeQueries(response.ran)[s] :
        s \in UNION {FoundBy(response, p) \ Leaky : p \in ToSet(pages[d])}} \ {NoQuestion}

------------------------------------------------------------------------------
(* Pages and evidence                                                         *)

Unread == [alive |-> "unknown", text |-> <<>>]
Readable(c) == c.alive = "yes" /\ c.text # <<>>
NeedsFallback(c) == c.alive # "no" /\ c.text = <<>>
CheckOf(p) == IF p \in DOMAIN checks THEN checks[p] ELSE Unread

\* judge_response and check_pages: what becomes of one GET, or of the refusal to
\* make it, and what that says of the page.  Only an HTML page that is there
\* has a text, which may come out empty.  A text is <<>> or <<body>>.
Fetches == {"html", "empty html", "other content", "gone", "sent to the homepage", "internal address",
            "no connection", "bad certificate", "status refused", "timeout"}
Alive(fetch) ==
    CASE fetch \in {"html", "empty html", "other content"} -> "yes"
      [] fetch \in {"gone", "sent to the homepage", "internal address", "no connection"} -> "no"
      [] OTHER -> "unknown"
ChecksFor(fetch) ==
    [alive : {Alive(fetch)}, text : IF fetch = "html" THEN {<<b>> : b \in Bodies} ELSE {<<>>}]

Least(a, b) == IF a < b THEN a ELSE b
BodyCap == 5    \* _BODY_MENTION_CAP

\* page_mentions: snippets that name the brand, plus its capped mentions in the
\* text.  A rival is counted by the same rule; no title here names one.
Quoted(p) == p \in ToSet(response.cited)
BodyMentions(c, who) == IF c.text = <<>> THEN 0 ELSE Least(c.text[1][who], BodyCap)
PageMentions(p, c) == Titles[p] + (IF Quoted(p) THEN Passages[p] ELSE 0) + BodyMentions(c, "brand")
RivalMentions(c) == BodyMentions(c, "rival")

\* rank_pages: most evidence first, then a quoted page; ties keep their order.
RankPages(s, check) ==
    LET Above(i, j) ==
            LET a == PageMentions(s[i], check[s[i]])
                b == PageMentions(s[j], check[s[j]])
            IN  \/ a > b
                \/ a = b /\ Quoted(s[i]) /\ ~Quoted(s[j])
                \/ a = b /\ Quoted(s[i]) = Quoted(s[j]) /\ i < j
        ranked == Arranged([j \in DOMAIN s |-> {i \in DOMAIN s : Above(i, j)}])
    IN  [k \in DOMAIN s |-> s[ranked[k]]]

FirstFew(s, n) == SubSeq(s, 1, Least(n, Len(s)))
NotRead == [p \in Pages |-> Unread]
Known == [p \in Pages |-> CheckOf(p)]

KeptDomains == Sift(order, {d \in DOMAIN origin : origin[d] = "independent"})
Ranked(d) == RankPages(pages[d], NotRead)
Checked(d) == FirstFew(Ranked(d), MaxChecked)
CandidatePages == UNION {ToSet(Checked(d)) : d \in ToSet(KeptDomains)}

\* The page of d that _read_blocked_pages would send: the best one unread.
Target(d) == Head(Sift(Checked(d), {p \in Pages : NeedsFallback(CheckOf(p))}))

\* Mutant: a domain one of whose pages was read is tried too.
TargetsAnyway ==
    LET blocked == Sift(KeptDomains, {d \in ToSet(KeptDomains) :
            \E p \in ToSet(Checked(d)) : NeedsFallback(CheckOf(p))})
    IN  FirstFew([k \in DOMAIN blocked |-> Target(blocked[k])], MaxFetched)

\* The domains _read_blocked_pages tries, those with the most pages first, and
\* the page it sends for each.
FallbackTargets ==
    LET blocked == Sift(KeptDomains, {d \in ToSet(KeptDomains) :
            /\ \A p \in ToSet(Checked(d)) : ~Readable(CheckOf(p))
            /\ \E p \in ToSet(Checked(d)) : NeedsFallback(CheckOf(p))})
        More(i, j) == \/ Len(pages[blocked[i]]) > Len(pages[blocked[j]])
                      \/ Len(pages[blocked[i]]) = Len(pages[blocked[j]]) /\ i < j
        sorted == Arranged([j \in DOMAIN blocked |-> {i \in DOMAIN blocked : More(i, j)}])
    IN  FirstFew([k \in DOMAIN blocked |-> Target(blocked[sorted[k]])], MaxFetched)

UNVERIFIED == "Couldn't verify"

\* visibility_from_evidence and gap_for
Visibility(evidence, readable) ==
    CASE evidence >= 2 -> "Visible"
      [] evidence = 1 -> "Weak visibility"
      [] OTHER -> IF readable THEN "Not visible" ELSE UNVERIFIED
Gap(visibility, rivals) ==
    IF visibility # "Not visible" THEN "none" ELSE IF rivals > 0 THEN "competitor-owned" ELSE "open"

NotDead == {p \in Pages : CheckOf(p).alive # "no"}

\* Mutant: the pages keep the order they had before they were read.
LiveUnranked(d) == Sift(Checked(d), NotDead)

\* The loop body of _measure_sources: the checked pages are ranked again now
\* that their text is known, and the best that is not dead is the source.
Live(d) == Sift(RankPages(Checked(d), Known), NotDead)
Measured(d) ==
    LET best == Head(Live(d))
        evidence == PageMentions(best, CheckOf(best))
        visibility == Visibility(evidence, Readable(CheckOf(best)))
    IN  [page |-> best, visibility |-> visibility, mentions |-> evidence,
         rivals |-> RivalMentions(CheckOf(best)), gap |-> Gap(visibility, RivalMentions(CheckOf(best))),
         reach |-> Cardinality(SurfacedBy(d))]

------------------------------------------------------------------------------
NoResponse == [ran |-> <<>>, results |-> <<>>, cited |-> <<>>]

Init ==
    /\ stage = "search"
    /\ response = NoResponse
    /\ pages = <<>> /\ order = <<>> /\ origin = <<>> /\ checks = <<>>
    /\ fetched = {}
    /\ sources = <<>> /\ sitelist = {} /\ unreadable = 0 /\ note = {}

\* empty_sources(note): nothing is shown, and the note says why.
GiveUp(why) ==
    /\ stage' = "done"
    /\ note' = {why}
    /\ UNCHANGED <<sources, sitelist, unreadable>>

SearchFails ==
    /\ stage = "search"
    /\ GiveUp("search failed")
    /\ UNCHANGED <<response, pages, order, origin, checks, fetched>>

\* call_web_search, then the screen and the deterministic site filter.
Search ==
    /\ stage = "search"
    /\ \E r \in Responses : Len(r.ran) <= Len(Questions) /\ response' = r
    /\ stage' = "filter"
    /\ UNCHANGED <<pages, order, origin, checks, fetched, sources, sitelist, unreadable, note>>

Classify(hits) ==
    /\ order' = Hosts(hits)
    /\ pages' = [d \in ToSet(Hosts(hits)) |-> PagesOn(hits, d)]

\* _filter_relevant, then _classify.  It fails open: an error, or an answer
\* that names no domain, keeps everything.
Filter ==
    /\ stage = "filter"
    /\ LET hits == Screened(response)
       IN  \/ Classify(hits)
           \/ /\ hits # <<>>
              /\ \E keep \in (SUBSET Domains) \ {{}} :
                    Classify(Sift(hits, {p \in Pages : DomainOf[p] \in keep}))
    /\ stage' = "enrich"
    /\ UNCHANGED <<response, origin, checks, fetched, sources, sitelist, unreadable, note>>

\* _enrich_sources.  It asks about the most-hit domains up to a cap; the model may
\* skip one, name one nobody asked about, past the cap or not found at all, and
\* give any origin.  All but "independent" (owned, competitor, affiliate, and no
\* entry) count alike.
Enrich ==
    /\ stage = "enrich"
    /\ origin' \in [ToSet(order) -> {"independent", "other"}]
    /\ stage' = "check"
    /\ UNCHANGED <<response, pages, order, checks, fetched, sources, sitelist, unreadable, note>>

\* The call fails or says nothing usable: no source can be vouched for.
EnrichFails ==
    /\ stage = "enrich"
    /\ order # <<>>
    /\ GiveUp("independence unknown")
    /\ UNCHANGED <<response, pages, order, origin, checks, fetched>>

\* check_pages on the best few pages of every independent domain.
CheckPages ==
    /\ stage = "check"
    /\ checks' \in [CandidatePages -> UNION {ChecksFor(fetch) : fetch \in Fetches}]
    /\ stage' = "fallback"
    /\ UNCHANGED <<response, pages, order, origin, fetched, sources, sitelist, unreadable, note>>

CheckFails ==
    /\ stage = "check"
    /\ GiveUp("links unchecked")
    /\ UNCHANGED <<response, pages, order, origin, checks, fetched>>

\* _read_blocked_pages through web_fetch: a failure leaves its page unread.
ReadBlocked ==
    /\ stage = "fallback"
    /\ fetched' = ToSet(FallbackTargets)
    /\ \E read \in SUBSET fetched' : \E text \in [read -> Bodies] :
            checks' = [p \in DOMAIN checks |->
                        IF p \in read THEN [alive |-> "yes", text |-> <<text[p]>>] ELSE checks[p]]
    /\ stage' = "measure"
    /\ UNCHANGED <<response, pages, order, origin, sources, sitelist, unreadable, note>>

\* _coverage_note
AllFailed == response.ran # <<>> /\ Errored(response) = ToSet(response.ran)
\* Mutant: a search that failed, or leaked, counts as searched.
SearchedAtAll == {AttributeQueries(response.ran)[s] : s \in ToSet(response.ran)}

Searched == {AttributeQueries(response.ran)[s] : s \in ToSet(response.ran) \ (Leaky \cup Errored(response))}
\* Two personas may ask the same question: one search covers both.
Skipped == {i \in DOMAIN Questions : \A k \in Searched \cap DOMAIN Questions : Questions[k] # Questions[i]}
CoverageNote(shown, unread) ==
         (IF AllFailed THEN {"every search failed"} ELSE {})
    \cup (IF ~AllFailed /\ Skipped # {} THEN {"questions skipped"} ELSE {})
    \cup (IF ~AllFailed /\ shown < Thin THEN {"thin"} ELSE {})
    \cup (IF unread > 0 THEN {"unread pages"} ELSE {})

\* _measure_sources and the rest of run_grounding.
Measure ==
    /\ stage = "measure"
    /\ LET live == {d \in ToSet(KeptDomains) : Live(d) # <<>>}
           shown == {d \in live : Measured(d).visibility # UNVERIFIED}
       IN  /\ sources' = [d \in shown |-> Measured(d)]
           /\ sitelist' = live \ Communities
           /\ unreadable' = Cardinality(live \ shown)
           /\ note' = CoverageNote(Cardinality(shown), Cardinality(live \ shown))
    /\ stage' = "done"
    /\ UNCHANGED <<response, pages, order, origin, checks, fetched>>

Next ==
    \/ SearchFails \/ Search
    \/ Filter
    \/ Enrich \/ EnrichFails
    \/ CheckPages \/ CheckFails
    \/ ReadBlocked
    \/ Measure

Spec == Init /\ [][Next]_vars

------------------------------------------------------------------------------
(* Properties                                                                 *)

TypeOK ==
    /\ stage \in {"search", "filter", "enrich", "check", "fallback", "measure", "done"}
    /\ response \in Responses \cup {NoResponse}
    /\ DOMAIN pages = ToSet(order) /\ ToSet(order) \subseteq Domains
    /\ \A d \in DOMAIN pages : pages[d] # <<>> /\ \A p \in ToSet(pages[d]) : DomainOf[p] = d
    /\ DOMAIN origin \in {{}, ToSet(order)}
    /\ DOMAIN checks \subseteq Pages /\ fetched \subseteq DOMAIN checks
    /\ DOMAIN sources \subseteq Domains /\ sitelist \subseteq Domains
    /\ unreadable \in Nat

\* Invariants 1 and 3: whatever stage failed or failed open, what a client sees
\* as a source is a page of its domain that some search for a buyer question
\* returned, or the model quoted; that was checked in this run and is not dead;
\* that is neither an entity's own page nor a proxy's; and whose domain the
\* model said is independent.
SourcesAreVouchedFor ==
    \A d \in DOMAIN sources :
        LET page == sources[d].page IN
        /\ DomainOf[page] = d
        /\ page \notin OwnPages
        /\ \/ \E s \in ToSet(response.ran) \ Leaky : page \in ToSet(response.results[s].pages)
           \/ page \in ToSet(response.cited) /\ \A s \in Leaky \cap ToSet(response.ran) : page \notin ToSet(response.results[s].pages)
        /\ origin[d] = "independent"
        /\ page \in DOMAIN checks /\ checks[page].alive # "no"

\* Invariant 2: the badge of a source is measured on the very page it links.
\* "Not visible", and a gap to win, need a text that was read and does not name
\* the brand; and no other page of the domain that was checked and lives has
\* more evidence than the one linked.
BadgeIsMeasured ==
    \A d \in DOMAIN sources :
        LET shown == sources[d]
            text == checks[shown.page].text
        IN  /\ shown.visibility \in {"Visible", "Weak visibility", "Not visible"}
            /\ shown.visibility = "Not visible" =>
                    text # <<>> /\ text[1].brand = 0 /\ Titles[shown.page] = 0
            /\ shown.visibility = "Visible" =>
                    Titles[shown.page] + Passages[shown.page] + (IF text = <<>> THEN 0 ELSE text[1].brand) >= 2
            /\ shown.gap = "open" => text[1].rival = 0
            /\ \A p \in DOMAIN checks : DomainOf[p] = d /\ checks[p].alive # "no" =>
                    PageMentions(p, checks[p]) <= shown.mentions

\* Invariant 7: a short list never reads as "nobody discusses this".  When
\* grounding returns with fewer sources than Thin, with a question no clean
\* search answered, or with pages left out because nobody could read them, the
\* note is there; and a failed stage shows nothing.
ThinCoverageIsSaid ==
    stage = "done" =>
        /\ Cardinality(DOMAIN sources) < Thin => note # {}
        /\ \A i \in DOMAIN Questions :
                \/ note # {}
                \/ \E s \in ToSet(response.ran) \ Leaky :
                        /\ response.results[s].ok
                        /\ AttributeQueries(response.ran)[s] \in {k \in DOMAIN Questions : Questions[k] = Questions[i]}
        /\ note \cap {"search failed", "independence unknown", "links unchecked"} # {} =>
                sources = <<>> /\ sitelist = {}

\* The paid reader is a last resort: at most the cap per run, one page of a
\* domain, and only where our own fetcher had read no page of it; a dead page or
\* an internal address is never sent.
FallbackIsLastResort ==
    [][ /\ Cardinality(fetched') <= MaxFetched
        /\ \A p \in fetched' \ fetched :
                /\ p \in DOMAIN checks /\ checks[p].alive # "no"
                /\ \A q \in DOMAIN checks : DomainOf[q] = DomainOf[p] =>
                        /\ checks[q].text = <<>>
                        /\ q \in fetched' => q = p ]_vars

==============================================================================
