------------------------------ MODULE Fitting ------------------------------
(***************************************************************************)
(* app/models.py, app/services/detect.py, category_gen.py, persona_gen.py: *)
(* what becomes of a text the model writes, and what the next request      *)
(* takes.  A detected brand, a suggested category and a generated persona  *)
(* all come back from the client in later requests, whose fields are       *)
(* bounded; detection and categories fit them to the bounds where they are *)
(* produced, personas do not.                                              *)
(*                                                                         *)
(* A text is its size in characters without the blanks around it, the      *)
(* punctuation characters that vanish from its plain form, and its word,   *)
(* which tells texts apart whatever their case.                            *)
(***************************************************************************)
EXTENDS Lists, Integers, SequencesExt

CONSTANTS
    Texts,              \* texts the model may write in a field
    NameMax,            \* NAME_MAX
    ParagraphMax,       \* PARAGRAPH_MAX, and LINE_MAX
    MaxAliases,         \* MAX_ALIASES
    MaxCompetitors,     \* MAX_COMPETITORS
    TermSizes,          \* sizes of a category term
    MaxTerms,           \* of category terms
    MaxList             \* bound: names and entries in a list the model writes

ASSUME FittingAssumption ==
    /\ Texts \subseteq [word : STRING, marks : Nat, size : Nat]
    /\ {NameMax, ParagraphMax, MaxAliases} \subseteq Nat \ {0}
    /\ {MaxCompetitors, MaxTerms, MaxList} \subseteq Nat
    /\ TermSizes \subseteq 1..NameMax

Given(text) == text.size > 0
ListsOf(S) == UNION {[1..k -> S] : k \in 0..MaxList}

\* Mutant: the ellipsis is added to a text cut at the limit itself.
FittedWithEllipsis(text, limit) ==
    IF text.size <= limit THEN {text}
    ELSE {[text EXCEPT !.size = size] : size \in 2..limit + 1}

\* fit(): a text over the limit is cut where its last word within it starts,
\* or inside that word when it is the only one; punctuation at the cut goes, an
\* ellipsis comes.  Where that is depends on the words: any size that leaves.
Fitted(text, limit) ==
    IF text.size <= limit THEN {text}
    ELSE {[text EXCEPT !.size = size] : size \in 1..limit}

-----------------------------------------------------------------------------
(* Names of the brand and of its competitors.                              *)

Plain(name) == [word |-> name.word, marks |-> 0, size |-> name.size - name.marks]

WithPlainVariants(names) ==
    FlattenSeq([i \in DOMAIN names |->
        IF Plain(names[i]) # names[i] /\ Given(Plain(names[i]))
        THEN <<names[i], Plain(names[i])>>
        ELSE <<names[i]>>])

\* The names of a size that is wanted, each once, after those there already.
Distinct(names, sizes, there) ==
    LET out[n \in 0..Len(names)] ==
            IF n = 0 THEN there
            ELSE IF names[n].size \in sizes /\ names[n] \notin ToSet(out[n - 1])
                 THEN Append(out[n - 1], names[n])
                 ELSE out[n - 1]
    IN  out[Len(names)]

Upto(list, limit) == SubSeq(list, 1, IF Len(list) < limit THEN Len(list) ELSE limit)

\* Mutant: the entity's own name is put before names already cut to the limit.
FitNamesThenKeep(names, keep) ==
    keep \o Upto(Distinct(WithPlainVariants(names), 2..NameMax, <<>>), MaxAliases)

\* keep: the entity's own name, or nothing, kept whatever its size.
FitNames(names, keep) ==
    Upto(Distinct(WithPlainVariants(names), 2..NameMax, keep), MaxAliases)

\* A list, or one string joined by commas; a field of another shape is empty.
AsNames(value) == Sift(value, {name \in ToSet(value) : Given(name)})

CategoryTerms(value) ==
    Upto(Distinct(AsNames(value), TermSizes, <<>>), MaxTerms)

\* An entity has its own name among its names, first, unless it has none.
Entity(own, value) ==
    [name |-> own, matchNames |-> FitNames(AsNames(value), IF Given(own) THEN <<own>> ELSE <<>>)]

\* An entry of the model's competitors: a bare name, a name with other names, or
\* something else, which is left out like an entry without a name.
RivalEntry == [shape : {"name"}, name : Texts, names : {<<>>}]
                \cup [shape : {"object"}, name : Texts, names : [1..1 -> Texts]]
                \cup {[shape |-> "other"]}

Rivals(entry) ==
    IF entry.shape = "other" THEN {}
    ELSE {Entity(own, entry.names) : own \in {n \in Fitted(entry.name, NameMax) : Given(n)}}

\* Competitors the model's entries may come to: the list is cut before entries
\* are left out.
Competitors(entries) ==
    LET kept == Sift(Upto(entries, MaxCompetitors), {e \in RivalEntry : Rivals(e) # {}})
    IN  {rivals \in [DOMAIN kept -> UNION {Rivals(kept[k]) : k \in DOMAIN kept}] :
            \A k \in DOMAIN kept : rivals[k] \in Rivals(kept[k])}

-----------------------------------------------------------------------------
(* What a request takes.  Blank names in a list are dropped, not refused.  *)

IsName(text) == text.size \in 1..NameMax
IsParagraph(text) == text.size <= ParagraphMax
IsAliases(names) == Len(AsNames(names)) <= MaxAliases /\ \A n \in ToSet(AsNames(names)) : IsName(n)
IsTerms(names) == Len(AsNames(names)) <= MaxTerms /\ \A n \in ToSet(AsNames(names)) : IsName(n)
IsCompetitor(rival) == IsName(rival.name) /\ IsAliases(rival.matchNames)

-----------------------------------------------------------------------------
(* The answers, over everything the model may write, and whether the next  *)
(* request takes them back: "accepted", "refused", or "incomplete" when    *)
(* the model gave no brand and it is the user who has to.                  *)

Verdict(complete, accepted) ==
    IF ~complete THEN "incomplete" ELSE IF accepted THEN "accepted" ELSE "refused"

DetectedBrands ==
    {Entity(own, names) : own \in UNION {Fitted(text, NameMax) : text \in Texts},
                          names \in ListsOf(Texts)}
DetectedContexts == {FitNames(AsNames(names), <<>>) : names \in ListsOf(Texts)}
DetectedTerms == {CategoryTerms(names) : names \in ListsOf(Texts)}
DetectedRivals == UNION {Competitors(entries) : entries \in ListsOf(RivalEntry)}
DetectedLines == UNION {Fitted(text, ParagraphMax) : text \in Texts}

\* detect_brand(): every field is judged on its own, beside the brand itself.
DetectedParts ==
    {IsAliases(c) : c \in DetectedContexts}
        \cup {IsTerms(t) : t \in DetectedTerms}
        \cup {IsParagraph(l) : l \in DetectedLines}
        \cup {Len(c) <= MaxCompetitors /\ \A r \in ToSet(c) : IsCompetitor(r) :
                  c \in DetectedRivals}

DetectVerdicts ==
    {Verdict(Given(b.name), ok /\ IsName(b.name) /\ IsAliases(b.matchNames)) :
        b \in DetectedBrands, ok \in DetectedParts}

\* generate_categories(): suggestions are picked one by one; one without a name
\* or a context is left out.
CategoryVerdicts ==
    {Verdict(TRUE, IsName(name) /\ IsParagraph(context)) :
        name \in {n \in UNION {Fitted(text, NameMax) : text \in Texts} : Given(n)},
        context \in {c \in UNION {Fitted(text, ParagraphMax) : text \in Texts} : Given(c)}}

\* generate_personas() and expand_custom_persona() send on what the model wrote;
\* a missing title is replaced, a blank one is not.
PersonaVerdicts ==
    {Verdict(TRUE, IsName(title) /\ IsParagraph(line)) : title \in Texts, line \in Texts}

=============================================================================
