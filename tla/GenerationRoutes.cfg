SPECIFICATION Spec
CONSTANTS
    r1 = r1
    r2 = r2
    p1 = p1
    Requests = {r1, r2}
    Personas = {p1}
    Totals = {2, 3}
    CategoryCounts = {0, 2, 4}
    MaxCalls = 2
    MaxPrompts = 3
    MaxUses = 1
    MaxRefunds = 1
    Texts <- MCTexts
    NameMax = 3
    ParagraphMax = 4
    MaxAliases = 2
    MaxCompetitors = 1
    TermSizes <- MCTermSizes
    MaxTerms = 1
    MaxList = 2
SYMMETRY Symmetry
INVARIANTS
    EveryGenerationIsPaid
    WithinTheTotal
    AnswersAreAccepted
    PromptsNameNoBrand
CHECK_DEADLOCK FALSE
