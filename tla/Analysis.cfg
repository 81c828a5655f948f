SPECIFICATION Spec
CONSTANTS
    Fold <- MCFold
    Coded = {}
    Ends = {"."}
    Breaks = {".", ":"}
    Articles = {"the", "a", "an"}
    Short = {"a", "an", "or"}
    CorporateSuffixes = {"group", "inc"}
    CategoryWords = {"cruise"}
    Brand <- MCBrand
    BrandNames <- MCBrandNames
    ContextNames <- MCContextNames
    Rivals <- MCRivals
    Personas <- MCPersonas
    IdOf <- MCIdOf
    PromptsOf <- MCPromptsOf
    Answers <- MCAnswers
    Replies <- MCReplies
    MaxSources = 1
INVARIANTS
    AnswerIsShownWhole
    EveryMentionIsEvidenced
    NumbersAgree
    HeadlineIsEarned
CHECK_DEADLOCK FALSE
