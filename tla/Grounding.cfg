SPECIFICATION Spec
CONSTANTS
    Searches = {"verbatim", "again", "trimmed", "astray", "lookup"}
    QueryWords <- MCQueryWords
    Leaky = {"lookup"}
    PromptLists <- MCPromptLists
    Pages = {"blog1", "blog2", "blog3", "thread", "review", "own"}
    DomainOf <- MCDomainOf
    OwnPages = {"own"}
    Communities = {"forum"}
    Titles <- MCTitles
    Passages <- MCPassages
    Responses <- MCResponses
    Bodies <- MCBodies
    MaxChecked = 2
    MaxFetched = 1
    Thin = 2
INVARIANTS
    SourcesAreVouchedFor
    BadgeIsMeasured
    ThinCoverageIsSaid
PROPERTY
    FallbackIsLastResort
CHECK_DEADLOCK FALSE
