SPECIFICATION Spec
CONSTANTS
    Tlds = {"com", "app"}
    PackagePrefixes = {"com"}
    Spaced = {"merriam webster"}
    Digits = {"418987775"}
    Candidates <- MCCandidates
    HostingPlatforms <- MCHostingPlatforms
    Exports <- TwoExports
    Named <- MCNamed
    Resolving <- MCResolving
    LookedUp <- MCLookedUp
INVARIANTS
    OnlyRealSitesAreBuyable
    ReachIsCurrent
PROPERTY
    PaidTagsSurvive
