SPECIFICATION Spec
CONSTANTS
    Tlds = {"com", "app"}
    PackagePrefixes = {"com"}
    Spaced = {"merriam webster"}
    Digits = {"418987775"}
    Candidates <- MCCandidates
    HostingPlatforms <- MCHostingPlatforms
    Exports <- WithWebsite
    Named <- MCNamed
    Resolving <- MCResolving
    LookedUp <- MCLookedUp
INVARIANT ExportIsShown
