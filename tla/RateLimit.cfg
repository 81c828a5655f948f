SPECIFICATION LimiterSpec
CONSTANTS
    r1 = r1
    r2 = r2
    Hosts <- TwoClients
    Requests = {r1, r2}
    PerKey = 2
    TightPerKey = 1
    GlobalLimit = 2
    Window = 1
    MaxTrackedKeys = 1
    MaxTime = 2
    MaxFailures = 3
SYMMETRY Symmetry
INVARIANTS
    AllowanceHolds
PROPERTIES
    FloodTightens
    OnlyGuessersAreRefused
CHECK_DEADLOCK FALSE
