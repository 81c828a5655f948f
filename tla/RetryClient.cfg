SPECIFICATION ClientFairSpec
CONSTANTS
    s = s
    u = u
    x = x
    y = y
    t = t
    f = f
    fancy = fancy
    plain = plain
    sg = sg
    Nowhere = Nowhere
    Unnamed = Unnamed
    Calls = {u, x}
    Kind <- MCKind
    Model <- MCModel
    Location <- MCLocation
    RejectsForced = {fancy}
    Unsupported = {sg, Unnamed}
    Slots = 1
    MaxRetries = 2
    RateLimitMaxRetries = 2
    MaxPauseResumes = 2
INVARIANTS
    RequestsAreBounded
    TurnIsWhole
PROPERTIES
    QueueMoves
CHECK_DEADLOCK FALSE
