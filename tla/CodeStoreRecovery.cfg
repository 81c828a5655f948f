CONSTANTS
    p1 = p1
    p2 = p2
    c1 = c1
    j2 = j2
    k2 = k2
    Procs = {p1}
    Codes = {c1}
    Jobs = {j1, j2}
    Calls = {k1, k2}
    Home <- MCHome
    CodeOf <- MCCodeOf
    MaxUses = 1
    MaxPromptCalls = 1
    SlowJobs = {j1}
    MaxCrashes = 1
SPECIFICATION FairSpec
INVARIANTS AcceptedIsRecorded NoUseLost DeliveredNotRefunded CallsWithinAllowances
PROPERTY LostJobIsRefunded
CHECK_DEADLOCK FALSE
