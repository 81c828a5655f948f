CONSTANTS
    p1 = p1
    p2 = p2
    c1 = c1
    j2 = j2
    k2 = k2
    Procs = {p1}
    Codes = {c1}
    Jobs = {j1, j2}
    Calls = {}
    Home <- MCHome
    CodeOf <- MCCodeOf
    MaxUses = 2
    MaxPromptCalls = 1
    SlowJobs = {}
    MaxCrashes = 1
SPECIFICATION Spec
INVARIANT CrashLosesNoUse
CHECK_DEADLOCK FALSE
