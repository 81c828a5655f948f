SPECIFICATION MigrationFairSpec
CONSTANTS
    Procs = {p1, p2}
    OldRows = {o1}
    NewRows = {n1, n2}
    MaxDeaths = 2
INVARIANTS
    OldUsesStayUsed
PROPERTIES
    MigratesInTheEnd
CHECK_DEADLOCK FALSE
