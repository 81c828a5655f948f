CONSTANTS
    j1 = j1
    a = a
    b = b
    Jobs = {j1}
    Order <- TwoInOrder
    Streams = {1, 2}
    Watches <- MCWatches
    Concurrency = 1
    Raises = TRUE
SPECIFICATION FairSpec
INVARIANTS FullPicture ClientsAgreeWithLedger JobAndTasksLiveTogether
PROPERTIES KeepsContract OnePersonaIsEnough EveryStreamEnds LeakIsReclaimed
CHECK_DEADLOCK FALSE
