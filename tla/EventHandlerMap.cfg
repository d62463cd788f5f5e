SPECIFICATION MC_FairSpec
CONSTANTS
    Threads = {t1, t2}
    Events <- MC_Events
    Tags = {g, h}
    Skips = {TRUE, FALSE}
    MaxHandlers = 3
    MaxDepth = 3
    MaxOperations = 4
CHECK_DEADLOCK FALSE
INVARIANTS WalksComplete NotAfterClear
PROPERTIES ListsKept OperationsReturn
