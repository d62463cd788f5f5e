SPECIFICATION MC_FairSpec
CONSTANTS
    Threads = {t1, t2}
    JobThreads = {"job"}
    Maps = {"server", "connection"}
    Keys = {"k", "l"}
    Returns = {"r", "s"}
    Tags = {"a", "b"}
    Handlers <- MC_Handlers
    Callbacks <- MC_Callbacks
    Copies <- MC_Copies
    Guards = TRUE
    None = None
    MaxInfos = 2
    MaxCalls = 2
INVARIANTS MapsConsistent CalledOnce
PROPERTIES HandlerKept CallsAnswered
