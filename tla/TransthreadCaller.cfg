SPECIFICATION MC_FairSpec
CONSTANTS
    Threads = {t1, t2}
    Registered <- MC_Registered
    Routes <- MC_Routes
    Kinds = {"job", "WaitRespond", "Read", "Write"}
    MaxCalls = 4
    MaxReceivers = 4
    Cancels = {t1, t2}
    Finishes = {t1, t2}
    Spurious = TRUE
    Rebuilds = TRUE
CHECK_DEADLOCK FALSE
INVARIANTS PostedCallsSeen ResultIsTrue BufferInUse
PROPERTIES WaitsEnd
