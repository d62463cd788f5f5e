SPECIFICATION MC_FairSpec
CONSTANTS
    Threads = {t1, t2}
    Events = {e1, e2}
    Calls = {"call"}
    States = {"on_disconnected"}
    Counters = {"counter"}
    W = 3
    MaxSignals = 4
    MaxChecks = 2
    MaxBinds = 2
    Flags = {FALSE, TRUE}
    Initials = {"zero", "current"}
    Resets = {"wait_next_after_trigger", "wait_next_after_reset", "wait_next_after_zero"}
CHECK_DEADLOCK FALSE
INVARIANTS SignalsSeen
PROPERTIES ResultIsTrue WaitsEnd
