SPECIFICATION MC_FairSpec
CONSTANTS
    Endpoint = {e1, e2}
    Polls = {e1}
    CallKind = {"now", "later", "async", "enumerate"}
    MaxCalls = 3
    MaxDepth = 2
    Failures = {"cancel"}
CHECK_DEADLOCK FALSE
INVARIANTS PacketsKept OnlyLaterLeaves
PROPERTIES CallsComplete CancelFreesBoth
