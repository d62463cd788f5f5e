SPECIFICATION MC_FairSpec
CONSTANTS
    Thread = {t1, t2, t3}
    Activation = {a1, a2, a3, a4}
    NoThread = NoThread
    NoPacket = NoPacket
    CallIdCount = 3
    MaxIncoming = 2
    CallKind = {"wait", "process", "async", "enumerate"}
    PeerSends = {"pt_return", "pt_call", "pt_return_fail_call", "pt_return_enumerate", "pt_enumerate"}
    Reenter = {"handler", "read", "write"}
    Failures = {"cancel", "expire"}
    Loads <- MC_Ends
CHECK_DEADLOCK FALSE
INVARIANTS AnswersKept
PROPERTIES CancelReleasesAll EveryCallReturns
