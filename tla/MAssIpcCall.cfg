SPECIFICATION MC_Spec
CONSTANTS
    Thread = {t1, t2, t3}
    Activation = {a1, a2, a3}
    NoThread = NoThread
    NoPacket = NoPacket
    CallIdCount = 4
    MaxIncoming = 3
    CallKind = {"wait", "process", "async", "enumerate"}
    PeerSends = {"pt_return", "pt_call", "pt_return_fail_call", "pt_return_enumerate", "pt_enumerate"}
    Reenter = {"handler", "read", "write"}
    Failures = {"cancel", "expire"}
    Loads <- MC_Calls
CHECK_DEADLOCK FALSE
INVARIANTS ReaderHandover EmptyOnlyOnFailure IncomingHandled
PROPERTIES ImplementsContract
