SPECIFICATION MC_FairSpec
CONSTANTS
    None = None
    Transports = {p, q}
    Clients = {c}
    Indexes = {1, 2}
    WithAutotests = TRUE
    MaxTests = 2
    MaxPackets = 1
CHECK_DEADLOCK FALSE
INVARIANTS ConnectionsKnown AutotestsOfConnection UsageMatches
PROPERTIES ServerServes
