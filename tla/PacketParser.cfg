SPECIFICATION FairSpec
CONSTANTS
    HeaderSize = 2
    BodySize = {0, 2}
    MaxPackets = 3
    Failures = {"disconnect", "cancel", "expire"}
INVARIANTS Reassembled
PROPERTIES ImplementsFifo EveryPacketDelivered
