\* Two packets each way through sockets that hold one.
CONSTANTS
    Sizes = {0, 1, 2}
    QueueMax = 1
    MaxPackets = 2
SPECIFICATION FairSpec
INVARIANTS TypeOK NothingIsLost CountersAreExact
PROPERTIES  PumpsEnd RefusedPacketEndsRelay
CHECK_DEADLOCK FALSE
