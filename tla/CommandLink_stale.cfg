\* Packet ids wrap around; a packet arrives twice while it waits behind a gap.
CONSTANTS
    IdMod = 7
    GenMod = 3
    FirstId = 1
    ClientSends = TRUE
    MaxPackets = 9
    Backlog = 4
    SendWindow = 2
    MaxArrivals = 2
    GapDuplicates = TRUE
    LatePackets = {}
    CommandLag = 3
    AckLag = 1
    MaxQueueLen = 2
    MaxFragments = 2
    CommandSizes = {1}
SPECIFICATION Spec
INVARIANT DeliveredInOrder
CHECK_DEADLOCK FALSE
