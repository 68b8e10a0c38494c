\* A link that is in use: the ids wrap around after the first packet, and the
\* client drops the ack for id 1.  A copy of packet 2 is late: its id is that
\* of the last packet, 18.  That packet is too far ahead while the first one is
\* missing, and a command of four packets is too long.
CONSTANTS
    IdMod = 16
    GenMod = 4
    FirstId = 15
    ClientSends = TRUE
    MaxPackets = 4
    Backlog = 4
    SendWindow = 2
    MaxArrivals = 2
    GapDuplicates = TRUE
    LatePackets = {2}
    CommandLag = 4
    AckLag = 2
    MaxQueueLen = 3
    MaxFragments = 2
    CommandSizes = {1, 3, 4}
SPECIFICATION FairSpec
INVARIANTS LinkSound AckedWereReceived
PROPERTIES ImplementsChannel KeepsSenderContract EverythingDelivered
CHECK_DEADLOCK FALSE
