\* Room for two of three packets; every kind of datagram, and a voice packet or
\* a ping.
CONSTANTS
    SinkCapacity = 2
    Window = 2
    MaxArrivals = 2
    MaxQueued = 3
    MaxPings = 1
SPECIFICATION FairSpec
INVARIANTS PollSound NoMissedDatagram WindowNotIdle
PROPERTY EverythingSent
CHECK_DEADLOCK FALSE
