\* Commands, pings and disconnects; ids do not wrap.
CONSTANTS
    IdMod = 32
    GenMod = 2
    PingCount = 2
    PingInterval = 2
    Rto = 2
    ConnectingTimeout = 2
    NormalTimeout = 3
    DisconnectTimeout = 2
    FirstPing = 0
    MaxQueued = 2
    MaxTime = 11
SPECIFICATION Spec
INVARIANTS SilenceNoticed TimersSound DisconnectEnds
CHECK_DEADLOCK FALSE
