\* Three commands, one low priority command and the handshake; no id wraps.
CONSTANTS
    IdMod = 8
    GenMod = 4
    FirstId = 1
    InitSteps = {0, 2}
    MaxQueued <- MCMaxQueued
    MaxWindow = 2
    MaxClock = 8
SPECIFICATION Spec
INVARIANTS TypeOK NoPacketForgotten NeverStalls QueueWithinWindow AckEventExact
PROPERTY ImplementsSender
CHECK_DEADLOCK FALSE
