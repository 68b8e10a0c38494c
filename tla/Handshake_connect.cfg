CONSTANTS
  Levels = {1, 3}
  MaxPuzzle = 2
  Defects = {"OutdatedServer", "InvalidSignature"}
  WantedUid = u1
  ServerUids = {u1, u2}
  NoUid = none
  MaxRestarts = 1
  MaxFaults = 1
  MaxFlight = 3
  MaxNews = 1
SPECIFICATION Spec
INVARIANTS HandshakeSound ServerCanDecrypt OnlyToWantedServer
PROPERTIES HandshakeCompletes
CHECK_DEADLOCK FALSE
