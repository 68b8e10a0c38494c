SPECIFICATION Spec
CONSTANTS
  SendMutes = {}
  OutputMutes = {"output"}
  Channels = {1, 2}
  Moderated = {2}
  Levels = {8, 9, 21}
  MaxLevel = 20
  MaxAddresses = 1
  CodeCount = 2
  MaxOps = 2
  MaxNews = 1
  MaxConnects = 2
CHECK_DEADLOCK FALSE
INVARIANTS StateSound AudioEventsSuffice
PROPERTIES ImplementsSession Reconnects
