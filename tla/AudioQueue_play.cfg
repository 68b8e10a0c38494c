SPECIFICATION Spec
CONSTANTS
  alice = alice
  bob = bob
  Talkers = {alice, bob}
  Streams <- MCStreams
  IdCount = 8
  FirstId = 5
  Lag = 2
  MaxDeliveries = 4
  BufferLens = {6}
  ChannelNum = 2
  MaxPacketLosses = 3
  MaxBufferPackets = 2
  MaxBufferSize = 3
  MaxBufferTime = 8
  UsualFrameSize = 2
  SpeedChangeSteps = 2
  MaxFrames = 9
  DecoderFails = TRUE
  DebugAssertions = FALSE
  WindowSize = 2
  TimeCount = 3
CHECK_DEADLOCK FALSE
INVARIANTS QueueSound PlayedInOrder
PROPERTY TalkerEnds
