CONSTANTS
  Channels = {c1, c2, c3}
  Root = root
  Clients = {k1, k2}
  Own = k1
  Nothing = nothing
  Names = {n1, n2}
  MaxEdits = 1
SPECIFICATION BookSpec
SYMMETRY ChannelSymmetry
INVARIANTS ChannelsMatch ClientsMatch EventsTellAll
CHECK_DEADLOCK FALSE
