CONSTANTS
  StreamIdSet = {4}
  ClientSides = {TRUE}
  ChunkSizes = {1}
  PacketSizes = {1}
  DefaultSize = 0
  SwapSizes = {0}
  MaxSends = 2
  MaxChannels = 3
  MaxRecv = 0
  ConnectionEnds = {}
SPECIFICATION Spec
CHECK_DEADLOCK FALSE
INVARIANT
  NoAcceptedDataLost
