CONSTANTS
  StreamIdSet = {4}
  ClientSides = {TRUE}
  ChunkSizes = {1}
  PacketSizes = {1}
  DefaultSize = 0
  SwapSizes = {0}
  MaxSends = 1
  MaxChannels = 2
  MaxRecv = 0
  ConnectionEnds = {"Unknown"}
SPECIFICATION Spec
CHECK_DEADLOCK FALSE
PROPERTY
  ConnectionErrorReachesSender
