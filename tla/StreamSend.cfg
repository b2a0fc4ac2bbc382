CONSTANTS
  StreamIdSet = {4}
  ClientSides = {TRUE}
  ChunkSizes = {0, 1, 3}
  PacketSizes = {1, 2}
  DefaultSize = 1
  SwapSizes = {0}
  MaxSends = 3
  MaxChannels = 2
  MaxRecv = 0
  ConnectionEnds = {"local", "Unknown"}
SPECIFICATION Spec
CHECK_DEADLOCK FALSE
INVARIANTS
  TypeOK
  NoPanic
  WireInOrder
  NoAcceptedDataLost
  FinCompletesTheStream
  ResetOnlyWithoutData
PROPERTIES
  ImplementsPipe
