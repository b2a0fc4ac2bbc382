CONSTANTS
  StreamIdSet = {4, 6, 7}
  ClientSides = {TRUE}
  ChunkSizes = {2}
  PacketSizes = {1}
  DefaultSize = 0
  SwapSizes = {0}
  MaxSends = 2
  MaxChannels = 3
  MaxRecv = 1
  ConnectionEnds = {"local", "none", "Unknown"}
SPECIFICATION FairSpec
CHECK_DEADLOCK FALSE
INVARIANTS
  RemovedOnlyWhenFinished
  SenderHasReceiver
  ErrorReachesSender
PROPERTIES
  StopSendingOnce
  AcceptedDataIsSent
  DroppedStreamIsForgotten
