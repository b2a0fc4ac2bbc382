CONSTANTS
  r1 = r1
  r2 = r2
  i1 = i1
  Requests = {r1, r2}
  Incoming = {}
  CreateResults = {"Ok", "Err", "panic"}
  SocketErrors = FALSE
  MaxLoops = 1
  MaxPackets = 0
  MaxArrivals = 0
SPECIFICATION FairSpec
CHECK_DEADLOCK FALSE
PROPERTIES
  RequestsAnswered
  DataServed
  ConnectionsGo
  LoopEnds
