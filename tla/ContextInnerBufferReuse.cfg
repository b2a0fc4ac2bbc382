CONSTANTS
  r1 = r1
  r2 = r2
  i1 = i1
  Requests = {r1}
  Incoming = {i1}
  CreateResults = {"Ok", "Err", "panic"}
  SocketErrors = FALSE
  MaxLoops = 1
  MaxPackets = 2
  MaxArrivals = 1
SPECIFICATION Spec
CHECK_DEADLOCK FALSE
INVARIANT
  SentIsPrepared
