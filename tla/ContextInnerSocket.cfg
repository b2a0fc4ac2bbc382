CONSTANTS
  r1 = r1
  r2 = r2
  i1 = i1
  Requests = {}
  Incoming = {i1}
  CreateResults = {"Ok"}
  SocketErrors = TRUE
  MaxLoops = 1
  MaxPackets = 1
  MaxArrivals = 2
SPECIFICATION FairSpec
CHECK_DEADLOCK FALSE
INVARIANT
  NothingUnattended
PROPERTIES
  PollReturns
  SocketServed
