CONSTANTS
  r1 = r1
  r2 = r2
  Requests = {r1}
  Roles = {TRUE}
  PeerStreams = {5}
  MaxHandOuts = 2
  MaxMessages = 2
  Failures = {"none", "Unknown"}
  MayShutDown = FALSE
SPECIFICATION Spec
CHECK_DEADLOCK FALSE
INVARIANT
  EachStreamHandedOutOnce
