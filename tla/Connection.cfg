CONSTANTS
  r1 = r1
  r2 = r2
  Requests = {r1, r2}
  Roles = {TRUE, FALSE}
  PeerStreams = {4, 5}
  MaxHandOuts = 1
  MaxMessages = 1
  Failures = {"none", "Unknown"}
  MayShutDown = TRUE
SPECIFICATION FairSpec
CHECK_DEADLOCK FALSE
INVARIANTS
  TypeOK
  CallbackHasContext
  FreshStreamIds
  RequestWakesLoop
  ErrorReachesRequests
PROPERTIES
  RequestsResolveWhileRunning
  ConnectResolves
  CloseCompletes
