CONSTANTS
  Requests = {r1, r2, r3}
  Errors = {"TLSHandshakeError", "Unknown"}
SPECIFICATION Spec
CHECK_DEADLOCK FALSE
INVARIANTS
  RefusedRequestLearnsError
