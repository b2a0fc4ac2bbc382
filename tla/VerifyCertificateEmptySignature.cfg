CONSTANTS
  Connections = {c1, c2}
  Addresses = {a1, a2}
  MaxCerts = 1
SPECIFICATION Spec
CHECK_DEADLOCK FALSE
INVARIANT
  SignatureIsVerified
