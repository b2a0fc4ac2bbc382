CONSTANTS
  Connections = {c1, c2, c3}
  Addresses = {a1, a2, a3}
  MaxCerts = 2
SPECIFICATION Spec
CHECK_DEADLOCK FALSE
INVARIANTS
  TypeOK
  PeerIsApproved
  NoUseAfterFree
  NothingLeaks
