CONSTANTS
  FileNames = {"file", "missing"}
  Memories = {"DER", "badPEM"}
SPECIFICATION Spec
CHECK_DEADLOCK FALSE
INVARIANT
  RootsAreOverwritten
