CONSTANTS
  FileNames = {"file", "missing", "nonUnicode"}
  Memories = {"DER", "PEM", "badPEM"}
SPECIFICATION Spec
CHECK_DEADLOCK FALSE
INVARIANTS
  FailedSetupIsUndone
  CredentialsTakeEffect
