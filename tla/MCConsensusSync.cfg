SPECIFICATION Spec
CONSTANTS
  N = 3
  MaxView = 1
  MaxNodes = 3
  MaxAgain = 0
  MaxSyncs = 1
INVARIANTS
  CertificatesBacked
  ChainGrows
  ExecBehindLock
  WalkStaysInTree
PROPERTIES
  LocksAdvance
CHECK_DEADLOCK FALSE
