SPECIFICATION Spec
CONSTANTS
  N = 4
  MaxView = 0
  MaxNodes = 2
  MaxAgain = 1
  MaxSyncs = 0
INVARIANTS
  PreCommittedOnce
