SPECIFICATION Spec
CONSTANTS
  N = 4
  MaxView = 4
  MaxNodes = 1
  MaxAgain = 0
  MaxSyncs = 0
PROPERTIES
  VotesInOwnView
CHECK_DEADLOCK FALSE
