SPECIFICATION RestartSpec
CONSTANTS
  N = 3
  MaxView = 0
  MaxNodes = 2
  MaxAgain = 0
  MaxSyncs = 2
  MaxRestarts = 2
INVARIANTS
  DeliveryFollowsChain
PROPERTIES
  RestartedCatchUp
CHECK_DEADLOCK FALSE
