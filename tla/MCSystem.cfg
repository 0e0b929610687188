SPECIFICATION SystemSpec
CONSTANTS
  N = 3
  MaxView = 1
  MaxNewViews = 2
  NewviewMessageOffset = 5
  MaxNodes = 1
  MaxAgain = 0
  MaxSyncs = 1
PROPERTIES
  RefinesConsensus
  RefinesPaceMaker
CHECK_DEADLOCK FALSE
