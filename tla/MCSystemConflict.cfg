SPECIFICATION ScheduleSpec
CONSTANTS
  N = 4
  MaxView = 3
  MaxNewViews = 9
  NewviewMessageOffset = 5
  MaxNodes = 6
  MaxAgain = 0
  MaxSyncs = 0
INVARIANTS
  Finality
