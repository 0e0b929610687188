SPECIFICATION Spec
CONSTANTS
  N = 3
  MaxView = 1
  MaxNewViews = 5
  NewviewMessageOffset = 0
  NoQc <- MCNoQc
  HighQc <- MCNoHighQc
INVARIANTS
  ViewChangeKeepsInactive
