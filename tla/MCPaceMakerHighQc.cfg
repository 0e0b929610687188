SPECIFICATION Spec
CONSTANTS
  N = 3
  MaxView = 0
  MaxNewViews = 5
  NewviewMessageOffset = 1
  NoQc <- MCNoQc
  HighQc <- MCHighQc
INVARIANTS
  HighQcSurvives
