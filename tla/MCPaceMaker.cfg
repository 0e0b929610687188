SPECIFICATION FairSpec
CONSTANTS
  N = 3
  MaxView = 1
  MaxNewViews = 4
  NewviewMessageOffset = 0
  NoQc <- MCNoQc
  HighQc <- MCNoHighQc
INVARIANTS
  TypeOK
  EveryViewBacked
  TcSound
PROPERTIES
  ViewsOnlyAdvance
  AgreedViewReached
