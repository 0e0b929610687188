SPECIFICATION Spec
CONSTANTS
  N = 3
  MaxView = 2
  MaxNodes = 3
  MaxAgain = 0
  MaxSyncs = 0
INVARIANTS
  Agreement
  OneBranchPerView
  TypeOK
  OneCertificatePerSequence
  SequencesGrowWithViews
  DeliveryFollowsChain
  ExecutedOnThreeChain
CHECK_DEADLOCK FALSE
