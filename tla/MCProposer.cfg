SPECIFICATION FairSpec
CONSTANTS
  b = b
  c = c
  d = d
  Address = {s, b, c, d}
  Self = s
  Responsive = {c, d}
  Certifiers <- MCCertifiers
  Lists <- MCLists
  Replaces <- MCReplaces
  Hearing <- MCHearing
  MaxView <- MCMaxView
  MaxNodes = 2
  MaxLeaves = 2
  MaxProposals = 1
INVARIANTS
  TypeOK
  VotesWithinSignatures
  CertificateAccepted
  EngineIdsCurrent
  HighestLeafIsHighest
PROPERTIES
  ProposalCertified
CHECK_DEADLOCK FALSE
