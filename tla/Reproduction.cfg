CONSTANTS
  None = None
  Items <- MCItems
  Pages = 20
  Levels = {0, 20}
  Values <- MCValues
  MaxCampaigns = 2
  MincoreFails = FALSE
SPECIFICATION Spec
INVARIANTS
  SummaryIsComplete
  ColdStartIsHonest
  VerdictIsMajority
PROPERTY
  NeverReplaced
