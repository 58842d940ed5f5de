CONSTANTS
  None = None
  Items <- MCSlowAndResident
  Pages = 20
  Levels = {0, 20}
  Values <- MCValues
  MaxCampaigns = 1
  MincoreFails = TRUE
SPECIFICATION Spec
INVARIANT
  ColdStartIsHonest
