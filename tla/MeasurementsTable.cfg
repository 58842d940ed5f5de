CONSTANTS
  None = None
  MaxTime = 2
  Bags <- MCFewBags
SPECIFICATION Spec
INVARIANT
  TableShowsLatency
