CONSTANTS
  Workers = {w1, w2}
  None = None
  Results = {"full", "error"}
  MaxOperations = 3
  CheckEvery = 2
  MaxReads = 2
  RingMayFail = TRUE
SPECIFICATION FairSpec
INVARIANTS
  MainIsAlone
  WorkIsExact
  OkIsEarned
  LimitHolds
  PeakIsNotMissed
PROPERTY
  RunEnds
\* A run whose ring has failed may hang.
CHECK_DEADLOCK FALSE
