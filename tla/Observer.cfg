CONSTANTS
  None = None
  MaxThreads = 3
  MaxSamples = 3
SPECIFICATION FairSpec
INVARIANTS
  ReportIsTheChilds
PROPERTIES
  PeakIsFinal
  Reported
