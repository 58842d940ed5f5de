CONSTANTS
  MaxLimit = 2
  None = None
SPECIFICATION Spec
INVARIANTS
  NothingLeaks
  RunsAsAsked
  RecordIsHonest
  RejectedOnlyIfNotHonoured
