CONSTANTS
  Ops = {o1, o2, o3}
  SqEntries = 2
  CqEntries = 2
  Word = 8
SPECIFICATION FairSpec
INVARIANTS
  TypeOK
  RoomIsRight
PROPERTIES
  AreQueues
  AllFinish
