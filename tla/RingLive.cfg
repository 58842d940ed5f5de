SPECIFICATION LiveSpec
CONSTANTS
  r1 = r1
  r2 = r2
  r3 = r3
  c1 = c1
  c2 = c2
  Reads <- MCTwoReads
  Closers <- MCClosers
  Entries = 1
  SqEntries = 2
  CqEntries = 4
  IdMod = 3
  Results = {"full"}
  Faults = {"partial", "eintr"}
  None = None
PROPERTIES
  AdmittedReadsReturn
  CloseFinishes
