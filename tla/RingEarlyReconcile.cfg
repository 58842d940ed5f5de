SPECIFICATION Spec
CONSTANTS
  r1 = r1
  r2 = r2
  r3 = r3
  c1 = c1
  c2 = c2
  Reads <- MCTwoReads
  Closers <- MCOneCloser
  Entries = 1
  SqEntries = 1
  CqEntries = 2
  IdMod = 4
  Results = {"full"}
  Faults = {}
  None = None
INVARIANTS
  ReconciledWhenReadsReturn
