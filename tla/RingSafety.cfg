SPECIFICATION Spec
SYMMETRY Interchangeable
CONSTANTS
  r1 = r1
  r2 = r2
  r3 = r3
  c1 = c1
  c2 = c2
  Reads <- MCReads
  Closers <- MCClosers
  Entries = 2
  SqEntries = 2
  CqEntries = 2
  IdMod = 4
  Results = {"full"}
  Faults = {"partial", "eintr"}
  None = None
INVARIANTS
  OutstandingIsExact
  WindowIsRecent
  EveryOperationInOnePlace
  CloseLeavesNothing
  CountersReconcileAfterClose
PROPERTY
  CloseRefusedOnlyOverReads
  Service
