SPECIFICATION Spec
SYMMETRY Interchangeable
CONSTANTS
  r1 = r1
  r2 = r2
  r3 = r3
  c1 = c1
  c2 = c2
  Reads <- MCReads
  Closers <- MCOneCloser
  Entries = 1
  SqEntries = 1
  CqEntries = 2
  IdMod = 3
  Results = {"full", "short"}
  Faults = {"enterErr", "eintr", "waitErr", "spurious"}
  None = None
INVARIANTS
  TypeOK
  KernelBuffersStayPinned
  PinsHaveOwner
  ReturnsItsOwnResult
  FatalKeepsRingOpen
  DuplicatesAreTold
\* After waitErr the calls in progress wait for ever.
CHECK_DEADLOCK FALSE
