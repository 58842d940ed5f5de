CONSTANTS
  MaxLimit = 2
  None = None
  Word = 2
  Outstanding = 1
  WorkerMax <- MCWorkerMax
  Configs <- MCConfigs
SPECIFICATION Spec
INVARIANTS
  RefusedOnlyIfLost
  GateIsSound
  ModesAreDistinct
  GateIsFair
