SPECIFICATION Spec
CONSTANTS
  Capacity = 5
  MarkerLen = 1
  BufferLen = 1
  Shapes <- MCShapes
  FaultKinds = {"write", "rewind", "sync", "create", "header"}
  MaxBatches = 3
  MaxFaults = 2
  MaxCrashes = 2
CHECK_DEADLOCK FALSE
INVARIANTS
  AckedSurvives
  CursorIsRecoverable
  OneCrashKeepsBatchesWhole
  OneCrashReopens
