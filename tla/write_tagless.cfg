SPECIFICATION Spec
CONSTANTS
  opened = opened
  closed = closed
  a = a
  b = b
  EventType <- MCEventType
  Tag <- MCTag
  Req = {r1, r2, r3}
  Request <- Tagless
  Shutdown = Shutdown
  QueueCapacity = 2
  MaxBatchRecords = 2
  MaxBatchBytes = 4
  MarkerBytes = 1
  MaxRecordLen = 2
  SegmentCapacity = 20
  TipsWindow = 1
  MaxEntries = 1
  MaxTypes = 1
  VerifyTips = FALSE
  ForceScan = FALSE
  MaxFaults = 0
  MaxCrashes = 0
SYMMETRY Symmetric
CHECK_DEADLOCK FALSE
INVARIANTS
  ConditionSound
