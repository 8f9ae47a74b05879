SPECIFICATION Spec
CONSTANTS
  opened = opened
  closed = closed
  a = a
  b = b
  EventType <- MCEventType
  Tag <- MCTag
  Req = {r1, r2, r3}
  Request <- Conditional
  Shutdown = Shutdown
  QueueCapacity = 2
  MaxBatchRecords = 2
  MaxBatchBytes = 4
  MarkerBytes = 1
  MaxRecordLen = 2
  SegmentCapacity = 5
  TipsWindow = 1
  MaxEntries = 1
  MaxTypes = 1
  VerifyTips = FALSE
  ForceScan = FALSE
  MaxFaults = 2
  MaxCrashes = 1
SYMMETRY Symmetric
CHECK_DEADLOCK FALSE
INVARIANTS
  TypeOK
  ConditionSound
  FastPathExact
  ReadYourWrites
PROPERTIES
  RefinesStore
