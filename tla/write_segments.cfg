SPECIFICATION FairSpec
CONSTANTS
  opened = opened
  closed = closed
  a = a
  b = b
  EventType <- MCEventType
  Tag <- MCTag
  Req = {r1, r2, r3}
  Request <- Sized
  Shutdown = Shutdown
  QueueCapacity = 2
  MaxBatchRecords = 3
  MaxBatchBytes = 5
  MarkerBytes = 1
  MaxRecordLen = 2
  SegmentCapacity = 5
  TipsWindow = 1
  MaxEntries = 1
  MaxTypes = 1
  VerifyTips = FALSE
  ForceScan = FALSE
  MaxFaults = 1
  MaxCrashes = 1
CHECK_DEADLOCK FALSE
INVARIANTS
  SnapshotCoversWatermark
PROPERTIES
  NoOvertaking
  EveryRequestAnswered
