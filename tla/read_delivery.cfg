SPECIFICATION FairSpec
CONSTANTS
  opened = opened
  closedType = closedType
  a = a
  EventType <- MCEventType
  Tag <- MCTag
  Sub = {s1}
  Kinds <- AnyKind
  Queries <- MCQueries
  Starts = {0, 2}
  Committable <- MCCommittable
  MaxBatchEvents = 2
  MaxLog = 3
  MaxBatch = 2
  MaxTimeouts = 1
  Nobody = Nobody
CHECK_DEADLOCK FALSE
INVARIANTS
  DeliveredExactly
  EndedIsDrained
PROPERTIES
  EventsReachSubscribers
  CloseEndsSubscribers
