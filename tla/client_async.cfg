SPECIFICATION Spec
CONSTANTS
    Workloads <- Mixes
    Budget = 2
    QueueDepth = 1
    MaxEvents = 1
CHECK_DEADLOCK FALSE
INVARIANTS
  EntriesAreDue
  CleanEndsAreWhole
PROPERTIES
  CallersResolve
