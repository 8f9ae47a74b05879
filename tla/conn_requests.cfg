SPECIFICATION Spec
CONSTANTS
    Scripts <- ConnScripts
    AppendBudget = 1
    ReadBudget = 1
    SubBudget = 1
    ReadWorkers = 1
    ControlDepth = 1
    BulkDepth = 1
    MaxControlRun = 1
    WireDepth = 1
    MaxEvents = 1
CHECK_DEADLOCK FALSE
INVARIANTS
  PermitsBalance
  FramesInOrder
  BulkNotStarved
PROPERTIES
  RequestsAnswered
  TeardownEndsOrWedges
