SPECIFICATION Spec
CONSTANTS
  opened = opened
  closed = closed
  x = x
  y = y
  EventType <- MCEventType
  Tag <- MCTag
  Appendable <- MCAppendable
  Queries <- MCQueries
  Limits <- MCLimits
  TypeLimit = 1
  Chunk = 2
  Biases = {1, 2}
  Cursors = {0, 2, 4}
  MaxLog = 3
  MaxBatch = 2
  MaxPages = 2
  MaxReopens = 1
CHECK_DEADLOCK FALSE
INVARIANTS
  ReadExact
  PagesJoin
  FindMatchExact
