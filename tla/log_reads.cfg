SPECIFICATION Spec
CONSTANTS
  SegmentSize = 9
  HeaderSize = 1
  MarkerLen = 2
  Shapes <- MCShapes
  ReadAhead = 4
  Window = 4
  Optimistic = 1
  MaxPlanned = 2
  MaxBatches = 3
  MaxFaults = 1
CHECK_DEADLOCK FALSE
INVARIANTS
  YieldsCommitted
  ReadsAreWhole
PROPERTIES
  FlushedIsImmutable
