SPECIFICATION Spec
CONSTANTS
  Workers = {w1, w2}
  Streams = {s1, s2}
  Drains = {s1}
  Jobs <- MCJobs
  Size <- MCSize
  BatchEvents = 2
  BatchBytes = 2
  ChannelDepth = 1
  QueueCapacity = 1
  MaxPublished = 2
  MaxFaults = 1
CHECK_DEADLOCK FALSE
INVARIANTS
  CleanEndIsWhole
PROPERTIES
  DrainedReadsEnd
  DropReturnsUnlessHeld
