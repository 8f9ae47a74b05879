SPECIFICATION CallSpec
CONSTANTS
    PrefixLen = 2
    ClientMax = 3
    ServerMax = 2
    MaxRequests = 3
    MaxStreamEvents = 2
    MaxFaults = 1
CHECK_DEADLOCK FALSE
INVARIANTS
  MessagesAreWhole
  StaysAligned
PROPERTIES
  CallsReturn
