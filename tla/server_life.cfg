SPECIFICATION LifeSpec
CONSTANTS
    Nobody = Nobody
    Client = {c1, c2}
    MaxConnections = 1
    Tls = TRUE
    Metrics = TRUE
    MaxRequestBytes = 1
    MaxScrapes = 1
    MaxFaults = 2
CHECK_DEADLOCK FALSE
INVARIANTS
  BooksAreExact
  ShutdownMissesNone
PROPERTIES
  NoneKeptWaiting
  ShutdownCompletesOrHangs
