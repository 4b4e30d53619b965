SPECIFICATION Spec
CONSTANTS
  a = a
  b = b
  Peers = {a, b}
  Appends <- OneEach
  RetryLimit = 2
  MaxQueueSize = 1
  MaxStreams = 2
  Setups <- MemoryAndBrowsers
INVARIANTS
  MarkedIffQueued
  WriteOwned
PROPERTIES
  LocalsCommit
  JobsEnd
  StopEnds
CHECK_DEADLOCK FALSE
