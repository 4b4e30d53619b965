SPECIFICATION Spec
CONSTANTS
  a = a
  b = b
  Peers = {a, b}
  Appends <- OneEach
  RetryLimit = 2
  MaxQueueSize = 1
  MaxStreams = 2
  Setups <- BothStop
PROPERTY DeadlockRecovers
CHECK_DEADLOCK FALSE
