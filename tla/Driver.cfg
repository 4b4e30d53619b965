SPECIFICATION WalkSpec
CONSTANTS
  KeyLength = 6
  Messages <- Samples
  MaxClock = 16383
  MaxLevel = 4
  MaxWaiting = 1
INVARIANTS
  SyncComplete
  YieldsInOrder
CHECK_DEADLOCK FALSE
