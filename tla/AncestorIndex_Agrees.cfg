SPECIFICATION StorySpec
CONSTANTS
  Replicas = {1, 2, 3}
  TiesOf <- RankedByReplica
  MaxClock = 17
  MaxMessages = 9
INVARIANTS
  IsAncestorAgrees
CHECK_DEADLOCK FALSE
