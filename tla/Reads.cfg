SPECIFICATION ReadsSpec
CONSTANTS
  i1 = i1
  i2 = i2
  reader = reader
  w1 = w1
  Replicas = {1, 2, 3}
  TiesOf <- RankedByReplica
  MaxClock = 17
  MaxMessages = 9
  Kinds = {"node", "memory", "browser"}
  Iterators = {i1, i2}
  Readers = {reader}
  Writers = {w1}
  Inserts <- OneCascade
  Inners <- TwoInners
  Stored = {2}
INVARIANTS
  IsAncestorExact
  FrontiersSound
  ReadsSound
PROPERTY WritesEnd
CHECK_DEADLOCK FALSE
