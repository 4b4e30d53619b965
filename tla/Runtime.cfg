SPECIFICATION Spec
CONSTANTS
  a = a
  b = b
  k = k
  Replicas = {a, b}
  Keys = {k}
  Ties = {0, 1}
  Configs <- AllConfigs
  MaxMessages = 4
SYMMETRY Symmetry
INVARIANTS
  Convergence
  ExecutionAgrees
  AcceptedByAll
CHECK_DEADLOCK FALSE
