SPECIFICATION Spec
CONSTANTS
  Ids = {m1, m2, m3, m4}
  Configs <- AllConfigs
CONSTRAINT Bound
SYMMETRY Symmetry
INVARIANTS
  Consistent
  CausallyClosed
  TipsCovered
  NothingStranded
  OrphansWait
PROPERTIES
  DeliveredAfterParents
  ImplementsCausalLog
CHECK_DEADLOCK FALSE
