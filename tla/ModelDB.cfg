SPECIFICATION AllSpec
CONSTANTS
  c1 = c1
  c2 = c2
  q1 = q1
  q2 = q2
  d1 = d1
  d2 = d2
  Backends = {"sqlite", "idb"}
  Indexes <- IndexSets
  Batches <- SmallBatches
  Queries <- AllQueries
  LiveQueries <- Live
  MaxBatches = 3
  MaxSubscriptions = 1
  Components = {c1, c2}
  Databases = {d1, d2}
  Models = {"model"}
  HookQueries = {q1, q2}
  MaxSubs = 3
  MaxWrites = 1
SYMMETRY HookSymmetry
INVARIANTS
  TableAnswersRight
  LiveComplete
  ShowsQuery
  ValuesKept
PROPERTY ImplementsTable
CHECK_DEADLOCK FALSE
