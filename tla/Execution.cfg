SPECIFICATION EitherSpec
CONSTANTS
  x = x
  y = y
  z = z
  Kinds = {"function", "contract"}
  Keys = {x, y, z}
  Program <- Handlers
  Actions = {"move", "refuse", "both", "try", "glance", "first", "race", "cross"}
  MaxRuns = 3
  Contracts <- AllContracts
  Length = 2
  MaxExecutions = 2
  MaxCalls = 2
INVARIANTS
  ExecutedTogether
  ReplaysAgree
  HandlesSound
PROPERTY ExecutionsEnd
CHECK_DEADLOCK FALSE
