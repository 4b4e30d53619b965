SPECIFICATION EitherSpec
CONSTANTS
  c1 = c1
  c2 = c2
  t1 = t1
  t2 = t2
  a1 = a1
  a2 = a2
  Calls = {c1, c2}
  Topics = {t1, t2}
  Accounts = {a1, a2}
  ChainOf <- Chains
  KeyTypeOf <- KeyTypes
  Setups <- AllSetups
  MaxEvents = 2
  BlueskyCalls = {c1, c2}
  Platforms <- AllPlatforms
  Registered = {"create", "plc_operation"}
  MaxOperations = 3
  MaxFailures = 1
  MaxRestarts = 1
INVARIANTS
  Authorized
  UserHeeded
  SignsSoundly
CHECK_DEADLOCK FALSE
