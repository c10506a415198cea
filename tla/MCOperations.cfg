SPECIFICATION OperationsSpec
CONSTANTS
  Versions = {0, 1, 2}
  Reverts = FALSE
  MaxEdits = 3
  MaxReboots = 1
  MaxFaults = 2
  Nothing = Nothing
  FwUser = {"a", "b"}  RunnerSlot = {"s0", "s1"}  Host = {"h1", "h2"}  Here = "h1"
INVARIANTS
  TypeOK
  CacheIsTrue
  ArpFollowsRoutes
  PolicyIsolates
  OperationsSound
PROPERTIES
  Converges
