SPECIFICATION ESpec
CONSTANTS
  p = p
  q = q
  Ids <- MCIds
  MInf = 0
  Inf = 4
  Stores <- MCStores
  Windows <- MCWindows
CHECK_DEADLOCK FALSE
INVARIANTS
  NeverFaults
  SplitsAreTrue
  SplitsAreExact
  SplitsChain
  LoopIsSplitsGet
