SPECIFICATION CSpec
CONSTANTS
  a = a
  b = b
  none = none
  MaxIntervals = 3
  MaxChurn = 1
  Ids <- MCIds
  NoId = none
  Times <- MCTimes
  Windows <- MCWindows
  MInf = 0
  Inf = 4
  TsLo = 1
  TsHi = 3
VIEW View
CHECK_DEADLOCK FALSE
INVARIANT FillFindsEveryone
