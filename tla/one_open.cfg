SPECIFICATION Spec
CONSTANTS
  a = a
  b = b
  none = none
  MaxIntervals = 3
  Ids <- MCIds
  NoId = none
  Times <- MCTimes
  MInf = 0
  Inf = 6
  TsLo = 2
  TsHi = 4
CONSTRAINT Bounded
SYMMETRY Symmetry
INVARIANT OneOpenInterval
