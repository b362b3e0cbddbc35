SPECIFICATION ISpec
CONSTANTS
  a = a
  b = b
  none = none
  MaxEntries = 4
  Ids <- MCIds
  NoId = none
  MInf = 0
  Inf = 3
  TsLo = 1
  TsHi = 2
CONSTRAINT Bounded
SYMMETRY Symmetry
INVARIANTS
  ReadersAgree
PROPERTY ImplementsTimeline
