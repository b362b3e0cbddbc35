SPECIFICATION NSpec
CONSTANTS
  o1 = o1
  o2 = o2
  f = f
  x = x
  y = y
  Openers <- MCOpeners
  Files = {f}
  NoFile = nofile
  Rows <- MCRows
  TableSize = 3
  Ids <- MCIds
  NoId = none
  MInf = 0
  Inf = 6
  TsLo = 1
  TsHi = 4
  Records <- MCRecords
  Cap = 2
  MaxOut = 1
  MaxRecords = 2
SYMMETRY Symmetry
CONSTRAINT Bounded
VIEW View
INVARIANTS
  HitsAreExact
  OnlyZeroLeaks
PROPERTY Isolated
