SPECIFICATION RSpec
CONSTANTS
  c1 = c1
  c2 = c2
  f = f
  x = x
  y = y
  Openers <- MCOpeners
  Files <- MCFiles
  NoFile = nofile
  Rows <- MCRows
  TableSize = 3
  Ids <- MCIds
  MInf <- MCMInf
  Inf = 5
  Instants <- MCInstants
  Unreadable = unreadable
  Point = point
  NoDay = noday
  DayEnd <- MCDayEnd
  Unset = unset
  Null = null
  TimeOptions <- MCTimeOptions
  QueryOptions <- MCQueryOptions
  Leaves <- MCLeaves
SYMMETRY Symmetry
INVARIANTS
  HTypeOK
  InTable
  PairsAreSafe
  PointFindsWhoIsThere
PROPERTIES
  DurableSpec
  ZeroWasClosed
