SPECIFICATION Spec
CONSTANTS
  a = a
  b = b
  c = c
  d = d
  Ids <- MCIds
  Free = free
  HashOf <- MCHashOf
  FirstCap = 2
  MaxCap = 16
CONSTRAINT Bounded
CHECK_DEADLOCK FALSE
INVARIANTS
  TypeOK
  LiveOnce
  CountIsLive
  TakenIsCounted
  ProbesEnd
PROPERTY
  IdSetSpec
