SPECIFICATION SSpec
CONSTANTS
  a = a
  b = b
  none = none
  Ids <- MCIds
  NoId = none
  Times <- MCTimes
  MInf = 0
  Inf = 7
  TsLo = 2
  TsHi = 5
SYMMETRY Symmetry
INVARIANTS
  STypeOK
  WellFormed
  PhaseAgrees
PROPERTY
  PresenceSpec
