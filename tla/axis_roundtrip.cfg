SPECIFICATION ASpec
CONSTANTS
  a = a
  none = none
  MaxIntervals = 3
  Ids <- MCIds
  NoId = none
  Times <- MCTimes
  MInf = 0
  Inf = 6
  TsLo = 1
  TsHi = 4
  Midnights <- MCMidnights
  Texts <- MCTexts
  NoText = notext
  Junk = junk
CONSTRAINT Bounded
VIEW View
INVARIANT RoundTrips
