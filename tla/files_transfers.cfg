SPECIFICATION FairSpec
CONSTANTS
  g1 = g1
  g2 = g2
  f1 = f1
  f2 = f2
  f3 = f3
  f4 = f4
  w1 = w1
  w2 = w2
  w3 = w3
  None = None
  Guids <- MCGuids
  Files <- MCFiles
  GuidOf <- TwoTransfers
  Broken <- MCBroken
  Workers <- MCWorkers
CHECK_DEADLOCK FALSE
INVARIANTS
  ReportedOnce
  ReportsAreWhole
PROPERTIES
  CompleteIsReported
