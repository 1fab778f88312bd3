SPECIFICATION Spec
CONSTANTS
  a = a
  b = b
  Ids <- MCIds
  Anybody = Anybody
  NoData = NoData
  Base = 3
  LengthBytes = 3
CHECK_DEADLOCK FALSE
INVARIANTS
  
  
  SplitIsFields
  SendStopsAtRefusal
