SPECIFICATION FairSpec
CONSTANTS
  m1 = m1
  m2 = m2
  m3 = m3
  StartMark = StartMark
  StopMark = StopMark
  None = None
  Messages <- MCMessages
  LevelOf <- MCLevelOf
  FileMode = 3
  ConsoleMode = 2
  Intervals = {0, 1}
  LineLimit = 2
  LifeCycle = 0
  EpochDays = 0
  MaxStarts = 2
  MaxDay = 1
CHECK_DEADLOCK FALSE
INVARIANTS
  
  FlushedByStop
PROPERTIES
  ImplementsLogService
  StopReturns
  BufferedIsWritten
