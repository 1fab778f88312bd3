SPECIFICATION Spec
CONSTANTS
  high = high
  low = low
  p1 = p1
  p2 = p2
  Empty = Empty
  None = None
  Jobs = {1, 2}
  Priorities <- MCPriorities
  PriorityOf <- MCPriorityOf
  Payloads = {p1, p2}
  WorkerCount = 2
  MaxCrashes = 2
CHECK_DEADLOCK FALSE
INVARIANTS
  BackupInv
  
  
