SPECIFICATION Spec
CONSTANTS
  high = high
  normal = normal
  j1 = j1
  j2 = j2
  j3 = j3
  user = user
  producer = producer
  None = None
  Jobs <- MCJobs
  Priorities <- MCPriorities
  PriorityOf <- MCPriorityOf
  Callers <- MCCallers
  NumWorkers = 2
  WorkerPriorities <- TwoMixedWorkers
  InitialWorkers <- NoneInitial
  ChildOf <- Pipeline
  Allowed <- TwoUsers
  MaxCalls = 2
  MaxSpurious = 0
CHECK_DEADLOCK FALSE
INVARIANTS
  TypeOK
  JobsAccounted
  NoLostWakeup
  NoThreadOutsidePool
  WorkersAlive
