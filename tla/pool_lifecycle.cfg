SPECIFICATION Spec
CONSTANTS
  high = high
  normal = normal
  j1 = j1
  j2 = j2
  j3 = j3
  user = user
  producer = producer
  None = None
  Jobs <- MCJobs
  Priorities <- MCPriorities
  PriorityOf <- MCPriorityOf
  Callers <- MCCallers
  NumWorkers = 2
  WorkerPriorities <- TwoUniformWorkers
  InitialWorkers <- AllInitial
  ChildOf <- NoChildren
  Allowed <- Lifecycle
  MaxCalls = 3
  MaxSpurious = 1
CHECK_DEADLOCK FALSE
INVARIANTS
  StopDrains
  
PROPERTIES
  ImplementsJobService
