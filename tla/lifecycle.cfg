SPECIFICATION FairSpec
CONSTANTS
  main = main
  other = other
  session1 = session1
  None = None
  Starters = {main}
  Stoppers = {main, other}
  Sessions = {session1}
  Worker = other
  CallbacksSend = TRUE
  MaxCalls <- MCMaxCalls
CHECK_DEADLOCK FALSE
INVARIANTS
  LifecycleInv
PROPERTIES
  SignalIsHeard
  CallsReturn
  
