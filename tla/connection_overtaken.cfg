SPECIFICATION Spec
CONSTANTS
  t1 = t1
  s1 = s1
  f1 = f1
  top = top
  low = low
  normal = normal
  high = high
  None = None
  Workers <- OnePerKind
  Serves <- ByPriority
  Messages <- MCMessages
  FileOf <- MCFileOf
  EncryptMode = TRUE
  MayEnd = {"network", "client"}
CHECK_DEADLOCK FALSE
INVARIANT ExpiresWithCause
