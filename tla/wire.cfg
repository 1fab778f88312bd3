SPECIFICATION FairSpec
CONSTANTS
  Payloads <- MCPayloads
  SendBuffer = 2
  ReadBuffer = 1
  MaxShort = 1
CHECK_DEADLOCK FALSE
INVARIANTS
  WireInv
PROPERTIES
  ImplementsOrderedChannel
  AllArrive
