SPECIFICATION FairSpec
CONSTANTS
  a = a
  b = b
  c = c
  None = None
  Callers <- ThreeCallers
  Droppable <- OneDroppable
  ServerDies = TRUE
  MaxNoise = 1
  ServerIds = {2}
  Owners = {"toolset", "program"}
CHECK_DEADLOCK FALSE
INVARIANTS
  RequestsAccounted
  HandshakeKept
PROPERTIES
  CacheNeverGoesBack
  ServedCallsEnd
