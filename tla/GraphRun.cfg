SPECIFICATION FairSpec
CONSTANTS
  Workers = {w1, w2}
  Absent = Absent
  Empty = Empty
  Torn = Torn
  Garbled = Garbled
  Bare = {"result"}
  None = None
  Limits = {0, 2}
  MaxCalls = 3
  MaxWork = 8
CHECK_DEADLOCK FALSE
INVARIANTS
  StoreFaithful
  StepsAreWork
PROPERTIES
  DeleteErases
  CallReturns
