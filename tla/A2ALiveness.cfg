SPECIFICATION FairSpec
CONSTANTS
  t1 = t1
  t2 = t2
  w1 = w1
  w2 = w2
  c1 = c1
  None = None
  Tasks <- TwoTasks
  Workers <- TwoWorkers
  MaxSize = None
  Cancellers <- OneCanceller
  AllowShutdown = FALSE
  AllowClear = TRUE
  Stoppable <- NoWorkers
  AllowHangUp = FALSE
CHECK_DEADLOCK FALSE
PROPERTIES
  AcceptedTaskEnds
  SignalledTaskSettles
