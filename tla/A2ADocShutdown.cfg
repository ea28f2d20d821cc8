SPECIFICATION FairSpec
CONSTANTS
  t1 = t1
  t2 = t2
  w1 = w1
  w2 = w2
  c1 = c1
  None = None
  Tasks <- OneTask
  Workers <- OneWorker
  MaxSize = None
  Cancellers <- NoCanceller
  AllowShutdown = TRUE
  AllowClear = FALSE
  Stoppable <- NoWorkers
  AllowHangUp = FALSE
CHECK_DEADLOCK FALSE
PROPERTIES
  ShutdownEndsWaits
