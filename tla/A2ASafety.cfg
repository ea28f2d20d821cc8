SPECIFICATION Spec
CONSTANTS
  t1 = t1
  t2 = t2
  w1 = w1
  w2 = w2
  c1 = c1
  None = None
  Tasks <- TwoTasks
  Workers <- TwoWorkers
  MaxSize = 1
  Cancellers <- OneCanceller
  AllowShutdown = TRUE
  AllowClear = TRUE
  Stoppable <- OneWorker
  AllowHangUp = TRUE
SYMMETRY TaskSymmetry
CHECK_DEADLOCK FALSE
INVARIANTS
  TasksAccounted
  RecordIsConsistent
PROPERTIES
  ImplementsLifecycle
