SPECIFICATION Spec
CONSTANTS
  Tasks = {t1, t2, t3}
  MaxCalls = 1
  MaxTasks = 2
  MaxConcurrent = 1
  TimeoutSet = FALSE
  ClientCancels = FALSE
  PeerCancels = FALSE
  LatePumps = FALSE
  Requests = {}
  ShutsDown = TRUE
SYMMETRY TaskSymmetry
INVARIANTS CleanShutdownLeavesNoWorker
PROPERTIES EvictsOldestIdle RetentionBound
CHECK_DEADLOCK FALSE
