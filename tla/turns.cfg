SPECIFICATION FairSpec
CONSTANTS
  Tasks = {t1}
  MaxCalls = 2
  MaxTasks = 1
  MaxConcurrent = 0
  TimeoutSet = TRUE
  ClientCancels = TRUE
  PeerCancels = TRUE
  LatePumps = TRUE
  Requests = {}
  ShutsDown = FALSE
INVARIANTS RunningIffTurn WorkerIsKillable
PROPERTY TurnsEnd
CHECK_DEADLOCK FALSE
