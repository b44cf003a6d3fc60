CONSTANTS
  Procs = {a, b}
  Tasks = {t1, t2}
  None = None
  MaxTasks = 1
  MaxFollowups = 1
SPECIFICATION Bounded
SYMMETRY IdSymmetry
INVARIANTS TypeOK FirstWorkerIsAlone RunningIsOurs IsolatedFromLiveOwner
PROPERTY RequestIsNotErased
CHECK_DEADLOCK FALSE
