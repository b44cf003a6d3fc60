CONSTANTS
  Procs = {a, b}
  Tasks = {t1}
  None = None
  MaxTasks = 1
  MaxFollowups = 2
SPECIFICATION OneByOne
INVARIANT OneWorkerPerTask
CHECK_DEADLOCK FALSE
