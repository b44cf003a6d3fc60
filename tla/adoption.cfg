CONSTANTS
  Procs = {a, b, c}
  Tasks = {t1}
  None = None
  MaxTasks = 1
  MaxFollowups = 1
SPECIFICATION OneByOne
PROPERTY AdoptsOnlyFromTheDead
CHECK_DEADLOCK FALSE
