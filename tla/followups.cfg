SPECIFICATION FairSpec
CONSTANTS
  Tasks = {t1}
  MaxCalls = 3
  MaxTasks = 1
  MaxConcurrent = 0
  TimeoutSet = FALSE
  ClientCancels = FALSE
  PeerCancels = FALSE
  LatePumps = FALSE
  Requests = {r1}
  ShutsDown = TRUE
INVARIANTS OneTurnPerTask FinishedRunIsRecorded RecordedOutcomeIsTrue
PROPERTIES ImplementsLease ShutdownStopsWorkers
CHECK_DEADLOCK FALSE
