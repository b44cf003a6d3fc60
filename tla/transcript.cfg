CONSTANTS
  Limit = 2
  Widths = {2, 4}
  Chunk = 3
  Window = 5
  SettleDrains = 3
  Backlogs <- MCBacklogs
  Modes = {"once", "follow", "forever"}
  Pages = {0, 1}
  Refreshers = {r1}
  MaxLines = 3
  MaxLate = 1
SPECIFICATION OneByOne
INVARIANTS TypeOK FollowerShowsWholeLines LogsShowsAll CopyKeepsNumbers SettledCopyIsComplete WatchMissesNothing
PROPERTIES TailIsTheLastN LogsCatchesUp
CHECK_DEADLOCK FALSE
