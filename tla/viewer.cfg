SPECIFICATION FairSpec
CONSTANTS
  t1 = t1
  t2 = t2
  Tasks = {t1, t2}
  MaxCached = 1
  Chunk = 1
  MaxFile <- MCMaxFile
  MaxClicks = 1
  MaxOthers = 1
  MaxFailures = 1
  Nobody = Nobody
INVARIANT PageIsPrefix
PROPERTY PageCatchesUp
CHECK_DEADLOCK FALSE
