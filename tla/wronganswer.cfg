SPECIFICATION Spec
CONSTANTS
  t1 = t1
  r1 = r1
  r2 = r2
  NoRequest = NoRequest
  Tasks = {t1}
  Requests = {r1, r2}
  MaxTurns = 1
  MaxStarts = 2
  Tools <- MCTools
  Commands <- MCCommands
  Verb <- MCVerb
  Owner <- MCOwner
  Wants <- TwoUses
PROPERTY AnswersTheCurrentOne
CHECK_DEADLOCK FALSE
