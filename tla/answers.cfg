CONSTANTS
  Lines <- MCLines
  MockPrompts = {"plain", "failtool"}
  TemplateResumes = TRUE
  MaxCost = 2
  Overrun = 1
  Limit = 3
  ResultLines = 2
  MaxTurns = 2
  MaxLines = 2
  MaxRestarts = 1
SPECIFICATION Spec
INVARIANTS AnswerIsOfThisTurn SaidIsAnswered DoneIsTrue WithinBudget
CHECK_DEADLOCK FALSE
