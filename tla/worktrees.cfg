SPECIFICATION Spec
CONSTANTS
  Tasks = {t1}
  Removers = {r1, r2}
  MaxTurns = 2
  MaxCommits = 2
  MaxRestarts = 2
SYMMETRY CallSymmetry
INVARIANTS TreeStaysRemovable DiffShowsTheWork
PROPERTIES UnforcedKeepsWork StrayKeepsItsTree
CHECK_DEADLOCK FALSE
