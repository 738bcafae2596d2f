SPECIFICATION Spec
CONSTANTS
  t1 = t1
  t2 = t2
  Tabs = {t1, t2}
  Modules <- MCModules
  Banks <- MCBanks
  Problem <- MCProblems
  Starts <- MCStarts
  MaxSteps = 2
  MaxMoves = 5
  MaxSubmits = 2
  MaxEdits = 1
  None = None
SYMMETRY Symmetry
INVARIANTS TypeOK FiledWhereGraded StatusIsLatest CompletedEarned StepResumed
PROPERTIES NothingLost
CHECK_DEADLOCK FALSE
