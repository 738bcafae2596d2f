SPECIFICATION Spec
CONSTANTS
  c1 = c1
  c2 = c2
  Consoles = {c1, c2}
  Ids = {1, 2, 3}
  Bodies = {"a", "b"}
  Configs <- MCConfigs
  Lists <- MCLists
  Typed <- MCTyped
  Scenes <- MCScenes
  Legacy = 2
  MaxTime = 4
  MaxEdits = 2
  None = None
SYMMETRY Symmetry
INVARIANTS TypeOK ConsolesAgree GateHolds
PROPERTIES EditsKept
CHECK_DEADLOCK FALSE
