SPECIFICATION Spec
CONSTANTS
  None = None
  User = {u1, u2}
  Call = {c1, c2}
  MaxTokens = 3
SYMMETRY SessionSymmetry
INVARIANTS TypeOK SessionAgrees
PROPERTY DroppedByOwnAnswer
CHECK_DEADLOCK FALSE
