SPECIFICATION Spec
CONSTANTS
  None = None
  Students = {s1, s2}
  BuiltIn <- MCBuiltIn
  Custom <- MCCustom
  Texts <- MCTexts
  Results <- MCResults
  Load = {l1, l2}
  MaxAttempts = 2
SYMMETRY Symmetry
INVARIANTS VerdictRight RosterTellsTheLog
CHECK_DEADLOCK FALSE
