SPECIFICATION Spec
CONSTANTS
  None = None
  Students = {s1}
  BuiltIn <- MCBuiltIn
  Custom = {}
  Texts <- MCSemicolon
  Results <- MCTwins
  Load = {l1}
  MaxAttempts = 1
INVARIANT AliasesNeverMatter
CHECK_DEADLOCK FALSE
