SPECIFICATION FairSpec
CONSTANTS
  None = None
  Problem = {p1, p2, p3}
  Mapped = {p1, p2}
  Call = {c1, c2}
  MaxAttempts = 2
INVARIANTS TypeOK PanelTellsTheTruth StayingSeesItsOwn
PROPERTIES RetrySendsLatest CallsEnd
CHECK_DEADLOCK FALSE
