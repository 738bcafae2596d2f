SPECIFICATION Spec
CONSTANTS
  a1 = a1  a2 = a2  a3 = a3  s1 = s1  g1 = g1  g2 = g2  t1 = t1  t2 = t2  x = x  y = y
  None = None
  Request = {q1, q2, q3}
  Fetch = {f1}
  Attempt = {a1, a2}
  User = {s1}
  Group = {g1, g2}
  TutorProblem = {t1, t2}
  Query = {x, y}
  Place <- MCTwo
  Payload <- MCWithExam
  TutorOutcome <- MCOutcomes
  Overlap = TRUE
SYMMETRY RequestSymmetry
INVARIANTS TypeOK HintRequestOwnsRow VerdictIsTutors NumberWithinCount
PROPERTIES RowsKept ImplementsLedger
CHECK_DEADLOCK FALSE
