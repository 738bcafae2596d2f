SPECIFICATION FairSpec
CONSTANTS
  a1 = a1  a2 = a2  a3 = a3  s1 = s1  g1 = g1  g2 = g2  t1 = t1  t2 = t2  x = x  y = y
  None = None
  Request = {q1, q2, q3}
  Fetch = {f1, f2}
  Attempt = {a1, a2, a3}
  User = {s1}
  Group = {g1, g2}
  TutorProblem = {t1, t2}
  Query = {x, y}
  Place <- MCUnmapped
  Payload <- MCSerial
  TutorOutcome <- MCOutcomes
  Overlap = FALSE
INVARIANTS HintIsOwn SerialLogExact
PROPERTY ReportedIsLogged
CHECK_DEADLOCK FALSE
