SPECIFICATION Spec
CONSTANTS
  a1 = a1  a2 = a2  a3 = a3  s1 = s1  g1 = g1  g2 = g2  t1 = t1  t2 = t2  x = x  y = y
  None = None
  Request = {q1, q2}
  Fetch = {}
  Attempt = {a1}
  User = {s1}
  Group = {g1, g2}
  TutorProblem = {t1, t2}
  Query = {x, y}
  Place <- MCTwo
  Payload <- MCOneFailed
  TutorOutcome <- MCOutcomes
  Overlap = TRUE
INVARIANT EveryAttemptLoggedOnce
CHECK_DEADLOCK FALSE
