---------------------------- MODULE MCAttemptLog ----------------------------
(* Instances of AttemptLog for TLC. *)
EXTENDS AttemptLog, TLC

CONSTANTS a1, a2, a3, s1, g1, g2, t1, t2, x, y

At(t, g) == [tutorProblem |-> t, group |-> g]

\* Two problems the tutor knows, and one it does not.
MCTwo == {At(t1, g1), At(t2, g2)}
MCUnmapped == {At(t1, g1), At(None, g1), At(None, g2)}

\* A failed Submit of the one student, by a current client.
Failed(place, text) ==
  [user |-> s1, place |-> place, query |-> text, number |-> 1,
   hasId |-> TRUE, exam |-> FALSE, hintable |-> TRUE]

\* One failed attempt.
MCOneFailed == (a1 :> Failed(At(t1, g1), x))

\* A failed attempt, and an EXAM failure on another problem.
MCWithExam ==
  (a1 :> Failed(At(t1, g1), x))
  @@ (a2 :> [Failed(At(t2, g2), y) EXCEPT !.exam = TRUE])

\* A failed attempt, one of the same group with no tutor mapping, one of another.
MCSerial ==
  (a1 :> Failed(At(t1, g1), x))
  @@ (a2 :> Failed(At(None, g1), y))
  @@ (a3 :> Failed(At(None, g2), y))

\* The tutor fails an attempt with a hint, or passes it.
MCOutcomes ==
  {[verdict |-> "fail", hint |-> TRUE], [verdict |-> "pass", hint |-> FALSE]}

RequestSymmetry == Permutations(Request) \cup Permutations(Fetch)
=============================================================================
