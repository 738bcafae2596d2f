----------------------------- MODULE MCSession -----------------------------
(* Instances of Session for TLC. *)
EXTENDS Session, TLC

SessionSymmetry == Permutations(Call) \cup Permutations(User)
=============================================================================
