---------------------------- MODULE MCWorkspace ----------------------------
(* A small browser for TLC: two tabs, modules 01 and 02.                   *)
EXTENDS Workspace, TLC

MCModules == {"01", "02"}

\* Two problems in the lab and the exam of module 01, one in each course
\* module, none elsewhere; problem 7 is the instructor's.
MCBank == [p \in [mode : {"COURSE", "ASSIGNMENT", "EXAM"}, module : MCModules] |->
  CASE p.mode = "COURSE" -> IF p.module = "01" THEN <<1>> ELSE <<2>>
    [] p.module = "02"   -> <<>>
    [] OTHER             -> IF p.mode = "EXAM" THEN <<5, 6>> ELSE <<3, 4>>]

\* A browser not used before, and one last used for the lab and one for the
\* exam of module 01.
MCStarts == {<<None, "COURSE">>} \cup
            {<<[mode |-> m, module |-> "01"], m>> : m \in {"ASSIGNMENT", "EXAM"}}

MCBanks == {MCBank}
MCProblems == 1 .. 7
Symmetry == Permutations(Tabs)
=============================================================================
