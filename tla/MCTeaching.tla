---------------------------- MODULE MCTeaching -----------------------------
(* Two consoles and one student, for TLC.                                  *)
EXTENDS Teaching, TLC

\* No schedule, and one that closes at once and has no limit.
MCConfigs == {None, [open |-> 0, close |-> 1, limit |-> 0]}

MCLists == {<<>>, <<[id |-> 1, body |-> "a"]>>}
MCTyped == {<<"open", 2>>, <<"limit", 1>>, <<"limit", 3>>}
MCScenes == {{"list"}, {"exam"}}
Symmetry == Permutations(Consoles)
=============================================================================
