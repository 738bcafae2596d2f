--------------------------- MODULE MCQueryEngine ---------------------------
(* Instances of QueryEngine for TLC: the texts students write.              *)
EXTENDS QueryEngine

\* One statement of each kind that has a text of its own, and texts that end the
\* transaction before, after and around a change, or fail after one.
MCTexts ==
  {<<"read">>, <<"write">>, <<"bad">>, <<"endless">>, <<"commit">>,
   <<"write", "commit">>, <<"rollback", "write">>, <<"write", "read">>,
   <<"commit", "begin", "write">>}
=============================================================================
