---------------------------- MODULE MCHintPanel ----------------------------
(* Instances of HintPanel for TLC: all constants come from the .cfg files. *)
EXTENDS HintPanel
=============================================================================
