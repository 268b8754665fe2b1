---------------------------- MODULE MCEngineLoop ----------------------------
(***************************************************************************)
(* Model-checking instance of EngineLoop.                                  *)
(***************************************************************************)
EXTENDS EngineLoop, TLC

symmetry == Permutations(Producers) \cup Permutations(Users)
=============================================================================
