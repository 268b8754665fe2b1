--------------------------- MODULE MCMPRingBuffer ---------------------------
(***************************************************************************)
(* Model-checking instance of MPRingBuffer.  The set of orders is what     *)
(* bounds a behaviour: each is submitted once.                             *)
(***************************************************************************)
EXTENDS MPRingBuffer, TLC

symmetry == Permutations(Producers) \cup Permutations(Orders)

=============================================================================
