--------------------------- MODULE MCLocalExecution ---------------------------
(* Instance of LocalExecution for TLC. *)
EXTENDS LocalExecution, TLC
Symmetry == Permutations(Runs) \union Permutations(Programs)
=============================================================================
