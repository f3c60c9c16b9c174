----------------------------- MODULE MCRunService -----------------------------
(***************************************************************************)
(* Instances of RunService for TLC.  Requests are interchangeable until    *)
(* they are made.                                                          *)
(***************************************************************************)
EXTENDS RunService, TLC

RequestSymmetry == Permutations(Requests)
=============================================================================
