---------------------------- MODULE MCAnalysisLoop ----------------------------
(***************************************************************************)
(* Instances of AnalysisLoop for TLC.  Goals are interchangeable: nothing  *)
(* in the model tells one from another.                                    *)
(***************************************************************************)
EXTENDS AnalysisLoop, TLC

GoalSymmetry == Permutations(Goals)
=============================================================================
