-------------------------- MODULE MCRemoteExecution --------------------------
(***************************************************************************)
(* Instance of RemoteExecution for TLC: two worker processes, and one POST *)
(* more than can be under way before the control process starts again.     *)
(***************************************************************************)
EXTENDS RemoteExecution
=============================================================================
