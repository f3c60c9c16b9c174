-------------------------- MODULE MCExecutionGraph --------------------------
(***************************************************************************)
(* Instance of ExecutionGraph for TLC: the limits of nodes/_shared.py, two *)
(* program contents, two static error keys (so that a streak can break and *)
(* start again), one result error key, and one crash.                      *)
(***************************************************************************)
EXTENDS ExecutionGraph

MCStaticCodes == {"lint", "manifest"}
MCResultCodes == {"empty_result"}
=============================================================================
