------------------------------- MODULE MCReport -------------------------------
(* Instance of Report for TLC. *)
EXTENDS Report
=============================================================================
