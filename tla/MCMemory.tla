------------------------------- MODULE MCMemory -------------------------------
(***************************************************************************)
(* Instances of Memory for TLC: a few texts, and messages with two calls.  *)
(***************************************************************************)
EXTENDS Memory
=============================================================================
