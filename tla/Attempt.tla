------------------------------- MODULE Attempt -------------------------------
(***************************************************************************)
(* What the execution subgraph promises the main graph about one accepted  *)
(* compute intent: while it works nothing of the run's knowledge moves,    *)
(* and it ends exactly once, by adding one Evidence record, by adding one  *)
(* rejected attempt (with at most one repeated-failure issue), or by       *)
(* stopping the run with nothing added.                                    *)
(*                                                                         *)
(* The lists are append only, so a list is abstracted to its length.       *)
(***************************************************************************)
EXTENDS Naturals

VARIABLES phase,      \* what the attempt has come to
          knowledge   \* lengths of the main graph's append-only lists

vars == <<phase, knowledge>>

Phases == {"working", "committed", "rejected", "stopped"}
Lengths == [evidence: Nat, rejected: Nat, issues: Nat]

TypeOK == /\ phase \in Phases
          /\ knowledge \in Lengths

Init == /\ phase = "working"
        /\ knowledge \in Lengths

Commit == /\ phase = "working"
          /\ phase' = "committed"
          /\ knowledge' = [knowledge EXCEPT !.evidence = @ + 1]

\* An attempt given up after STUCK_THRESHOLD equal errors also leaves an issue.
Reject == /\ phase = "working"
          /\ phase' = "rejected"
          /\ \E stuck \in {0, 1} :
                knowledge' = [knowledge EXCEPT !.rejected = @ + 1, !.issues = @ + stuck]

\* An essential service is gone: the run fails, its knowledge is kept as it is.
Stop == /\ phase = "working"
        /\ phase' = "stopped"
        /\ UNCHANGED knowledge

Next == Commit \/ Reject \/ Stop

Spec == Init /\ [][Next]_vars
FairSpec == Spec /\ WF_vars(Next)
=============================================================================
