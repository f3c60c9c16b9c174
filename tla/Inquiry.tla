------------------------------- MODULE Inquiry -------------------------------
(***************************************************************************)
(* What the main graph promises the service that drives it, and the reader *)
(* of its checkpoint: a run is a sequence of attempts, one at a time, each *)
(* under an id of its own and each adding one Evidence record or none;     *)
(* then one verdict, after which nothing of what the run knows changes;    *)
(* then its end.  A run that says it is analysed has nothing left to do.   *)
(* Only the budget may end it from outside, at any time, with its own      *)
(* verdict.                                                                *)
(*                                                                         *)
(* An attempt is what Attempt says: it is committed, rejected, or stopped  *)
(* with the run.  Goals and agenda are abstracted to whether they are      *)
(* settled.                                                                *)
(***************************************************************************)
EXTENDS Naturals

CONSTANT Analysed   \* the verdicts of a run that was analysed to the end

VARIABLES
    attempt,    \* the id of the attempt at work, 0 for none
    evidence,   \* the ids of the Evidence
    settled,    \* no goal, task or contradiction is open
    verdict,    \* the stop code, "none" before there is one
    ended

vars == <<attempt, evidence, settled, verdict, ended>>

Init ==
    /\ attempt = 0 /\ evidence = {}
    /\ settled \in BOOLEAN
    /\ verdict = "none" /\ ended = FALSE

\* The id tells the Evidence of this attempt from all there is.
Begin ==
    /\ verdict = "none" /\ attempt = 0
    /\ attempt' \in Nat \ {0} /\ \A e \in evidence : e < attempt'
    /\ settled' \in BOOLEAN
    /\ UNCHANGED <<evidence, verdict, ended>>

Commit ==
    /\ verdict = "none" /\ attempt # 0
    /\ evidence' = evidence \union {attempt} /\ attempt' = 0
    /\ settled' \in BOOLEAN
    /\ UNCHANGED <<verdict, ended>>

Reject ==
    /\ verdict = "none" /\ attempt # 0
    /\ attempt' = 0
    /\ settled' \in BOOLEAN
    /\ UNCHANGED <<evidence, verdict, ended>>

\* The attempt ends with the run, and leaves nothing.
Stop ==
    /\ verdict = "none" /\ attempt # 0
    /\ attempt' = 0
    /\ verdict' \notin Analysed \union {"none"}
    /\ UNCHANGED <<evidence, settled, ended>>

\* Goals are added and closed, tasks listed and given up, between attempts.
Plan ==
    /\ verdict = "none" /\ attempt = 0
    /\ settled' \in BOOLEAN
    /\ UNCHANGED <<attempt, evidence, verdict, ended>>

Decide ==
    /\ verdict = "none" /\ attempt = 0
    /\ verdict' # "none"
    /\ verdict' \in Analysed => settled /\ settled'
    /\ settled' \in BOOLEAN
    /\ UNCHANGED <<attempt, evidence, ended>>

End ==
    /\ verdict # "none" /\ ~ended
    /\ ended' = TRUE
    /\ UNCHANGED <<attempt, evidence, settled, verdict>>

OutOfBudget ==
    /\ ~ended /\ ended' = TRUE
    /\ attempt' = 0 /\ verdict' = "BUDGET_EXHAUSTED"
    /\ UNCHANGED <<evidence, settled>>

Next == Begin \/ Commit \/ Reject \/ Stop \/ Plan \/ Decide \/ End \/ OutOfBudget

Spec == Init /\ [][Next]_vars
=============================================================================
