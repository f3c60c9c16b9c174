----------------------------- MODULE GoalNumbering -----------------------------
(***************************************************************************)
(* How the goals of a run get their ids (llm/service_common.py,            *)
(* parse_goals).  Goals and Evidence know each other by goal_id only, and  *)
(* AnalysisLoop takes the ids of a run's goals to be distinct.  This       *)
(* module is about whether they are: an item of the planner's answer that  *)
(* names no question is skipped, but it has used up a number, while the    *)
(* numbers of an expansion start from the count of the goals there are.    *)
(***************************************************************************)
EXTENDS Naturals, Sequences

CONSTANTS
    MAX_GOAL_EXPANSIONS,
    MaxItems               \* bound: items in one answer of the planner

VARIABLES
    decomposed,
    expansions,  \* goal_expansions
    sub_goals,   \* in order; earned: Evidence was committed since the goal is there
    evidence     \* the goal ids of the run's Evidence

vars == <<decomposed, expansions, sub_goals, evidence>>

Ids == 1 .. MaxItems * (MAX_GOAL_EXPANSIONS + 1)

TypeOK ==
    /\ decomposed \in BOOLEAN
    /\ expansions \in 0 .. MAX_GOAL_EXPANSIONS
    /\ sub_goals \in Seq([id: Ids, status: {"open", "converged"}, earned: BOOLEAN])
    /\ evidence \subseteq Ids

OpenIds == {sub_goals[n].id : n \in {m \in DOMAIN sub_goals : sub_goals[m].status = "open"}}

\* An answer: which of its items can be made a goal.
Answers == UNION {[1 .. n -> BOOLEAN] : n \in 0 .. MaxItems}

parse_goals(items, start) ==
    LET numbered == [n \in DOMAIN items |-> [usable |-> items[n], id |-> start + n]]
        kept == SelectSeq(numbered, LAMBDA item : item.usable)
    IN [n \in DOMAIN kept |-> [id |-> kept[n].id, status |-> "open", earned |-> FALSE]]

-------------------------------------------------------------------------------
Init ==
    /\ decomposed = FALSE
    /\ expansions = 0
    /\ sub_goals = << >>
    /\ evidence = {}

DecomposeObjective ==
    /\ ~decomposed
    /\ decomposed' = TRUE
    /\ \E items \in Answers : sub_goals' = parse_goals(items, 0)
    /\ UNCHANGED <<expansions, evidence>>

\* commit_evidence for an intent that targets an open goal.
CommitEvidence ==
    \E id \in OpenIds :
       /\ evidence' = evidence \union {id}
       /\ sub_goals' = [n \in DOMAIN sub_goals |->
                          IF sub_goals[n].id = id THEN [sub_goals[n] EXCEPT !.earned = TRUE]
                          ELSE sub_goals[n]]
       /\ UNCHANGED <<decomposed, expansions>>

\* apply_goal_verdict, for a planner that lets goals converge.
Converge ==
    \E converged \in SUBSET (OpenIds \intersect evidence) :
       /\ sub_goals' = [n \in DOMAIN sub_goals |->
                          IF sub_goals[n].status = "open" /\ sub_goals[n].id \in converged
                          THEN [sub_goals[n] EXCEPT !.status = "converged"]
                          ELSE sub_goals[n]]
       /\ UNCHANGED <<decomposed, expansions, evidence>>

ExpandGoals ==
    /\ sub_goals # << >> /\ OpenIds = {}
    /\ expansions < MAX_GOAL_EXPANSIONS
    /\ \E items \in Answers :
          /\ \E n \in DOMAIN items : items[n]
          /\ sub_goals' = sub_goals \o parse_goals(items, Len(sub_goals))
    /\ expansions' = expansions + 1
    /\ UNCHANGED <<decomposed, evidence>>

Next == DecomposeObjective \/ CommitEvidence \/ Converge \/ ExpandGoals

Spec == Init /\ [][Next]_vars

-------------------------------------------------------------------------------
\* apply_goal_verdict: a goal does not close early, it converges on Evidence; that
\* is, on Evidence committed for it, not on that of an earlier goal of its name.
NoEarlyConvergence ==
    \A n \in DOMAIN sub_goals : sub_goals[n].status = "converged" => sub_goals[n].earned
=============================================================================
