----------------------------- MODULE AnalysisLoop -----------------------------
(***************************************************************************)
(* The main graph of a run (orchestration/graph.py): the planner proposes  *)
(* an intent, the intent is carried out, progress is assessed, and the run *)
(* goes on until a terminal status, driven by service._drive under a wall  *)
(* clock budget.  The state is what decides that course: the goals, the    *)
(* Evidence and its relations, and the agenda of unfinished tasks.         *)
(*                                                                         *)
(* One action per node; a node's update is checkpointed as a whole.  The   *)
(* node `execution` is the subgraph of ExecutionGraph followed by          *)
(* apply_execution_delta: it is the atomic step that module is proved to   *)
(* implement (Attempt), here with what commit_evidence and reject_attempt  *)
(* write.  All Evidence of a run is taken on one dataset snapshot.         *)
(*                                                                         *)
(* Left out because no route or guard reads them: revalidates relations,   *)
(* notes, priorities, and the texts of a report.                           *)
(* Dedupe keys and the inspection and lookup histories only ever turn an   *)
(* intent down; a planner whose answer is turned down is in Stall.         *)
(* Goals are taken to have distinct ids; GoalNumbering shows when they do  *)
(* not.                                                                    *)
(***************************************************************************)
EXTENDS Naturals, FiniteSets

CONSTANTS
    MAX_GOAL_EXPANSIONS,   \* how often new goals may be added
    STUCK_THRESHOLD,       \* planner stalls in a row that fail the run
    MaxIterations,         \* state["max_iterations"]
    Goals,                 \* goal ids the planner may come up with
    Questions,             \* questions the Critic may leave open
    MaxReferences,         \* bound: how often one review names Evidence
    ParentChoices,         \* bound: which ids a computation may cite, those that exist of them
    Clocks,                \* bound: what the clock may come to show
    None

ASSUME BoundsAssumption ==
    /\ MAX_GOAL_EXPANSIONS \in Nat
    /\ STUCK_THRESHOLD \in Nat \ {0}
    /\ MaxIterations \in Nat \ {0}
    /\ MaxReferences \in Nat
    /\ Clocks \subseteq {"enough", "short", "over"}
    /\ None \notin Goals \union Questions

VARIABLES
    node,
    status, stop_code,
    clock,       \* remaining_seconds: enough, below MIN_SECONDS_FOR_EXPANSION, gone
    iteration,
    stalls,      \* error_streak of the planner (NO_INTENT_CODE)
    expansions,  \* goal_expansions
    goals,       \* sub_goals: goal -> status, "absent" before it is thought of
    linked,      \* evidence_ids of each goal
    evidence,    \* Evidence id -> its goal; the id is the iteration it comes from
    parents,     \* parent_evidence_ids of each Evidence
    relations,   \* EvidenceRelations
    attempted,   \* goals with a rejected attempt
    agenda,      \* AgendaTasks: what identifies a task -> its state
    intent

run == <<node, status, stop_code, clock>>
knowledge == <<linked, evidence, parents, relations, attempted>>
vars == <<run, iteration, stalls, expansions, goals, knowledge, agenda, intent>>

Nodes == {"decompose_objective", "plan_intent", "execution", "reuse_evidence",
          "inspect_data", "lookup_evidence", "mark_data_limited",
          "assess_progress", "expand_goals", "finalize", "end", "raised"}
Modes == {"compute", "reuse_evidence", "inspect_data", "lookup_evidence", "mark_data_limited"}
Statuses == {"RUNNING", "COMPLETED", "FAILED"}
StopCodes == {"none", "GOAL_SATISFIED", "DATA_LIMITED", "MAX_ITERATIONS_REACHED",
              "BUDGET_EXHAUSTED", "EXPANSION_LIMIT_REACHED", "SERVICE_UNAVAILABLE",
              "PLANNER_STUCK"}
GoalStatuses == {"absent", "open", "converged", "abandoned"}
TaskStatuses == {"pending", "in_progress", "completed", "data_limited"}
Kinds == {"follow_up", "revalidate", "resolve_contradiction"}
RelationKinds == {"derived_from", "contradicts", "supersedes", "reconciles"}
Ids == 1 .. MaxIterations

OptGoals == Goals \union {None}
TaskKeys == [at: Ids, kind: Kinds, question: Questions \union {None}, sources: SUBSET Ids]
TaskStates == [goal: OptGoals, status: TaskStatuses, tried: BOOLEAN,
               completion: Ids \union {None}]   \* completion_evidence_id
Intents == [mode: Modes, goal: OptGoals, task: TaskKeys \union {None}, reuse: SUBSET Ids,
            parents: SUBSET Ids]

ASSUME NoneAssumption == None \notin Ids \union TaskKeys \union Intents

TypeOK ==
    /\ node \in Nodes
    /\ status \in Statuses /\ stop_code \in StopCodes
    /\ clock \in {"enough", "short", "over"}
    /\ iteration \in 0 .. MaxIterations
    /\ stalls \in 0 .. STUCK_THRESHOLD
    /\ expansions \in 0 .. MAX_GOAL_EXPANSIONS
    /\ goals \in [Goals -> GoalStatuses]
    /\ linked \in [Goals -> SUBSET Ids]
    /\ DOMAIN evidence \subseteq Ids /\ \A e \in DOMAIN evidence : evidence[e] \in OptGoals
    /\ DOMAIN parents = DOMAIN evidence /\ \A e \in DOMAIN parents : parents[e] \subseteq Ids
    /\ relations \subseteq [src: Ids, tgt: Ids, kind: RelationKinds]
    /\ attempted \subseteq Goals
    /\ \A k \in DOMAIN agenda :
          /\ k.at \in Ids /\ k.kind \in Kinds /\ k.sources \subseteq Ids
          /\ k.question \in Questions \union {None}
          /\ agenda[k] \in TaskStates
    /\ intent # None =>
          /\ intent.mode \in Modes /\ intent.goal \in OptGoals /\ intent.reuse \subseteq Ids
          /\ intent.parents \subseteq Ids
          /\ intent.task # None => intent.task \in DOMAIN agenda

-------------------------------------------------------------------------------
(* What the nodes read: the accessors of state.py.                            *)

Open(gs) == {g \in Goals : gs[g] = "open"}
Known == {g \in Goals : goals[g] # "absent"}
all_goals_closed == Known # {} /\ Open(goals) = {}

pending_agenda_tasks == {k \in DOMAIN agenda : agenda[k].status \in {"pending", "in_progress"}}

superseded_evidence_ids == {r.tgt : r \in {q \in relations : q.kind = "supersedes"}}
current_evidence == DOMAIN evidence \ superseded_evidence_ids

ReconciledBy(e) == {r.tgt : r \in {q \in relations : q.kind = "reconciles" /\ q.src = e}}

unresolved_contradictions ==
    {pair \in {{r.src, r.tgt} : r \in {q \in relations : q.kind = "contradicts"}} :
        /\ pair \intersect superseded_evidence_ids = {}
        /\ \A e \in DOMAIN evidence : ~(pair \subseteq ReconciledBy(e))}

Terminal(s, code) == status' = s /\ stop_code' = code
Running == UNCHANGED <<status, stop_code>>

-------------------------------------------------------------------------------
(* Routing (routes.py), read in the state a node has just produced.           *)

RouteAfterMainPlan ==
    IF status # "RUNNING" \/ intent = None THEN "assess_progress"
    ELSE IF intent.mode = "compute" THEN "execution"
    ELSE intent.mode

\* Mutated: only the goals are looked at.
RouteAfterAssessGoalsOnly ==
    IF status # "RUNNING" THEN "finalize"
    ELSE IF all_goals_closed THEN "expand_goals"
    ELSE "plan_intent"

RouteAfterAssess ==
    IF status # "RUNNING" THEN "finalize"
    ELSE IF pending_agenda_tasks # {} THEN "plan_intent"
    ELSE IF all_goals_closed THEN "expand_goals"
    ELSE "plan_intent"

RouteAfterExpandGoals == IF status # "RUNNING" THEN "finalize" ELSE "plan_intent"

-------------------------------------------------------------------------------
Init ==
    /\ node = "decompose_objective"
    /\ status = "RUNNING" /\ stop_code = "none"
    /\ clock = "enough"
    /\ iteration = 0 /\ stalls = 0 /\ expansions = 0
    /\ goals = [g \in Goals |-> "absent"]
    /\ linked = [g \in Goals |-> {}]
    /\ evidence = [e \in {} |-> None] /\ parents = [e \in {} |-> {}]
    /\ relations = {}
    /\ attempted = {}
    /\ agenda = [k \in {} |-> None]
    /\ intent = None

\* A planner that is absent or fails leaves the run without goals.
DecomposeObjective ==
    /\ node = "decompose_objective"
    /\ \E first \in SUBSET Goals :
          goals' = [g \in Goals |-> IF g \in first THEN "open" ELSE "absent"]
    /\ node' = "plan_intent"
    /\ UNCHANGED <<status, stop_code, clock, iteration, stalls, expansions, knowledge, agenda, intent>>

\* Mutated: Evidence taken over from another goal counts as the goal's own.
EvidenceLinkedTo(g) == current_evidence \intersect linked[g]

\* apply_goal_verdict: what the planner's verdict may close.  A goal converges on
\* current Evidence of its own and with no pending task; it is abandoned after
\* an attempt, accepted or rejected.
EvidenceOf(g) == {e \in current_evidence : evidence[e] = g}
Blocked(g) == \E k \in pending_agenda_tasks : agenda[k].goal = g

ApplyGoalVerdict ==
    \E converged, abandoned \in SUBSET Open(goals) :
       /\ converged \intersect abandoned = {}
       /\ \A g \in converged : ~Blocked(g) /\ EvidenceOf(g) # {}
       /\ \A g \in abandoned : EvidenceOf(g) # {} \/ g \in attempted
       /\ goals' = [g \in Goals |-> IF g \in converged THEN "converged"
                                    ELSE IF g \in abandoned THEN "abandoned"
                                    ELSE goals[g]]

\* validate_intent_references and, for a goal closed by this very answer,
\* INTENT_TARGETS_CLOSED_GOAL.
MayTarget(goal) == goal = None \/ goal \in Open(goals) \intersect Open(goals')

\* reuse_evidence_error: superseded Evidence, or that of other data, is turned down.
Reusable == current_evidence

\* Mutated: the id of an attempt will do, although the attempt may have left nothing.
CitableAttempts == 1 .. iteration

\* validate_intent_references: what parent_evidence_ids may name.
Citable == DOMAIN evidence

\* Only a computation hands its parents on, to the Evidence it leaves.
DerivesFrom(i, required) ==
    \E cited \in IF i.mode = "compute" THEN ParentChoices ELSE {{}} :
       i.parents = required \union (Citable \intersect cited)

\* ResearchIntent and rejected_intent for an intent without a task.
FreeIntents ==
    {i \in [mode: Modes \ {"mark_data_limited"}, goal: OptGoals, task: {None},
            reuse: SUBSET Reusable, parents: SUBSET Citable] :
        /\ MayTarget(i.goal)
        /\ i.mode = "reuse_evidence" <=> i.reuse # {}
        /\ DerivesFrom(i, i.reuse)}

\* agenda_intent_error for an intent that takes up a task.
TaskIntents ==
    {i \in [mode: {"compute", "mark_data_limited"}, goal: OptGoals,
            task: pending_agenda_tasks, reuse: {{}}, parents: SUBSET Citable] :
        /\ MayTarget(i.goal)
        /\ agenda[i.task].goal # None => i.goal = agenda[i.task].goal
        /\ i.mode = "mark_data_limited" => agenda[i.task].tried
        /\ DerivesFrom(i, i.task.sources)}

\* Mutated: an attempt at a task goes on under the id of the one before it.
AcceptSameId ==
    /\ intent' \in FreeIntents \union TaskIntents
    /\ iteration' = IF intent'.task # None THEN iteration ELSE iteration + 1
    /\ stalls' = 0
    /\ agenda' = IF intent'.task # None /\ intent'.mode = "compute"
                 THEN [agenda EXCEPT ![intent'.task] =
                          [@ EXCEPT !.status = "in_progress", !.tried = TRUE]]
                 ELSE agenda
    /\ Running

\* cycle_reset_update clears the streak; the task taken up is now in progress.
Accept ==
    /\ intent' \in FreeIntents \union TaskIntents
    /\ iteration' = iteration + 1
    /\ stalls' = 0
    /\ agenda' = IF intent'.task # None /\ intent'.mode = "compute"
                 THEN [agenda EXCEPT ![intent'.task] =
                          [@ EXCEPT !.status = "in_progress", !.tried = TRUE]]
                 ELSE agenda
    /\ Running

\* An empty question with a verdict that closes every open goal.
Finish ==
    /\ Open(goals) # {} /\ Open(goals') = {}
    /\ pending_agenda_tasks = {}
    /\ intent' = None
    /\ Running
    /\ UNCHANGED <<iteration, stalls, agenda>>

\* Mutated: a stall is not counted.
StallUncounted ==
    /\ intent' = None
    /\ Running
    /\ UNCHANGED <<iteration, stalls, agenda>>

\* stalled: no intent, or one the policy turns down.
Stall ==
    /\ intent' = None
    /\ stalls' = stalls + 1
    /\ IF stalls' < STUCK_THRESHOLD THEN Running ELSE Terminal("FAILED", "PLANNER_STUCK")
    /\ UNCHANGED <<iteration, agenda>>

PlannerUnavailable ==
    /\ intent' = None
    /\ Terminal("FAILED", "SERVICE_UNAVAILABLE")
    /\ UNCHANGED <<iteration, stalls, goals, agenda>>

\* The verdict is applied whether or not there is an intent.
PlanIntent ==
    /\ node = "plan_intent"
    /\ \/ ApplyGoalVerdict /\ (Accept \/ Finish \/ Stall)
       \/ PlannerUnavailable
    /\ node' = RouteAfterMainPlan'
    /\ UNCHANGED <<clock, expansions, knowledge>>

-------------------------------------------------------------------------------
(* The execution subgraph: commit_evidence and the agenda it leaves.          *)

Named(ids) == {refs \in SUBSET ids : Cardinality(refs) <= MaxReferences}

\* What the Critic says with an accepting verdict.  revalidated: every source of
\* the task at hand is named in `revalidates`, under changed conditions.
Reviews ==
    {r \in [contradicts: Named(DOMAIN evidence), supersedes: Named(DOMAIN evidence),
            reconciles: Named(DOMAIN evidence), open_questions: SUBSET Questions,
            revalidation_required: SUBSET Questions, revalidated: BOOLEAN] :
        Cardinality(r.contradicts) + Cardinality(r.supersedes)
          + Cardinality(r.reconciles) <= MaxReferences}

\* Mutated: reconciling one side of a contradiction is enough.
ShouldCompleteOneSided(k, review) ==
    \/ k = intent.task /\ k.kind = "follow_up"
    \/ k = intent.task /\ k.kind = "revalidate" /\ review.revalidated
    \/ /\ k.kind = "resolve_contradiction"
       /\ (review.supersedes \union review.reconciles) \intersect k.sources # {}

ShouldComplete(k, review) ==
    \/ k = intent.task /\ k.kind = "follow_up"
    \/ k = intent.task /\ k.kind = "revalidate" /\ review.revalidated
    \/ /\ k.kind = "resolve_contradiction"
       /\ \/ review.supersedes \intersect k.sources # {}
          \/ k.sources \subseteq review.reconciles

\* A task that is completed keeps the Evidence that completed it.
Judged(k, review) ==
    IF ShouldComplete(k, review)
    THEN [agenda[k] EXCEPT !.status = "completed",
                           !.completion = IF agenda[k].status = "completed" THEN @ ELSE iteration]
    ELSE IF k = intent.task THEN [agenda[k] EXCEPT !.status = "pending"]
    ELSE agenda[k]

\* Mutated: a question raised again by other Evidence is another task.
StillListedBySource(k, review) ==
    \E j \in DOMAIN agenda :
       /\ Judged(j, review).status # "completed"
       /\ j.kind = k.kind /\ j.question = k.question /\ j.sources = k.sources

\* A task like k is still unfinished after the judgement.
StillListed(k, review) ==
    \E j \in DOMAIN agenda :
       /\ Judged(j, review).status # "completed"
       /\ j.kind = k.kind
       /\ IF k.kind = "resolve_contradiction" THEN j.sources = k.sources
          ELSE j.question = k.question /\ agenda[j].goal = intent.goal

CreatedTasks(review) ==
    LET followUps == [at: {iteration}, kind: {"follow_up"}, sources: {{iteration}},
                      question: review.open_questions \ review.revalidation_required]
        revalidations == [at: {iteration}, kind: {"revalidate"}, sources: {{iteration}},
                          question: review.revalidation_required]
        conflicts == [at: {iteration}, kind: {"resolve_contradiction"}, question: {None},
                      sources: {{iteration, e} : e \in review.contradicts}]
    IN {k \in followUps \union revalidations \union conflicts : ~StillListed(k, review)}

NewTask(goal) == [goal |-> goal, status |-> "pending", tried |-> FALSE, completion |-> None]

AgendaAfterCommit(review) ==
    [k \in DOMAIN agenda \union CreatedTasks(review) |->
        IF k \in DOMAIN agenda THEN Judged(k, review) ELSE NewTask(intent.goal)]

RelationsAfterCommit(review) ==
    relations
      \union [src: {iteration}, tgt: intent.parents, kind: {"derived_from"}]
      \union [src: {iteration}, tgt: review.contradicts, kind: {"contradicts"}]
      \union [src: {iteration}, tgt: review.supersedes, kind: {"supersedes"}]
      \union [src: {iteration}, tgt: review.reconciles, kind: {"reconciles"}]

\* build_evidence: the record is the iteration it comes from, and has its goal.
NewEvidence(e, g) == [d \in DOMAIN evidence \union {e} |-> IF d = e THEN g ELSE evidence[d]]
NewParents(e, ids) == [d \in DOMAIN parents \union {e} |-> IF d = e THEN ids ELSE parents[d]]

goals_with_evidence(g, e) == [h \in Goals |-> IF h = g THEN linked[h] \union {e} ELSE linked[h]]

Commit ==
    /\ \E review \in Reviews :
          /\ agenda' = AgendaAfterCommit(review)
          /\ relations' = RelationsAfterCommit(review)
    /\ evidence' = NewEvidence(iteration, intent.goal)
    /\ parents' = NewParents(iteration, intent.parents)
    /\ linked' = goals_with_evidence(intent.goal, iteration)
    /\ intent' = None
    /\ Running
    /\ UNCHANGED attempted

\* Mutated: the task is not released.
RejectKeepsTask ==
    /\ attempted' = IF intent.goal # None THEN attempted \union {intent.goal} ELSE attempted
    /\ intent' = None
    /\ Running
    /\ UNCHANGED <<linked, evidence, parents, relations, agenda>>

\* reject_attempt releases the task that was being worked on.
Reject ==
    /\ agenda' = IF intent.task # None
                 THEN [agenda EXCEPT ![intent.task].status = "pending"]
                 ELSE agenda
    /\ attempted' = IF intent.goal # None THEN attempted \union {intent.goal} ELSE attempted
    /\ intent' = None
    /\ Running
    /\ UNCHANGED <<linked, evidence, parents, relations>>

\* Codegen or Critic gone for good: intent and task stay as they are.
ServiceUnavailable ==
    /\ Terminal("FAILED", "SERVICE_UNAVAILABLE")
    /\ UNCHANGED <<knowledge, agenda, intent>>

Execution ==
    /\ node = "execution"
    /\ Commit \/ Reject \/ ServiceUnavailable
    /\ node' = "assess_progress"
    /\ UNCHANGED <<clock, iteration, stalls, expansions, goals>>

-------------------------------------------------------------------------------
(* The nodes for the other execution modes.                                   *)

\* `assert intent.goal_id is not None` in the node: see NodeRaises.
ReuseEvidence ==
    /\ node = "reuse_evidence"
    /\ intent.goal # None
    /\ linked' = [linked EXCEPT ![intent.goal] = @ \union intent.reuse]
    /\ intent' = None
    /\ node' = "assess_progress"
    /\ UNCHANGED <<status, stop_code, clock, iteration, stalls, expansions, goals,
                   evidence, parents, relations, attempted, agenda>>

\* No policy asks a reuse_evidence intent for a goal.  The AssertionError leaves
\* the graph; the checkpoint stays before the node, so that resuming raises again.
NodeRaises ==
    /\ node = "reuse_evidence"
    /\ intent.goal = None
    /\ node' = "raised"
    /\ UNCHANGED <<status, stop_code, clock, iteration, stalls, expansions, goals,
                   knowledge, agenda, intent>>

\* inspect_data and lookup_evidence write only what the next prompt shows.
LookAtData ==
    /\ intent' = None
    /\ node' = "assess_progress"
    /\ UNCHANGED <<status, stop_code, clock, iteration, stalls, expansions, goals,
                   knowledge, agenda>>

InspectData == node = "inspect_data" /\ LookAtData
LookupEvidence == node = "lookup_evidence" /\ LookAtData

MarkDataLimited ==
    /\ node = "mark_data_limited"
    /\ agenda' = [agenda EXCEPT ![intent.task].status = "data_limited"]
    /\ intent' = None
    /\ node' = "assess_progress"
    /\ UNCHANGED <<status, stop_code, clock, iteration, stalls, expansions, goals, knowledge>>

-------------------------------------------------------------------------------
(* Progress (nodes/progress.py).                                              *)

\* repair_contradiction_agenda: only tasks not yet finished count as cover.
Uncovered ==
    {pair \in unresolved_contradictions :
        \A k \in pending_agenda_tasks :
           k.kind = "resolve_contradiction" => k.sources # pair}

\* The goal of the two records when they agree, else that of either.
RepairGoal(pair) ==
    LET ofEither == {evidence[e] : e \in pair} \ {None}
    IN IF ofEither = {} THEN {None} ELSE ofEither

RepairKeys == [at: {iteration}, kind: {"resolve_contradiction"}, question: {None}, sources: Uncovered]

RepairAgenda ==
    \E goalOf \in [Uncovered -> OptGoals] :
       /\ \A pair \in Uncovered : goalOf[pair] \in RepairGoal(pair)
       /\ agenda' = [k \in DOMAIN agenda \union RepairKeys |->
                        IF k \in RepairKeys THEN NewTask(goalOf[k.sources]) ELSE agenda[k]]

AssessRunning ==
    IF clock = "over" THEN Terminal("COMPLETED", "BUDGET_EXHAUSTED") /\ UNCHANGED agenda
    ELSE IF iteration >= MaxIterations
         THEN Terminal("COMPLETED", "MAX_ITERATIONS_REACHED") /\ UNCHANGED agenda
    ELSE IF pending_agenda_tasks # {} THEN Running /\ UNCHANGED agenda
    ELSE IF Uncovered # {} THEN Running /\ RepairAgenda
    ELSE /\ UNCHANGED agenda
         /\ IF all_goals_closed /\ clock = "short"
            THEN Terminal("COMPLETED", "BUDGET_EXHAUSTED")
            ELSE IF all_goals_closed /\ expansions >= MAX_GOAL_EXPANSIONS
            THEN Terminal("COMPLETED", "EXPANSION_LIMIT_REACHED")
            ELSE Running

\* Mutated: a run that has ended is assessed like any other.
AssessProgressAlways ==
    /\ node = "assess_progress"
    /\ AssessRunning
    /\ UNCHANGED <<clock, iteration, stalls, expansions, goals, knowledge, intent>>
    /\ node' = RouteAfterAssess'

AssessProgress ==
    /\ node = "assess_progress"
    /\ IF status = "RUNNING" THEN AssessRunning ELSE Running /\ UNCHANGED agenda
    /\ UNCHANGED <<clock, iteration, stalls, expansions, goals, knowledge, intent>>
    /\ node' = RouteAfterAssess'

\* Mutated: abandoned goals are forgotten.
NothingToAddTasksOnly ==
    /\ IF \E k \in DOMAIN agenda : agenda[k].status = "data_limited"
       THEN Terminal("COMPLETED", "DATA_LIMITED")
       ELSE Terminal("COMPLETED", "GOAL_SATISFIED")
    /\ UNCHANGED <<goals, expansions>>

\* terminal_after_expansion
NothingToAdd ==
    /\ IF \/ \E g \in Goals : goals[g] = "abandoned"
          \/ \E k \in DOMAIN agenda : agenda[k].status = "data_limited"
       THEN Terminal("COMPLETED", "DATA_LIMITED")
       ELSE Terminal("COMPLETED", "GOAL_SATISFIED")
    /\ UNCHANGED <<goals, expansions>>

ExpansionUnverified ==
    /\ Terminal("COMPLETED", "SERVICE_UNAVAILABLE")
    /\ UNCHANGED <<goals, expansions>>

\* New goals are trimmed to the iterations left; with none left assess_progress
\* has already ended the run.
AddGoals ==
    /\ \E new \in SUBSET (Goals \ Known) :
          /\ new # {} /\ Cardinality(new) <= MaxIterations - iteration
          /\ goals' = [g \in Goals |-> IF g \in new THEN "open" ELSE goals[g]]
    /\ expansions' = expansions + 1
    /\ Running

ExpandGoals ==
    /\ node = "expand_goals"
    /\ NothingToAdd \/ ExpansionUnverified \/ AddGoals
    /\ node' = RouteAfterExpandGoals'
    /\ UNCHANGED <<clock, iteration, stalls, knowledge, agenda, intent>>

\* finalize keeps a status that is set.
Finalize ==
    /\ node = "finalize"
    /\ node' = "end"
    /\ UNCHANGED <<status, stop_code, clock, iteration, stalls, expansions, goals,
                   knowledge, agenda, intent>>

-------------------------------------------------------------------------------
(* Time, and the budget around the graph (service._drive).                    *)

Tick ==
    /\ node \notin {"end", "raised"}
    /\ \/ clock = "enough" /\ clock' = "short"
       \/ clock = "short" /\ clock' = "over"
    /\ clock' \in Clocks
    /\ UNCHANGED <<node, status, stop_code, iteration, stalls, expansions, goals,
                   knowledge, agenda, intent>>

\* The timeout cancels the node at work and finishes the run from outside,
\* whatever status the graph had already reached.
BudgetTimeout ==
    /\ clock = "over" /\ node \notin {"end", "raised"}
    /\ Terminal("COMPLETED", "BUDGET_EXHAUSTED")
    /\ node' = "end"
    /\ UNCHANGED <<clock, iteration, stalls, expansions, goals, knowledge, agenda, intent>>

Stopped == node \in {"end", "raised"} /\ UNCHANGED vars

GraphStep ==
    \/ DecomposeObjective \/ PlanIntent \/ Execution \/ ReuseEvidence \/ NodeRaises
    \/ InspectData \/ LookupEvidence \/ MarkDataLimited
    \/ AssessProgress \/ ExpandGoals \/ Finalize

Next == GraphStep \/ Tick \/ BudgetTimeout \/ Stopped

Spec == Init /\ [][Next]_vars

\* The graph runner runs the next node; every wait inside a node has a timeout.
\* Nothing is assumed of the clock: a run ends even if the budget never runs out.
FairSpec == Spec /\ WF_vars(GraphStep)

-------------------------------------------------------------------------------
(* What a run may never do.                                                   *)

\* A task in progress is the task of the intent being executed, whichever way
\* the last attempt at it ended; no task is left in progress by an attempt that
\* was rejected, reviewed without resolving it, or superseded by another.
InProgressIsOwned ==
    /\ \A k \in DOMAIN agenda : agenda[k].status = "in_progress" => intent # None /\ intent.task = k
    /\ node = "execution" /\ intent.task # None => agenda[intent.task].status = "in_progress"

\* build_run_audit: the lineage issues of a checkpoint, in the order it looks for
\* them.  Those of files and of the event log are about no state of the graph.
UnknownGoal(g) == g # None /\ g \notin Known
MissingEvidence(ids) == ~(ids \subseteq DOMAIN evidence)
AuditIssues ==
    [of: {"evidence"}, id: {e \in DOMAIN evidence :
                MissingEvidence(parents[e]) \/ UnknownGoal(evidence[e])}]
      \union [of: {"relation"}, id: {r \in relations : MissingEvidence({r.src, r.tgt})}]
      \union [of: {"agenda"}, id: {k \in DOMAIN agenda :
                  \/ MissingEvidence(k.sources) \/ UnknownGoal(agenda[k].goal)
                  \/ MissingEvidence({agenda[k].completion} \ {None})}]

\* The audit of a checkpoint finds no lineage issue, whichever node it is taken after:
\* Evidence, relations, tasks and goals name each other only where both exist.
\* Its records can be read at all: AgendaTask refuses a task that is completed by no
\* Evidence or limited without an attempt, which model_copy does not check when it
\* is written.  Evidence computed for a goal is never missing from the goal's links.
AuditFindsNothing ==
    /\ AuditIssues = {}
    /\ \A k \in DOMAIN agenda :
          /\ agenda[k].status = "completed" => agenda[k].completion # None
          /\ agenda[k].status = "data_limited" => agenda[k].tried
    /\ \A g \in Goals :
          /\ linked[g] # {} => g \in Known
          /\ {e \in DOMAIN evidence : evidence[e] = g} \subseteq linked[g]
          /\ linked[g] \subseteq DOMAIN evidence

\* A goal is closed on work done for it: converged on Evidence computed for it
\* (reused Evidence does not count), abandoned after an attempt of its own.
GoalsCloseOnWork ==
    \A g \in Goals :
       /\ goals[g] = "converged" => \E e \in DOMAIN evidence : evidence[e] = g
       /\ goals[g] = "abandoned" => g \in attempted \/ \E e \in DOMAIN evidence : evidence[e] = g

\* One question is listed once per goal while it is not answered, however often
\* and from whatever Evidence the Critic raises it again.
QuestionsAreAskedOnce ==
    \A j, k \in {i \in DOMAIN agenda : agenda[i].status # "completed" /\ i.question # None} :
       j.kind = k.kind /\ j.question = k.question /\ agenda[j].goal = agenda[k].goal => j = k

\* GOAL_SATISFIED is said only of a run in which every goal converged and
\* nothing was given up: no abandoned goal, no task closed as data_limited.
SatisfiedIsHonest ==
    stop_code = "GOAL_SATISFIED" =>
       /\ \A g \in Known : goals[g] = "converged"
       /\ \A k \in DOMAIN agenda : agenda[k].status = "completed"

\* The graph keeps the first terminal verdict: assess_progress and finalize run
\* after it and do not overwrite it.  Only the budget around the graph may.
VerdictIsKept ==
    [][status # "RUNNING" => BudgetTimeout \/ UNCHANGED <<status, stop_code>>]_vars

\* A contradiction the Critic found stays on the agenda until it is resolved: its
\* task is completed only by Evidence that supersedes a side or reconciles both.
Tracks(k, pair) == k.kind = "resolve_contradiction" /\ k.sources = pair
ContradictionsAreTracked ==
    \A pair \in unresolved_contradictions :
       \E k \in DOMAIN agenda : Tracks(k, pair) /\ agenda[k].status # "completed"

\* Follow-ups and contradictions are processed before a run is ended as
\* analysed to the end (README.md: no completion before they are handled).
AnalysedToTheEnd == {"GOAL_SATISFIED", "DATA_LIMITED", "EXPANSION_LIMIT_REACHED"}
settled ==
    /\ pending_agenda_tasks = {}
    /\ unresolved_contradictions = {}
    /\ all_goals_closed
FinishedMeansProcessed ==
    stop_code \in AnalysedToTheEnd => settled

\* The graph is a sequence of attempts under ids of their own, then one verdict that
\* is true of what is open, then the end; what a run knows does not change after its
\* verdict, and only the budget cuts it short.
InquiryOf == INSTANCE Inquiry WITH
    attempt <- IF node = "execution" THEN iteration ELSE 0,
    evidence <- DOMAIN evidence,
    verdict <- stop_code,
    ended <- node = "end",
    Analysed <- AnalysedToTheEnd
ImplementsInquiry == InquiryOf!Spec

\* Supersteps a run may still take: three after the last plan, two for a stall,
\* two for the verdict that closes the last goals, three for each expansion with
\* its verdict, and four for an iteration, whose stalls start again from none.
Fuel ==
    LET atPlan == (4 + 2 * (STUCK_THRESHOLD - 1)) * (MaxIterations - iteration)
                    + 2 * (STUCK_THRESHOLD - stalls)
                    + 3 * (MAX_GOAL_EXPANSIONS - expansions)
                    + (IF Open(goals) = {} THEN 0 ELSE 2) + 2
    IN CASE node \in {"end", "raised"} -> 0
         [] node = "finalize" -> 1
         [] node \notin {"end", "raised", "finalize"} /\ status # "RUNNING" -> 2
         [] node = "decompose_objective" -> atPlan + 3
         [] node \in {"plan_intent", "expand_goals"} /\ status = "RUNNING" -> atPlan
         [] node = "assess_progress" /\ status = "RUNNING" -> atPlan + 1
         [] node = "execution" /\ status = "RUNNING" -> atPlan + 3
         [] OTHER -> atPlan + 2

\* The graph stops a run as failed after RECURSION_LIMIT supersteps.  Every step
\* uses up Fuel, so that a run takes at most as many as it starts with (README:
\* below the limit for the code's constants and up to 39 iterations).
Supersteps == IF node = "execution" THEN 2 ELSE 1
StepsAreBounded == [][node' # node => Fuel' + Supersteps <= Fuel]_vars

\* A run ends, whatever the planner and the Critic answer and even if the clock
\* never runs out: stalls, iterations and expansions are all bounded.
AnalysisEnds == <>(node \in {"end", "raised"})

-------------------------------------------------------------------------------
(* What the repository says of the run and the code does not keep.            *)

\* The node reuse_evidence asserts that its intent names a goal.
ReuseNamesAGoal == node = "reuse_evidence" => intent.goal # None
=============================================================================
