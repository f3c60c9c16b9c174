-------------------------- MODULE AnalysisLoop_proofs --------------------------
(***************************************************************************)
(* Proofs about AnalysisLoop: for any number of goals, questions,          *)
(* iterations, expansions and stalls, and whatever the planner, the Critic *)
(* and the clock do, the safety properties that the run analysis_loop and  *)
(* FinishedMeansProcessed of analysis_ends check on small instances.       *)
(*                                                                         *)
(* CoreInv is inductive by itself: types, where a run with a given status, *)
(* intent and iteration can be, and who holds a task.  LineageInv, EndInv  *)
(* and the properties that need no strengthening are each inductive        *)
(* relative to it; Fuel is shown to fall node by node, in its parts; and a *)
(* step of the graph is mapped to a step of Inquiry or a stutter.          *)
(***************************************************************************)
EXTENDS AnalysisLoop, TLAPS

\* The nodes that carry out an intent, and those that come with no intent.
Working == {"execution", "reuse_evidence", "inspect_data", "lookup_evidence", "mark_data_limited"}
Planning == {"decompose_objective", "plan_intent", "expand_goals"}

\* Where a run is: a terminal status leads to the end and nowhere else, and the
\* planner is asked only while iterations, stalls and expansions are left.
ControlInv ==
    /\ status = "RUNNING" <=> stop_code = "none"
    /\ node \in Working \union Planning => status = "RUNNING"
    /\ node = "finalize" => status # "RUNNING"
    /\ status = "RUNNING" => stalls < STUCK_THRESHOLD
    /\ node \in Planning => intent = None /\ iteration < MaxIterations
    /\ node = "assess_progress" /\ status = "RUNNING" => intent = None
    /\ node \in Working => /\ intent # None
                           /\ node = IF intent.mode = "compute" THEN "execution" ELSE intent.mode
                           /\ iteration >= 1
    /\ node = "expand_goals" => expansions < MAX_GOAL_EXPANSIONS
    /\ stop_code \in AnalysedToTheEnd => node \in {"finalize", "end"}
    /\ node = "decompose_objective" => \A g \in Goals : goals[g] = "absent"

\* What an intent names exists, and its task is in the state its node expects.
IntentInv ==
    intent # None =>
       /\ intent.goal # None => intent.goal \in Known
       /\ intent.reuse \subseteq DOMAIN evidence /\ intent.parents \subseteq DOMAIN evidence
       /\ intent.task # None => intent.task \in DOMAIN agenda
       /\ node = "execution" /\ intent.task # None => agenda[intent.task].status = "in_progress"
       /\ node = "mark_data_limited" =>
             /\ intent.task # None
             /\ agenda[intent.task].status = "pending" /\ agenda[intent.task].tried

\* Only the intent that is executed, or was when the run failed, holds a task.
HeldInv ==
    \A k \in DOMAIN agenda : agenda[k].status = "in_progress" =>
       /\ intent # None /\ intent.task = k
       /\ node = "execution" \/ status # "RUNNING"

\* Ids are given once: an attempt's id is new when its Evidence is committed.
IdInv ==
    /\ \A e \in DOMAIN evidence : e <= iteration /\ (node = "execution" => e < iteration)
    /\ \A k \in DOMAIN agenda : k.at <= iteration /\ (node = "execution" => k.at < iteration)
    /\ \A r \in relations : r.src \in DOMAIN evidence /\ r.tgt \in DOMAIN evidence

TypeInv == TypeOK /\ DOMAIN agenda \subseteq TaskKeys

CoreInv == TypeInv /\ ControlInv /\ IntentInv /\ HeldInv /\ IdInv

\* A task names only what exists, and its status is one that its record bears out.
SoundTask(k) ==
    /\ agenda[k].goal # None => agenda[k].goal \in Known
    /\ k.sources \subseteq DOMAIN evidence
    /\ agenda[k].completion # None => agenda[k].completion \in DOMAIN evidence
    /\ agenda[k].status = "completed" => agenda[k].completion # None
    /\ agenda[k].status = "data_limited" => agenda[k].tried

\* What the audit looks for, record by record.
LineageInv ==
    /\ \A e \in DOMAIN evidence :
          /\ evidence[e] # None => evidence[e] \in Known
          /\ parents[e] \subseteq DOMAIN evidence
    /\ \A k \in DOMAIN agenda : SoundTask(k)
    /\ \A g \in Goals :
          /\ linked[g] # {} => g \in Known
          /\ \A e \in DOMAIN evidence : evidence[e] = g => e \in linked[g]
          /\ linked[g] \subseteq DOMAIN evidence

\* A run that may end as analysed has nothing left to do.
EndInv ==
    /\ node = "expand_goals" \/ stop_code \in AnalysedToTheEnd => settled
    /\ SatisfiedIsHonest

-------------------------------------------------------------------------------
(* What the steps do to intent and agenda.                                    *)

\* A step is a node's, or one of time.
LEMMA StepCases ==
    ASSUME [Next]_vars
    PROVE  \/ DecomposeObjective \/ PlanIntent \/ Execution \/ ReuseEvidence \/ NodeRaises
           \/ (InspectData \/ LookupEvidence) \/ MarkDataLimited
           \/ AssessProgress \/ ExpandGoals \/ Finalize
           \/ Tick \/ BudgetTimeout \/ UNCHANGED vars
BY DEF Next, GraphStep, Stopped

\* An intent that the policies accept names open goals, current Evidence and
\* pending tasks; without a task it is not the one that gives a task up.
LEMMA AcceptedIntent ==
    ASSUME TypeInv, intent' \in FreeIntents \union TaskIntents
    PROVE  /\ intent' \in Intents /\ intent' # None
           /\ intent'.goal # None => intent'.goal \in Open(goals)
           /\ intent'.reuse \subseteq DOMAIN evidence /\ intent'.parents \subseteq DOMAIN evidence
           /\ intent'.task # None =>
                 /\ intent'.task \in DOMAIN agenda
                 /\ agenda[intent'.task].status \in {"pending", "in_progress"}
                 /\ intent'.mode \in {"compute", "mark_data_limited"}
           /\ intent'.mode = "mark_data_limited" =>
                 intent'.task # None /\ agenda[intent'.task].tried
<1>1. DOMAIN evidence \subseteq Ids /\ DOMAIN agenda \subseteq TaskKeys
  BY DEF TypeInv, TypeOK
<1>2. None \notin TaskKeys /\ None \notin Intents
  BY NoneAssumption
<1>3. CASE intent' \in FreeIntents
  <2>1. /\ intent' \in [mode: Modes \ {"mark_data_limited"}, goal: OptGoals, task: {None},
                        reuse: SUBSET Reusable, parents: SUBSET Citable]
        /\ MayTarget(intent'.goal)
    BY <1>3 DEF FreeIntents
  <2>2. Reusable \subseteq DOMAIN evidence
    BY DEF Reusable, current_evidence
  <2>3. /\ intent' = [mode |-> intent'.mode, goal |-> intent'.goal, task |-> intent'.task,
                      reuse |-> intent'.reuse, parents |-> intent'.parents]
        /\ intent'.mode \in Modes \ {"mark_data_limited"} /\ intent'.goal \in OptGoals
        /\ intent'.task = None /\ intent'.reuse \subseteq DOMAIN evidence
        /\ intent'.parents \subseteq DOMAIN evidence
    BY <2>1, <2>2 DEF Citable
  <2>4. intent' \in Intents
    BY <1>1, <2>3 DEF Intents
  <2> QED
    BY <1>2, <2>1, <2>3, <2>4 DEF MayTarget
<1>4. CASE intent' \in TaskIntents
  <2>1. /\ intent' \in [mode: {"compute", "mark_data_limited"}, goal: OptGoals,
                        task: pending_agenda_tasks, reuse: {{}}, parents: SUBSET Citable]
        /\ MayTarget(intent'.goal)
        /\ intent'.mode = "mark_data_limited" => agenda[intent'.task].tried
    BY <1>4 DEF TaskIntents
  <2>2. /\ intent' = [mode |-> intent'.mode, goal |-> intent'.goal, task |-> intent'.task,
                      reuse |-> intent'.reuse, parents |-> intent'.parents]
        /\ intent'.mode \in {"compute", "mark_data_limited"} /\ intent'.goal \in OptGoals
        /\ intent'.task \in pending_agenda_tasks /\ intent'.reuse = {}
        /\ intent'.parents \subseteq DOMAIN evidence
    BY <2>1 DEF Citable
  <2>3. /\ intent'.task \in DOMAIN agenda
        /\ agenda[intent'.task].status \in {"pending", "in_progress"}
    BY <2>2 DEF pending_agenda_tasks
  <2>4. intent' \in Intents
    BY <1>1, <2>2, <2>3 DEF Intents, Modes
  <2> QED
    BY <1>1, <1>2, <2>1, <2>2, <2>3, <2>4 DEF MayTarget
<1> QED
  BY <1>3, <1>4

\* The task of an accepted computation is in progress; no other task moves.
LEMMA AcceptAgenda ==
    ASSUME TypeInv, Accept
    PROVE  /\ DOMAIN agenda' = DOMAIN agenda
           /\ \A k \in DOMAIN agenda :
                 /\ agenda'[k] \in TaskStates /\ agenda'[k].goal = agenda[k].goal
                 /\ agenda'[k].status = IF k = intent'.task /\ intent'.mode = "compute"
                                        THEN "in_progress" ELSE agenda[k].status
                 /\ agenda'[k].completion = agenda[k].completion
                 /\ agenda[k].tried => agenda'[k].tried
<1> DEFINE t == intent'.task
           up == [agenda[t] EXCEPT !.status = "in_progress", !.tried = TRUE]
<1>1. \A k \in DOMAIN agenda : agenda[k] \in TaskStates
  BY DEF TypeInv, TypeOK
<1>2. CASE t # None /\ intent'.mode = "compute"
  <2>1. t \in DOMAIN agenda
    BY <1>2, AcceptedIntent DEF Accept
  <2>2. agenda' = [agenda EXCEPT ![t] = up]
    BY <1>2 DEF Accept
  <2>3. /\ up \in TaskStates /\ up.goal = agenda[t].goal /\ up.status = "in_progress"
        /\ up.completion = agenda[t].completion /\ up.tried = TRUE
    BY <1>1, <2>1 DEF TaskStates, TaskStatuses
  <2> HIDE DEF t, up
  <2>4. DOMAIN agenda' = DOMAIN agenda
    BY <2>2
  <2>5. \A k \in DOMAIN agenda : agenda'[k] = IF k = t THEN up ELSE agenda[k]
    BY <2>2
  <2> QED
    BY <1>1, <1>2, <2>3, <2>4, <2>5 DEF t
<1>3. CASE ~(t # None /\ intent'.mode = "compute")
  <2>1. agenda' = agenda
    BY <1>3 DEF Accept
  <2>2. \A k \in DOMAIN agenda : k # None
    BY NoneAssumption DEF TypeInv
  <2> QED
    BY <1>1, <1>3, <2>1, <2>2
<1> QED
  BY <1>2, <1>3

\* The Critic's judgement of a task changes its status, and the Evidence that completed
\* it with the status; it leaves no task in progress.
LEMMA JudgedTask ==
    ASSUME TypeInv, HeldInv, iteration \in Ids, NEW review, NEW k \in DOMAIN agenda
    PROVE  /\ Judged(k, review) \in TaskStates
           /\ Judged(k, review).goal = agenda[k].goal
           /\ Judged(k, review).tried = agenda[k].tried
           /\ Judged(k, review).status # "in_progress"
           /\ Judged(k, review).status = IF ShouldComplete(k, review) THEN "completed"
                                         ELSE IF k = intent.task THEN "pending"
                                         ELSE agenda[k].status
           /\ Judged(k, review).completion =
                 IF ShouldComplete(k, review) /\ agenda[k].status # "completed" THEN iteration
                 ELSE agenda[k].completion
<1>1. agenda[k] \in TaskStates
  BY DEF TypeInv, TypeOK
<1> DEFINE up(st, e) == [agenda[k] EXCEPT !.status = st, !.completion = e]
<1>2. \A st \in TaskStatuses : \A e \in Ids \union {None} :
         /\ up(st, e) \in TaskStates
         /\ up(st, e).goal = agenda[k].goal /\ up(st, e).tried = agenda[k].tried
         /\ up(st, e).status = st /\ up(st, e).completion = e
  BY <1>1 DEF TaskStates
<1>3. agenda[k].status = "in_progress" => intent.task = k
  BY DEF HeldInv
<1>4. CASE ShouldComplete(k, review)
  <2> DEFINE by == IF agenda[k].status = "completed" THEN agenda[k].completion ELSE iteration
  <2>1. Judged(k, review) = up("completed", by)
    BY <1>4 DEF Judged
  <2>2. by \in Ids \union {None}
    BY <1>1 DEF TaskStates
  <2>3. by = IF agenda[k].status # "completed" THEN iteration ELSE agenda[k].completion
    OBVIOUS
  <2> HIDE DEF up, by
  <2> QED
    BY <1>2, <1>4, <2>1, <2>2, <2>3 DEF TaskStatuses
<1>5. CASE ~ShouldComplete(k, review)
  <2>1. agenda[k].status \in TaskStatuses /\ agenda[k].completion \in Ids \union {None}
    BY <1>1 DEF TaskStates
  <2>2. Judged(k, review) = up(IF k = intent.task THEN "pending" ELSE agenda[k].status,
                               agenda[k].completion)
    BY <1>1, <1>5 DEF Judged, TaskStates
  <2> HIDE DEF up
  <2> QED
    BY <1>2, <1>3, <1>5, <2>1, <2>2 DEF TaskStatuses
<1> QED
  BY <1>4, <1>5

\* The tasks a review creates have the id of the attempt, and rest on Evidence that
\* exists once it is committed.
LEMMA CreatedTask ==
    ASSUME TypeInv, iteration \in Ids, NEW review \in Reviews, NEW k \in CreatedTasks(review)
    PROVE  /\ k \in TaskKeys /\ k.at = iteration
           /\ k.sources \subseteq DOMAIN evidence \union {iteration}
           /\ ~StillListed(k, review)
           /\ \/ k.kind \in {"follow_up", "revalidate"} /\ k.sources = {iteration}
              \/ k.kind = "resolve_contradiction" /\ k.question = None
<1>1. /\ DOMAIN evidence \subseteq Ids /\ review.contradicts \subseteq DOMAIN evidence
      /\ review.open_questions \subseteq Questions /\ review.revalidation_required \subseteq Questions
  BY DEF TypeInv, TypeOK, Reviews, Named
<1> DEFINE followUps == [at: {iteration}, kind: {"follow_up"}, sources: {{iteration}},
                         question: review.open_questions \ review.revalidation_required]
           revalidations == [at: {iteration}, kind: {"revalidate"}, sources: {{iteration}},
                             question: review.revalidation_required]
           conflicts == [at: {iteration}, kind: {"resolve_contradiction"}, question: {None},
                         sources: {{iteration, e} : e \in review.contradicts}]
<1>2. k \in followUps \union revalidations \union conflicts /\ ~StillListed(k, review)
  BY DEF CreatedTasks
<1>3. CASE k \in followUps \union revalidations
  <2>1. /\ k = [at |-> k.at, kind |-> k.kind, question |-> k.question, sources |-> k.sources]
        /\ k.at = iteration /\ k.kind \in {"follow_up", "revalidate"}
        /\ k.sources = {iteration} /\ k.question \in Questions
    BY <1>1, <1>3
  <2>2. k \in TaskKeys
    BY <2>1 DEF TaskKeys, Kinds
  <2> QED
    BY <1>2, <2>1, <2>2
<1>4. CASE k \in conflicts
  <2>1. PICK e \in review.contradicts : k.sources = {iteration, e}
    BY <1>4
  <2>2. /\ k = [at |-> k.at, kind |-> k.kind, question |-> k.question, sources |-> k.sources]
        /\ k.at = iteration /\ k.kind = "resolve_contradiction" /\ k.question = None
    BY <1>4
  <2>3. k \in TaskKeys
    BY <1>1, <2>1, <2>2 DEF TaskKeys, Kinds
  <2> QED
    BY <1>1, <1>2, <2>1, <2>2, <2>3
<1> QED
  BY <1>2, <1>3, <1>4

\* What a commit leaves on the agenda: old tasks as judged, new ones pending.
LEMMA CommitAgenda ==
    ASSUME TypeInv, HeldInv, IdInv, node = "execution", iteration \in Ids, intent.goal \in OptGoals,
           NEW review \in Reviews, agenda' = AgendaAfterCommit(review)
    PROVE  /\ DOMAIN agenda' = DOMAIN agenda \union CreatedTasks(review)
           /\ \A k \in DOMAIN agenda : k \notin CreatedTasks(review) /\ agenda'[k] = Judged(k, review)
           /\ \A k \in CreatedTasks(review) :
                 /\ k \notin DOMAIN agenda /\ agenda'[k] = NewTask(intent.goal)
                 /\ agenda'[k] \in TaskStates
                 /\ agenda'[k].goal = intent.goal /\ agenda'[k].status = "pending"
                 /\ agenda'[k].completion = None
<1>1. \A k \in CreatedTasks(review) : k.at = iteration
  BY CreatedTask
<1>2. \A k \in CreatedTasks(review) : k \notin DOMAIN agenda
  BY <1>1 DEF IdInv, Ids
<1>3. /\ NewTask(intent.goal) \in TaskStates
      /\ NewTask(intent.goal).goal = intent.goal /\ NewTask(intent.goal).status = "pending"
      /\ NewTask(intent.goal).completion = None
  BY DEF NewTask, TaskStates, TaskStatuses
<1> QED
  BY <1>2, <1>3 DEF AgendaAfterCommit

\* A rejected attempt gives its task back, and one that is given up is limited.
LEMMA SetTaskStatus ==
    ASSUME TypeInv, NEW st \in TaskStatuses, NEW t \in DOMAIN agenda,
           agenda' = [agenda EXCEPT ![t].status = st]
    PROVE  /\ DOMAIN agenda' = DOMAIN agenda
           /\ \A k \in DOMAIN agenda :
                 /\ agenda'[k] \in TaskStates /\ agenda'[k].goal = agenda[k].goal
                 /\ agenda'[k].status = IF k = t THEN st ELSE agenda[k].status
                 /\ agenda'[k].completion = agenda[k].completion
                 /\ agenda'[k].tried = agenda[k].tried
<1>1. \A k \in DOMAIN agenda : agenda[k] \in TaskStates
  BY DEF TypeInv, TypeOK
<1> DEFINE up == [agenda[t] EXCEPT !.status = st]
<1>2. /\ up \in TaskStates /\ up.goal = agenda[t].goal /\ up.status = st
      /\ up.completion = agenda[t].completion /\ up.tried = agenda[t].tried
  BY <1>1 DEF TaskStates
<1>3. agenda' = [agenda EXCEPT ![t] = up]
  OBVIOUS
<1> HIDE DEF up
<1> QED
  BY <1>1, <1>2, <1>3

\* The repair of the agenda adds a pending task for each contradiction without one.
LEMMA RepairedAgenda ==
    ASSUME TypeInv, RepairAgenda
    PROVE  /\ DOMAIN agenda' = DOMAIN agenda \union RepairKeys
           /\ \A k \in DOMAIN agenda : k \notin RepairKeys => agenda'[k] = agenda[k]
           /\ \A k \in RepairKeys :
                 /\ agenda'[k] \in TaskStates
                 /\ agenda'[k].status = "pending" /\ agenda'[k].completion = None
                 /\ agenda'[k].goal \in RepairGoal(k.sources)
                 /\ k.sources \in Uncovered /\ k.at = iteration
                 /\ k.kind = "resolve_contradiction" /\ k.question = None
<1>1. PICK goalOf \in [Uncovered -> OptGoals] :
         /\ \A pair \in Uncovered : goalOf[pair] \in RepairGoal(pair)
         /\ agenda' = [k \in DOMAIN agenda \union RepairKeys |->
                          IF k \in RepairKeys THEN NewTask(goalOf[k.sources]) ELSE agenda[k]]
  BY DEF RepairAgenda
<1>2. \A k \in RepairKeys : /\ k.sources \in Uncovered /\ k.at = iteration
                            /\ k.kind = "resolve_contradiction" /\ k.question = None
  BY DEF RepairKeys
<1>3. \A g \in OptGoals : /\ NewTask(g) \in TaskStates
                          /\ NewTask(g).goal = g /\ NewTask(g).status = "pending"
                          /\ NewTask(g).completion = None
  BY DEF NewTask, TaskStates, TaskStatuses
<1> HIDE DEF RepairKeys
<1>4. \A k \in RepairKeys : goalOf[k.sources] \in OptGoals
  BY <1>1, <1>2
<1> QED
  BY <1>1, <1>2, <1>3, <1>4

\* The sides of a contradiction without a task are two records that exist.
LEMMA UncoveredPair ==
    ASSUME TypeInv, IdInv, NEW pair \in Uncovered
    PROVE  pair \subseteq DOMAIN evidence /\ pair \subseteq Ids /\ iteration \in Ids
<1>1. PICK r \in relations : pair = {r.src, r.tgt}
  BY DEF Uncovered, unresolved_contradictions
<1>2. /\ r.src \in DOMAIN evidence /\ r.tgt \in DOMAIN evidence /\ DOMAIN evidence \subseteq Ids
      /\ r.src <= iteration /\ iteration \in 0 .. MaxIterations
  BY DEF TypeInv, TypeOK, IdInv
<1> QED
  BY <1>1, <1>2, BoundsAssumption DEF Ids

\* A task that repair_contradiction_agenda lists is identified like any other.
LEMMA RepairedTask ==
    ASSUME TypeInv, IdInv, NEW k \in RepairKeys
    PROVE  k \in TaskKeys
<1>1. /\ k = [at |-> k.at, kind |-> k.kind, question |-> k.question, sources |-> k.sources]
      /\ k.at = iteration /\ k.kind = "resolve_contradiction" /\ k.question = None
      /\ k.sources \in Uncovered
  BY DEF RepairKeys
<1>2. iteration \in Ids /\ k.sources \subseteq Ids
  BY <1>1, UncoveredPair
<1> QED
  BY <1>1, <1>2 DEF TaskKeys, Kinds

\* An attempt at work has an intent for a goal or none, and an id of its own.
LEMMA AttemptId ==
    ASSUME CoreInv, node \in Working
    PROVE  /\ iteration \in Ids /\ intent # None /\ intent.goal \in OptGoals
           /\ status = "RUNNING" /\ stop_code = "none"
BY BoundsAssumption DEF CoreInv, TypeInv, TypeOK, ControlInv, Ids

\* What a commit adds to the relations and the links.
LEMMA CommitKnowledge ==
    ASSUME CoreInv, node = "execution", NEW review \in Reviews,
           relations' = RelationsAfterCommit(review), evidence' = NewEvidence(iteration, intent.goal),
           parents' = NewParents(iteration, intent.parents),
           linked' = goals_with_evidence(intent.goal, iteration)
    PROVE  /\ DOMAIN evidence' = DOMAIN evidence \union {iteration}
           /\ iteration \notin DOMAIN evidence
           /\ evidence'[iteration] = intent.goal
           /\ \A e \in DOMAIN evidence : evidence'[e] = evidence[e]
           /\ DOMAIN parents' = DOMAIN evidence'
           /\ parents'[iteration] = intent.parents /\ intent.parents \subseteq DOMAIN evidence
           /\ \A e \in DOMAIN evidence : parents'[e] = parents[e]
           /\ relations \subseteq relations'
           /\ \A r \in relations' \ relations :
                 /\ r = [src |-> r.src, tgt |-> r.tgt, kind |-> r.kind] /\ r.kind \in RelationKinds
                 /\ r.src = iteration /\ r.tgt \in DOMAIN evidence
                 /\ r.kind = "contradicts" => r.tgt \in review.contradicts
           /\ \A e \in review.supersedes : \E r \in relations' : r.kind = "supersedes" /\ r.tgt = e
           /\ \A e \in review.reconciles :
                 \E r \in relations' : r.kind = "reconciles" /\ r.src = iteration /\ r.tgt = e
           /\ linked' \in [Goals -> SUBSET Ids]
           /\ \A g \in Goals : linked'[g] = IF g = intent.goal THEN linked[g] \union {iteration}
                                            ELSE linked[g]
<1>1. iteration \in Ids /\ linked \in [Goals -> SUBSET Ids]
  BY AttemptId DEF Working, CoreInv, TypeInv, TypeOK
<1>2. \A e \in DOMAIN evidence : e # iteration
  BY DEF CoreInv, TypeInv, TypeOK, IdInv, Ids
<1>3. /\ DOMAIN evidence' = DOMAIN evidence \union {iteration}
      /\ \A d \in DOMAIN evidence \union {iteration} :
            evidence'[d] = IF d = iteration THEN intent.goal ELSE evidence[d]
  BY DEF NewEvidence
<1>p. /\ DOMAIN parents' = DOMAIN evidence \union {iteration}
      /\ \A d \in DOMAIN evidence \union {iteration} :
            parents'[d] = IF d = iteration THEN intent.parents ELSE parents[d]
  BY DEF NewParents, CoreInv, TypeInv, TypeOK
<1>q. intent.parents \subseteq DOMAIN evidence
  BY AttemptId DEF Working, CoreInv, IntentInv
<1>4. /\ linked' \in [Goals -> SUBSET Ids]
      /\ \A g \in Goals : linked'[g] = IF g = intent.goal THEN linked[g] \union {iteration}
                                       ELSE linked[g]
  BY <1>1 DEF goals_with_evidence
<1>5. /\ review.contradicts \subseteq DOMAIN evidence /\ review.supersedes \subseteq DOMAIN evidence
      /\ review.reconciles \subseteq DOMAIN evidence
  BY DEF Reviews, Named
<1>6. \A r \in relations' \ relations :
         /\ r = [src |-> r.src, tgt |-> r.tgt, kind |-> r.kind] /\ r.src = iteration
         /\ \/ r.kind = "derived_from" /\ r.tgt \in intent.parents
            \/ r.kind = "contradicts" /\ r.tgt \in review.contradicts
            \/ r.kind = "supersedes" /\ r.tgt \in review.supersedes
            \/ r.kind = "reconciles" /\ r.tgt \in review.reconciles
  BY DEF RelationsAfterCommit
<1>7. \A e \in review.supersedes : \E r \in relations' : r.kind = "supersedes" /\ r.tgt = e
  <2> SUFFICES ASSUME NEW e \in review.supersedes
               PROVE  \E r \in relations' : r.kind = "supersedes" /\ r.tgt = e
    OBVIOUS
  <2> DEFINE q == [src |-> iteration, tgt |-> e, kind |-> "supersedes"]
  <2>1. q \in relations'
    BY DEF RelationsAfterCommit
  <2> QED
    BY <2>1
<1>8. \A e \in review.reconciles :
         \E r \in relations' : r.kind = "reconciles" /\ r.src = iteration /\ r.tgt = e
  <2> SUFFICES ASSUME NEW e \in review.reconciles
               PROVE  \E r \in relations' : r.kind = "reconciles" /\ r.src = iteration /\ r.tgt = e
    OBVIOUS
  <2> DEFINE q == [src |-> iteration, tgt |-> e, kind |-> "reconciles"]
  <2>1. q \in relations'
    BY DEF RelationsAfterCommit
  <2> QED
    BY <2>1
<1>9. relations \subseteq relations'
  BY DEF RelationsAfterCommit
<1> QED
  BY <1>2, <1>3, <1>p, <1>q, <1>4, <1>5, <1>6, <1>7, <1>8, <1>9 DEF RelationKinds

-------------------------------------------------------------------------------
(* Types.                                                                     *)

\* A new run has the types.
LEMMA TypeInit == Init => TypeInv
BY BoundsAssumption
   DEF Init, TypeInv, TypeOK, Nodes, Statuses, StopCodes, GoalStatuses

\* What the verdict does to the goals: it closes open ones, with a reason.
LEMMA VerdictOnGoals ==
    ASSUME TypeInv, ApplyGoalVerdict
    PROVE  /\ goals' \in [Goals -> GoalStatuses]
           /\ \A g \in Goals :
                 \/ goals'[g] = goals[g]
                 \/ goals[g] = "open" /\ goals'[g] = "converged" /\ EvidenceOf(g) # {}
                 \/ goals[g] = "open" /\ goals'[g] = "abandoned" /\ (EvidenceOf(g) # {} \/ g \in attempted)
<1>1. PICK converged, abandoned \in SUBSET Open(goals) :
         /\ converged \intersect abandoned = {}
         /\ \A g \in converged : ~Blocked(g) /\ EvidenceOf(g) # {}
         /\ \A g \in abandoned : EvidenceOf(g) # {} \/ g \in attempted
         /\ goals' = [g \in Goals |-> IF g \in converged THEN "converged"
                                      ELSE IF g \in abandoned THEN "abandoned"
                                      ELSE goals[g]]
  BY DEF ApplyGoalVerdict
<1>2. goals \in [Goals -> GoalStatuses]
  BY DEF TypeInv, TypeOK
<1>3. goals' \in [Goals -> GoalStatuses]
  BY <1>1, <1>2 DEF GoalStatuses
<1>4. \A g \in converged \union abandoned : goals[g] = "open"
  BY <1>1 DEF Open
<1> QED
  BY <1>1, <1>3, <1>4

\* Every node keeps the types: counters stay below their limits because the planner and the
\* expansion are asked only below them (ControlInv).
LEMMA TypeNext == CoreInv /\ [Next]_vars => TypeInv'
<1> SUFFICES ASSUME CoreInv, [Next]_vars PROVE TypeInv'
  OBVIOUS
<1>0. TypeInv /\ ControlInv /\ IntentInv /\ HeldInv /\ IdInv
  BY DEF CoreInv
<1> USE DEF TypeInv, TypeOK, run, knowledge, Running, Terminal
<1>1. CASE DecomposeObjective
  <2>1. goals' \in [Goals -> GoalStatuses]
    BY <1>1 DEF DecomposeObjective, GoalStatuses
  <2> QED
    BY <1>0, <1>1, <2>1 DEF DecomposeObjective, Nodes
<1>2. CASE PlanIntent
  <2>1. /\ UNCHANGED <<clock, expansions, knowledge>> /\ node' = RouteAfterMainPlan'
        /\ node = "plan_intent" /\ status = "RUNNING" /\ intent = None
        /\ iteration < MaxIterations /\ stalls < STUCK_THRESHOLD
    BY <1>0, <1>2 DEF PlanIntent, ControlInv, Planning
  <2>2. intent' = None \/ intent'.mode \in Modes => node' \in Nodes
    BY <2>1 DEF RouteAfterMainPlan, Nodes, Modes
  <2>3. CASE ApplyGoalVerdict /\ Accept
    <3>1. intent'.task # None => intent'.task \in DOMAIN agenda
      BY <1>0, <2>3, AcceptedIntent DEF Accept
    <3>2. /\ intent'.mode \in Modes /\ intent'.goal \in OptGoals /\ intent'.reuse \subseteq Ids
          /\ intent'.parents \subseteq Ids
      BY <1>0, <2>3, AcceptedIntent DEF Accept, Intents
    <3>3. iteration' \in 0 .. MaxIterations /\ stalls' \in 0 .. STUCK_THRESHOLD
      BY <1>0, <2>1, <2>3, BoundsAssumption DEF Accept
    <3>4. goals' \in [Goals -> GoalStatuses]
      BY <1>0, <2>3, VerdictOnGoals
    <3>5. DOMAIN agenda' = DOMAIN agenda /\ \A k \in DOMAIN agenda : agenda'[k] \in TaskStates
      BY <1>0, <2>3, AcceptAgenda
    <3>6. UNCHANGED <<status, stop_code>>
      BY <2>3 DEF Accept
    <3>7. /\ DOMAIN agenda' \subseteq TaskKeys
          /\ \A k \in DOMAIN agenda' :
                /\ k.at \in Ids /\ k.kind \in Kinds /\ k.sources \subseteq Ids
                /\ k.question \in Questions \union {None}
                /\ agenda'[k] \in TaskStates
      BY <1>0, <3>5
    <3>8. intent'.task # None => intent'.task \in DOMAIN agenda'
      BY <3>1, <3>5
    <3>9. node' \in Nodes
      BY <2>2, <3>2
    <3>10. /\ status' \in Statuses /\ stop_code' \in StopCodes
           /\ clock' \in {"enough", "short", "over"} /\ expansions' \in 0 .. MAX_GOAL_EXPANSIONS
      BY <1>0, <2>1, <3>6
    <3>11. /\ linked' \in [Goals -> SUBSET Ids] /\ attempted' \subseteq Goals
           /\ DOMAIN evidence' \subseteq Ids /\ \A e \in DOMAIN evidence' : evidence'[e] \in OptGoals
           /\ DOMAIN parents' = DOMAIN evidence' /\ \A e \in DOMAIN parents' : parents'[e] \subseteq Ids
           /\ relations' \subseteq [src: Ids, tgt: Ids, kind: RelationKinds]
      BY <1>0, <2>1
    <3> QED
      BY <3>2, <3>3, <3>4, <3>7, <3>8, <3>9, <3>10, <3>11
  <2>4. CASE ApplyGoalVerdict /\ (Finish \/ Stall)
    <3>1. goals' \in [Goals -> GoalStatuses]
      BY <1>0, <2>4, VerdictOnGoals
    <3>2. /\ intent' = None /\ UNCHANGED <<iteration, agenda>> /\ stalls' \in 0 .. STUCK_THRESHOLD
          /\ status' \in Statuses /\ stop_code' \in StopCodes
      BY <1>0, <2>1, <2>4, BoundsAssumption DEF Finish, Stall, Statuses, StopCodes
    <3> QED
      BY <1>0, <2>1, <2>2, <3>1, <3>2
  <2>5. CASE PlannerUnavailable
    BY <1>0, <2>1, <2>2, <2>5 DEF PlannerUnavailable, Statuses, StopCodes
  <2> QED
    BY <1>2, <2>3, <2>4, <2>5 DEF PlanIntent
<1>3. CASE Execution
  <2>1. /\ node' = "assess_progress" /\ node = "execution"
        /\ UNCHANGED <<clock, iteration, stalls, expansions, goals>>
    BY <1>3 DEF Execution
  <2>2. iteration \in Ids /\ intent # None /\ intent.goal \in OptGoals
    BY <2>1, AttemptId DEF Working
  <2>3. CASE Commit
    <3>1. PICK review \in Reviews : /\ agenda' = AgendaAfterCommit(review)
                                    /\ relations' = RelationsAfterCommit(review)
      BY <2>3 DEF Commit
    <3>2. /\ evidence' = NewEvidence(iteration, intent.goal)
          /\ linked' = goals_with_evidence(intent.goal, iteration)
          /\ parents' = NewParents(iteration, intent.parents)
          /\ intent' = None /\ UNCHANGED <<attempted, status, stop_code>>
      BY <2>3 DEF Commit
    <3>3. /\ DOMAIN evidence' = DOMAIN evidence \union {iteration}
          /\ evidence'[iteration] = intent.goal
          /\ \A e \in DOMAIN evidence : evidence'[e] = evidence[e]
          /\ \A r \in relations' \ relations :
                /\ r = [src |-> r.src, tgt |-> r.tgt, kind |-> r.kind] /\ r.kind \in RelationKinds
                /\ r.src = iteration /\ r.tgt \in DOMAIN evidence
          /\ linked' \in [Goals -> SUBSET Ids]
          /\ DOMAIN parents' = DOMAIN evidence'
          /\ parents'[iteration] = intent.parents /\ intent.parents \subseteq DOMAIN evidence
          /\ \A e \in DOMAIN evidence : parents'[e] = parents[e]
      BY <2>1, <3>1, <3>2, CommitKnowledge
    <3>4. relations' \subseteq [src: Ids, tgt: Ids, kind: RelationKinds]
      BY <1>0, <2>2, <3>3
    <3>5. DOMAIN agenda' \subseteq TaskKeys /\ \A k \in DOMAIN agenda' : agenda'[k] \in TaskStates
      <4>1. \A k \in CreatedTasks(review) : k \in TaskKeys
        BY <1>0, <2>2, CreatedTask
      <4>2. \A k \in DOMAIN agenda : Judged(k, review) \in TaskStates
        BY <1>0, <2>2, JudgedTask
      <4>3. /\ DOMAIN agenda' = DOMAIN agenda \union CreatedTasks(review)
            /\ \A k \in DOMAIN agenda : agenda'[k] = Judged(k, review)
            /\ \A k \in CreatedTasks(review) : agenda'[k] \in TaskStates
        BY <1>0, <2>1, <2>2, <3>1, CommitAgenda
      <4> QED
        BY <1>0, <4>1, <4>2, <4>3
    <3>6. \A k \in TaskKeys : /\ k.at \in Ids /\ k.kind \in Kinds /\ k.sources \subseteq Ids
                              /\ k.question \in Questions \union {None}
      BY DEF TaskKeys
    <3>7. DOMAIN parents' = DOMAIN evidence' /\ \A e \in DOMAIN parents' : parents'[e] \subseteq Ids
      BY <1>0, <2>2, <3>3
    <3> QED
      BY <1>0, <2>1, <2>2, <3>2, <3>3, <3>4, <3>5, <3>6, <3>7 DEF Nodes
  <2>4. CASE Reject
    <3>1. DOMAIN agenda' = DOMAIN agenda /\ \A k \in DOMAIN agenda : agenda'[k] \in TaskStates
      BY <1>0, <2>2, <2>4, SetTaskStatus DEF Reject, TaskStatuses
    <3>2. attempted' \subseteq Goals /\ intent' = None
      BY <1>0, <2>2, <2>4 DEF Reject, OptGoals
    <3> QED
      BY <1>0, <2>1, <2>4, <3>1, <3>2 DEF Reject, Nodes
  <2>5. CASE ServiceUnavailable
    BY <1>0, <2>1, <2>5 DEF ServiceUnavailable, Nodes, Statuses, StopCodes
  <2> QED
    BY <1>3, <2>3, <2>4, <2>5 DEF Execution
<1>4. CASE ReuseEvidence
  <2>1. linked' \in [Goals -> SUBSET Ids]
    <3>1. intent # None /\ intent.goal \in OptGoals
      BY <1>4, AttemptId DEF ReuseEvidence, Working
    <3>2. intent.goal \in Goals /\ intent.reuse \subseteq Ids
      BY <1>0, <1>4, <3>1 DEF ReuseEvidence, OptGoals
    <3>3. linked' = [linked EXCEPT ![intent.goal] = linked[intent.goal] \union intent.reuse]
      BY <1>4 DEF ReuseEvidence
    <3> QED
      BY <1>0, <3>2, <3>3
  <2> QED
    BY <1>0, <1>4, <2>1 DEF ReuseEvidence, Nodes
<1>5. CASE NodeRaises
  BY <1>0, <1>5 DEF NodeRaises, Nodes
<1>6. CASE InspectData \/ LookupEvidence
  BY <1>0, <1>6 DEF InspectData, LookupEvidence, LookAtData, Nodes
<1>7. CASE MarkDataLimited
  <2>1. intent # None /\ node = "mark_data_limited"
    BY <1>7, AttemptId DEF MarkDataLimited, Working
  <2>2. intent.task \in DOMAIN agenda
    BY <1>0, <2>1 DEF IntentInv
  <2>3. DOMAIN agenda' = DOMAIN agenda /\ \A k \in DOMAIN agenda : agenda'[k] \in TaskStates
    BY <1>0, <1>7, <2>2, SetTaskStatus DEF MarkDataLimited, TaskStatuses
  <2> QED
    BY <1>0, <1>7, <2>3 DEF MarkDataLimited, Nodes
<1>8. CASE AssessProgress
  <2>1. /\ UNCHANGED <<clock, iteration, stalls, expansions, goals, knowledge, intent>>
        /\ node' = RouteAfterAssess'
    BY <1>8 DEF AssessProgress
  <2>2. node' \in Nodes
    BY <2>1 DEF RouteAfterAssess, Nodes
  <2>3. status' \in Statuses /\ stop_code' \in StopCodes
    BY <1>0, <1>8 DEF AssessProgress, AssessRunning, Statuses, StopCodes
  <2>4. CASE UNCHANGED agenda
    BY <1>0, <2>1, <2>2, <2>3, <2>4
  <2>5. CASE RepairAgenda
    <3>1. /\ DOMAIN agenda' = DOMAIN agenda \union RepairKeys
          /\ \A k \in DOMAIN agenda : k \notin RepairKeys => agenda'[k] = agenda[k]
          /\ \A k \in RepairKeys : agenda'[k] \in TaskStates
      BY <1>0, <2>5, RepairedAgenda
    <3>2. DOMAIN agenda' \subseteq TaskKeys
      BY <1>0, <3>1, RepairedTask
    <3>3. \A k \in TaskKeys : /\ k.at \in Ids /\ k.kind \in Kinds /\ k.sources \subseteq Ids
                              /\ k.question \in Questions \union {None}
      BY DEF TaskKeys
    <3> QED
      BY <1>0, <2>1, <2>2, <2>3, <3>1, <3>2, <3>3
  <2> QED
    BY <1>8, <2>4, <2>5 DEF AssessProgress, AssessRunning
<1>9. CASE ExpandGoals
  <2>1. /\ goals' \in [Goals -> GoalStatuses] /\ expansions' \in 0 .. MAX_GOAL_EXPANSIONS
        /\ status' \in Statuses /\ stop_code' \in StopCodes
    <3>1. CASE NothingToAdd
      BY <1>0, <3>1 DEF NothingToAdd, Statuses, StopCodes
    <3>2. CASE ExpansionUnverified
      BY <1>0, <3>2 DEF ExpansionUnverified, Statuses, StopCodes
    <3>3. CASE AddGoals
      <4>1. goals' \in [Goals -> GoalStatuses]
        BY <1>0, <3>3 DEF AddGoals, GoalStatuses
      <4>2. expansions' \in 0 .. MAX_GOAL_EXPANSIONS
        BY <1>0, <1>9, <3>3, BoundsAssumption DEF AddGoals, ExpandGoals, ControlInv
      <4> QED
        BY <1>0, <3>3, <4>1, <4>2 DEF AddGoals
    <3> QED
      BY <1>9, <3>1, <3>2, <3>3 DEF ExpandGoals
  <2> QED
    BY <1>0, <1>9, <2>1 DEF ExpandGoals, RouteAfterExpandGoals, Nodes
<1>10. CASE Finalize
  BY <1>0, <1>10 DEF Finalize, Nodes
<1>11. CASE Tick
  BY <1>0, <1>11 DEF Tick
<1>12. CASE BudgetTimeout
  BY <1>0, <1>12 DEF BudgetTimeout, Nodes, Statuses, StopCodes
<1>13. CASE UNCHANGED vars
  BY <1>0, <1>13 DEF vars
<1> QED
  BY <1>1, <1>2, <1>3, <1>4, <1>5, <1>6, <1>7, <1>8, <1>9, <1>10, <1>11, <1>12, <1>13, StepCases

-------------------------------------------------------------------------------
(* Control.                                                                   *)

\* assess_progress goes on only with iterations left, leaves nothing out before it
\* sends a run to expand_goals or ends it as analysed, and keeps a verdict.
LEMMA Assessed ==
    ASSUME CoreInv, AssessProgress
    PROVE  /\ node = "assess_progress"
           /\ node' \in {"finalize", "plan_intent", "expand_goals"}
           /\ node' = "finalize" <=> status' # "RUNNING"
           /\ status' = "RUNNING" <=> stop_code' = "none"
           /\ status # "RUNNING" => UNCHANGED <<status, stop_code, agenda>>
           /\ status' = "RUNNING" => status = "RUNNING" /\ iteration < MaxIterations
           /\ node' = "expand_goals" \/ (status = "RUNNING" /\ stop_code' \in AnalysedToTheEnd) =>
                 /\ UNCHANGED agenda /\ pending_agenda_tasks = {} /\ Uncovered = {} /\ all_goals_closed
           /\ node' = "expand_goals" => expansions < MAX_GOAL_EXPANSIONS
           /\ status = "RUNNING" => stop_code' # "GOAL_SATISFIED"
           /\ UNCHANGED agenda \/ (status = "RUNNING" /\ RepairAgenda)
<1>0. /\ node = "assess_progress" /\ node' = RouteAfterAssess'
      /\ UNCHANGED <<goals, expansions, iteration>>
      /\ IF status = "RUNNING" THEN AssessRunning ELSE UNCHANGED <<status, stop_code, agenda>>
  BY DEF AssessProgress, Running
<1>1. /\ status = "RUNNING" <=> stop_code = "none"
      /\ iteration \in Nat /\ expansions \in Nat
  BY DEF CoreInv, ControlInv, TypeInv, TypeOK
<1>2. all_goals_closed' = all_goals_closed
  BY <1>0 DEF all_goals_closed, Known
<1>3. UNCHANGED agenda => pending_agenda_tasks' = pending_agenda_tasks
  BY DEF pending_agenda_tasks
<1>4. ASSUME RepairAgenda, Uncovered # {} PROVE pending_agenda_tasks' # {}
  <2>1. PICK pair \in Uncovered : TRUE
    BY <1>4
  <2> DEFINE k == [at |-> iteration, kind |-> "resolve_contradiction", question |-> None, sources |-> pair]
  <2>2. k \in RepairKeys
    BY DEF RepairKeys
  <2>3. k \in DOMAIN agenda' /\ agenda'[k].status = "pending"
    BY <1>4, <2>2, RepairedAgenda DEF CoreInv
  <2> QED
    BY <2>3 DEF pending_agenda_tasks
<1>5. /\ node' \in {"finalize", "plan_intent", "expand_goals"}
      /\ node' = "finalize" <=> status' # "RUNNING"
      /\ node' = "expand_goals" => pending_agenda_tasks' = {} /\ all_goals_closed'
  BY <1>0 DEF RouteAfterAssess
<1>6. CASE status # "RUNNING"
  BY <1>0, <1>1, <1>5, <1>6
<1>7. CASE status = "RUNNING"
  <2>0. AssessRunning /\ stop_code = "none"
    BY <1>0, <1>1, <1>7
  <2> USE DEF Terminal, Running, AnalysedToTheEnd
  <2>1. CASE clock = "over" \/ iteration >= MaxIterations
    BY <1>0, <1>1, <1>5, <1>7, <2>0, <2>1 DEF AssessRunning
  <2>2. CASE ~(clock = "over" \/ iteration >= MaxIterations) /\ pending_agenda_tasks # {}
    <3>1. UNCHANGED <<status, stop_code, agenda>>
      BY <2>0, <2>2 DEF AssessRunning
    <3> QED
      BY <1>0, <1>1, <1>3, <1>5, <1>7, <2>0, <2>2, <3>1, BoundsAssumption
  <2>3. CASE /\ ~(clock = "over" \/ iteration >= MaxIterations) /\ pending_agenda_tasks = {}
             /\ Uncovered # {}
    <3>1. UNCHANGED <<status, stop_code>> /\ RepairAgenda
      BY <2>0, <2>3 DEF AssessRunning
    <3> QED
      BY <1>0, <1>1, <1>4, <1>5, <1>7, <2>0, <2>3, <3>1, BoundsAssumption
  <2>4. CASE /\ ~(clock = "over" \/ iteration >= MaxIterations) /\ pending_agenda_tasks = {}
             /\ Uncovered = {}
    <3>1. /\ UNCHANGED agenda
          /\ \/ all_goals_closed /\ Terminal("COMPLETED", "BUDGET_EXHAUSTED")
             \/ all_goals_closed /\ Terminal("COMPLETED", "EXPANSION_LIMIT_REACHED")
             \/ ~(all_goals_closed /\ expansions >= MAX_GOAL_EXPANSIONS) /\ Running
      BY <2>0, <2>4 DEF AssessRunning
    <3> QED
      BY <1>0, <1>1, <1>2, <1>5, <1>7, <2>0, <2>4, <3>1, BoundsAssumption
  <2> QED
    BY <2>1, <2>2, <2>3, <2>4
<1> QED
  BY <1>6, <1>7

\* A new run is at decompose_objective without intent, goals or verdict.
LEMMA ControlInit == Init => ControlInv
BY BoundsAssumption DEF Init, ControlInv, Working, Planning, AnalysedToTheEnd

\* Every node routes on to a node that may follow with this status, intent and iteration.
LEMMA ControlNext == CoreInv /\ [Next]_vars => ControlInv'
<1> SUFFICES ASSUME CoreInv, [Next]_vars PROVE ControlInv'
  OBVIOUS
<1>0. TypeInv /\ ControlInv
  BY DEF CoreInv
<1>t. stalls \in Nat /\ iteration \in Nat /\ expansions \in Nat
  BY <1>0 DEF TypeInv, TypeOK
<1> USE DEF ControlInv, Working, Planning, AnalysedToTheEnd, Running, Terminal
<1>1. CASE DecomposeObjective
  BY <1>0, <1>1 DEF DecomposeObjective
<1>2. CASE PlanIntent
  <2>1. /\ UNCHANGED <<clock, expansions, knowledge>> /\ node = "plan_intent"
        /\ status = "RUNNING" /\ stop_code = "none" /\ intent = None
        /\ iteration < MaxIterations /\ stalls < STUCK_THRESHOLD
        /\ node' = IF status' # "RUNNING" \/ intent' = None THEN "assess_progress"
                   ELSE IF intent'.mode = "compute" THEN "execution" ELSE intent'.mode
    BY <1>0, <1>2 DEF PlanIntent, RouteAfterMainPlan
  <2>2. CASE Accept
    <3>1. intent' # None /\ intent'.mode \in Modes
      BY <1>0, <2>2, AcceptedIntent DEF Accept, Intents
    <3>2. /\ iteration' >= 1 /\ stalls' < STUCK_THRESHOLD
          /\ status' = "RUNNING" /\ stop_code' = "none"
      BY <1>t, <2>1, <2>2, BoundsAssumption DEF Accept
    <3> QED
      BY <2>1, <3>1, <3>2 DEF Modes
  <2>3. CASE Finish
    BY <2>1, <2>3 DEF Finish
  <2>4. CASE Stall
    BY <2>1, <2>4 DEF Stall
  <2>5. CASE PlannerUnavailable
    BY <2>1, <2>5 DEF PlannerUnavailable
  <2> QED
    BY <1>2, <2>2, <2>3, <2>4, <2>5 DEF PlanIntent
<1>3. CASE Execution
  BY <1>0, <1>3 DEF Execution, Commit, Reject, ServiceUnavailable
<1>4. CASE ReuseEvidence
  BY <1>0, <1>4 DEF ReuseEvidence
<1>5. CASE NodeRaises
  BY <1>0, <1>5 DEF NodeRaises
<1>6. CASE InspectData \/ LookupEvidence
  BY <1>0, <1>6 DEF InspectData, LookupEvidence, LookAtData
<1>7. CASE MarkDataLimited
  BY <1>0, <1>7 DEF MarkDataLimited
<1>8. CASE AssessProgress
  <2>1. UNCHANGED <<iteration, stalls, expansions, intent>>
    BY <1>8 DEF AssessProgress
  <2> QED
    BY <1>0, <1>8, <2>1, Assessed
<1>9. CASE ExpandGoals
  BY <1>0, <1>9 DEF ExpandGoals, NothingToAdd, ExpansionUnverified, AddGoals, RouteAfterExpandGoals
<1>10. CASE Finalize
  BY <1>0, <1>10 DEF Finalize
<1>11. CASE Tick
  BY <1>0, <1>11 DEF Tick
<1>12. CASE BudgetTimeout
  BY <1>0, <1>12 DEF BudgetTimeout
<1>13. CASE UNCHANGED vars
  BY <1>0, <1>13 DEF vars, run
<1> QED
  BY <1>1, <1>2, <1>3, <1>4, <1>5, <1>6, <1>7, <1>8, <1>9, <1>10, <1>11, <1>12, <1>13, StepCases

-------------------------------------------------------------------------------
(* Ids, and who holds a task.                                                 *)

\* A new run has given no id.
LEMMA IdInit == Init => IdInv
BY DEF Init, IdInv

\* Evidence and tasks take the id of the iteration, which accept alone moves on.
LEMMA IdNext == CoreInv /\ [Next]_vars => IdInv'
<1> SUFFICES ASSUME CoreInv, [Next]_vars PROVE IdInv'
  OBVIOUS
<1>0. TypeInv /\ ControlInv /\ HeldInv /\ IdInv
  BY DEF CoreInv
<1>t. /\ iteration \in Nat /\ \A e \in DOMAIN evidence : e \in Nat
      /\ \A k \in DOMAIN agenda : k.at \in Nat
  BY <1>0, BoundsAssumption DEF TypeInv, TypeOK, Ids
<1> USE DEF IdInv
\* A step that names nothing new and does not begin an attempt.
<1>a. ASSUME UNCHANGED <<iteration, evidence, relations>>, DOMAIN agenda' \subseteq DOMAIN agenda,
             node' # "execution" \/ node = "execution"
      PROVE  IdInv'
  BY <1>0, <1>a
<1>1. CASE PlanIntent
  <2>1. UNCHANGED <<evidence, relations>> /\ node = "plan_intent"
    BY <1>1 DEF PlanIntent, knowledge
  <2>2. CASE Accept
    <3>1. iteration' = iteration + 1 /\ DOMAIN agenda' = DOMAIN agenda
      BY <1>0, <2>2, AcceptAgenda DEF Accept
    <3> QED
      BY <1>0, <1>t, <2>1, <3>1
  <2>3. CASE Finish \/ Stall \/ PlannerUnavailable
    <3>1. UNCHANGED <<iteration, agenda>> /\ intent' = None
      BY <2>3 DEF Finish, Stall, PlannerUnavailable
    <3>2. node' = "assess_progress"
      BY <1>1, <3>1 DEF PlanIntent, RouteAfterMainPlan
    <3> QED
      BY <1>a, <2>1, <3>1, <3>2
  <2> QED
    BY <1>1, <2>2, <2>3 DEF PlanIntent
<1>2. CASE Execution
  <2>1. node = "execution" /\ node' = "assess_progress" /\ UNCHANGED iteration
    BY <1>2 DEF Execution
  <2>2. iteration \in Ids /\ intent.goal \in OptGoals
    BY <2>1, AttemptId DEF Working
  <2>3. CASE Commit
    <3>1. PICK review \in Reviews : /\ agenda' = AgendaAfterCommit(review)
                                    /\ relations' = RelationsAfterCommit(review)
      BY <2>3 DEF Commit
    <3>2. /\ DOMAIN evidence' = DOMAIN evidence \union {iteration}
          /\ \A r \in relations' \ relations : r.src = iteration /\ r.tgt \in DOMAIN evidence
      BY <2>1, <2>3, <3>1, CommitKnowledge DEF Commit
    <3>3. \A k \in DOMAIN agenda' : k \in DOMAIN agenda \/ k.at = iteration
      BY <1>0, <2>1, <2>2, <3>1, CommitAgenda, CreatedTask
    <3> QED
      BY <1>0, <1>t, <2>1, <3>2, <3>3
  <2>4. CASE Reject
    <3>1. DOMAIN agenda' = DOMAIN agenda
      BY <2>4 DEF Reject
    <3> QED
      BY <1>a, <2>1, <2>4, <3>1 DEF Reject
  <2>5. CASE ServiceUnavailable
    BY <1>a, <2>1, <2>5 DEF ServiceUnavailable, knowledge
  <2> QED
    BY <1>2, <2>3, <2>4, <2>5 DEF Execution
<1>3. CASE MarkDataLimited
  <2>1. DOMAIN agenda' = DOMAIN agenda
    BY <1>3 DEF MarkDataLimited
  <2> QED
    BY <1>a, <1>3, <2>1 DEF MarkDataLimited, knowledge
<1>4. CASE AssessProgress
  <2>1. /\ UNCHANGED <<iteration, evidence, relations>>
        /\ node' # "execution" /\ (UNCHANGED agenda \/ RepairAgenda)
    BY <1>4, Assessed DEF AssessProgress, knowledge
  <2>2. CASE UNCHANGED agenda
    BY <1>a, <2>1, <2>2
  <2>3. CASE RepairAgenda
    <3>1. \A k \in DOMAIN agenda' : k \in DOMAIN agenda \/ k.at = iteration
      BY <1>0, <2>3, RepairedAgenda
    <3> QED
      BY <1>0, <1>t, <2>1, <3>1
  <2> QED
    BY <2>1, <2>2, <2>3
<1>5. CASE \/ DecomposeObjective \/ ReuseEvidence \/ NodeRaises \/ InspectData \/ LookupEvidence
           \/ ExpandGoals \/ Finalize \/ Tick \/ BudgetTimeout \/ UNCHANGED vars
  BY <1>a, <1>5
     DEF DecomposeObjective, ReuseEvidence, NodeRaises, InspectData, LookupEvidence, LookAtData,
         ExpandGoals, RouteAfterExpandGoals, Finalize, Tick, BudgetTimeout, vars, knowledge, run
<1> QED
  BY <1>1, <1>2, <1>3, <1>4, <1>5, StepCases

\* A new run holds no task and no intent.
LEMMA HeldInit == Init => HeldInv /\ IntentInv
BY DEF Init, HeldInv, IntentInv

\* While a run goes on, only an execution holds a task.
LEMMA NobodyHolds ==
    ASSUME CoreInv, status = "RUNNING", node # "execution", NEW k \in DOMAIN agenda
    PROVE  agenda[k].status # "in_progress"
BY DEF CoreInv, HeldInv

\* A task is taken by the accepted intent and let go by whatever ends the attempt, but for a
\* failure of the run.
LEMMA HeldNext == CoreInv /\ [Next]_vars => HeldInv'
<1> SUFFICES ASSUME CoreInv, [Next]_vars PROVE HeldInv'
  OBVIOUS
<1>0. TypeInv /\ ControlInv /\ HeldInv /\ IntentInv /\ IdInv
  BY DEF CoreInv
\* Nobody holds a task, and the step gives out none.
<1>a. ASSUME \A k \in DOMAIN agenda' : agenda'[k].status # "in_progress" PROVE HeldInv'
  BY <1>a DEF HeldInv
<1>1. CASE PlanIntent
  <2>1. node = "plan_intent" /\ status = "RUNNING"
    BY <1>0, <1>1 DEF PlanIntent, ControlInv, Planning
  <2>2. \A k \in DOMAIN agenda : agenda[k].status # "in_progress"
    BY <2>1, NobodyHolds
  <2>3. CASE Accept
    <3>1. /\ DOMAIN agenda' = DOMAIN agenda /\ intent' # None
          /\ \A k \in DOMAIN agenda : agenda'[k].status = "in_progress" =>
                k = intent'.task /\ intent'.mode = "compute"
      BY <1>0, <2>2, <2>3, AcceptAgenda, AcceptedIntent DEF Accept
    <3>2. intent'.mode = "compute" => node' = "execution"
      BY <1>1, <2>1, <2>3, <3>1 DEF PlanIntent, Accept, Running, RouteAfterMainPlan
    <3> QED
      BY <3>1, <3>2 DEF HeldInv
  <2>4. CASE Finish \/ Stall \/ PlannerUnavailable
    BY <1>a, <2>2, <2>4 DEF Finish, Stall, PlannerUnavailable
  <2> QED
    BY <1>1, <2>3, <2>4 DEF PlanIntent
<1>2. CASE Execution
  <2>1. node = "execution"
    BY <1>2 DEF Execution
  <2>2. iteration \in Ids /\ intent # None /\ intent.goal \in OptGoals
    BY <2>1, AttemptId DEF Working
  <2>3. CASE Commit
    <3>1. PICK review \in Reviews : agenda' = AgendaAfterCommit(review)
      BY <2>3 DEF Commit
    <3>2. /\ DOMAIN agenda' = DOMAIN agenda \union CreatedTasks(review)
          /\ \A k \in DOMAIN agenda : agenda'[k] = Judged(k, review)
          /\ \A k \in CreatedTasks(review) : agenda'[k].status = "pending"
      BY <1>0, <2>1, <2>2, <3>1, CommitAgenda
    <3>3. \A k \in DOMAIN agenda : Judged(k, review).status # "in_progress"
      BY <1>0, <2>2, JudgedTask
    <3> QED
      BY <1>a, <3>2, <3>3
  <2>4. CASE Reject
    <3>1. \A k \in DOMAIN agenda : agenda[k].status = "in_progress" => k = intent.task
      BY <1>0 DEF HeldInv
    <3>2. CASE intent.task # None
      <4>1. intent.task \in DOMAIN agenda
        BY <1>0, <2>2, <3>2 DEF IntentInv
      <4>2. /\ DOMAIN agenda' = DOMAIN agenda
            /\ \A k \in DOMAIN agenda : agenda'[k].status = IF k = intent.task THEN "pending"
                                                            ELSE agenda[k].status
        BY <1>0, <2>4, <3>2, <4>1, SetTaskStatus DEF Reject, TaskStatuses
      <4> QED
        BY <1>a, <3>1, <4>2
    <3>3. CASE intent.task = None
      <4>1. \A k \in DOMAIN agenda : k # None
        BY <1>0, NoneAssumption DEF TypeInv
      <4> QED
        BY <1>a, <2>4, <3>1, <3>3, <4>1 DEF Reject
    <3> QED
      BY <3>2, <3>3
  <2>5. CASE ServiceUnavailable
    BY <1>0, <2>5 DEF ServiceUnavailable, Terminal, HeldInv
  <2> QED
    BY <1>2, <2>3, <2>4, <2>5 DEF Execution
<1>3. CASE MarkDataLimited
  <2>1. node = "mark_data_limited" /\ intent # None /\ status = "RUNNING"
    BY <1>3, AttemptId DEF MarkDataLimited, Working
  <2>2. intent.task \in DOMAIN agenda
    BY <1>0, <2>1 DEF IntentInv
  <2>3. /\ DOMAIN agenda' = DOMAIN agenda
        /\ \A k \in DOMAIN agenda : agenda'[k].status = IF k = intent.task THEN "data_limited"
                                                        ELSE agenda[k].status
    BY <1>0, <1>3, <2>2, SetTaskStatus DEF MarkDataLimited, TaskStatuses
  <2> QED
    BY <1>a, <2>1, <2>3, NobodyHolds
<1>4. CASE AssessProgress
  <2>1. node = "assess_progress" /\ UNCHANGED intent
    BY <1>4, Assessed DEF AssessProgress
  <2>2. CASE status # "RUNNING"
    BY <1>0, <1>4, <2>1, <2>2, Assessed DEF HeldInv
  <2>3. CASE status = "RUNNING"
    <3>1. \A k \in DOMAIN agenda : agenda[k].status # "in_progress"
      BY <2>1, <2>3, NobodyHolds
    <3>2. CASE UNCHANGED agenda
      BY <1>a, <3>1, <3>2
    <3>3. CASE RepairAgenda
      BY <1>0, <1>a, <3>1, <3>3, RepairedAgenda
    <3> QED
      BY <1>4, <3>2, <3>3, Assessed
  <2> QED
    BY <2>2, <2>3
<1>5. CASE \/ DecomposeObjective \/ ReuseEvidence \/ NodeRaises \/ InspectData \/ LookupEvidence
           \/ ExpandGoals
  <2>1. node # "execution" /\ status = "RUNNING" /\ UNCHANGED agenda
    BY <1>0, <1>5 DEF DecomposeObjective, ReuseEvidence, NodeRaises, InspectData, LookupEvidence,
                      LookAtData, ExpandGoals, ControlInv, Working, Planning
  <2> QED
    BY <1>a, <2>1, NobodyHolds
<1>6. CASE Finalize \/ Tick \/ BudgetTimeout \/ UNCHANGED vars
  BY <1>0, <1>6 DEF Finalize, Tick, BudgetTimeout, Terminal, vars, run, HeldInv, ControlInv
<1> QED
  BY <1>1, <1>2, <1>3, <1>4, <1>5, <1>6, StepCases

\* Goals are never forgotten.
LEMMA KnownStay == CoreInv /\ [Next]_vars => Known \subseteq Known'
<1> SUFFICES ASSUME CoreInv, [Next]_vars PROVE Known \subseteq Known'
  OBVIOUS
<1>0. TypeInv
  BY DEF CoreInv
<1> USE DEF Known
<1>1. CASE DecomposeObjective
  <2>1. \A g \in Goals : goals[g] = "absent" \/ goals'[g] # "absent"
    BY <1>1 DEF DecomposeObjective, CoreInv, ControlInv
  <2> QED
    BY <2>1
<1>2. CASE PlanIntent
  BY <1>0, <1>2, VerdictOnGoals DEF PlanIntent, PlannerUnavailable
<1>3. CASE ExpandGoals
  <2>1. \A g \in Goals : goals'[g] \in {"open", goals[g]}
    BY <1>3 DEF ExpandGoals, NothingToAdd, ExpansionUnverified, AddGoals
  <2> QED
    BY <2>1
<1>4. CASE UNCHANGED goals
  BY <1>4
<1> QED
  BY <1>1, <1>2, <1>3, <1>4, StepCases
     DEF Execution, ReuseEvidence, NodeRaises, InspectData, LookupEvidence, LookAtData,
         MarkDataLimited, AssessProgress, Finalize, Tick, BudgetTimeout, vars

\* What an accepted intent names is there until its node has run.
LEMMA IntentNext == CoreInv /\ [Next]_vars => IntentInv'
<1> SUFFICES ASSUME CoreInv, [Next]_vars PROVE IntentInv'
  OBVIOUS
<1>0. TypeInv /\ ControlInv /\ HeldInv /\ IntentInv /\ IdInv
  BY DEF CoreInv
<1>k. Known \subseteq Known'
  BY KnownStay
\* An intent that is dropped, or that stays where nothing is done with it.
<1>a. ASSUME intent' = None PROVE IntentInv'
  BY <1>a DEF IntentInv
<1>b. ASSUME UNCHANGED <<intent, agenda, evidence>>,
             node' = node \/ node' \notin {"execution", "mark_data_limited"}
      PROVE  IntentInv'
  BY <1>0, <1>b, <1>k DEF IntentInv
<1>1. CASE PlanIntent
  <2>1. node = "plan_intent" /\ status = "RUNNING" /\ UNCHANGED evidence
    BY <1>0, <1>1 DEF PlanIntent, ControlInv, Planning, knowledge
  <2>2. CASE ApplyGoalVerdict /\ Accept
    <3>1. /\ intent' # None /\ intent'.reuse \subseteq DOMAIN evidence'
          /\ intent'.parents \subseteq DOMAIN evidence'
          /\ intent'.task # None => intent'.task \in DOMAIN agenda
          /\ intent'.mode = "mark_data_limited" =>
                /\ intent'.task # None
                /\ agenda[intent'.task].status = "pending" /\ agenda[intent'.task].tried
      BY <1>0, <2>1, <2>2, AcceptedIntent, NobodyHolds DEF Accept
    <3>2. intent'.goal # None => intent'.goal \in Known'
      <4>1. Open(goals) \subseteq Known
        BY DEF Open, Known
      <4> QED
        BY <1>0, <1>k, <2>2, <4>1, AcceptedIntent DEF Accept
    <3>3. /\ DOMAIN agenda' = DOMAIN agenda
          /\ \A k \in DOMAIN agenda :
                /\ agenda'[k].status = IF k = intent'.task /\ intent'.mode = "compute"
                                       THEN "in_progress" ELSE agenda[k].status
                /\ agenda[k].tried => agenda'[k].tried
      BY <1>0, <2>2, AcceptAgenda
    <3>4. node' = IF intent'.mode = "compute" THEN "execution" ELSE intent'.mode
      BY <1>1, <2>1, <2>2, <3>1 DEF PlanIntent, Accept, Running, RouteAfterMainPlan
    <3>5. intent'.mode # "execution"
      BY <1>0, <2>2, AcceptedIntent DEF Accept, Intents, Modes
    <3> QED
      BY <3>1, <3>2, <3>3, <3>4, <3>5 DEF IntentInv
  <2>3. CASE Finish \/ Stall \/ PlannerUnavailable
    BY <1>a, <2>3 DEF Finish, Stall, PlannerUnavailable
  <2> QED
    BY <1>1, <2>2, <2>3 DEF PlanIntent
<1>2. CASE Execution
  BY <1>2, <1>a, <1>b DEF Execution, Commit, Reject, ServiceUnavailable, knowledge
<1>3. CASE AssessProgress
  <2>1. UNCHANGED <<intent, evidence>>
    BY <1>3 DEF AssessProgress, knowledge
  <2>2. CASE status = "RUNNING"
    BY <1>0, <1>3, <1>a, <2>1, <2>2, Assessed DEF ControlInv
  <2>3. CASE status # "RUNNING"
    BY <1>3, <1>b, <2>1, <2>3, Assessed
  <2> QED
    BY <2>2, <2>3
<1>4. CASE ReuseEvidence \/ InspectData \/ LookupEvidence \/ MarkDataLimited
  BY <1>4, <1>a DEF ReuseEvidence, InspectData, LookupEvidence, LookAtData, MarkDataLimited
<1>5. CASE \/ DecomposeObjective \/ NodeRaises \/ ExpandGoals \/ Finalize \/ Tick \/ BudgetTimeout
           \/ UNCHANGED vars
  BY <1>5, <1>b DEF DecomposeObjective, NodeRaises, ExpandGoals, RouteAfterExpandGoals, Finalize,
                    Tick, BudgetTimeout, vars, run, knowledge
<1> QED
  BY <1>1, <1>2, <1>3, <1>4, <1>5, StepCases

\* CoreInv holds in every state of every run: what all the theorems below rest on.
THEOREM CoreInvariance == Spec => []CoreInv
<1>1. Init => CoreInv
  BY TypeInit, ControlInit, IdInit, HeldInit DEF CoreInv
<1>2. CoreInv /\ [Next]_vars => CoreInv'
  BY TypeNext, ControlNext, IdNext, HeldNext, IntentNext DEF CoreInv
<1> QED
  BY <1>1, <1>2, PTL DEF Spec

\* A task in progress has an owner, and the attempt at work holds its task
\* (reject_attempt and commit_evidence release it).
THEOREM TasksHaveOwners == Spec => []InProgressIsOwned
<1>1. CoreInv => InProgressIsOwned
  <2> SUFFICES ASSUME CoreInv PROVE InProgressIsOwned
    OBVIOUS
  <2>1. HeldInv /\ IntentInv /\ (node = "execution" => intent # None)
    BY DEF CoreInv, ControlInv, Working
  <2> QED
    BY <2>1 DEF HeldInv, IntentInv, InProgressIsOwned
<1> QED
  BY <1>1, CoreInvariance, PTL

\* The variables have their types.
THEOREM TypeCorrect == Spec => []TypeOK
<1>1. CoreInv => TypeOK
  BY DEF CoreInv, TypeInv
<1> QED
  BY <1>1, CoreInvariance, PTL

-------------------------------------------------------------------------------
(* Lineage.                                                                   *)

\* Evidence is never withdrawn, nor given to another goal; an attempt stays one.
LEMMA KnowledgeGrows ==
    CoreInv /\ [Next]_vars =>
       /\ \A e \in DOMAIN evidence : e \in DOMAIN evidence' /\ evidence'[e] = evidence[e]
       /\ attempted \subseteq attempted'
<1> SUFFICES ASSUME CoreInv, [Next]_vars
             PROVE  /\ \A e \in DOMAIN evidence : e \in DOMAIN evidence' /\ evidence'[e] = evidence[e]
                    /\ attempted \subseteq attempted'
  OBVIOUS
<1>1. CASE Execution
  <2>1. CASE Commit
    <3>1. PICK review \in Reviews : relations' = RelationsAfterCommit(review)
      BY <2>1 DEF Commit
    <3>2. node = "execution" /\ UNCHANGED attempted
      BY <1>1, <2>1 DEF Execution, Commit
    <3> QED
      BY <2>1, <3>1, <3>2, CommitKnowledge DEF Commit
  <2>2. CASE Reject
    BY <2>2 DEF Reject
  <2>3. CASE ServiceUnavailable
    BY <2>3 DEF ServiceUnavailable, knowledge
  <2> QED
    BY <1>1, <2>1, <2>2, <2>3 DEF Execution
<1>2. CASE UNCHANGED <<evidence, attempted>>
  BY <1>2
<1> QED
  BY <1>1, <1>2, StepCases
     DEF DecomposeObjective, PlanIntent, ReuseEvidence, NodeRaises, InspectData, LookupEvidence,
         LookAtData, MarkDataLimited, AssessProgress, ExpandGoals, Finalize, Tick, BudgetTimeout,
         vars, knowledge

\* A step that completes no task and limits none that was not tried.
KeepsRecord(k) ==
    /\ agenda'[k].goal = agenda[k].goal /\ agenda'[k].completion = agenda[k].completion
    /\ agenda'[k].status = "completed" => agenda[k].status = "completed"
    /\ agenda'[k].status = "data_limited" => agenda[k].status = "data_limited" \/ agenda[k].tried
    /\ agenda[k].tried => agenda'[k].tried

\* A new run has no records.
LEMMA LineageInit == Init => LineageInv
BY DEF Init, LineageInv

\* No node writes a record that names what is not there, nor removes what one names.
LEMMA LineageNext == CoreInv /\ LineageInv /\ [Next]_vars => LineageInv'
<1> SUFFICES ASSUME CoreInv, LineageInv, [Next]_vars PROVE LineageInv'
  OBVIOUS
<1>0. TypeInv /\ ControlInv /\ IntentInv /\ HeldInv /\ IdInv
  BY DEF CoreInv
<1>k. Known \subseteq Known'
  BY KnownStay
\* A step that commits nothing, links nothing and completes no task.
<1>a. ASSUME UNCHANGED <<linked, evidence, parents>>,
             \A k \in DOMAIN agenda' : k \in DOMAIN agenda /\ KeepsRecord(k)
      PROVE  LineageInv'
  <2>1. \A k \in DOMAIN agenda' : SoundTask(k)'
    BY <1>a, <1>k DEF LineageInv, SoundTask, KeepsRecord
  <2> QED
    BY <1>a, <1>k, <2>1 DEF LineageInv
<1>1. CASE PlanIntent
  <2>1. UNCHANGED <<linked, evidence, parents>>
    BY <1>1 DEF PlanIntent, knowledge
  <2>2. CASE Accept
    BY <1>0, <1>a, <2>1, <2>2, AcceptAgenda DEF KeepsRecord
  <2>3. CASE Finish \/ Stall \/ PlannerUnavailable
    BY <1>a, <2>1, <2>3 DEF Finish, Stall, PlannerUnavailable, KeepsRecord
  <2> QED
    BY <1>1, <2>2, <2>3 DEF PlanIntent
<1>2. CASE Execution
  <2>1. node = "execution"
    BY <1>2 DEF Execution
  <2>2. iteration \in Ids /\ intent # None /\ intent.goal \in OptGoals
    BY <2>1, AttemptId DEF Working
  <2>g. intent.goal # None => intent.goal \in Known
    BY <1>0, <2>2 DEF IntentInv
  <2>3. CASE Commit
    <3>1. PICK review \in Reviews : /\ agenda' = AgendaAfterCommit(review)
                                    /\ relations' = RelationsAfterCommit(review)
      BY <2>3 DEF Commit
    <3>2. /\ DOMAIN evidence' = DOMAIN evidence \union {iteration}
          /\ evidence'[iteration] = intent.goal
          /\ \A e \in DOMAIN evidence : evidence'[e] = evidence[e] /\ parents'[e] = parents[e]
          /\ parents'[iteration] = intent.parents /\ intent.parents \subseteq DOMAIN evidence
          /\ \A g \in Goals : linked'[g] = IF g = intent.goal THEN linked[g] \union {iteration}
                                           ELSE linked[g]
      BY <2>1, <2>3, <3>1, CommitKnowledge DEF Commit
    <3>3. \A e \in DOMAIN evidence' : /\ evidence'[e] # None => evidence'[e] \in Known'
                                      /\ parents'[e] \subseteq DOMAIN evidence'
      BY <1>k, <2>g, <3>2 DEF LineageInv
    <3>4. /\ DOMAIN agenda' = DOMAIN agenda \union CreatedTasks(review)
          /\ \A k \in DOMAIN agenda : agenda'[k] = Judged(k, review)
          /\ \A k \in CreatedTasks(review) :
                /\ agenda'[k].goal = intent.goal /\ agenda'[k].status = "pending"
                /\ agenda'[k].completion = None /\ k.sources \subseteq DOMAIN evidence'
      BY <1>0, <2>1, <2>2, <3>1, <3>2, CommitAgenda, CreatedTask
    <3>5. \A k \in DOMAIN agenda' : SoundTask(k)'
      <4>1. ASSUME NEW k \in DOMAIN agenda PROVE SoundTask(k)'
        <5>1. /\ agenda'[k].goal = agenda[k].goal /\ agenda'[k].tried = agenda[k].tried
              /\ agenda'[k].status \in {"completed", "pending", agenda[k].status}
              /\ \/ agenda'[k].completion = iteration
                 \/ /\ agenda'[k].completion = agenda[k].completion
                    /\ agenda'[k].status = "completed" => agenda[k].status = "completed"
          BY <1>0, <2>2, <3>4, JudgedTask
        <5>2. SoundTask(k) /\ iteration # None
          BY <2>2, NoneAssumption DEF LineageInv
        <5> QED
          BY <1>k, <3>2, <5>1, <5>2 DEF SoundTask
      <4>2. ASSUME NEW k \in CreatedTasks(review) PROVE SoundTask(k)'
        BY <1>k, <2>g, <3>4 DEF SoundTask
      <4> QED
        BY <3>4, <4>1, <4>2
    <3>6. \A g \in Goals : /\ linked'[g] # {} => g \in Known'
                           /\ linked'[g] \subseteq DOMAIN evidence'
      <4> SUFFICES ASSUME NEW g \in Goals
                   PROVE  /\ linked'[g] # {} => g \in Known'
                          /\ linked'[g] \subseteq DOMAIN evidence'
        OBVIOUS
      <4>1. CASE g = intent.goal
        <5>1. g \in Known'
          BY <1>k, <2>g, <4>1, BoundsAssumption
        <5>2. linked[g] \subseteq DOMAIN evidence
          BY DEF LineageInv
        <5> QED
          BY <3>2, <4>1, <5>1, <5>2
      <4>2. CASE g # intent.goal
        <5>1. (linked[g] # {} => g \in Known) /\ linked[g] \subseteq DOMAIN evidence
          BY DEF LineageInv
        <5> QED
          BY <1>k, <3>2, <4>2, <5>1
      <4> QED
        BY <4>1, <4>2
    <3>7. \A g \in Goals : \A e \in DOMAIN evidence' : evidence'[e] = g => e \in linked'[g]
      <4>1. \A g \in Goals : \A e \in DOMAIN evidence : evidence[e] = g => e \in linked[g]
        BY DEF LineageInv
      <4> QED
        BY <3>2, <4>1
    <3> QED
      BY <3>3, <3>5, <3>6, <3>7 DEF LineageInv
  <2>4. CASE Reject
    <3>1. CASE intent.task # None
      <4>1. intent.task \in DOMAIN agenda
        BY <1>0, <2>2, <3>1 DEF IntentInv
      <4> QED
        BY <1>0, <1>a, <2>4, <3>1, <4>1, SetTaskStatus DEF Reject, TaskStatuses, KeepsRecord
    <3>2. CASE intent.task = None
      BY <1>a, <2>4, <3>2 DEF Reject, KeepsRecord
    <3> QED
      BY <3>1, <3>2
  <2>5. CASE ServiceUnavailable
    BY <1>a, <2>5 DEF ServiceUnavailable, knowledge, KeepsRecord
  <2> QED
    BY <1>2, <2>3, <2>4, <2>5 DEF Execution
<1>3. CASE ReuseEvidence
  <2>1. /\ intent # None /\ intent.goal \in Known /\ intent.reuse \subseteq DOMAIN evidence
        /\ UNCHANGED <<evidence, parents, agenda>>
    BY <1>0, <1>3, AttemptId DEF ReuseEvidence, Working, IntentInv
  <2>2. linked \in [Goals -> SUBSET Ids] /\ intent.goal \in Goals
    BY <1>0, <2>1 DEF TypeInv, TypeOK, Known
  <2>3. \A g \in Goals : linked'[g] = IF g = intent.goal THEN linked[g] \union intent.reuse
                                      ELSE linked[g]
    BY <1>3, <2>2 DEF ReuseEvidence
  <2>4. \A g \in Goals : /\ linked'[g] # {} => g \in Known'
                         /\ linked'[g] \subseteq DOMAIN evidence'
                         /\ \A e \in DOMAIN evidence' : evidence'[e] = g => e \in linked'[g]
    <3> SUFFICES ASSUME NEW g \in Goals
                 PROVE  /\ linked'[g] # {} => g \in Known'
                        /\ linked'[g] \subseteq DOMAIN evidence'
                        /\ \A e \in DOMAIN evidence' : evidence'[e] = g => e \in linked'[g]
      OBVIOUS
    <3>1. /\ linked[g] # {} => g \in Known
          /\ linked[g] \subseteq DOMAIN evidence
          /\ \A e \in DOMAIN evidence : evidence[e] = g => e \in linked[g]
      BY DEF LineageInv
    <3>2. CASE g = intent.goal
      BY <1>k, <2>1, <2>3, <3>1, <3>2
    <3>3. CASE g # intent.goal
      BY <1>k, <2>1, <2>3, <3>1, <3>3
    <3> QED
      BY <3>2, <3>3
  <2>5. \A k \in DOMAIN agenda' : SoundTask(k)'
    BY <1>k, <2>1 DEF LineageInv, SoundTask
  <2> QED
    BY <1>k, <2>1, <2>4, <2>5 DEF LineageInv
<1>4. CASE MarkDataLimited
  <2>1. intent.task \in DOMAIN agenda /\ agenda[intent.task].tried
    BY <1>0, <1>4, AttemptId DEF MarkDataLimited, Working, IntentInv
  <2>2. \A k \in DOMAIN agenda' : k \in DOMAIN agenda /\ KeepsRecord(k)
    BY <1>0, <1>4, <2>1, SetTaskStatus DEF MarkDataLimited, TaskStatuses, KeepsRecord
  <2> QED
    BY <1>4, <1>a, <2>2 DEF MarkDataLimited, knowledge
<1>5. CASE AssessProgress
  <2>1. UNCHANGED <<linked, evidence, parents>>
    BY <1>5 DEF AssessProgress, knowledge
  <2>2. CASE UNCHANGED agenda
    BY <1>a, <2>1, <2>2 DEF KeepsRecord
  <2>3. CASE RepairAgenda
    <3>1. /\ DOMAIN agenda' = DOMAIN agenda \union RepairKeys
          /\ \A k \in DOMAIN agenda : k \notin RepairKeys => agenda'[k] = agenda[k]
          /\ \A k \in RepairKeys : /\ agenda'[k].status = "pending" /\ agenda'[k].completion = None
                                   /\ agenda'[k].goal \in RepairGoal(k.sources)
                                   /\ k.sources \in Uncovered
      BY <1>0, <2>3, RepairedAgenda
    <3>2. ASSUME NEW k \in RepairKeys
          PROVE  /\ agenda'[k].goal # None => agenda'[k].goal \in Known
                 /\ k.sources \subseteq DOMAIN evidence
      <4>1. k.sources \subseteq DOMAIN evidence
        BY <1>0, <3>1, UncoveredPair
      <4>2. agenda'[k].goal # None => \E e \in k.sources : agenda'[k].goal = evidence[e]
        BY <3>1 DEF RepairGoal
      <4> QED
        BY <4>1, <4>2 DEF LineageInv
    <3>3. \A k \in DOMAIN agenda' : SoundTask(k)'
      <4>1. \A k \in RepairKeys : SoundTask(k)'
        BY <1>k, <2>1, <3>1, <3>2 DEF SoundTask
      <4>2. \A k \in DOMAIN agenda \ RepairKeys : SoundTask(k)'
        BY <1>k, <2>1, <3>1 DEF LineageInv, SoundTask
      <4> QED
        BY <3>1, <4>1, <4>2
    <3> QED
      BY <1>k, <2>1, <3>3 DEF LineageInv
  <2> QED
    BY <1>5, <2>2, <2>3, Assessed
<1>6. CASE \/ DecomposeObjective \/ NodeRaises \/ InspectData \/ LookupEvidence
           \/ ExpandGoals \/ Finalize \/ Tick \/ BudgetTimeout \/ UNCHANGED vars
  BY <1>a, <1>6
     DEF DecomposeObjective, NodeRaises, InspectData, LookupEvidence, LookAtData,
         ExpandGoals, Finalize, Tick, BudgetTimeout, vars, knowledge, KeepsRecord
<1> QED
  BY <1>1, <1>2, <1>3, <1>4, <1>5, <1>6, StepCases

\* The audit of a checkpoint (build_run_audit) reports no lineage issue, after any node:
\* neither Evidence, its parents and its goal, nor a relation, nor a task, its sources,
\* its goal and the Evidence that completed it name what is not there.
THEOREM AuditIsClean == Spec => []AuditFindsNothing
<1>1. ASSUME CoreInv, LineageInv PROVE AuditFindsNothing
  <2>1. \A r \in relations : ~MissingEvidence({r.src, r.tgt})
    BY <1>1 DEF CoreInv, IdInv, MissingEvidence
  <2>2. \A e \in DOMAIN evidence : ~MissingEvidence(parents[e]) /\ ~UnknownGoal(evidence[e])
    BY <1>1 DEF LineageInv, MissingEvidence, UnknownGoal
  <2>3. \A k \in DOMAIN agenda : /\ ~MissingEvidence(k.sources) /\ ~UnknownGoal(agenda[k].goal)
                                 /\ ~MissingEvidence({agenda[k].completion} \ {None})
    BY <1>1 DEF LineageInv, SoundTask, MissingEvidence, UnknownGoal
  <2>4. AuditIssues = {}
    BY <2>1, <2>2, <2>3 DEF AuditIssues
  <2>5. \A k \in DOMAIN agenda : /\ agenda[k].status = "completed" => agenda[k].completion # None
                                 /\ agenda[k].status = "data_limited" => agenda[k].tried
    BY <1>1 DEF LineageInv, SoundTask
  <2>6. \A g \in Goals : /\ linked[g] # {} => g \in Known
                         /\ {e \in DOMAIN evidence : evidence[e] = g} \subseteq linked[g]
                         /\ linked[g] \subseteq DOMAIN evidence
    BY <1>1 DEF LineageInv
  <2> QED
    BY <2>4, <2>5, <2>6 DEF AuditFindsNothing
<1> QED
  BY <1>1, LineageInit, LineageNext, CoreInvariance, PTL DEF Spec

-------------------------------------------------------------------------------
(* Goals.                                                                     *)

\* Goals are closed by apply_goal_verdict only, which looks for the work; work stays done.
LEMMA WorkNext == CoreInv /\ GoalsCloseOnWork /\ [Next]_vars => GoalsCloseOnWork'
<1> SUFFICES ASSUME CoreInv, GoalsCloseOnWork, [Next]_vars PROVE GoalsCloseOnWork'
  OBVIOUS
<1>0. TypeInv
  BY DEF CoreInv
<1>k. /\ \A e \in DOMAIN evidence : e \in DOMAIN evidence' /\ evidence'[e] = evidence[e]
      /\ attempted \subseteq attempted'
  BY KnowledgeGrows
\* It is enough that goals are closed on work that was there before.
<1>a. ASSUME \A g \in Goals :
                \/ goals'[g] = goals[g]
                \/ goals'[g] \in {"open", "absent"}
                \/ goals'[g] = "converged" /\ EvidenceOf(g) # {}
                \/ goals'[g] = "abandoned" /\ (EvidenceOf(g) # {} \/ g \in attempted)
      PROVE  GoalsCloseOnWork'
  <2>1. \A g \in Goals : EvidenceOf(g) # {} => \E e \in DOMAIN evidence : evidence[e] = g
    BY DEF EvidenceOf, current_evidence
  <2>2. \A g \in Goals : (\E e \in DOMAIN evidence : evidence[e] = g)
                         => \E e \in DOMAIN evidence' : evidence'[e] = g
    BY <1>k
  <2> QED
    BY <1>a, <1>k, <2>1, <2>2 DEF GoalsCloseOnWork
<1>1. CASE DecomposeObjective
  <2>1. \A g \in Goals : goals'[g] \in {"open", "absent"}
    BY <1>1 DEF DecomposeObjective
  <2> QED
    BY <1>a, <2>1
<1>2. CASE PlanIntent
  BY <1>0, <1>2, <1>a, VerdictOnGoals DEF PlanIntent, PlannerUnavailable
<1>3. CASE ExpandGoals
  <2>1. \A g \in Goals : goals'[g] = goals[g] \/ goals'[g] = "open"
    BY <1>3 DEF ExpandGoals, NothingToAdd, ExpansionUnverified, AddGoals
  <2> QED
    BY <1>a, <2>1
<1>4. CASE UNCHANGED goals
  BY <1>4, <1>a
<1> QED
  BY <1>1, <1>2, <1>3, <1>4, StepCases
     DEF Execution, ReuseEvidence, NodeRaises, InspectData, LookupEvidence, LookAtData,
         MarkDataLimited, AssessProgress, Finalize, Tick, BudgetTimeout, vars

\* A goal is closed on work done for it (apply_goal_verdict), whatever Evidence was
\* taken over from other goals or superseded since.
THEOREM ClosedOnWork == Spec => []GoalsCloseOnWork
<1>1. Init => GoalsCloseOnWork
  BY DEF Init, GoalsCloseOnWork
<1> QED
  BY <1>1, WorkNext, CoreInvariance, PTL DEF Spec

-------------------------------------------------------------------------------
(* The agenda.                                                                *)

\* What is asked once stays so when no question is added and none is opened again.
LEMMA AskedOnceKept ==
    ASSUME QuestionsAreAskedOnce,
           \A k \in DOMAIN agenda' :
              \/ k.question = None
              \/ /\ k \in DOMAIN agenda /\ agenda'[k].goal = agenda[k].goal
                 /\ agenda[k].status = "completed" => agenda'[k].status = "completed"
    PROVE  QuestionsAreAskedOnce'
BY DEF QuestionsAreAskedOnce

\* agenda_after_commit lists a question only where no open task asks it, and no task that is
\* completed is opened again; an accepted intent puts its task in progress where it is.
LEMMA AskedNext == CoreInv /\ QuestionsAreAskedOnce /\ [Next]_vars => QuestionsAreAskedOnce'
<1> SUFFICES ASSUME CoreInv, QuestionsAreAskedOnce, [Next]_vars PROVE QuestionsAreAskedOnce'
  OBVIOUS
<1>0. TypeInv /\ ControlInv /\ IntentInv /\ HeldInv /\ IdInv
  BY DEF CoreInv
<1>a. UNCHANGED agenda => QuestionsAreAskedOnce'
  BY DEF QuestionsAreAskedOnce
<1>1. CASE PlanIntent
  <2>1. node = "plan_intent" /\ intent = None
    BY <1>0, <1>1 DEF PlanIntent, ControlInv, Planning
  <2>2. CASE Accept
    <3>1. /\ DOMAIN agenda' = DOMAIN agenda
          /\ \A k \in DOMAIN agenda :
                /\ agenda'[k].goal = agenda[k].goal
                /\ agenda'[k].status = IF k = intent'.task /\ intent'.mode = "compute"
                                       THEN "in_progress" ELSE agenda[k].status
      BY <1>0, <2>2, AcceptAgenda
    <3>2. \A k \in DOMAIN agenda : k = intent'.task => agenda[k].status \in {"pending", "in_progress"}
      <4>1. intent'.task # None => agenda[intent'.task].status \in {"pending", "in_progress"}
        BY <1>0, <2>2, AcceptedIntent DEF Accept
      <4>2. \A k \in DOMAIN agenda : k # None
        BY <1>0, NoneAssumption DEF TypeInv
      <4> QED
        BY <4>1, <4>2
    <3> QED
      BY <3>1, <3>2, AskedOnceKept
  <2>3. CASE Finish \/ Stall \/ PlannerUnavailable
    BY <1>a, <2>3 DEF Finish, Stall, PlannerUnavailable
  <2> QED
    BY <1>1, <2>2, <2>3 DEF PlanIntent
<1>2. CASE Execution
  <2>1. node = "execution"
    BY <1>2 DEF Execution
  <2>2. iteration \in Ids /\ intent # None /\ intent.goal \in OptGoals
    BY <2>1, AttemptId DEF Working
  <2>3. CASE Commit
    <3>1. PICK review \in Reviews : agenda' = AgendaAfterCommit(review)
      BY <2>3 DEF Commit
    <3>2. /\ DOMAIN agenda' = DOMAIN agenda \union CreatedTasks(review)
          /\ \A k \in DOMAIN agenda : k \notin CreatedTasks(review) /\ agenda'[k] = Judged(k, review)
          /\ \A k \in CreatedTasks(review) : agenda'[k].goal = intent.goal
      BY <1>0, <2>1, <2>2, <3>1, CommitAgenda
    \* An old task whose question is still listed was so before.
    <3>3. ASSUME NEW k \in DOMAIN agenda, agenda'[k].status # "completed"
          PROVE  agenda[k].status # "completed" /\ agenda'[k].goal = agenda[k].goal
      <4>1. /\ Judged(k, review).goal = agenda[k].goal
            /\ Judged(k, review).status = IF ShouldComplete(k, review) THEN "completed"
                                          ELSE IF k = intent.task THEN "pending"
                                          ELSE agenda[k].status
        BY <1>0, <2>2, JudgedTask
      <4>2. k = intent.task => agenda[k].status = "in_progress"
        BY <1>0, <2>1, <2>2, NoneAssumption DEF IntentInv, TypeInv
      <4> QED
        BY <3>2, <3>3, <4>1, <4>2
    \* A new one is about a question that no such task asks ...
    <3>4. ASSUME NEW j \in DOMAIN agenda, NEW k \in CreatedTasks(review),
                 agenda'[j].status # "completed", j.question # None, k.question # None,
                 j.kind = k.kind, j.question = k.question, agenda'[j].goal = agenda'[k].goal
          PROVE  FALSE
      <4>1. k.kind # "resolve_contradiction" /\ ~StillListed(k, review)
        BY <1>0, <2>2, <3>4, CreatedTask
      <4>2. Judged(j, review).status # "completed" /\ agenda[j].goal = intent.goal
        BY <3>2, <3>3, <3>4
      <4> QED
        BY <3>4, <4>1, <4>2 DEF StillListed
    \* ... and one review asks it once.
    <3>5. ASSUME NEW j \in CreatedTasks(review), NEW k \in CreatedTasks(review),
                 j.question # None, j.kind = k.kind, j.question = k.question
          PROVE  j = k
      <4>1. /\ j.at = k.at /\ j.sources = k.sources
            /\ j \in TaskKeys /\ k \in TaskKeys
        BY <1>0, <2>2, <3>5, CreatedTask
      <4>2. /\ j = [at |-> j.at, kind |-> j.kind, question |-> j.question, sources |-> j.sources]
            /\ k = [at |-> k.at, kind |-> k.kind, question |-> k.question, sources |-> k.sources]
        BY <4>1 DEF TaskKeys
      <4> QED
        BY <3>5, <4>1, <4>2
    <3> SUFFICES ASSUME NEW j \in DOMAIN agenda', NEW k \in DOMAIN agenda',
                        agenda'[j].status # "completed", j.question # None,
                        agenda'[k].status # "completed", k.question # None,
                        j.kind = k.kind, j.question = k.question, agenda'[j].goal = agenda'[k].goal
                 PROVE  j = k
      BY DEF QuestionsAreAskedOnce
    <3>6. CASE j \in DOMAIN agenda /\ k \in DOMAIN agenda
      BY <3>3, <3>6 DEF QuestionsAreAskedOnce
    <3>7. CASE j \in DOMAIN agenda /\ k \in CreatedTasks(review)
      BY <3>4, <3>7
    <3>8. CASE j \in CreatedTasks(review) /\ k \in DOMAIN agenda
      BY <3>4, <3>8
    <3>9. CASE j \in CreatedTasks(review) /\ k \in CreatedTasks(review)
      BY <3>5, <3>9
    <3> QED
      BY <3>2, <3>6, <3>7, <3>8, <3>9
  <2>4. CASE Reject
    <3>1. CASE intent.task # None
      <4>1. intent.task \in DOMAIN agenda /\ agenda[intent.task].status = "in_progress"
        BY <1>0, <2>1, <2>2, <3>1 DEF IntentInv
      <4>2. /\ DOMAIN agenda' = DOMAIN agenda
            /\ \A k \in DOMAIN agenda :
                  /\ agenda'[k].goal = agenda[k].goal
                  /\ agenda'[k].status = IF k = intent.task THEN "pending" ELSE agenda[k].status
        BY <1>0, <2>4, <3>1, <4>1, SetTaskStatus DEF Reject, TaskStatuses
      <4> QED
        BY <4>1, <4>2, AskedOnceKept
    <3>2. CASE intent.task = None
      BY <1>a, <2>4, <3>2 DEF Reject
    <3> QED
      BY <3>1, <3>2
  <2>5. CASE ServiceUnavailable
    BY <1>a, <2>5 DEF ServiceUnavailable
  <2> QED
    BY <1>2, <2>3, <2>4, <2>5 DEF Execution
<1>3. CASE MarkDataLimited
  <2>1. intent.task \in DOMAIN agenda /\ agenda[intent.task].status = "pending"
    BY <1>0, <1>3, AttemptId DEF MarkDataLimited, Working, IntentInv
  <2>2. /\ DOMAIN agenda' = DOMAIN agenda
        /\ \A k \in DOMAIN agenda :
              /\ agenda'[k].goal = agenda[k].goal
              /\ agenda'[k].status = IF k = intent.task THEN "data_limited" ELSE agenda[k].status
    BY <1>0, <1>3, <2>1, SetTaskStatus DEF MarkDataLimited, TaskStatuses
  <2> QED
    BY <2>1, <2>2, AskedOnceKept
<1>4. CASE AssessProgress
  <2>1. CASE RepairAgenda
    <3>1. /\ DOMAIN agenda' = DOMAIN agenda \union RepairKeys
          /\ \A k \in DOMAIN agenda : k \notin RepairKeys => agenda'[k] = agenda[k]
          /\ \A k \in RepairKeys : k.question = None
      BY <1>0, <2>1, RepairedAgenda
    <3> QED
      BY <3>1, AskedOnceKept
  <2> QED
    BY <1>4, <1>a, <2>1, Assessed
<1>5. CASE UNCHANGED agenda
  BY <1>5, <1>a
<1> QED
  BY <1>1, <1>2, <1>3, <1>4, <1>5, StepCases
     DEF DecomposeObjective, ReuseEvidence, NodeRaises, InspectData, LookupEvidence, LookAtData,
         ExpandGoals, Finalize, Tick, BudgetTimeout, vars

\* A question is listed once per goal until it is answered, however often the Critic
\* raises it (agenda_after_commit).
THEOREM AskedOnce == Spec => []QuestionsAreAskedOnce
<1>1. Init => QuestionsAreAskedOnce
  BY DEF Init, QuestionsAreAskedOnce
<1> QED
  BY <1>1, AskedNext, CoreInvariance, PTL DEF Spec

\* Resolving is for good, and a task that tracks a contradiction stays unfinished,
\* unless a commit says otherwise.
LEMMA StillTracked ==
    ASSUME ContradictionsAreTracked, unresolved_contradictions' \subseteq unresolved_contradictions,
           \A k \in DOMAIN agenda :
              k \in DOMAIN agenda' /\ (agenda'[k].status = "completed" => agenda[k].status = "completed")
    PROVE  ContradictionsAreTracked'
BY DEF ContradictionsAreTracked, Tracks

\* Contradictions change with Evidence and relations only.
LEMMA SameContradictions ==
    ASSUME UNCHANGED <<evidence, relations>>
    PROVE  unresolved_contradictions' = unresolved_contradictions
BY DEF unresolved_contradictions, superseded_evidence_ids, ReconciledBy

\* A contradiction is listed when the Critic finds it, and its task is completed by what resolves it.
LEMMA TrackedNext == CoreInv /\ ContradictionsAreTracked /\ [Next]_vars => ContradictionsAreTracked'
<1> SUFFICES ASSUME CoreInv, ContradictionsAreTracked, [Next]_vars PROVE ContradictionsAreTracked'
  OBVIOUS
<1>0. TypeInv /\ ControlInv /\ IntentInv /\ HeldInv /\ IdInv
  BY DEF CoreInv
\* Outside a commit it is enough that no task is completed.
<1>a. ASSUME UNCHANGED <<evidence, relations>>,
             \A k \in DOMAIN agenda :
                k \in DOMAIN agenda' /\ (agenda'[k].status = "completed" => agenda[k].status = "completed")
      PROVE  ContradictionsAreTracked'
  BY <1>a, SameContradictions, StillTracked
<1>1. CASE PlanIntent
  <2>1. UNCHANGED <<evidence, relations>>
    BY <1>1 DEF PlanIntent, knowledge
  <2>2. CASE Accept
    <3>1. /\ DOMAIN agenda' = DOMAIN agenda
          /\ \A k \in DOMAIN agenda :
                agenda'[k].status = IF k = intent'.task /\ intent'.mode = "compute"
                                    THEN "in_progress" ELSE agenda[k].status
      BY <1>0, <2>2, AcceptAgenda
    <3> QED
      BY <1>a, <2>1, <3>1
  <2>3. CASE Finish \/ Stall \/ PlannerUnavailable
    <3>1. UNCHANGED agenda
      BY <2>3 DEF Finish, Stall, PlannerUnavailable
    <3> QED
      BY <1>a, <2>1, <3>1
  <2> QED
    BY <1>1, <2>2, <2>3 DEF PlanIntent
<1>2. CASE Execution
  <2>1. node = "execution"
    BY <1>2 DEF Execution
  <2>2. iteration \in Ids /\ intent # None /\ intent.goal \in OptGoals
    BY <2>1, AttemptId DEF Working
  <2>3. CASE Commit
    <3>1. PICK review \in Reviews : /\ agenda' = AgendaAfterCommit(review)
                                    /\ relations' = RelationsAfterCommit(review)
      BY <2>3 DEF Commit
    <3>2. /\ DOMAIN agenda' = DOMAIN agenda \union CreatedTasks(review)
          /\ \A k \in DOMAIN agenda : agenda'[k] = Judged(k, review)
          /\ \A k \in CreatedTasks(review) : agenda'[k].status = "pending"
      BY <1>0, <2>1, <2>2, <3>1, CommitAgenda
    <3>3. /\ evidence' = NewEvidence(iteration, intent.goal)
          /\ parents' = NewParents(iteration, intent.parents)
          /\ linked' = goals_with_evidence(intent.goal, iteration)
      BY <2>3 DEF Commit
    <3>4. /\ DOMAIN evidence' = DOMAIN evidence \union {iteration}
          /\ relations \subseteq relations'
          /\ \A r \in relations' \ relations :
                r.src = iteration /\ (r.kind = "contradicts" => r.tgt \in review.contradicts)
          /\ \A e \in review.supersedes : \E r \in relations' : r.kind = "supersedes" /\ r.tgt = e
          /\ \A e \in review.reconciles :
                \E r \in relations' : r.kind = "reconciles" /\ r.src = iteration /\ r.tgt = e
      BY <2>1, <3>1, <3>3, CommitKnowledge
    <3> SUFFICES ASSUME NEW pair \in unresolved_contradictions'
                 PROVE  \E k \in DOMAIN agenda' : Tracks(k, pair) /\ agenda'[k].status # "completed"
      BY DEF ContradictionsAreTracked, Tracks
    <3>5. PICK r \in relations' : r.kind = "contradicts" /\ pair = {r.src, r.tgt}
      BY DEF unresolved_contradictions
    <3>6. /\ \A q \in relations' : q.kind = "supersedes" => q.tgt \notin pair
          /\ \A e \in DOMAIN evidence' :
                \E d \in pair : \A q \in relations' : q.kind = "reconciles" /\ q.src = e => q.tgt # d
      BY DEF unresolved_contradictions, superseded_evidence_ids, ReconciledBy
    \* One known before keeps its task: the review does not complete it.
    <3>7. CASE r \in relations
      <4>1. pair \in unresolved_contradictions
        BY <3>4, <3>5, <3>6, <3>7
           DEF unresolved_contradictions, superseded_evidence_ids, ReconciledBy
      <4>2. PICK k \in DOMAIN agenda : Tracks(k, pair) /\ agenda[k].status # "completed"
        BY <4>1 DEF ContradictionsAreTracked
      <4>3. k.kind = "resolve_contradiction" /\ k.sources = pair
        BY <4>2 DEF Tracks
      <4>4. review.supersedes \intersect pair = {}
        BY <3>4, <3>6
      <4>5. ~(pair \subseteq review.reconciles)
        BY <3>4, <3>6
      <4>6. ~ShouldComplete(k, review)
        BY <4>3, <4>4, <4>5 DEF ShouldComplete
      <4>7. Judged(k, review).status # "completed"
        BY <1>0, <2>2, <4>2, <4>6, JudgedTask
      <4> QED
        BY <3>2, <4>2, <4>7
    \* One the review has found gets a task, if it has none.
    <3>8. CASE r \notin relations
      <4> DEFINE new == [at |-> iteration, kind |-> "resolve_contradiction", question |-> None,
                         sources |-> {iteration, r.tgt}]
      <4>1. r.tgt \in review.contradicts /\ pair = {iteration, r.tgt}
        BY <3>4, <3>5, <3>8
      <4>2. new.kind = "resolve_contradiction" /\ new.sources = pair
        BY <4>1
      <4>3. new \in [at: {iteration}, kind: {"resolve_contradiction"}, question: {None},
                     sources: {{iteration, e} : e \in review.contradicts}]
        BY <4>1
      <4>4. new \in CreatedTasks(review) \/ StillListed(new, review)
        BY <4>3 DEF CreatedTasks
      <4> HIDE DEF new
      <4>5. CASE new \in CreatedTasks(review)
        BY <3>2, <4>2, <4>5 DEF Tracks
      <4>6. CASE StillListed(new, review)
        <5>1. PICK j \in DOMAIN agenda : /\ Judged(j, review).status # "completed"
                                         /\ j.kind = new.kind /\ j.sources = new.sources
          BY <4>2, <4>6 DEF StillListed
        <5> QED
          BY <3>2, <4>2, <5>1 DEF Tracks
      <4> QED
        BY <4>4, <4>5, <4>6
    <3> QED
      BY <3>7, <3>8
  <2>4. CASE Reject
    <3>1. CASE intent.task # None
      <4>1. intent.task \in DOMAIN agenda
        BY <1>0, <2>2, <3>1 DEF IntentInv
      <4>2. /\ DOMAIN agenda' = DOMAIN agenda
            /\ \A k \in DOMAIN agenda :
                  agenda'[k].status = IF k = intent.task THEN "pending" ELSE agenda[k].status
        BY <1>0, <2>4, <3>1, <4>1, SetTaskStatus DEF Reject, TaskStatuses
      <4> QED
        BY <1>a, <2>4, <4>2 DEF Reject
    <3>2. CASE intent.task = None
      BY <1>a, <2>4, <3>2 DEF Reject
    <3> QED
      BY <3>1, <3>2
  <2>5. CASE ServiceUnavailable
    BY <1>a, <2>5 DEF ServiceUnavailable, knowledge
  <2> QED
    BY <1>2, <2>3, <2>4, <2>5 DEF Execution
<1>3. CASE MarkDataLimited
  <2>1. intent.task \in DOMAIN agenda
    BY <1>0, <1>3, AttemptId DEF MarkDataLimited, Working, IntentInv
  <2>2. /\ DOMAIN agenda' = DOMAIN agenda
        /\ \A k \in DOMAIN agenda :
              agenda'[k].status = IF k = intent.task THEN "data_limited" ELSE agenda[k].status
    BY <1>0, <1>3, <2>1, SetTaskStatus DEF MarkDataLimited, TaskStatuses
  <2> QED
    BY <1>3, <1>a, <2>2 DEF MarkDataLimited, knowledge
<1>4. CASE AssessProgress
  <2>1. UNCHANGED <<evidence, relations>>
    BY <1>4 DEF AssessProgress, knowledge
  <2>2. CASE RepairAgenda
    <3>1. /\ DOMAIN agenda' = DOMAIN agenda \union RepairKeys
          /\ \A k \in DOMAIN agenda : k \notin RepairKeys => agenda'[k] = agenda[k]
          /\ \A k \in RepairKeys : agenda'[k].status = "pending"
      BY <1>0, <2>2, RepairedAgenda
    <3> QED
      BY <1>a, <2>1, <3>1
  <2> QED
    BY <1>4, <1>a, <2>1, <2>2, Assessed
<1>5. CASE UNCHANGED <<evidence, relations, agenda>>
  BY <1>5, <1>a
<1> QED
  BY <1>1, <1>2, <1>3, <1>4, <1>5, StepCases
     DEF DecomposeObjective, ReuseEvidence, NodeRaises, InspectData, LookupEvidence, LookAtData,
         ExpandGoals, Finalize, Tick, BudgetTimeout, vars, knowledge

\* A contradiction stays on the agenda until Evidence supersedes a side or reconciles
\* both (agenda_after_commit, repair_contradiction_agenda), through any number of
\* rejected attempts and later reviews.
THEOREM ContradictionsTracked == Spec => []ContradictionsAreTracked
<1>1. Init => ContradictionsAreTracked
  BY DEF Init, ContradictionsAreTracked, unresolved_contradictions
<1> QED
  BY <1>1, TrackedNext, CoreInvariance, PTL DEF Spec

-------------------------------------------------------------------------------
(* The end of a run.                                                          *)

\* Whether a run is settled depends on these alone.
LEMMA SettledKept ==
    ASSUME UNCHANGED <<goals, evidence, relations, agenda>>
    PROVE  settled' = settled
<1>1. unresolved_contradictions' = unresolved_contradictions
  BY SameContradictions
<1>2. pending_agenda_tasks' = pending_agenda_tasks /\ all_goals_closed' = all_goals_closed
  BY DEF pending_agenda_tasks, all_goals_closed, Known
<1> QED
  BY <1>1, <1>2 DEF settled

\* An analysed verdict is given only with nothing left to do, and nothing is added after it.
LEMMA EndNext == CoreInv /\ EndInv /\ [Next]_vars => EndInv'
<1> SUFFICES ASSUME CoreInv, EndInv, [Next]_vars PROVE EndInv'
  OBVIOUS
<1>0. ControlInv
  BY DEF CoreInv
<1> USE DEF AnalysedToTheEnd
\* Most steps neither ask for new goals nor end the run as analysed.
<1>a. ASSUME node' # "expand_goals", stop_code' \notin AnalysedToTheEnd PROVE EndInv'
  BY <1>a DEF EndInv, SatisfiedIsHonest
<1>1. CASE PlanIntent
  <2>1. node' # "expand_goals"
    <3>1. intent' = None \/ intent'.mode \in Modes
      BY <1>1, AcceptedIntent
         DEF PlanIntent, Accept, Finish, Stall, PlannerUnavailable, CoreInv, Intents
    <3> QED
      BY <1>1, <3>1 DEF PlanIntent, RouteAfterMainPlan, Modes
  <2>2. stop_code = "none"
    BY <1>0, <1>1 DEF PlanIntent, ControlInv, Planning
  <2>3. stop_code' \notin AnalysedToTheEnd
    BY <1>1, <2>2
       DEF PlanIntent, Accept, Finish, Stall, PlannerUnavailable, Running, Terminal
  <2> QED
    BY <1>a, <2>1, <2>3
<1>2. CASE \/ DecomposeObjective \/ Execution \/ ReuseEvidence \/ NodeRaises
           \/ InspectData \/ LookupEvidence \/ MarkDataLimited
  <2>1. stop_code = "none"
    BY <1>0, <1>2
       DEF DecomposeObjective, Execution, ReuseEvidence, NodeRaises, InspectData, LookupEvidence,
           MarkDataLimited, ControlInv, Planning, Working
  <2>2. node' # "expand_goals" /\ stop_code' \notin AnalysedToTheEnd
    BY <1>2, <2>1
       DEF DecomposeObjective, Execution, Commit, Reject, ServiceUnavailable, ReuseEvidence,
           NodeRaises, InspectData, LookupEvidence, LookAtData, MarkDataLimited, Running, Terminal
  <2> QED
    BY <1>a, <2>2
<1>3. CASE AssessProgress
  <2>1. UNCHANGED <<goals, evidence, relations>>
    BY <1>3 DEF AssessProgress, knowledge
  <2>2. CASE node' = "expand_goals" \/ (status = "RUNNING" /\ stop_code' \in AnalysedToTheEnd)
    <3>1. /\ UNCHANGED agenda /\ pending_agenda_tasks = {} /\ Uncovered = {} /\ all_goals_closed
      BY <1>3, <2>2, Assessed
    <3>2. unresolved_contradictions = {}
      BY <3>1 DEF Uncovered
    <3>3. settled'
      BY SettledKept, <2>1, <3>1, <3>2 DEF settled
    <3>4. stop_code' # "GOAL_SATISFIED"
      <4>1. status = "RUNNING" => stop_code' # "GOAL_SATISFIED"
        BY <1>3, Assessed
      <4>2. node' = "expand_goals" => stop_code' = "none"
        BY <1>3, Assessed
      <4> QED
        BY <2>2, <4>1, <4>2
    <3> QED
      BY <3>3, <3>4 DEF EndInv, SatisfiedIsHonest
  <2>3. CASE node' # "expand_goals" /\ status = "RUNNING" /\ stop_code' \notin AnalysedToTheEnd
    BY <1>a, <2>3
  <2>4. CASE node' # "expand_goals" /\ status # "RUNNING"
    <3>1. stop_code' = stop_code /\ node = "assess_progress"
      BY <1>3, <2>4, Assessed
    <3> QED
      BY <1>0, <1>a, <2>4, <3>1 DEF ControlInv
  <2> QED
    BY <2>2, <2>3, <2>4
<1>4. CASE ExpandGoals
  <2>1. node = "expand_goals" /\ stop_code = "none" /\ status = "RUNNING" /\ settled
    BY <1>0, <1>4 DEF ExpandGoals, ControlInv, Planning, EndInv
  <2>2. node' # "expand_goals"
    BY <1>4 DEF ExpandGoals, RouteAfterExpandGoals
  <2>3. UNCHANGED <<evidence, relations, agenda>>
    BY <1>4 DEF ExpandGoals, knowledge
  <2>4. CASE NothingToAdd
    <3>1. UNCHANGED goals
      BY <2>4 DEF NothingToAdd
    <3>2. settled'
      BY SettledKept, <2>1, <2>3, <3>1
    <3>3. ASSUME stop_code' = "GOAL_SATISFIED"
          PROVE  /\ \A g \in Known : goals[g] = "converged"
                 /\ \A k \in DOMAIN agenda : agenda[k].status = "completed"
      <4>1. /\ \A g \in Goals : goals[g] # "abandoned"
            /\ \A k \in DOMAIN agenda : agenda[k].status # "data_limited"
        BY <2>4, <3>3 DEF NothingToAdd, Terminal
      <4>2. /\ \A g \in Goals : goals[g] # "open"
            /\ \A k \in DOMAIN agenda : agenda[k].status \notin {"pending", "in_progress"}
        BY <2>1 DEF settled, all_goals_closed, Open, pending_agenda_tasks
      <4>3. /\ \A g \in Goals : goals[g] \in GoalStatuses
            /\ \A k \in DOMAIN agenda : agenda[k].status \in TaskStatuses
        BY DEF CoreInv, TypeInv, TypeOK, TaskStates
      <4> QED
        BY <4>1, <4>2, <4>3 DEF Known, GoalStatuses, TaskStatuses
    <3>4. SatisfiedIsHonest'
      BY <2>3, <3>1, <3>3 DEF SatisfiedIsHonest, Known
    <3> QED
      BY <3>2, <3>4 DEF EndInv
  <2>5. CASE ExpansionUnverified \/ AddGoals
    BY <1>a, <2>1, <2>2, <2>5 DEF ExpansionUnverified, AddGoals, Terminal, Running
  <2> QED
    BY <1>4, <2>4, <2>5 DEF ExpandGoals
<1>5. CASE BudgetTimeout
  BY <1>5, <1>a DEF BudgetTimeout, Terminal
<1>6. CASE Finalize \/ Tick \/ UNCHANGED vars
  <2>1. /\ UNCHANGED <<goals, evidence, relations, agenda, stop_code>>
        /\ node' = "expand_goals" => node = "expand_goals"
    BY <1>6 DEF Finalize, Tick, vars, run, knowledge
  <2>2. settled' = settled
    BY SettledKept, <2>1
  <2>3. SatisfiedIsHonest' = SatisfiedIsHonest
    BY <2>1 DEF SatisfiedIsHonest, Known
  <2> QED
    BY <2>1, <2>2, <2>3 DEF EndInv
<1> QED
  BY <1>1, <1>2, <1>3, <1>4, <1>5, <1>6, StepCases

\* EndInv holds in every run.
LEMMA EndInvariance == Spec => []EndInv
<1>1. Init => EndInv
  BY DEF Init, EndInv, SatisfiedIsHonest, AnalysedToTheEnd
<1> QED
  BY <1>1, EndNext, CoreInvariance, PTL DEF Spec

\* A run says GOAL_SATISFIED (terminal_after_expansion) only with every goal
\* converged and every task completed, and nothing changes that afterwards.
THEOREM HonestVerdict == Spec => []SatisfiedIsHonest
<1>1. EndInv => SatisfiedIsHonest
  BY DEF EndInv
<1> QED
  BY <1>1, EndInvariance, PTL

\* A run that ends as analysed (assess_progress, expand_goals) has no task pending,
\* no contradiction unresolved and no goal open.
THEOREM NothingLeftOut == Spec => []FinishedMeansProcessed
<1>1. EndInv => FinishedMeansProcessed
  BY DEF EndInv, FinishedMeansProcessed
<1> QED
  BY <1>1, EndInvariance, PTL

\* The verdict of the graph is final but for the budget (assess_progress, finalize
\* and _drive).
THEOREM FirstVerdict == Spec => VerdictIsKept
<1>1. CoreInv /\ [Next]_vars =>
         (status # "RUNNING" => BudgetTimeout \/ UNCHANGED <<status, stop_code>>)
  <2> SUFFICES ASSUME CoreInv, [Next]_vars, status # "RUNNING"
               PROVE  BudgetTimeout \/ UNCHANGED <<status, stop_code>>
    OBVIOUS
  <2>1. node \notin Working \union Planning
    BY DEF CoreInv, ControlInv
  <2>2. CASE AssessProgress
    BY <2>2, Assessed
  <2> QED
    BY <2>1, <2>2, StepCases
       DEF DecomposeObjective, PlanIntent, Execution, ReuseEvidence, NodeRaises, InspectData,
           LookupEvidence, MarkDataLimited, ExpandGoals, Finalize, Tick, vars, run,
           Working, Planning
<1> QED
  BY <1>1, CoreInvariance, PTL DEF Spec, VerdictIsKept

-------------------------------------------------------------------------------
(* Supersteps.                                                                *)

\* An iteration is worth four supersteps and the stalls it makes possible again;
\* closing the last open goals is worth two.
PerIteration == 4 + 2 * (STUCK_THRESHOLD - 1)
IterationFuel == PerIteration * (MaxIterations - iteration)
StallFuel == 2 * (STUCK_THRESHOLD - stalls)
ExpansionFuel == 3 * (MAX_GOAL_EXPANSIONS - expansions)
OpenFuel == IF Open(goals) = {} THEN 0 ELSE 2
AtPlan == IterationFuel + StallFuel + ExpansionFuel + OpenFuel + 2

\* Fuel, node by node.
FuelByNode ==
    /\ node \in {"end", "raised"} => Fuel = 0
    /\ node = "finalize" => Fuel = 1
    /\ node = "assess_progress" => Fuel = IF status = "RUNNING" THEN AtPlan + 1 ELSE 2
    /\ node = "decompose_objective" => Fuel = AtPlan + 3
    /\ node \in {"plan_intent", "expand_goals"} => Fuel = AtPlan
    /\ node = "execution" => Fuel = AtPlan + 3
    /\ node \in Working \ {"execution"} => Fuel = AtPlan + 2

\* Fuel at each node, without the case distinction of its definition.
LEMMA FuelAtNode == CoreInv => FuelByNode
<1> SUFFICES ASSUME CoreInv PROVE FuelByNode
  OBVIOUS
<1>1. node \in Working \union Planning => status = "RUNNING"
  BY DEF CoreInv, ControlInv
<1>2. Fuel = CASE node \in {"end", "raised"} -> 0
               [] node = "finalize" -> 1
               [] node \notin {"end", "raised", "finalize"} /\ status # "RUNNING" -> 2
               [] node = "decompose_objective" -> AtPlan + 3
               [] node \in {"plan_intent", "expand_goals"} /\ status = "RUNNING" -> AtPlan
               [] node = "assess_progress" /\ status = "RUNNING" -> AtPlan + 1
               [] node = "execution" /\ status = "RUNNING" -> AtPlan + 3
               [] OTHER -> AtPlan + 2
  BY DEF Fuel, AtPlan, PerIteration, IterationFuel, StallFuel, ExpansionFuel, OpenFuel
<1> HIDE DEF AtPlan
<1> QED
  BY <1>1, <1>2 DEF FuelByNode, Working, Planning

\* The parts of AtPlan are natural numbers.
FuelTypes ==
    /\ IterationFuel \in Nat /\ StallFuel \in Nat /\ ExpansionFuel \in Nat /\ OpenFuel \in {0, 2}
    /\ stalls < STUCK_THRESHOLD => StallFuel >= 2

\* The parts Fuel is a sum of are natural numbers.
LEMMA FuelParts == CoreInv => FuelTypes
<1> SUFFICES ASSUME CoreInv PROVE FuelTypes
  OBVIOUS
<1>1. /\ iteration \in 0 .. MaxIterations /\ stalls \in 0 .. STUCK_THRESHOLD
      /\ expansions \in 0 .. MAX_GOAL_EXPANSIONS
  BY DEF CoreInv, TypeInv, TypeOK
<1>2. PerIteration \in Nat /\ MaxIterations - iteration \in Nat
  BY <1>1, BoundsAssumption DEF PerIteration
<1>3. \A c, d \in Nat : c * d \in Nat
  OBVIOUS
<1>4. IterationFuel \in Nat
  BY <1>2, <1>3 DEF IterationFuel
<1>5. ASSUME NEW b \in Nat, NEW i \in 0 .. b
      PROVE  2 * (b - i) \in Nat /\ 3 * (b - i) \in Nat /\ (i < b => 2 * (b - i) >= 2)
  OBVIOUS
<1>6. OpenFuel \in {0, 2}
  BY DEF OpenFuel
<1> QED
  BY <1>1, <1>4, <1>5, <1>6, BoundsAssumption DEF FuelTypes, StallFuel, ExpansionFuel

\* An iteration uses up what it was worth.
LEMMA IterationCost ==
    ASSUME CoreInv, iteration < MaxIterations, iteration' = iteration + 1
    PROVE  IterationFuel' + 2 * STUCK_THRESHOLD + 2 = IterationFuel
<1>1. iteration \in 0 .. MaxIterations
  BY DEF CoreInv, TypeInv, TypeOK
<1>2. \A c, d \in Nat : c * (d + 1) = c * d + c /\ c * d \in Nat
  OBVIOUS
<1>3. PerIteration \in Nat /\ PerIteration = 2 * STUCK_THRESHOLD + 2
  BY BoundsAssumption DEF PerIteration
<1>4. MaxIterations - iteration' \in Nat /\ MaxIterations - iteration = (MaxIterations - iteration') + 1
  BY <1>1, BoundsAssumption
<1>5. IterationFuel' = PerIteration * (MaxIterations - iteration')
  BY DEF IterationFuel, PerIteration
<1>6. IterationFuel = IterationFuel' + PerIteration /\ IterationFuel' \in Nat
  BY <1>2, <1>3, <1>4, <1>5 DEF IterationFuel
<1> QED
  BY <1>3, <1>6, BoundsAssumption

\* What a step from a node at which AtPlan is left may leave.
LEMMA FuelUsed ==
    ASSUME CoreInv, CoreInv', NEW left, left = AtPlan'
    PROVE  /\ left \in Nat /\ AtPlan \in Nat /\ AtPlan >= 2
           /\ stalls < STUCK_THRESHOLD => AtPlan >= 4
           /\ UNCHANGED <<iteration, stalls, expansions>> =>
                 /\ left <= AtPlan + 2
                 /\ UNCHANGED goals => left = AtPlan
                 /\ Open(goals) # {} /\ Open(goals') = {} => left + 2 = AtPlan
           /\ /\ UNCHANGED <<iteration, expansions>> /\ stalls' = stalls + 1
              /\ Open(goals') \subseteq Open(goals)
              => left + 2 <= AtPlan
           /\ /\ iteration < MaxIterations /\ iteration' = iteration + 1
              /\ stalls < STUCK_THRESHOLD /\ stalls' = 0
              /\ UNCHANGED expansions /\ Open(goals') \subseteq Open(goals)
              => left + 4 <= AtPlan
           /\ UNCHANGED <<iteration, stalls>> /\ expansions' = expansions + 1 => left + 1 <= AtPlan
<1>1. /\ IterationFuel \in Nat /\ StallFuel \in Nat /\ ExpansionFuel \in Nat /\ OpenFuel \in {0, 2}
      /\ stalls < STUCK_THRESHOLD => StallFuel >= 2
  BY FuelParts DEF FuelTypes
<1>2. FuelTypes'
  BY FuelParts, PTL
<1>3. PICK i \in Nat, s \in Nat, x \in Nat, o \in {0, 2} :
         i = IterationFuel' /\ s = StallFuel' /\ x = ExpansionFuel' /\ o = OpenFuel'
  BY <1>2 DEF FuelTypes
<1>4. AtPlan = IterationFuel + StallFuel + ExpansionFuel + OpenFuel + 2 /\ left = i + s + x + o + 2
  BY <1>3 DEF AtPlan
<1>5. /\ stalls \in 0 .. STUCK_THRESHOLD /\ expansions \in 0 .. MAX_GOAL_EXPANSIONS
      /\ STUCK_THRESHOLD \in Nat /\ MAX_GOAL_EXPANSIONS \in Nat
  BY BoundsAssumption DEF CoreInv, TypeInv, TypeOK
<1>6. /\ UNCHANGED iteration => i = IterationFuel
      /\ iteration < MaxIterations /\ iteration' = iteration + 1 =>
            i + 2 * STUCK_THRESHOLD + 2 = IterationFuel
  <2>1. UNCHANGED iteration => IterationFuel' = IterationFuel
    BY DEF IterationFuel, PerIteration
  <2> QED
    BY <1>3, <2>1, IterationCost
<1>7. /\ UNCHANGED stalls => s = StallFuel
      /\ stalls' = 0 => s = 2 * STUCK_THRESHOLD
      /\ stalls' = stalls + 1 => s + 2 = StallFuel
  BY <1>3, <1>5 DEF StallFuel
<1>8. /\ UNCHANGED expansions => x = ExpansionFuel
      /\ expansions' = expansions + 1 => x + 3 = ExpansionFuel
  BY <1>3, <1>5 DEF ExpansionFuel
<1>9. /\ UNCHANGED goals => o = OpenFuel
      /\ Open(goals') \subseteq Open(goals) => o <= OpenFuel
      /\ Open(goals) # {} /\ Open(goals') = {} => OpenFuel = 2 /\ o = 0
  BY <1>3 DEF OpenFuel, Open
<1>10. left \in Nat /\ AtPlan \in Nat /\ AtPlan >= 2 /\ (stalls < STUCK_THRESHOLD => AtPlan >= 4)
  BY <1>1, <1>4
<1>11. ASSUME UNCHANGED <<iteration, stalls, expansions>>
       PROVE  /\ left <= AtPlan + 2
              /\ UNCHANGED goals => left = AtPlan
              /\ Open(goals) # {} /\ Open(goals') = {} => left + 2 = AtPlan
  <2>1. i = IterationFuel /\ s = StallFuel /\ x = ExpansionFuel
    BY <1>11, <1>6, <1>7, <1>8
  <2> QED
    BY <1>1, <1>4, <1>9, <2>1
<1>12. ASSUME UNCHANGED <<iteration, expansions>>, stalls' = stalls + 1, Open(goals') \subseteq Open(goals)
       PROVE  left + 2 <= AtPlan
  <2>1. i = IterationFuel /\ s + 2 = StallFuel /\ x = ExpansionFuel /\ o <= OpenFuel
    BY <1>12, <1>6, <1>7, <1>8, <1>9
  <2> QED
    BY <1>1, <1>4, <2>1
<1>13. ASSUME iteration < MaxIterations, iteration' = iteration + 1, stalls < STUCK_THRESHOLD, stalls' = 0,
              UNCHANGED expansions, Open(goals') \subseteq Open(goals)
       PROVE  left + 4 <= AtPlan
  <2>1. /\ i + 2 * STUCK_THRESHOLD + 2 = IterationFuel /\ s = 2 * STUCK_THRESHOLD /\ x = ExpansionFuel
        /\ o <= OpenFuel /\ StallFuel >= 2
    BY <1>1, <1>13, <1>6, <1>7, <1>8, <1>9
  <2> QED
    BY <1>1, <1>4, <1>5, <2>1
<1>14. ASSUME UNCHANGED <<iteration, stalls>>, expansions' = expansions + 1
       PROVE  left + 1 <= AtPlan
  <2>1. i = IterationFuel /\ s = StallFuel /\ x + 3 = ExpansionFuel
    BY <1>14, <1>6, <1>7, <1>8
  <2> QED
    BY <1>1, <1>4, <2>1
<1> QED
  BY <1>10, <1>11, <1>12, <1>13, <1>14

\* Every move to another node takes its supersteps from Fuel.
LEMMA FuelNext == CoreInv /\ CoreInv' /\ [Next]_vars => (node' # node => Fuel' + Supersteps <= Fuel)
<1> SUFFICES ASSUME CoreInv, CoreInv', [Next]_vars, node' # node PROVE Fuel' + Supersteps <= Fuel
  OBVIOUS
<1>0. TypeInv /\ ControlInv /\ node' \in Nodes
  BY DEF CoreInv, TypeInv, TypeOK
<1>1. FuelByNode
  BY FuelAtNode
<1>a. FuelByNode'
  BY FuelAtNode, PTL
<1>b. PICK left \in Nat : left = AtPlan'
  BY FuelUsed
<1>c. PICK rest \in Nat : rest = Fuel'
  <2>1. Fuel' \in {0, 1, 2, left, left + 1, left + 2, left + 3}
    BY <1>0, <1>a, <1>b DEF FuelByNode, Nodes, Working
  <2> QED
    BY <2>1
<1> SUFFICES rest + Supersteps <= Fuel
  BY <1>c
<1>2. /\ node' \in {"end", "raised"} => rest = 0
      /\ node' = "finalize" => rest = 1
      /\ node' = "assess_progress" => rest = IF status' = "RUNNING" THEN left + 1 ELSE 2
      /\ node' \in {"plan_intent", "expand_goals"} => rest = left
      /\ node' \in Working => rest = left + 2 \/ rest = left + 3
  BY <1>a, <1>b, <1>c DEF FuelByNode
<1>3. left \in Nat /\ AtPlan \in Nat /\ AtPlan >= 2 /\ (stalls < STUCK_THRESHOLD => AtPlan >= 4)
  BY <1>b, FuelUsed
<1>4. ASSUME ApplyGoalVerdict PROVE Open(goals') \subseteq Open(goals)
  BY <1>0, <1>4, VerdictOnGoals DEF Open
<1>5. CASE DecomposeObjective
  <2>1. /\ node = "decompose_objective" /\ node' = "plan_intent"
        /\ UNCHANGED <<iteration, stalls, expansions>>
    BY <1>5 DEF DecomposeObjective
  <2>2. Fuel = AtPlan + 3 /\ rest = left /\ Supersteps = 1
    BY <1>1, <1>2, <2>1 DEF FuelByNode, Supersteps
  <2>3. left <= AtPlan + 2
    BY <2>1, <1>b, FuelUsed
  <2> QED
    BY <1>3, <2>2, <2>3
<1>6. CASE PlanIntent
  <2>1. /\ node = "plan_intent" /\ node' = RouteAfterMainPlan' /\ UNCHANGED expansions
        /\ status = "RUNNING" /\ stalls < STUCK_THRESHOLD /\ iteration < MaxIterations
    BY <1>0, <1>6 DEF PlanIntent, ControlInv, Planning
  <2>2. Fuel = AtPlan /\ Supersteps = 1
    BY <1>1, <2>1 DEF FuelByNode, Supersteps
  <2>3. CASE ApplyGoalVerdict /\ Accept
    <3>1. node' \in Working
      <4>1. status' = "RUNNING" /\ intent' # None /\ intent'.mode \in Modes
        BY <1>0, <2>1, <2>3, AcceptedIntent DEF Accept, Running, Intents
      <4> QED
        BY <2>1, <4>1 DEF RouteAfterMainPlan, Modes, Working
    <3>2. left + 4 <= AtPlan
      BY <1>4, <2>1, <2>3, <1>b, FuelUsed DEF Accept
    <3>3. rest = left + 2 \/ rest = left + 3
      BY <1>2, <3>1
    <3> QED
      BY <1>3, <2>2, <3>2, <3>3
  <2>4. CASE ApplyGoalVerdict /\ (Finish \/ Stall)
    <3>1. node' = "assess_progress" /\ iteration' = iteration
      BY <2>1, <2>4 DEF Finish, Stall, RouteAfterMainPlan
    <3>2. rest = left + 1 \/ rest = 2
      BY <1>2, <3>1
    <3>3. left + 2 <= AtPlan
      <4>1. CASE Finish
        <5>1. left + 2 = AtPlan
          BY <2>1, <4>1, <1>b, FuelUsed DEF Finish
        <5> QED
          BY <1>3, <5>1
      <4>2. CASE Stall
        BY <1>4, <2>1, <2>4, <4>2, <1>b, FuelUsed DEF Stall
      <4> QED
        BY <2>4, <4>1, <4>2
    <3> QED
      BY <1>3, <2>1, <2>2, <3>2, <3>3
  <2>5. CASE PlannerUnavailable
    <3>1. node' = "assess_progress" /\ status' # "RUNNING"
      BY <2>1, <2>5 DEF PlannerUnavailable, Terminal, RouteAfterMainPlan
    <3>2. rest = 2
      BY <1>2, <3>1
    <3> QED
      BY <1>3, <2>1, <2>2, <3>2
  <2> QED
    BY <1>6, <2>3, <2>4, <2>5 DEF PlanIntent
<1>7. CASE Execution
  <2>1. /\ node = "execution" /\ node' = "assess_progress"
        /\ UNCHANGED <<iteration, stalls, expansions, goals>>
    BY <1>7 DEF Execution
  <2>2. Fuel = AtPlan + 3 /\ (rest = left + 1 \/ rest = 2) /\ Supersteps = 2
    BY <1>1, <1>2, <2>1 DEF FuelByNode, Supersteps
  <2>3. left = AtPlan
    BY <2>1, <1>b, FuelUsed
  <2> QED
    BY <1>3, <2>2, <2>3
<1>8. CASE ReuseEvidence \/ (InspectData \/ LookupEvidence) \/ MarkDataLimited
  <2>1. /\ node \in Working \ {"execution"} /\ node' = "assess_progress"
        /\ UNCHANGED <<iteration, stalls, expansions, goals>>
    BY <1>8 DEF ReuseEvidence, InspectData, LookupEvidence, LookAtData, MarkDataLimited, Working
  <2>2. Fuel = AtPlan + 2 /\ (rest = left + 1 \/ rest = 2) /\ Supersteps = 1
    BY <1>1, <1>2, <2>1 DEF FuelByNode, Supersteps, Working
  <2>3. left = AtPlan
    BY <2>1, <1>b, FuelUsed
  <2> QED
    BY <1>3, <2>2, <2>3
<1>9. CASE AssessProgress
  <2>1. /\ node = "assess_progress" /\ UNCHANGED <<iteration, stalls, expansions, goals>>
        /\ node' \in {"finalize", "plan_intent", "expand_goals"}
        /\ status # "RUNNING" => node' = "finalize"
    BY <1>9, Assessed DEF AssessProgress
  <2>2. /\ Fuel = IF status = "RUNNING" THEN AtPlan + 1 ELSE 2
        /\ rest = IF node' = "finalize" THEN 1 ELSE left
        /\ Supersteps = 1
    BY <1>1, <1>2, <2>1 DEF FuelByNode, Supersteps
  <2>3. left = AtPlan
    BY <2>1, <1>b, FuelUsed
  <2> QED
    BY <1>3, <2>1, <2>2, <2>3
<1>10. CASE ExpandGoals
  <2>1. /\ node = "expand_goals" /\ node' = RouteAfterExpandGoals' /\ UNCHANGED <<iteration, stalls>>
    BY <1>10 DEF ExpandGoals
  <2>2. Fuel = AtPlan /\ Supersteps = 1
    BY <1>1, <2>1 DEF FuelByNode, Supersteps
  <2>3. CASE node' = "finalize"
    BY <1>2, <1>3, <2>2, <2>3
  <2>4. CASE node' # "finalize"
    <3>1. node' = "plan_intent" /\ status' = "RUNNING"
      BY <2>1, <2>4 DEF RouteAfterExpandGoals
    <3>2. AddGoals
      BY <1>10, <3>1 DEF ExpandGoals, NothingToAdd, ExpansionUnverified, Terminal
    <3>3. left + 1 <= AtPlan
      BY <2>1, <3>2, <1>b, FuelUsed DEF AddGoals
    <3>4. rest = left
      BY <1>2, <3>1
    <3> QED
      BY <1>3, <2>2, <3>3, <3>4
  <2> QED
    BY <2>3, <2>4
<1>11. CASE Finalize
  <2>1. node = "finalize" /\ node' = "end"
    BY <1>11 DEF Finalize
  <2> QED
    BY <1>1, <1>2, <2>1 DEF FuelByNode, Supersteps
<1>12. CASE NodeRaises \/ BudgetTimeout
  <2>1. node \in Nodes \ {"end", "raised"} /\ node' \in {"end", "raised"}
    BY <1>0, <1>12 DEF NodeRaises, BudgetTimeout, TypeInv, TypeOK, Nodes
  <2>2. rest = 0
    BY <1>2, <2>1
  <2>3. Fuel \in {1, 2, AtPlan, AtPlan + 1, AtPlan + 2, AtPlan + 3} /\ (node = "execution" => Fuel = AtPlan + 3)
    BY <1>1, <2>1 DEF FuelByNode, Working, Nodes
  <2> QED
    BY <1>3, <2>2, <2>3 DEF Supersteps
<1>13. CASE Tick \/ UNCHANGED vars
  BY <1>13 DEF Tick, vars, run
<1> QED
  BY <1>5, <1>6, <1>7, <1>8, <1>9, <1>10, <1>11, <1>12, <1>13, StepCases

\* Every superstep of the graph uses up Fuel, so a run takes no more of them than it
\* starts with: the recursion limit of the graph (graph.py, RECURSION_LIMIT) is never
\* what ends a run, as long as it is above that.
THEOREM BoundedSteps == Spec => StepsAreBounded
<1> QED
  BY FuelNext, CoreInvariance, PTL DEF Spec, StepsAreBounded
-------------------------------------------------------------------------------
(* Refinement.                                                                *)

\* Every step of the graph is a step of the inquiry, or none that shows there.
LEMMA InquiryNext ==
    CoreInv /\ CoreInv' /\ EndInv /\ EndInv' /\ [Next]_vars => [InquiryOf!Next]_(InquiryOf!vars)
<1> SUFFICES ASSUME CoreInv, CoreInv', EndInv, EndInv', [Next]_vars
             PROVE  [InquiryOf!Next]_(InquiryOf!vars)
  OBVIOUS
<1>0. /\ ControlInv /\ ControlInv' /\ IdInv /\ IdInv'
      /\ stop_code \in AnalysedToTheEnd => settled
      /\ stop_code' \in AnalysedToTheEnd => settled'
  BY DEF CoreInv, EndInv
<1>1. settled \in BOOLEAN /\ settled' \in BOOLEAN
  BY DEF settled, all_goals_closed
<1> DEFINE Idle == node # "execution" /\ node' # "execution" /\ UNCHANGED DOMAIN evidence
\* Without an attempt at work the run plans, or decides.
<1>2. ASSUME Idle, stop_code = "none", stop_code' = "none", node # "end", node' # "end"
      PROVE  InquiryOf!Plan
  BY <1>1, <1>2 DEF InquiryOf!Plan
<1>3. ASSUME Idle, stop_code = "none", stop_code' # "none", node # "end", node' # "end",
             stop_code' \in AnalysedToTheEnd => settled
      PROVE  InquiryOf!Decide
  BY <1>0, <1>1, <1>3 DEF InquiryOf!Decide
<1>4. ASSUME Idle, UNCHANGED <<goals, evidence, relations, agenda, stop_code>>, (node' = "end") = (node = "end")
      PROVE  UNCHANGED InquiryOf!vars
  <2>1. settled' = settled
    BY <1>4, SettledKept
  <2> QED
    BY <1>4, <2>1 DEF InquiryOf!vars
<1>5. CASE DecomposeObjective
  <2>1. /\ Idle /\ node # "end" /\ node' # "end" /\ stop_code = "none" /\ stop_code' = "none"
    BY <1>0, <1>5 DEF DecomposeObjective, knowledge, ControlInv, Planning
  <2> QED
    BY <1>2, <2>1 DEF InquiryOf!Next
<1>6. CASE PlanIntent
  <2>1. /\ node = "plan_intent" /\ status = "RUNNING" /\ stop_code = "none" /\ UNCHANGED evidence
        /\ node' = RouteAfterMainPlan'
    BY <1>0, <1>6 DEF PlanIntent, knowledge, ControlInv, Planning
  <2>2. node' # "end"
    <3>1. intent' = None \/ intent'.mode \in Modes
      BY <1>6, AcceptedIntent
         DEF PlanIntent, Accept, Finish, Stall, PlannerUnavailable, CoreInv, Intents
    <3> QED
      BY <2>1, <3>1 DEF RouteAfterMainPlan, Modes
  <2>3. CASE node' = "execution"
    <3>1. stop_code' = "none"
      BY <1>0, <2>3 DEF ControlInv, Working
    <3>2. iteration' \in Nat \ {0} /\ \A e \in DOMAIN evidence' : e < iteration'
      BY <1>0, <2>3 DEF CoreInv, TypeInv, TypeOK, ControlInv, IdInv, Working
    <3>3. InquiryOf!Begin
      BY <1>1, <2>1, <2>2, <2>3, <3>1, <3>2 DEF InquiryOf!Begin
    <3> QED
      BY <3>3 DEF InquiryOf!Next
  <2>4. CASE node' # "execution" /\ stop_code' = "none"
    BY <1>2, <2>1, <2>2, <2>4 DEF InquiryOf!Next
  <2>5. CASE node' # "execution" /\ stop_code' # "none"
    <3>1. stop_code' \notin AnalysedToTheEnd
      BY <1>6, <2>1, <2>5
         DEF PlanIntent, Accept, Finish, Stall, PlannerUnavailable, Terminal, Running, AnalysedToTheEnd
    <3> QED
      BY <1>3, <2>1, <2>2, <2>5, <3>1 DEF InquiryOf!Next
  <2> QED
    BY <2>3, <2>4, <2>5
<1>7. CASE Execution
  <2>1. /\ node = "execution" /\ node' = "assess_progress" /\ stop_code = "none"
        /\ iteration \in Nat \ {0} /\ UNCHANGED goals
    BY <1>0, <1>7 DEF Execution, ControlInv, Working, CoreInv, TypeInv, TypeOK
  <2>2. CASE Commit
    <3>1. DOMAIN evidence' = DOMAIN evidence \union {iteration} /\ UNCHANGED stop_code
      BY <2>2 DEF Commit, NewEvidence, Running
    <3> QED
      BY <1>1, <2>1, <3>1 DEF InquiryOf!Next, InquiryOf!Commit
  <2>3. CASE Reject
    <3>1. UNCHANGED <<evidence, stop_code>>
      BY <2>3 DEF Reject, Running
    <3> QED
      BY <1>1, <2>1, <3>1 DEF InquiryOf!Next, InquiryOf!Reject
  <2>4. CASE ServiceUnavailable
    <3>1. UNCHANGED <<evidence, relations, agenda>> /\ stop_code' = "SERVICE_UNAVAILABLE"
      BY <2>4 DEF ServiceUnavailable, knowledge, Terminal
    <3>2. settled' = settled
      BY <2>1, <3>1, SettledKept
    <3> QED
      BY <2>1, <3>1, <3>2 DEF InquiryOf!Next, InquiryOf!Stop, AnalysedToTheEnd
  <2> QED
    BY <1>7, <2>2, <2>3, <2>4 DEF Execution
<1>8. CASE ReuseEvidence \/ NodeRaises \/ (InspectData \/ LookupEvidence) \/ MarkDataLimited
  <2>1. Idle /\ node # "end" /\ node' # "end" /\ stop_code = "none" /\ stop_code' = "none"
    BY <1>0, <1>8
       DEF ReuseEvidence, NodeRaises, InspectData, LookupEvidence, LookAtData, MarkDataLimited,
           knowledge, ControlInv, Working
  <2> QED
    BY <1>2, <2>1 DEF InquiryOf!Next
<1>9. CASE AssessProgress
  <2>1. /\ Idle /\ node # "end" /\ node' # "end" /\ UNCHANGED <<goals, evidence, relations>>
    BY <1>9, Assessed DEF AssessProgress, knowledge
  <2>2. CASE status # "RUNNING"
    <3>1. UNCHANGED <<stop_code, agenda>>
      BY <1>9, <2>2, Assessed
    <3> QED
      BY <1>4, <2>1, <3>1
  <2>3. CASE status = "RUNNING"
    <3>1. stop_code = "none"
      BY <1>0, <2>3 DEF ControlInv
    <3>2. CASE stop_code' = "none"
      BY <1>2, <2>1, <3>1, <3>2 DEF InquiryOf!Next
    <3>3. CASE stop_code' # "none"
      <4>1. stop_code' \in AnalysedToTheEnd => UNCHANGED agenda
        BY <1>9, <2>3, Assessed
      <4>2. stop_code' \in AnalysedToTheEnd => settled
        BY <1>0, <2>1, <4>1, SettledKept
      <4> QED
        BY <1>3, <2>1, <3>1, <3>3, <4>2 DEF InquiryOf!Next
    <3> QED
      BY <3>2, <3>3
  <2> QED
    BY <2>2, <2>3
<1>10. CASE ExpandGoals
  <2>1. Idle /\ node # "end" /\ node' # "end" /\ stop_code = "none" /\ settled
    BY <1>0, <1>10
       DEF ExpandGoals, RouteAfterExpandGoals, knowledge, ControlInv, Planning, EndInv
  <2> QED
    BY <1>2, <1>3, <2>1 DEF InquiryOf!Next
<1>11. CASE Finalize
  <2>1. /\ node = "finalize" /\ node' = "end" /\ stop_code # "none"
        /\ UNCHANGED <<goals, evidence, relations, agenda, stop_code>>
    BY <1>0, <1>11 DEF Finalize, knowledge, ControlInv
  <2>2. settled' = settled
    BY <2>1, SettledKept
  <2> QED
    BY <2>1, <2>2 DEF InquiryOf!Next, InquiryOf!End
<1>12. CASE BudgetTimeout
  <2>1. /\ node # "end" /\ node' = "end" /\ stop_code' = "BUDGET_EXHAUSTED"
        /\ UNCHANGED <<goals, evidence, relations, agenda>>
    BY <1>12 DEF BudgetTimeout, knowledge, Terminal
  <2>2. settled' = settled
    BY <2>1, SettledKept
  <2> QED
    BY <2>1, <2>2 DEF InquiryOf!Next, InquiryOf!OutOfBudget
<1>13. CASE Tick \/ UNCHANGED vars
  <2>1. UNCHANGED <<node, iteration, goals, evidence, relations, agenda, stop_code>>
    BY <1>13 DEF Tick, vars, run, knowledge
  <2>2. settled' = settled
    BY <2>1, SettledKept
  <2> QED
    BY <2>1, <2>2 DEF InquiryOf!vars
<1> QED
  BY <1>5, <1>6, <1>7, <1>8, <1>9, <1>10, <1>11, <1>12, <1>13, StepCases

\* The main graph implements Inquiry: attempts one at a time under ids of their own, one
\* verdict that is true of what is open, and nothing learnt or lost after it (graph.py,
\* routes.py, and _drive for the budget).
THEOREM Implementation == Spec => ImplementsInquiry
<1>1. Init => InquiryOf!Init
  BY DEF Init, InquiryOf!Init, settled, all_goals_closed
<1> QED
  BY <1>1, InquiryNext, CoreInvariance, EndInvariance, PTL
     DEF Spec, ImplementsInquiry, InquiryOf!Spec
=============================================================================
