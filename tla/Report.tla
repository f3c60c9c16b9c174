-------------------------------- MODULE Report --------------------------------
(***************************************************************************)
(* The report of a run (orchestration/nodes/reporting.py and               *)
(* report_validation.py): finalize reads the results again, has the Critic *)
(* write a Markdown report, validates it, has it reviewed, and falls back  *)
(* to a JSON summary as soon as one of these fails.  Around it, the time   *)
(* budget of service._drive may cancel finalize at an await and run it     *)
(* once more from outside.                                                 *)
(*                                                                         *)
(* What the run knows is fixed when finalize begins and is any state that  *)
(* AnalysisLoop's relations allow.  A report is reduced to what the        *)
(* validator reads in it: the Evidence it cites, the figures it gives by   *)
(* the Evidence they come from, the marks it carries, and what its section *)
(* on limits cites.  Files of the artifact store may be lost or altered at *)
(* any time; a reader cannot tell which, and finds neither usable.         *)
(***************************************************************************)
EXTENDS Naturals, FiniteSets

CONSTANTS
    Ids,        \* Evidence ids, those of the run and those a text may invent
    Unfinished, \* goals that may not have converged, tasks that may be pending
    None        \* no report yet; also the origin of a figure that has none

ASSUME NamesAssumption == None \notin Ids

VARIABLES
    pc,           \* where finalize is
    stop,         \* stop_code, and service_failure when the Critic stopped the run
    critic,       \* deps.critic is there
    evidence, superseded, contradicts, unfinished,   \* what the run knows
    intact,       \* results whose file still has the hash of its reference
    results,      \* original_results, as read by this finalize
    draft, report

knowledge == <<evidence, superseded, contradicts, unfinished>>
vars == <<pc, stop, critic, knowledge, intact, results, draft, report>>

StopCodes == {"GOAL_SATISFIED", "BUDGET_EXHAUSTED", "SERVICE_UNAVAILABLE"}
Stops == [code: StopCodes, by_critic: BOOLEAN]
Pairs == {pair \in SUBSET Ids : Cardinality(pair) = 2}

\* cited: in the whole text; limits: in the section on limits; figures: the numbers
\* of the conclusions; marks: goals and tasks named in the section on limits; stop:
\* the end marker; complete: every section is there, every conclusion cites.
Drafts ==
    {d \in [cited: SUBSET Ids, limits: SUBSET Ids, figures: SUBSET (Ids \union {None}),
            marks: SUBSET Unfinished, stop: StopCodes, complete: BOOLEAN] :
        d.limits \subseteq d.cited}

Json == [markdown |-> FALSE]
Markdown(d, ids) == [markdown |-> TRUE, text |-> d, reviewed |-> ids]

TypeOK ==
    /\ pc \in {"finalize", "generate_report", "review_report", "done"}
    /\ stop \in Stops /\ critic \in BOOLEAN
    /\ evidence \subseteq Ids /\ superseded \subseteq evidence
    /\ contradicts \subseteq Pairs /\ UNION contradicts \subseteq evidence
    /\ unfinished \subseteq Unfinished
    /\ intact \subseteq Ids /\ results \subseteq evidence
    /\ draft \in Drafts \union {None}
    /\ report = None \/ report = Json \/ \E d \in Drafts : report = Markdown(d, d.cited)

-------------------------------------------------------------------------------
reportable_evidence == evidence \ superseded

\* Mutated: a contradiction stays unresolved when a side of it is superseded.
unresolved_with_superseded == contradicts

unresolved_contradictions == {pair \in contradicts : pair \intersect superseded = {}}

\* validate_report.  A conclusion without Evidence to cite is an error, a figure
\* counts only if an original that was read has it.
validate_report(d) ==
    /\ d.complete
    /\ reportable_evidence # {} => d.cited # {}
    /\ d.cited \subseteq reportable_evidence
    /\ d.figures \subseteq d.cited \intersect results
    /\ d.stop = stop.code
    /\ unfinished \subseteq d.marks
    /\ UNION unresolved_contradictions \subseteq d.limits

can_generate_report ==
    /\ critic
    /\ stop.code # "BUDGET_EXHAUSTED"
    /\ ~(stop.code = "SERVICE_UNAVAILABLE" /\ stop.by_critic)

-------------------------------------------------------------------------------
Init ==
    /\ pc = "finalize"
    /\ stop \in {s \in Stops : s.by_critic => s.code = "SERVICE_UNAVAILABLE"}
    /\ critic \in BOOLEAN
    /\ evidence \in SUBSET Ids /\ superseded \in SUBSET evidence
    /\ contradicts \in SUBSET {pair \in Pairs : pair \subseteq evidence}
    /\ unfinished \in SUBSET Unfinished
    /\ intact \in SUBSET evidence
    /\ results = {} /\ draft = None /\ report = None

Write(text) == report' = text /\ draft' = None /\ pc' = "done"

\* Mutated: an original that cannot be read raises.
FinalizeRaises ==
    /\ pc = "finalize"
    /\ reportable_evidence \subseteq intact
    /\ results' = reportable_evidence
    /\ IF can_generate_report
       THEN pc' = "generate_report" /\ UNCHANGED <<draft, report>>
       ELSE Write(Json)
    /\ UNCHANGED <<stop, critic, knowledge, intact>>

\* The originals of what may be cited; one that cannot be read is left out.
Finalize ==
    /\ pc = "finalize"
    /\ results' = reportable_evidence \intersect intact
    /\ IF can_generate_report
       THEN pc' = "generate_report" /\ UNCHANGED <<draft, report>>
       ELSE Write(Json)
    /\ UNCHANGED <<stop, critic, knowledge, intact>>

\* No answer, an empty one, or one the validator turns down.
GenerateReport ==
    /\ pc = "generate_report"
    /\ \/ Write(Json)
       \/ \E d \in Drafts :
             /\ validate_report(d)
             /\ draft' = d /\ pc' = "review_report" /\ UNCHANGED report
    /\ UNCHANGED <<stop, critic, knowledge, intact, results>>

\* Mutated: the reviewer is shown what there is.
ReviewMissingOriginals ==
    /\ pc = "review_report"
    /\ \/ Write(Json)
       \/ \E reviewed \in SUBSET Ids :
             reviewed = draft.cited /\ Write(Markdown(draft, reviewed))
    /\ UNCHANGED <<stop, critic, knowledge, intact, results>>

\* The reviewer accepts with a review of exactly what is cited; a failure, a late
\* or malformed answer, a rejection or an original that is missing end in JSON.
ReviewReport ==
    /\ pc = "review_report"
    /\ \/ Write(Json)
       \/ /\ draft.cited \subseteq results
          /\ \E reviewed \in SUBSET Ids :
                reviewed = draft.cited /\ Write(Markdown(draft, reviewed))
    /\ UNCHANGED <<stop, critic, knowledge, intact, results>>

LoseFile ==
    /\ pc # "done"
    /\ \E e \in intact : intact' = intact \ {e}
    /\ UNCHANGED <<pc, stop, critic, knowledge, results, draft, report>>

\* Mutated: the run ends as stopped, but the call that writes the report goes on.
BudgetTimeoutKeepsDraft ==
    /\ pc \in {"generate_report", "review_report"} /\ stop.code # "BUDGET_EXHAUSTED"
    /\ stop' = [code |-> "BUDGET_EXHAUSTED", by_critic |-> stop.by_critic]
    /\ UNCHANGED <<pc, critic, knowledge, intact, results, draft, report>>

\* The budget expires while the Critic is at work: _finish_stopped_run calls
\* finalize again, with the budget as the stop code and without a timeout.
BudgetTimeout ==
    /\ pc \in {"generate_report", "review_report"}
    /\ stop' = [code |-> "BUDGET_EXHAUSTED", by_critic |-> stop.by_critic]
    /\ draft' = None /\ pc' = "finalize"
    /\ UNCHANGED <<critic, knowledge, intact, results, report>>

Done == pc = "done" /\ UNCHANGED vars

Step == Finalize \/ GenerateReport \/ ReviewReport

Next == Step \/ LoseFile \/ BudgetTimeout \/ Done

Spec == Init /\ [][Next]_vars

\* Each call of the Critic has a timeout, and the graph runner goes on after it.
FairSpec == Spec /\ WF_vars(Step)

-------------------------------------------------------------------------------
\* A Markdown report is about the run as it was checkpointed with it: it names the
\* verdict the run has in the end, also when the budget replaced that while the
\* report was under way, and hides nothing that is unfinished or contradicted.
ReportTellsTheVerdict ==
    pc = "done" /\ report.markdown =>
       /\ report.text.stop = stop.code
       /\ unfinished \subseteq report.text.marks
       /\ \A pair \in unresolved_contradictions : pair \subseteq report.text.limits

\* What a Markdown report says rests on originals somebody has seen: everything it
\* cites was current, was read intact by this very finalize and was reviewed.
ReportRestsOnOriginals ==
    pc = "done" /\ report.markdown =>
       /\ report.text.cited \subseteq reportable_evidence \intersect results
       /\ report.text.figures \subseteq report.text.cited
       /\ report.reviewed = report.text.cited

\* The demands on a report never exclude each other: as long as the Critic may be
\* asked, something current can be read, and so can the current sides of every
\* contradiction, there is a text that gives figures and passes both checks.
AReportIsPossible ==
    /\ pc = "generate_report"
    /\ reportable_evidence \intersect results # {}
    /\ (UNION contradicts) \ superseded \subseteq results
    => \E d \in Drafts : validate_report(d) /\ d.cited \subseteq results /\ d.figures # {}

\* A run gets a report, whatever the Critic answers and whichever files are gone.
AReportIsWritten == <>(pc = "done" /\ report # None)
=============================================================================
