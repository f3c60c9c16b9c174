----------------------------- MODULE Report_proofs -----------------------------
(***************************************************************************)
(* Proofs about Report: for any Evidence, goals and tasks, and any number  *)
(* of lost files and interruptions by the budget, a Markdown report tells  *)
(* the verdict of the run and rests on originals that were read, and the   *)
(* demands on a report can always be met.                                  *)
(***************************************************************************)
EXTENDS Report, TLAPS

\* The draft under review has passed the validator, in the state it is reviewed in.
DraftInv ==
    pc = "review_report" => draft \in Drafts /\ validate_report(draft)

\* A report is written in one step with the end of finalize, and what a Markdown
\* report was validated against does not change any more.
ReportInv ==
    pc = "done" /\ report.markdown =>
       /\ validate_report(report.text)
       /\ report.text.cited \subseteq results
       /\ report.reviewed = report.text.cited

IInv == TypeOK /\ DraftInv /\ ReportInv

-------------------------------------------------------------------------------
\* What the validator says of a text depends on the knowledge of the run, on its
\* verdict and on the originals that were read.
LEMMA ValidationIsStable ==
    ASSUME UNCHANGED <<stop, knowledge, results>>
    PROVE  \A d : validate_report(d) <=> validate_report(d)'
BY DEF knowledge, validate_report, reportable_evidence, unresolved_contradictions

LEMMA TypeInit == Init => TypeOK
BY DEF Init, TypeOK, Stops, StopCodes

LEMMA TypeNext == TypeOK /\ DraftInv /\ [Next]_vars => TypeOK'
<1> SUFFICES ASSUME TypeOK, DraftInv, [Next]_vars PROVE TypeOK'
  OBVIOUS
<1> USE DEF TypeOK, knowledge
<1>1. CASE Finalize
  BY <1>1 DEF Finalize, Write, reportable_evidence
<1>2. CASE GenerateReport
  BY <1>2 DEF GenerateReport, Write
<1>3. CASE ReviewReport
  BY <1>3 DEF ReviewReport, Write, DraftInv
<1>4. CASE LoseFile
  BY <1>4 DEF LoseFile
<1>5. CASE BudgetTimeout
  BY <1>5 DEF BudgetTimeout, Stops, StopCodes
<1>6. CASE UNCHANGED vars
  BY <1>6 DEF vars
<1> QED
  BY <1>1, <1>2, <1>3, <1>4, <1>5, <1>6 DEF Next, Step, Done

LEMMA DraftNext == IInv /\ [Next]_vars => DraftInv'
<1> SUFFICES ASSUME IInv, [Next]_vars PROVE DraftInv'
  OBVIOUS
<1> USE DEF IInv, DraftInv
<1>1. CASE Finalize
  BY <1>1 DEF Finalize, Write
<1>2. CASE GenerateReport
  <2>1. CASE Write(Json)
    BY <2>1, <1>2 DEF Write
  <2>2. ASSUME NEW d \in Drafts, validate_report(d), draft' = d
        PROVE  DraftInv'
    BY <2>2, <1>2, ValidationIsStable DEF GenerateReport
  <2> QED
    BY <2>1, <2>2, <1>2 DEF GenerateReport
<1>3. CASE ReviewReport
  BY <1>3 DEF ReviewReport, Write
<1>4. CASE LoseFile
  BY <1>4, ValidationIsStable DEF LoseFile
<1>5. CASE BudgetTimeout
  BY <1>5 DEF BudgetTimeout
<1>6. CASE UNCHANGED vars
  BY <1>6, ValidationIsStable DEF vars
<1> QED
  BY <1>1, <1>2, <1>3, <1>4, <1>5, <1>6 DEF Next, Step, Done

LEMMA ReportNext == IInv /\ [Next]_vars => ReportInv'
<1> SUFFICES ASSUME IInv, [Next]_vars PROVE ReportInv'
  OBVIOUS
<1> USE DEF IInv, ReportInv
<1>1. ASSUME Write(Json) PROVE ReportInv'
  BY <1>1 DEF Write, Json
<1>2. CASE Finalize
  BY <1>1, <1>2 DEF Finalize
<1>3. CASE GenerateReport
  BY <1>1, <1>3 DEF GenerateReport
<1>4. CASE ReviewReport
  <2>1. ASSUME draft.cited \subseteq results, Write(Markdown(draft, draft.cited))
        PROVE  ReportInv'
    <3>1. report' = Markdown(draft, draft.cited) /\ pc' = "done"
      BY <2>1 DEF Write
    <3>2. validate_report(report.text)'
      BY <1>4, <3>1 DEF ReviewReport, DraftInv, Markdown, validate_report, knowledge,
                        reportable_evidence, unresolved_contradictions
    <3>3. report'.text.cited \subseteq results' /\ report'.reviewed = report'.text.cited
      BY <1>4, <2>1, <3>1 DEF ReviewReport, Markdown
    <3> QED
      BY <3>2, <3>3
  <2> QED
    BY <1>1, <2>1, <1>4 DEF ReviewReport
<1>5. CASE LoseFile
  BY <1>5 DEF LoseFile
<1>6. CASE BudgetTimeout
  BY <1>6 DEF BudgetTimeout
<1>7. CASE UNCHANGED vars
  BY <1>7, ValidationIsStable DEF vars
<1> QED
  BY <1>2, <1>3, <1>4, <1>5, <1>6, <1>7 DEF Next, Step, Done

THEOREM Invariance == Spec => []IInv
<1>1. Init => IInv
  BY TypeInit DEF Init, IInv, DraftInv, ReportInv
<1>2. IInv /\ [Next]_vars => IInv'
  BY TypeNext, DraftNext, ReportNext DEF IInv
<1> QED
  BY <1>1, <1>2, PTL DEF Spec

\* Every variable of Report has its type.
THEOREM TypeCorrect == Spec => []TypeOK
BY Invariance, PTL DEF IInv

\* A Markdown report is about the run it was checkpointed with (reporting.py,
\* write_report; service.py, _finish_stopped_run).
THEOREM VerdictIsTold == Spec => []ReportTellsTheVerdict
<1>1. IInv => ReportTellsTheVerdict
  BY DEF IInv, ReportInv, ReportTellsTheVerdict, validate_report
<1> QED
  BY <1>1, Invariance, PTL

\* What it cites was current, read intact and reviewed (report_validation.py).
THEOREM ReportIsFounded == Spec => []ReportRestsOnOriginals
<1>1. IInv => ReportRestsOnOriginals
  BY DEF IInv, ReportInv, ReportRestsOnOriginals, validate_report
<1> QED
  BY <1>1, Invariance, PTL

\* The demands of the validator and of the review can be met together.
THEOREM DemandsAgree == Spec => []AReportIsPossible
<1>1. TypeOK => AReportIsPossible
  <2> SUFFICES ASSUME TypeOK, reportable_evidence \intersect results # {},
                      (UNION contradicts) \ superseded \subseteq results
               PROVE  \E d \in Drafts :
                         validate_report(d) /\ d.cited \subseteq results /\ d.figures # {}
    BY DEF AReportIsPossible
  <2> DEFINE usable == reportable_evidence \intersect results
             text == [cited |-> usable, limits |-> usable, figures |-> usable,
                      marks |-> unfinished, stop |-> stop.code, complete |-> TRUE]
  <2>1. text \in Drafts
    <3>1. usable \in SUBSET Ids /\ unfinished \in SUBSET Unfinished
      BY DEF TypeOK, reportable_evidence
    <3>2. stop.code \in StopCodes
      BY DEF TypeOK, Stops
    <3> QED
      BY <3>1, <3>2 DEF Drafts
  <2>2. UNION unresolved_contradictions \subseteq usable
    BY DEF TypeOK, unresolved_contradictions, reportable_evidence
  <2>3. validate_report(text)
    BY <2>2 DEF validate_report
  <2> QED
    BY <2>1, <2>3
<1> QED
  BY <1>1, Invariance, PTL DEF IInv
=============================================================================
