------------------------ MODULE ExecutionGraph_proofs ------------------------
(***************************************************************************)
(* Proofs about ExecutionGraph for all limits, programs, error keys and    *)
(* numbers of crashes.  The inductive invariant IInv is a conjunction of   *)
(* six facts; each has its own lemma saying that a step preserves it.      *)
(***************************************************************************)
EXTENDS ExecutionGraph, TLAPS

USE DEF control, lists, outside

Ended == {"export_execution_delta", "apply_execution_delta", "done"}
BeforeRun == {"capture_execution_entry", "lookup_program", "generate_code", "validate_code"}

\* The attempt has come to something exactly when it is on its way out.
PhaseInv == /\ outcome = "working" <=> node \notin Ended
            /\ outcome = "working" => status = "RUNNING"

\* What each node may take for granted about the program it is given.
EarnedInv ==
    /\ node = "validate_code" => program # None
    /\ node = "execute" => program # None /\ <<program, "static">> \in gates
    /\ node \in {"validate_result", "critique", "commit_evidence"} => program # None
    /\ node = "commit_evidence" => <<program, "accepted">> \in gates
    /\ EvidenceIsEarned

\* Requests the worker has seen belong to earlier rounds, except the one being
\* sent again after an interruption and the one whose round is already over.
RequestInv ==
    /\ \A w \in worker : w.request.runtime <= runtime_repairs
    /\ node \in BeforeRun => \A w \in worker : w.request.runtime < runtime_repairs
    /\ node = "execute" =>
          \A w \in worker : \/ w.request.runtime < runtime_repairs
                            \/ interrupted /\ w.request = ExecutionId
    /\ OneRunPerRound

\* A streak of runtime errors is as long as the repairs it caused, at most.
StreakInv ==
    /\ streak.key \in ResultCodes \union {"runtime_error"} => streak.count <= runtime_repairs
    /\ streak.key = "execution_refused" =>
          streak.count <= 1 /\ node \in Ended \union {"reject_attempt"}
    /\ StuckEndsTheAttempt

\* The subgraph's lists differ from the main graph's by the attempt's outcome.
Added(n, m, k) == [evidence |-> parent.evidence + n, rejected |-> parent.rejected + m,
                   issues |-> parent.issues + k]
LedgerInv ==
    node # "done" =>
      /\ node # "capture_execution_entry" => entry = parent
      /\ outcome \in {"working", "stopped"} => child = parent
      /\ outcome = "committed" => child = Added(1, 0, 0)
      /\ outcome = "rejected" => child \in {Added(0, 1, 0), Added(0, 1, 1)}
      /\ node = "apply_execution_delta" =>
            delta = [key \in DOMAIN child |-> child[key] - entry[key]]

IInv == /\ TypeOK
        /\ RepairBounds
        /\ PhaseInv
        /\ EarnedInv
        /\ RequestInv
        /\ StreakInv
        /\ LedgerInv

-------------------------------------------------------------------------------
\* The initial states satisfy the invariant.
LEMMA InitIInv == Init => IInv
<1> SUFFICES ASSUME Init PROVE IInv
  OBVIOUS
<1> USE LimitsAssumption, ThresholdAssumption DEF Init
<1>1. TypeOK
  <2>1. entry \in Lengths /\ child \in Lengths /\ delta \in Lengths /\ parent \in Lengths
    BY DEF Nothing, Lengths
  <2>2. streak \in [key: Codes \union {NoErrors}, count: Nat]
    BY DEF NoStreak
  <2>3. crashes \in 0 .. MaxCrashes
    OBVIOUS
  <2> QED
    BY <2>1, <2>2, <2>3 DEF TypeOK, Nodes, Outcomes
<1>2. RepairBounds
  BY DEF RepairBounds
<1>3. PhaseInv
  BY DEF PhaseInv, Ended
<1>4. EarnedInv
  BY DEF EarnedInv, EvidenceIsEarned
<1>5. RequestInv
  BY DEF RequestInv, OneRunPerRound
<1>6. StreakInv
  BY CodesAssumption DEF StreakInv, StuckEndsTheAttempt, is_stuck, NoStreak, NoErrors, Codes, OwnCodes
<1>7. LedgerInv
  BY DEF LedgerInv
<1> QED
  BY <1>1, <1>2, <1>3, <1>4, <1>5, <1>6, <1>7 DEF IInv

\* bump_error_streak returns a streak for every error key there is.
LEMMA BumpType ==
  ASSUME NEW code \in Codes, streak \in [key: Codes \union {NoErrors}, count: Nat]
  PROVE  bump_error_streak(code) \in [key: Codes \union {NoErrors}, count: Nat]
  BY DEF bump_error_streak

\* Every step keeps the types.
LEMMA TypeStep == IInv /\ [Next]_vars => TypeOK'
<1> SUFFICES ASSUME TypeOK, RepairBounds, EarnedInv, LedgerInv, PhaseInv, [Next]_vars PROVE TypeOK'
  BY DEF IInv
<1> USE LimitsAssumption DEF TypeOK
<1>1. CASE CaptureExecutionEntry
  BY <1>1 DEF CaptureExecutionEntry, Nodes
<1>2. CASE LookupProgram
  BY <1>2 DEF LookupProgram, Nodes, RouteAfterLookup, Program
<1>3. CASE GenerateCode
  <2>1. "codegen_failed" \in Codes
    BY DEF Codes, OwnCodes
  <2>2. RouteAfterGenerate' \in Nodes
    BY DEF RouteAfterGenerate, Nodes
  <2>3. CASE CodeGenerated
    BY <1>3, <2>2, <2>3 DEF GenerateCode, CodeGenerated, Program
  <2>4. CASE CodegenFailed
    BY <1>3, <2>1, <2>2, <2>4, BumpType DEF GenerateCode, CodegenFailed
  <2>5. CASE CodegenUnavailable
    BY <1>3, <2>2, <2>5 DEF GenerateCode, CodegenUnavailable, Outcomes
  <2> QED
    BY <1>3, <2>3, <2>4, <2>5 DEF GenerateCode
<1>4. CASE ValidateCode
  <2>1. StaticCodes \subseteq Codes
    BY DEF Codes
  <2>2. RouteAfterValidateCode' \in Nodes
    BY DEF RouteAfterValidateCode, Nodes
  <2>3. program \in Program
    BY <1>4 DEF EarnedInv, ValidateCode
  <2>4. gates' \subseteq Program \X Gates
    BY <1>4, <2>3 DEF ValidateCode, Gates
  <2>5. /\ errors' \in Codes \union {NoErrors}
        /\ streak' \in [key: Codes \union {NoErrors}, count: Nat]
        /\ static_repairs' \in Nat
    BY <1>4, <2>1, BumpType DEF ValidateCode
  <2> QED
    BY <1>4, <2>2, <2>4, <2>5 DEF ValidateCode
<1>5. CASE Execute
  <2>1. program \in Program
    BY <1>5 DEF EarnedInv, Execute
  <2>2. ExecutionId \in Request
    BY <2>1 DEF ExecutionId, Request, Program
  <2>3. WorkerAnswers(ExecutionId) \subseteq BOOLEAN
    BY DEF WorkerAnswers
  <2>4. \A ok \in WorkerAnswers(ExecutionId) :
           [request |-> ExecutionId, ok |-> ok] \in [request: Request, ok: BOOLEAN]
    BY <2>2, <2>3
  <2>5. {"execution_refused", "runtime_error"} \subseteq Codes
    BY DEF Codes, OwnCodes
  <2> DEFINE Typed == /\ worker' \subseteq [request: Request, ok: BOOLEAN]
                      /\ errors' \in Codes \union {NoErrors}
                      /\ streak' \in [key: Codes \union {NoErrors}, count: Nat]
                      /\ runtime_repairs' \in Nat
                      /\ candidate' \in Program \union {None}
                      /\ gates' \subseteq Program \X Gates
  <2>6. ASSUME ExecutionRefused PROVE Typed
    <3>1. worker' \subseteq [request: Request, ok: BOOLEAN]
      BY <2>4, <2>6 DEF ExecutionRefused
    <3> QED
      BY <2>5, <2>6, <3>1, BumpType DEF ExecutionRefused
  <2>7. ASSUME ExecutionFailed PROVE Typed
    <3>1. worker' \subseteq [request: Request, ok: BOOLEAN]
      BY <2>4, <2>7 DEF ExecutionFailed
    <3> QED
      BY <2>5, <2>7, <3>1, BumpType DEF ExecutionFailed
  <2>8. ASSUME Executed PROVE Typed
    <3>1. worker' \subseteq [request: Request, ok: BOOLEAN]
      BY <2>4, <2>8 DEF Executed
    <3>2. gates' \subseteq Program \X Gates
      BY <2>1, <2>8 DEF Executed, Gates
    <3> QED
      BY <2>1, <2>8, <3>1, <3>2 DEF Executed
  <2>9. Typed
    BY <1>5, <2>6, <2>7, <2>8 DEF Execute
  <2>10. RouteAfterExecute' \in Nodes
    BY DEF RouteAfterExecute, RetryOrReject, Nodes
  <2> QED
    BY <1>5, <2>9, <2>10 DEF Execute
<1>6. CASE ValidateResult
  <2>1. ResultCodes \subseteq Codes
    BY DEF Codes
  <2>2. RouteAfterValidateResult' \in Nodes
    BY DEF RouteAfterValidateResult, RetryOrReject, Nodes
  <2>3. candidate \in Program
    BY <1>6 DEF EarnedInv, EvidenceIsEarned, ValidateResult
  <2>4. gates' \subseteq Program \X Gates
    BY <1>6, <2>3 DEF ValidateResult, Gates
  <2>5. /\ errors' \in Codes \union {NoErrors}
        /\ streak' \in [key: Codes \union {NoErrors}, count: Nat]
        /\ runtime_repairs' \in Nat
    BY <1>6, <2>1, BumpType DEF ValidateResult
  <2> QED
    BY <1>6, <2>2, <2>4, <2>5 DEF ValidateResult
<1>7. CASE Critique
  <2>1. RouteAfterCritique' \in Nodes
    BY DEF RouteAfterCritique, Nodes
  <2>2. candidate \in Program
    BY <1>7 DEF EarnedInv, EvidenceIsEarned, Critique
  <2>3. gates' \subseteq Program \X Gates
    BY <1>7, <2>2 DEF Critique, Gates
  <2> QED
    BY <1>7, <2>1, <2>3 DEF Critique, Outcomes
<1>8. CASE CommitEvidence
  <2>1. program \in Program
    BY <1>8 DEF EarnedInv, CommitEvidence
  <2>2. child' \in Lengths
    BY <1>8 DEF CommitEvidence, Lengths
  <2> QED
    BY <1>8, <2>1, <2>2 DEF CommitEvidence, Nodes, Outcomes, Program
<1>9. CASE RejectAttempt
  <2>1. child' \in Lengths
    <3>1. child' = [evidence |-> child.evidence, rejected |-> child.rejected + 1,
                    issues |-> IF is_stuck THEN child.issues + 1 ELSE child.issues]
      BY <1>9 DEF RejectAttempt, Lengths
    <3> QED
      BY <3>1 DEF Lengths
  <2>2. NoStreak \in [key: Codes \union {NoErrors}, count: Nat]
    BY DEF NoStreak
  <2> QED
    BY <1>9, <2>1, <2>2 DEF RejectAttempt, Nodes, Outcomes
<1>10. CASE ExportExecutionDelta
  <2>1. /\ entry = parent
        /\ \/ child = parent
           \/ child = Added(1, 0, 0)
           \/ child = Added(0, 1, 0)
           \/ child = Added(0, 1, 1)
    BY <1>10 DEF LedgerInv, PhaseInv, ExportExecutionDelta, Ended, Outcomes
  <2>2. DOMAIN child = {"evidence", "rejected", "issues"}
    BY DEF Lengths
  <2>3. delta' = [evidence |-> child.evidence - entry.evidence,
                  rejected |-> child.rejected - entry.rejected,
                  issues |-> child.issues - entry.issues]
    BY <1>10, <2>2 DEF ExportExecutionDelta
  <2>4. /\ parent.evidence \in Nat /\ parent.rejected \in Nat /\ parent.issues \in Nat
        /\ child.evidence \in {parent.evidence, parent.evidence + 1}
        /\ child.rejected \in {parent.rejected, parent.rejected + 1}
        /\ child.issues \in {parent.issues, parent.issues + 1}
    BY <2>1 DEF Lengths, Added
  <2>5. /\ child.evidence - entry.evidence \in Nat
        /\ child.rejected - entry.rejected \in Nat
        /\ child.issues - entry.issues \in Nat
    BY <2>1, <2>4
  <2>6. delta' \in Lengths
    BY <2>3, <2>5 DEF Lengths
  <2> QED
    BY <1>10, <2>6 DEF ExportExecutionDelta, Nodes
<1>11. CASE ApplyExecutionDelta
  <2>1. parent' \in Lengths
    BY <1>11 DEF ApplyExecutionDelta, Lengths
  <2> QED
    BY <1>11, <2>1 DEF ApplyExecutionDelta, Nodes, Nothing, Lengths
<1>12. CASE InterruptExecute
  <2>1. program \in Program
    BY <1>12 DEF EarnedInv, InterruptExecute
  <2>2. ExecutionId \in Request
    BY <2>1 DEF ExecutionId, Request, Program
  <2>3. WorkerAnswers(ExecutionId) \subseteq BOOLEAN
    BY DEF WorkerAnswers
  <2>4. worker' \subseteq [request: Request, ok: BOOLEAN]
    BY <1>12, <2>2, <2>3 DEF InterruptExecute
  <2> QED
    BY <1>12, <2>4 DEF InterruptExecute
<1>13. CASE InterruptCommit
  <2>1. program \in Program
    BY <1>13 DEF EarnedInv, InterruptCommit
  <2> QED
    BY <1>13, <2>1 DEF InterruptCommit, Program
<1>14. CASE UNCHANGED vars
  BY <1>14 DEF vars
<1> QED
  BY <1>1, <1>2, <1>3, <1>4, <1>5, <1>6, <1>7, <1>8, <1>9, <1>10, <1>11, <1>12, <1>13, <1>14
     DEF Next, Step, Done

\* The repair counters never pass their limits: a counter is raised only where
\* the route is then decided on the raised value.
LEMMA BoundsStep == IInv /\ [Next]_vars => RepairBounds'
<1> SUFFICES ASSUME TypeOK, RepairBounds, EarnedInv, [Next]_vars PROVE RepairBounds'
  BY DEF IInv
<1> USE LimitsAssumption DEF RepairBounds
<1>0. static_repairs \in Nat /\ runtime_repairs \in Nat
  BY DEF TypeOK
<1>1. CASE CaptureExecutionEntry \/ LookupProgram
  BY <1>1 DEF CaptureExecutionEntry, LookupProgram, RouteAfterLookup
<1>3. CASE GenerateCode
  BY <1>0, <1>3 DEF GenerateCode, CodeGenerated, CodegenFailed, CodegenUnavailable,
     RouteAfterGenerate, GiveUpOnCode
<1>4. CASE ValidateCode
  BY <1>0, <1>4, CodesAssumption
     DEF ValidateCode, RouteAfterValidateCode, GiveUpOnCode, HasBlockingErrors
<1>5. CASE Execute
  <2>1. node = "execute" /\ UNCHANGED static_repairs /\ node' = RouteAfterExecute'
    BY <1>5 DEF Execute
  <2>2. ExecutionRefused \/ ExecutionFailed \/ Executed
    BY <1>5 DEF Execute
  <2>3. /\ ExecutionRefused => runtime_repairs' = runtime_repairs
        /\ ExecutionFailed => runtime_repairs' = runtime_repairs + 1 /\ candidate' = None
        /\ Executed => runtime_repairs' = runtime_repairs
    BY DEF ExecutionRefused, ExecutionFailed, Executed
  <2> QED
    BY <1>0, <2>1, <2>2, <2>3 DEF RouteAfterExecute, RetryOrReject
<1>6. CASE ValidateResult
  BY <1>0, <1>6 DEF ValidateResult, RouteAfterValidateResult, RetryOrReject
<1>7. CASE Critique
  BY <1>7 DEF Critique, RouteAfterCritique
<1>8. CASE CommitEvidence \/ RejectAttempt \/ ExportExecutionDelta \/ ApplyExecutionDelta
  BY <1>8 DEF CommitEvidence, RejectAttempt, ExportExecutionDelta, ApplyExecutionDelta
<1>9. CASE InterruptExecute \/ InterruptCommit \/ UNCHANGED vars
  BY <1>9 DEF InterruptExecute, InterruptCommit, vars
<1> QED
  BY <1>1, <1>3, <1>4, <1>5, <1>6, <1>7, <1>8, <1>9 DEF Next, Step, Done

\* An action's outcome and the node it leads to agree.
LEMMA PhaseStep == IInv /\ [Next]_vars => PhaseInv'
<1> SUFFICES ASSUME TypeOK, PhaseInv, [Next]_vars PROVE PhaseInv'
  BY DEF IInv
<1> USE DEF PhaseInv, Ended
<1>1. CASE CaptureExecutionEntry \/ LookupProgram
  BY <1>1 DEF CaptureExecutionEntry, LookupProgram, RouteAfterLookup
<1>2. CASE GenerateCode
  BY <1>2 DEF GenerateCode, CodeGenerated, CodegenFailed, CodegenUnavailable, RouteAfterGenerate
<1>3. CASE ValidateCode \/ ValidateResult
  BY <1>3 DEF ValidateCode, ValidateResult, RouteAfterValidateCode, RouteAfterValidateResult,
     RetryOrReject
<1>4. CASE Execute
  BY <1>4 DEF Execute, RouteAfterExecute, RetryOrReject
<1>5. CASE Critique
  BY <1>5 DEF Critique, RouteAfterCritique
<1>6. CASE CommitEvidence \/ RejectAttempt \/ ExportExecutionDelta \/ ApplyExecutionDelta
  BY <1>6 DEF CommitEvidence, RejectAttempt, ExportExecutionDelta, ApplyExecutionDelta
<1>7. CASE InterruptExecute \/ InterruptCommit \/ UNCHANGED vars
  BY <1>7 DEF InterruptExecute, InterruptCommit, vars
<1> QED
  BY <1>1, <1>2, <1>3, <1>4, <1>5, <1>6, <1>7 DEF Next, Step, Done

\* A node hands on a program only with what the next one takes for granted.
LEMMA EarnedStep == IInv /\ [Next]_vars => EarnedInv'
<1> SUFFICES ASSUME TypeOK, PhaseInv, EarnedInv, [Next]_vars PROVE EarnedInv'
  BY DEF IInv
<1> USE DEF EarnedInv, EvidenceIsEarned, PhaseInv, Ended
<1>0. None \notin Program /\ program \in Program \union {None}
  BY NoneAssumption DEF TypeOK
<1>1. CASE CaptureExecutionEntry \/ LookupProgram
  BY <1>1 DEF CaptureExecutionEntry, LookupProgram, RouteAfterLookup
<1>2. CASE GenerateCode
  <2>1. outcome' # "committed" /\ node' \in {"export_execution_delta", "validate_code",
                                             "reject_attempt", "generate_code"}
    BY <1>2 DEF GenerateCode, CodeGenerated, CodegenFailed, CodegenUnavailable, RouteAfterGenerate
  <2>2. node' = "validate_code" => program' # None
    BY <1>2 DEF GenerateCode, RouteAfterGenerate
  <2> QED
    BY <2>1, <2>2
<1>3. CASE ValidateCode
  <2>1. outcome' # "committed" /\ node' \in {"execute", "reject_attempt", "generate_code"}
    BY <1>3 DEF ValidateCode, RouteAfterValidateCode
  <2>2. node' = "execute" => program' # None /\ <<program, "static">> \in gates' /\ program' = program
    BY <1>3, CodesAssumption DEF ValidateCode, RouteAfterValidateCode, HasBlockingErrors
  <2> QED
    BY <2>1, <2>2
<1>4. CASE Execute
  <2>1. outcome' # "committed" /\ node' \in {"validate_result", "reject_attempt", "generate_code"}
    BY <1>4 DEF Execute, RouteAfterExecute, RetryOrReject
  <2>2. node' = "validate_result" => Executed
    BY <1>4 DEF Execute, RouteAfterExecute, RetryOrReject, ExecutionRefused, ExecutionFailed
  <2>3. Executed => /\ program' = program /\ candidate' = program /\ program # None
                    /\ <<program, "static">> \in gates' /\ <<program, "executed">> \in gates'
    BY <1>4 DEF Execute, Executed
  <2> QED
    BY <2>1, <2>2, <2>3
<1>5. CASE ValidateResult
  <2>1. outcome' # "committed" /\ node' \in {"critique", "reject_attempt", "generate_code"}
    BY <1>5 DEF ValidateResult, RouteAfterValidateResult, RetryOrReject
  <2>2. node' = "critique" => <<program, "result">> \in gates'
    BY <1>5, CodesAssumption DEF ValidateResult, RouteAfterValidateResult, HasBlockingErrors,
       RetryOrReject
  <2>3. /\ program' = program /\ candidate' = program /\ program # None
        /\ <<program, "static">> \in gates' /\ <<program, "executed">> \in gates'
    BY <1>5 DEF ValidateResult
  <2> QED
    BY <2>1, <2>2, <2>3
<1>6. CASE Critique
  <2>1. outcome' # "committed" /\ node' \in {"export_execution_delta", "commit_evidence",
                                             "reject_attempt"}
    BY <1>6 DEF Critique, RouteAfterCritique
  <2>2. node' = "commit_evidence" => <<program, "accepted">> \in gates'
    BY <1>6 DEF Critique, RouteAfterCritique
  <2>3. /\ program' = program /\ candidate' = program /\ program # None
        /\ {<<program, "static">>, <<program, "executed">>, <<program, "result">>} \subseteq gates'
    BY <1>6 DEF Critique
  <2> QED
    BY <2>1, <2>2, <2>3 DEF Passed, Gates
<1>7. CASE CommitEvidence \/ ExportExecutionDelta \/ ApplyExecutionDelta
  <2>1. /\ UNCHANGED <<program, gates>> /\ node' \in Ended
        /\ outcome' = "committed" => node = "commit_evidence" \/ outcome = "committed"
    BY <1>7 DEF CommitEvidence, ExportExecutionDelta, ApplyExecutionDelta
  <2> QED
    BY <2>1 DEF Passed
<1>8. CASE RejectAttempt
  BY <1>8 DEF RejectAttempt
<1>9. CASE InterruptExecute \/ InterruptCommit \/ UNCHANGED vars
  <2>1. UNCHANGED <<node, program, candidate, gates, outcome>>
    BY <1>9 DEF InterruptExecute, InterruptCommit, vars
  <2> QED
    BY <2>1 DEF Passed
<1> QED
  BY <1>1, <1>2, <1>3, <1>4, <1>5, <1>6, <1>7, <1>8, <1>9 DEF Next, Step, Done

\* At `execute` the request at hand is either new or the one record of it.
LEMMA RequestOnce ==
  ASSUME TypeOK, RequestInv, node = "execute", NEW ok \in WorkerAnswers(ExecutionId),
         worker' = worker \union {[request |-> ExecutionId, ok |-> ok]}
  PROVE  /\ OneRunPerRound'
         /\ \A w \in worker' : w.request.runtime < runtime_repairs \/ w.request = ExecutionId
<1> DEFINE new == [request |-> ExecutionId, ok |-> ok]
<1>1. ExecutionId.runtime = runtime_repairs /\ runtime_repairs \in Nat
  BY DEF ExecutionId, TypeOK
<1>2. \A w \in worker : w.request.runtime < runtime_repairs \/ w.request = ExecutionId
  BY DEF RequestInv
<1>3. \A w \in worker' : w.request.runtime < runtime_repairs \/ w.request = ExecutionId
  BY <1>2
<1>4. \A w \in worker : w.request = ExecutionId => w = new
  <2> SUFFICES ASSUME NEW w \in worker, w.request = ExecutionId PROVE w = new
    OBVIOUS
  <2>1. \A v \in worker : v.request = ExecutionId => v = w
    BY DEF RequestInv, OneRunPerRound
  <2>2. WorkerAnswers(ExecutionId) = {w.ok}
    BY <2>1 DEF WorkerAnswers
  <2>3. w = [request |-> w.request, ok |-> w.ok]
    BY DEF TypeOK
  <2> QED
    BY <2>2, <2>3
<1>5. \A w \in worker : w.request.runtime \in Nat
  BY DEF TypeOK, Request
<1>6. \A v, w \in worker' : v.request.runtime = w.request.runtime => v = w
  <2> SUFFICES ASSUME NEW v \in worker', NEW w \in worker', v.request.runtime = w.request.runtime
              PROVE v = w
    OBVIOUS
  <2>1. CASE v \in worker /\ w \in worker
    BY <2>1 DEF RequestInv, OneRunPerRound
  <2>2. new.request.runtime = runtime_repairs
    BY <1>1
  <2>3. \A u \in worker : u.request.runtime = runtime_repairs => u = new
    BY <1>1, <1>2, <1>4, <1>5
  <2> QED
    BY <2>1, <2>2, <2>3
<1> QED
  BY <1>3, <1>6 DEF OneRunPerRound

\* A request is recorded at `execute` only, and a way back to `execute` raises
\* the round.
LEMMA RequestStep == IInv /\ [Next]_vars => RequestInv'
<1> SUFFICES ASSUME TypeOK, EarnedInv, RequestInv, [Next]_vars PROVE RequestInv'
  BY DEF IInv
<1>0. /\ runtime_repairs \in Nat
      /\ \A w \in worker : w.request.runtime \in Nat
      /\ \A w \in worker : w.request.runtime <= runtime_repairs
      /\ OneRunPerRound
      /\ ExecutionId.runtime = runtime_repairs
  BY DEF TypeOK, Request, RequestInv, ExecutionId
<1>1. CASE CaptureExecutionEntry \/ LookupProgram
  <2>1. /\ UNCHANGED <<worker, runtime_repairs>>
        /\ node \in BeforeRun /\ node' # "execute"
    BY <1>1 DEF CaptureExecutionEntry, LookupProgram, RouteAfterLookup, BeforeRun
  <2> QED
    BY <1>0, <2>1 DEF RequestInv, OneRunPerRound
<1>2. CASE GenerateCode
  <2>1. /\ UNCHANGED <<worker, runtime_repairs>>
        /\ node \in BeforeRun /\ node' # "execute"
    BY <1>2 DEF GenerateCode, RouteAfterGenerate, BeforeRun
  <2> QED
    BY <1>0, <2>1 DEF RequestInv, OneRunPerRound
<1>3. CASE ValidateCode
  <2>1. UNCHANGED <<worker, runtime_repairs>> /\ node \in BeforeRun
    BY <1>3 DEF ValidateCode, BeforeRun
  <2> QED
    BY <1>0, <2>1 DEF RequestInv, OneRunPerRound
<1>4. CASE Execute
  <2>1. node = "execute" /\ node' # "execute"
    BY <1>4 DEF Execute, RouteAfterExecute, RetryOrReject
  <2>2. CASE ExecutionRefused
    <3>1. node' \notin BeforeRun /\ runtime_repairs' = runtime_repairs
      BY <1>4, <2>2 DEF Execute, ExecutionRefused, RouteAfterExecute, BeforeRun
    <3>2. CASE worker' = worker
      BY <1>0, <2>1, <3>1, <3>2 DEF RequestInv, OneRunPerRound
    <3>3. ASSUME NEW ok \in WorkerAnswers(ExecutionId),
                 worker' = worker \union {[request |-> ExecutionId, ok |-> ok]}
          PROVE  RequestInv'
      <4>1. OneRunPerRound'
        BY <2>1, <3>3, RequestOnce
      <4>2. \A w \in worker' : w.request.runtime <= runtime_repairs
        BY <1>0, <3>3
      <4> QED
        BY <2>1, <3>1, <4>1, <4>2 DEF RequestInv
    <3> QED
      BY <2>2, <3>2, <3>3 DEF ExecutionRefused
  <2>3. CASE ExecutionFailed
    <3>1. runtime_repairs' = runtime_repairs + 1
      BY <2>3 DEF ExecutionFailed
    <3>2. /\ FALSE \in WorkerAnswers(ExecutionId)
          /\ worker' = worker \union {[request |-> ExecutionId, ok |-> FALSE]}
      BY <2>3 DEF ExecutionFailed
    <3>3. OneRunPerRound'
      BY <2>1, <3>2, RequestOnce
    <3>4. \A w \in worker' : w.request.runtime <= runtime_repairs
      BY <1>0, <3>2
    <3>5. \A w \in worker' : w.request.runtime \in Nat
      BY <1>0, <3>2
    <3> QED
      BY <1>0, <2>1, <3>1, <3>3, <3>4, <3>5 DEF RequestInv
  <2>4. CASE Executed
    <3>1. runtime_repairs' = runtime_repairs
      BY <2>4 DEF Executed
    <3>2. /\ TRUE \in WorkerAnswers(ExecutionId)
          /\ worker' = worker \union {[request |-> ExecutionId, ok |-> TRUE]}
      BY <2>4 DEF Executed
    <3>3. OneRunPerRound'
      BY <2>1, <3>2, RequestOnce
    <3>4. \A w \in worker' : w.request.runtime <= runtime_repairs
      BY <1>0, <3>2
    <3>5. node' \notin BeforeRun
      <4>1. program # None
        BY <2>1 DEF EarnedInv
      <4> QED
        BY <1>4, <2>4, <4>1 DEF Execute, Executed, RouteAfterExecute, BeforeRun
    <3> QED
      BY <2>1, <3>1, <3>3, <3>4, <3>5 DEF RequestInv
  <2> QED
    BY <1>4, <2>2, <2>3, <2>4 DEF Execute
<1>5. CASE ValidateResult
  <2>1. UNCHANGED worker /\ node' # "execute"
    BY <1>5 DEF ValidateResult, RouteAfterValidateResult, RetryOrReject
  <2>2. \/ runtime_repairs' = runtime_repairs + 1
        \/ runtime_repairs' = runtime_repairs /\ node' \notin BeforeRun
    BY <1>5 DEF ValidateResult, RouteAfterValidateResult, HasBlockingErrors, BeforeRun
  <2> QED
    BY <1>0, <2>1, <2>2 DEF RequestInv, OneRunPerRound
<1>6. CASE Critique
  <2>1. /\ UNCHANGED <<worker, runtime_repairs>>
        /\ node' \notin BeforeRun \union {"execute"}
    BY <1>6 DEF Critique, RouteAfterCritique, BeforeRun
  <2> QED
    BY <1>0, <2>1 DEF RequestInv, OneRunPerRound
<1>7. CASE CommitEvidence \/ RejectAttempt \/ ExportExecutionDelta \/ ApplyExecutionDelta
  <2>1. /\ UNCHANGED <<worker, runtime_repairs>>
        /\ node' \notin BeforeRun \union {"execute"}
    BY <1>7 DEF CommitEvidence, RejectAttempt, ExportExecutionDelta, ApplyExecutionDelta, BeforeRun
  <2> QED
    BY <1>0, <2>1 DEF RequestInv, OneRunPerRound
<1>8. CASE InterruptExecute
  <2>1. /\ node = "execute" /\ interrupted' = TRUE
        /\ UNCHANGED <<node, program, static_repairs, runtime_repairs>>
    BY <1>8 DEF InterruptExecute
  <2>2. PICK ok \in WorkerAnswers(ExecutionId) :
            worker' = worker \union {[request |-> ExecutionId, ok |-> ok]}
    BY <1>8 DEF InterruptExecute
  <2>3. /\ OneRunPerRound'
        /\ \A w \in worker' : w.request.runtime < runtime_repairs \/ w.request = ExecutionId
    BY <2>1, <2>2, RequestOnce
  <2>4. \A w \in worker' : w.request.runtime <= runtime_repairs
    BY <1>0, <2>2
  <2>5. ExecutionId' = ExecutionId
    BY <2>1 DEF ExecutionId
  <2> QED
    BY <2>1, <2>3, <2>4, <2>5 DEF RequestInv, BeforeRun
<1>9. CASE InterruptCommit
  <2>1. UNCHANGED <<node, worker, runtime_repairs>> /\ node = "commit_evidence"
    BY <1>9 DEF InterruptCommit
  <2> QED
    BY <1>0, <2>1 DEF RequestInv, OneRunPerRound, BeforeRun
<1>10. CASE UNCHANGED vars
  <2>1. UNCHANGED <<node, worker, runtime_repairs, static_repairs, program, interrupted>>
    BY <1>10 DEF vars
  <2> QED
    BY <2>1 DEF RequestInv, OneRunPerRound, ExecutionId
<1> QED
  BY <1>1, <1>2, <1>3, <1>4, <1>5, <1>6, <1>7, <1>8, <1>9, <1>10 DEF Next, Step, Done

\* Only a repeated static error reaches the threshold, and it is given up there.
LEMMA StreakStep == IInv /\ [Next]_vars => StreakInv'
<1> SUFFICES ASSUME TypeOK, RepairBounds, RepairBounds', PhaseInv, StreakInv, [Next]_vars
             PROVE  StreakInv'
  BY BoundsStep DEF IInv
<1> USE DEF Ended
<1>0. /\ streak.count \in Nat /\ static_repairs \in Nat /\ runtime_repairs \in Nat
      /\ runtime_repairs <= MAX_RUNTIME_REPAIRS + 1
  BY DEF TypeOK, RepairBounds
<1>1. /\ STUCK_THRESHOLD \in Nat /\ MAX_RUNTIME_REPAIRS \in Nat
      /\ MAX_RUNTIME_REPAIRS + 1 < STUCK_THRESHOLD
  BY LimitsAssumption, ThresholdAssumption
<1>2. ASSUME UNCHANGED <<streak, runtime_repairs>>,
             node # "reject_attempt" \/ ~is_stuck,
             streak.key = "execution_refused" => node' \in Ended \union {"reject_attempt"}
      PROVE  StreakInv'
  BY <1>2 DEF StreakInv, StuckEndsTheAttempt, is_stuck
<1>3. CASE CaptureExecutionEntry \/ LookupProgram
  BY <1>2, <1>3 DEF CaptureExecutionEntry, LookupProgram, StreakInv
<1>4. CASE GenerateCode
  <2>1. node = "generate_code" /\ runtime_repairs' = runtime_repairs
    BY <1>4 DEF GenerateCode
  <2>2. CASE CodeGenerated \/ CodegenUnavailable
    BY <1>2, <2>1, <2>2 DEF StreakInv, CodeGenerated, CodegenUnavailable
  <2>3. CASE CodegenFailed
    <3>1. streak'.key = "codegen_failed"
      BY <2>3 DEF CodegenFailed, bump_error_streak
    <3>2. is_stuck' => node' = "reject_attempt"
      BY <1>4, <2>3 DEF GenerateCode, CodegenFailed, RouteAfterGenerate, GiveUpOnCode, PhaseInv
    <3> QED
      BY <3>1, <3>2, CodesAssumption DEF StreakInv, StuckEndsTheAttempt, OwnCodes
  <2> QED
    BY <1>4, <2>2, <2>3 DEF GenerateCode
<1>5. CASE ValidateCode
  <2>1. node = "validate_code" /\ runtime_repairs' = runtime_repairs
    BY <1>5 DEF ValidateCode
  <2>2. CASE UNCHANGED streak
    BY <1>2, <2>1, <2>2 DEF StreakInv
  <2>3. ASSUME NEW code \in StaticCodes, streak' = bump_error_streak(code), errors' = code
        PROVE  StreakInv'
    <3>1. streak'.key = code
      BY <2>3 DEF bump_error_streak
    <3>2. is_stuck' => node' = "reject_attempt"
      BY <1>5, <2>3, CodesAssumption
         DEF ValidateCode, RouteAfterValidateCode, GiveUpOnCode, HasBlockingErrors
    <3> QED
      BY <3>1, <3>2, CodesAssumption DEF StreakInv, StuckEndsTheAttempt, OwnCodes
  <2> QED
    BY <1>5, <2>2, <2>3 DEF ValidateCode
<1>6. CASE Execute
  <2>1. node = "execute" /\ node' = RouteAfterExecute'
    BY <1>6 DEF Execute
  <2>2. CASE ExecutionRefused
    <3>1. streak'.key = "execution_refused" /\ streak'.count = 1
      BY <2>1, <2>2 DEF ExecutionRefused, bump_error_streak, StreakInv
    <3>2. node' = "reject_attempt"
      BY <2>1, <2>2 DEF ExecutionRefused, RouteAfterExecute
    <3> QED
      BY <3>1, <3>2, CodesAssumption DEF StreakInv, StuckEndsTheAttempt, OwnCodes
  <2>3. CASE ExecutionFailed
    <3>1. streak'.key = "runtime_error" /\ runtime_repairs' = runtime_repairs + 1
      BY <2>3 DEF ExecutionFailed, bump_error_streak
    <3>2. streak'.count <= runtime_repairs' /\ streak'.count \in Nat
      BY <1>0, <2>3 DEF ExecutionFailed, bump_error_streak, StreakInv
    <3>3. ~is_stuck'
      BY <1>0, <1>1, <3>1, <3>2 DEF is_stuck, RepairBounds
    <3> QED
      BY <3>1, <3>2, <3>3 DEF StreakInv, StuckEndsTheAttempt
  <2>4. CASE Executed
    BY <1>2, <2>1, <2>4 DEF Executed, StreakInv
  <2> QED
    BY <1>6, <2>2, <2>3, <2>4 DEF Execute
<1>7. CASE ValidateResult
  <2>1. node = "validate_result"
    BY <1>7 DEF ValidateResult
  <2>2. CASE UNCHANGED <<streak, runtime_repairs>>
    BY <1>2, <2>1, <2>2 DEF StreakInv
  <2>3. ASSUME NEW code \in ResultCodes, streak' = bump_error_streak(code),
               runtime_repairs' = runtime_repairs + 1
        PROVE  StreakInv'
    <3>1. streak'.key = code
      BY <2>3 DEF bump_error_streak
    <3>2. streak'.count <= runtime_repairs' /\ streak'.count \in Nat
      BY <1>0, <2>3 DEF bump_error_streak, StreakInv
    <3>3. ~is_stuck'
      BY <1>0, <1>1, <2>3, <3>2 DEF is_stuck, RepairBounds
    <3> QED
      BY <3>1, <3>2, <3>3, CodesAssumption DEF StreakInv, StuckEndsTheAttempt, OwnCodes
  <2> QED
    BY <1>7, <2>2, <2>3 DEF ValidateResult
<1>8. CASE Critique \/ CommitEvidence \/ ExportExecutionDelta \/ ApplyExecutionDelta
  BY <1>2, <1>8 DEF Critique, CommitEvidence, ExportExecutionDelta, ApplyExecutionDelta, StreakInv
<1>9. CASE RejectAttempt
  <2>1. CASE is_stuck
    <3>1. streak' = NoStreak
      BY <1>9, <2>1 DEF RejectAttempt
    <3> QED
      BY <1>0, <1>1, <1>9, <3>1, CodesAssumption
         DEF RejectAttempt, NoStreak, NoErrors, StreakInv, StuckEndsTheAttempt, is_stuck
  <2>2. CASE ~is_stuck
    BY <1>2, <1>9, <2>2 DEF RejectAttempt
  <2> QED
    BY <2>1, <2>2
<1>10. CASE InterruptExecute \/ InterruptCommit \/ UNCHANGED vars
  <2>1. UNCHANGED <<node, streak, runtime_repairs>>
    BY <1>10 DEF InterruptExecute, InterruptCommit, vars
  <2> QED
    BY <2>1 DEF StreakInv, StuckEndsTheAttempt, is_stuck
<1> QED
  BY <1>3, <1>4, <1>5, <1>6, <1>7, <1>8, <1>9, <1>10 DEF Next, Step, Done

\* The subgraph's own lists grow only where the outcome is decided.
LEMMA LedgerStep == IInv /\ [Next]_vars => LedgerInv'
<1> SUFFICES ASSUME TypeOK, PhaseInv, LedgerInv, [Next]_vars PROVE LedgerInv'
  BY DEF IInv
<1> USE DEF PhaseInv, Ended, Added
<1>1. CASE CaptureExecutionEntry
  BY <1>1 DEF CaptureExecutionEntry, LedgerInv
<1>2. ASSUME UNCHANGED <<entry, child, parent>>, outcome = "working",
             outcome' \in {"working", "stopped"}, node # "capture_execution_entry",
             node' \notin {"apply_execution_delta", "done"}
      PROVE  LedgerInv'
  BY <1>2 DEF LedgerInv
<1>3. CASE LookupProgram
  BY <1>2, <1>3 DEF LookupProgram, RouteAfterLookup
<1>4. CASE GenerateCode
  <2>1. node' \notin {"apply_execution_delta", "done"} /\ outcome' \in {"working", "stopped"}
    BY <1>4 DEF GenerateCode, RouteAfterGenerate, CodeGenerated, CodegenFailed, CodegenUnavailable
  <2> QED
    BY <1>2, <1>4, <2>1 DEF GenerateCode
<1>5. CASE ValidateCode
  BY <1>2, <1>5 DEF ValidateCode, RouteAfterValidateCode
<1>6. CASE Execute
  BY <1>2, <1>6 DEF Execute, RouteAfterExecute, RetryOrReject
<1>7. CASE ValidateResult
  BY <1>2, <1>7 DEF ValidateResult, RouteAfterValidateResult, RetryOrReject
<1>8. CASE Critique
  BY <1>2, <1>8 DEF Critique, RouteAfterCritique
<1>9. CASE CommitEvidence
  <2>1. child = parent /\ entry = parent
    BY <1>9 DEF CommitEvidence, LedgerInv
  <2>2. child' = Added(1, 0, 0)
    BY <1>9, <2>1 DEF CommitEvidence, TypeOK, Lengths
  <2> QED
    BY <1>9, <2>1, <2>2 DEF CommitEvidence, LedgerInv
<1>10. CASE RejectAttempt
  <2>1. child = parent /\ entry = parent
    BY <1>10 DEF RejectAttempt, LedgerInv
  <2>2. child' \in {Added(0, 1, 0), Added(0, 1, 1)}
    <3>1. child' = [evidence |-> parent.evidence, rejected |-> parent.rejected + 1,
                    issues |-> IF is_stuck THEN parent.issues + 1 ELSE parent.issues]
      BY <1>10, <2>1 DEF RejectAttempt, TypeOK, Lengths
    <3>2. parent.evidence \in Nat /\ parent.issues \in Nat
      BY DEF TypeOK, Lengths
    <3> QED
      BY <3>1, <3>2
  <2> QED
    BY <1>10, <2>1, <2>2 DEF RejectAttempt, LedgerInv
<1>11. CASE ExportExecutionDelta
  BY <1>11 DEF ExportExecutionDelta, LedgerInv
<1>12. CASE ApplyExecutionDelta
  BY <1>12 DEF ApplyExecutionDelta, LedgerInv
<1>13. CASE InterruptExecute \/ InterruptCommit \/ UNCHANGED vars
  <2>1. UNCHANGED <<node, entry, child, delta, parent, outcome>>
    BY <1>13 DEF InterruptExecute, InterruptCommit, vars
  <2> QED
    BY <2>1 DEF LedgerInv
<1> QED
  BY <1>1, <1>3, <1>4, <1>5, <1>6, <1>7, <1>8, <1>9, <1>10, <1>11, <1>12, <1>13
     DEF Next, Step, Done

-------------------------------------------------------------------------------
\* The invariant holds in every reachable state.
THEOREM Invariance == Spec => []IInv
<1>1. IInv /\ [Next]_vars => IInv'
  BY TypeStep, BoundsStep, PhaseStep, EarnedStep, RequestStep, StreakStep, LedgerStep DEF IInv
<1> QED
  BY <1>1, InitIInv, PTL DEF Spec

\* Every reachable state is well typed.
THEOREM TypeCorrect == Spec => []TypeOK
<1>1. IInv => TypeOK
  BY DEF IInv
<1> QED
  BY <1>1, Invariance, PTL

\* One intent costs a bounded number of generations, checks and worker runs.
THEOREM RepairsAreBounded == Spec => []RepairBounds
<1>1. IInv => RepairBounds
  BY DEF IInv
<1> QED
  BY <1>1, Invariance, PTL

\* Evidence is committed only for the result of a program that passed lint,
\* execution, the result checks and the Critic, and is paired with that program.
THEOREM EvidenceProvenance == Spec => []EvidenceIsEarned
<1>1. IInv => EvidenceIsEarned
  BY DEF IInv, EarnedInv
<1> QED
  BY <1>1, Invariance, PTL

\* A repaired program never meets the worker's answer to the one it replaces.
THEOREM RepairsAreNewRequests == Spec => []RepairIsANewRequest
<1>1. IInv => RepairIsANewRequest
  <2> SUFFICES ASSUME IInv, node = "execute", ~interrupted, NEW w \in worker
               PROVE  w.request # ExecutionId
    BY DEF RepairIsANewRequest
  <2>1. w.request.runtime < runtime_repairs /\ w.request.runtime \in Nat /\ runtime_repairs \in Nat
    BY DEF IInv, RequestInv, TypeOK, Request
  <2> QED
    BY <2>1 DEF ExecutionId
<1> QED
  BY <1>1, Invariance, PTL

\* Generated code runs at most once for each round of runtime repair.
THEOREM RunsAreBounded == Spec => []OneRunPerRound
<1>1. IInv => OneRunPerRound
  BY DEF IInv, RequestInv
<1> QED
  BY <1>1, Invariance, PTL

\* A repeated error ends the attempt when it reaches the threshold.
THEOREM StuckIsRejected == Spec => []StuckEndsTheAttempt
<1>1. IInv => StuckEndsTheAttempt
  BY DEF IInv, StreakInv
<1> QED
  BY <1>1, Invariance, PTL

\* The program cache changes only to a program that passed every gate.
THEOREM CacheIsEarned == Spec => CacheOnlyEarned
<1>1. IInv /\ [Next]_vars => [cache' # cache => Passed(program)]_vars
  <2> SUFFICES ASSUME IInv, [Next]_vars, cache' # cache PROVE Passed(program)
    OBVIOUS
  <2>1. node = "commit_evidence"
    BY DEF Next, Step, Done, vars, CaptureExecutionEntry, LookupProgram, GenerateCode,
       ValidateCode, Execute, ValidateResult, Critique, CommitEvidence, RejectAttempt,
       ExportExecutionDelta, ApplyExecutionDelta, InterruptExecute, InterruptCommit
  <2> QED
    BY <2>1 DEF IInv, EarnedInv, EvidenceIsEarned
<1> QED
  BY <1>1, Invariance, PTL DEF Spec, CacheOnlyEarned

\* For the main graph the subgraph is the atomic Attempt: one Evidence record,
\* one rejection, or nothing.
THEOREM Implementation == Spec => ImplementsAttempt
<1>1. Init => AttemptOf!Init
  <2> SUFFICES ASSUME Init PROVE AttemptOf!Init
    OBVIOUS
  <2>1. parent \in Lengths
    BY DEF Init, Lengths, Nothing
  <2> QED
    BY <2>1 DEF Init, AttemptOf!Init, AttemptOf!Lengths, Lengths, phase
<1>2. IInv /\ [Next]_vars => [AttemptOf!Next]_(AttemptOf!vars)
  <2> SUFFICES ASSUME IInv, [Next]_vars PROVE [AttemptOf!Next]_(AttemptOf!vars)
    OBVIOUS
  <2>1. CASE ApplyExecutionDelta
    <3>1. /\ node = "apply_execution_delta" /\ node' = "done" /\ UNCHANGED outcome
          /\ outcome \in {"committed", "rejected", "stopped"}
      BY <2>1 DEF ApplyExecutionDelta, IInv, PhaseInv, Ended, TypeOK, Outcomes
    <3>2. phase = "working" /\ phase' = outcome
      BY <3>1 DEF phase
    <3>3. /\ entry = parent /\ parent \in Lengths /\ child \in Lengths
          /\ delta = [key \in DOMAIN child |-> child[key] - entry[key]]
      BY <3>1 DEF IInv, LedgerInv, TypeOK
    <3>4. parent' = [key \in DOMAIN parent |-> parent[key] + delta[key]]
      BY <2>1 DEF ApplyExecutionDelta
    <3>5. parent' = [evidence |-> parent.evidence + (child.evidence - parent.evidence),
                     rejected |-> parent.rejected + (child.rejected - parent.rejected),
                     issues |-> parent.issues + (child.issues - parent.issues)]
      BY <3>3, <3>4 DEF Lengths
    <3>6. parent' = child
      BY <3>3, <3>5 DEF Lengths
    <3>7. CASE outcome = "committed"
      <4>1. child = Added(1, 0, 0)
        BY <3>1, <3>7 DEF IInv, LedgerInv
      <4> QED
        BY <3>2, <3>3, <3>6, <3>7, <4>1 DEF Added, Lengths, AttemptOf!Next, AttemptOf!Commit
    <3>8. CASE outcome = "rejected"
      <4>1. PICK stuck \in {0, 1} : child = Added(0, 1, stuck)
        BY <3>1, <3>8 DEF IInv, LedgerInv
      <4>2. parent' = [parent EXCEPT !.rejected = @ + 1, !.issues = @ + stuck]
        <5>0. parent \in Lengths
          BY <3>3
        <5>1. parent' = [evidence |-> parent.evidence + 0, rejected |-> parent.rejected + 1,
                         issues |-> parent.issues + stuck]
          BY <3>6, <4>1 DEF Added
        <5>2. parent.evidence \in Nat /\ parent.rejected \in Nat /\ parent.issues \in Nat
          BY <3>3 DEF Lengths
        <5>3. [parent EXCEPT !.rejected = @ + 1, !.issues = @ + stuck]
                = [evidence |-> parent.evidence, rejected |-> parent.rejected + 1,
                   issues |-> parent.issues + stuck]
          <6> SUFFICES ASSUME NEW r, r = [parent EXCEPT !.rejected = @ + 1, !.issues = @ + stuck]
                       PROVE  r = [evidence |-> parent.evidence, rejected |-> parent.rejected + 1,
                                   issues |-> parent.issues + stuck]
            OBVIOUS
          <6> QED
            BY <5>0 DEF Lengths
        <5> QED
          BY <5>1, <5>2, <5>3
      <4> QED
        BY <3>2, <3>8, <4>2 DEF AttemptOf!Next, AttemptOf!Reject
    <3>9. CASE outcome = "stopped"
      <4>1. child = parent
        BY <3>1, <3>9 DEF IInv, LedgerInv
      <4> QED
        BY <3>2, <3>6, <3>9, <4>1 DEF AttemptOf!Next, AttemptOf!Stop
    <3> QED
      BY <3>1, <3>7, <3>8, <3>9
  <2>2. ASSUME node # "done", node' # "done", UNCHANGED parent PROVE UNCHANGED AttemptOf!vars
    BY <2>2 DEF AttemptOf!vars, phase
  <2>3. CASE CaptureExecutionEntry \/ LookupProgram
    BY <2>2, <2>3 DEF CaptureExecutionEntry, LookupProgram, RouteAfterLookup
  <2>4. CASE GenerateCode
    BY <2>2, <2>4 DEF GenerateCode, RouteAfterGenerate
  <2>5. CASE ValidateCode \/ ValidateResult
    BY <2>2, <2>5 DEF ValidateCode, RouteAfterValidateCode, ValidateResult,
       RouteAfterValidateResult, RetryOrReject
  <2>6. CASE Execute
    BY <2>2, <2>6 DEF Execute, RouteAfterExecute, RetryOrReject
  <2>7. CASE Critique
    BY <2>2, <2>7 DEF Critique, RouteAfterCritique
  <2>8. CASE CommitEvidence \/ RejectAttempt \/ ExportExecutionDelta
    BY <2>2, <2>8 DEF CommitEvidence, RejectAttempt, ExportExecutionDelta
  <2>9. CASE InterruptExecute \/ InterruptCommit \/ UNCHANGED vars
    <3>1. UNCHANGED <<node, parent, outcome>>
      BY <2>9 DEF InterruptExecute, InterruptCommit, vars
    <3> QED
      BY <3>1 DEF AttemptOf!vars, phase
  <2> QED
    BY <2>1, <2>3, <2>4, <2>5, <2>6, <2>7, <2>8, <2>9 DEF Next, Step, Done
<1> QED
  BY <1>1, <1>2, Invariance, PTL DEF Spec, ImplementsAttempt, AttemptOf!Spec
=============================================================================
