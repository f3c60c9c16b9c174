---------------------------- MODULE ExecutionGraph ----------------------------
(***************************************************************************)
(* The execution subgraph: one accepted compute intent is turned into a    *)
(* program, checked, run, checked again, reviewed, and ends as Evidence or *)
(* as a rejected attempt (orchestration/execution_graph.py, routes.py and  *)
(* the nodes under orchestration/nodes).                                   *)
(*                                                                         *)
(* One action per graph node.  A node reads the checkpointed state and its *)
(* update is checkpointed as a whole, so an action is atomic; a process    *)
(* killed inside a node loses the update and runs the node again.  That is *)
(* visible only where the node has an effect outside the state: `execute`  *)
(* (the worker keeps a record by execution_id) and `commit_evidence` (the  *)
(* program cache), hence the two Interrupt actions.                        *)
(*                                                                         *)
(* LLM answers, validator verdicts and the outcome of the generated code   *)
(* are nondeterministic.                                                   *)
(***************************************************************************)
EXTENDS Naturals, FiniteSets

CONSTANTS
    MAX_STATIC_REPAIRS,   \* codegen / static validation failures per intent
    MAX_RUNTIME_REPAIRS,  \* execution / result failures after which to retry
    STUCK_THRESHOLD,      \* equal errors in a row that end the attempt
    Shas,                 \* contents (sha256) a generated program may have
    StaticCodes,          \* error keys the static validators produce
    ResultCodes,          \* error keys the result validator produces
    None,                 \* an absent value
    MaxCrashes            \* bound on interruptions

OwnCodes == {"codegen_failed", "runtime_error", "execution_refused"}
Codes == OwnCodes \union StaticCodes \union ResultCodes
NoErrors == "none"

ASSUME LimitsAssumption ==
    /\ MAX_STATIC_REPAIRS \in Nat \ {0}
    /\ MAX_RUNTIME_REPAIRS \in Nat
    /\ STUCK_THRESHOLD \in Nat \ {0}
    /\ MaxCrashes \in Nat

\* Only repeated static errors can reach the threshold: execution and result
\* errors run into MAX_RUNTIME_REPAIRS first.
ASSUME ThresholdAssumption == MAX_RUNTIME_REPAIRS + 1 < STUCK_THRESHOLD

\* The codes of validation/{codelint,manifest_checks}.py and of
\* validation/result_checks.py are different names.
ASSUME CodesAssumption ==
    /\ StaticCodes \intersect ResultCodes = {}
    /\ (StaticCodes \union ResultCodes) \intersect OwnCodes = {}
    /\ NoErrors \notin StaticCodes \union ResultCodes

\* A program_ref: the content of the code, stamped with the repair counters it
\* was obtained at, which tells the generations of one attempt apart.
Program == [sha: Shas, static: Nat, runtime: Nat]

ASSUME NoneAssumption == None \notin Program /\ None \notin Shas

VARIABLES
    node,             \* the node to run next
    program,          \* program_ref
    candidate,        \* candidate_ref: the program whose result it is
    errors,           \* streak_key(validation_errors)
    static_repairs,
    runtime_repairs,
    streak,           \* error_streak
    review,           \* verdict of the Critic
    status,           \* run status
    entry,            \* _entry_lengths
    child,            \* lengths of the subgraph's append-only lists
    delta,            \* execution_delta: how much each list is to grow
    parent,           \* lengths of the main graph's append-only lists
    cache,            \* validated program cache at this intent's key
    worker,           \* records the worker keeps: [request, ok]
    interrupted,      \* the process died inside the current node
    crashes,
    gates,            \* history: which program passed which gate
    outcome           \* history: what the attempt came to

control == <<node, program, candidate, errors, static_repairs, runtime_repairs,
             streak, review, status>>
lists == <<entry, child, delta, parent>>
outside == <<cache, worker, interrupted, crashes>>
vars == <<control, lists, outside, gates, outcome>>

Nodes == {"capture_execution_entry", "lookup_program", "generate_code",
          "validate_code", "execute", "validate_result", "critique",
          "commit_evidence", "reject_attempt", "export_execution_delta",
          "apply_execution_delta", "done"}
Gates == {"static", "executed", "result", "accepted"}
Outcomes == {"working", "committed", "rejected", "stopped"}
Lengths == [evidence: Nat, rejected: Nat, issues: Nat]
Nothing == [evidence |-> 0, rejected |-> 0, issues |-> 0]
Request == [sha: Shas, static: Nat, runtime: Nat]

TypeOK ==
    /\ node \in Nodes
    /\ program \in Program \union {None}
    /\ candidate \in Program \union {None}
    /\ errors \in Codes \union {NoErrors}
    /\ static_repairs \in Nat
    /\ runtime_repairs \in Nat
    /\ streak \in [key: Codes \union {NoErrors}, count: Nat]
    /\ review \in {"none", "accept", "refuse", "unreviewed"}
    /\ status \in {"RUNNING", "FAILED"}
    /\ entry \in Lengths
    /\ child \in Lengths
    /\ delta \in Lengths
    /\ parent \in Lengths
    /\ cache \in Shas \union {None}
    /\ worker \subseteq [request: Request, ok: BOOLEAN]
    /\ interrupted \in BOOLEAN
    /\ crashes \in 0 .. MaxCrashes
    /\ gates \subseteq Program \X Gates
    /\ outcome \in Outcomes

-------------------------------------------------------------------------------
(* Helpers of nodes/_shared.py and the routing policy of routes.py.  A route  *)
(* is read in the state the node has just produced, so it is used primed.     *)

NoStreak == [key |-> NoErrors, count |-> 0]

bump_error_streak(code) ==
    [key |-> code, count |-> IF streak.key = code THEN streak.count + 1 ELSE 1]

is_stuck == streak.count >= STUCK_THRESHOLD

HasBlockingErrors == errors # NoErrors

GiveUpOnCode == is_stuck \/ static_repairs >= MAX_STATIC_REPAIRS

RouteAfterLookup == IF program # None THEN "validate_code" ELSE "generate_code"

RouteAfterGenerate ==
    IF status = "FAILED" THEN "export_execution_delta"
    ELSE IF program # None /\ ~HasBlockingErrors THEN "validate_code"
    ELSE IF GiveUpOnCode THEN "reject_attempt"
    ELSE "generate_code"

\* Mutated: one repair too many.
RouteAfterValidateCodeOffByOne ==
    IF ~HasBlockingErrors THEN "execute"
    ELSE IF static_repairs > MAX_STATIC_REPAIRS THEN "reject_attempt"
    ELSE "generate_code"

RouteAfterValidateCode ==
    IF ~HasBlockingErrors THEN "execute"
    ELSE IF GiveUpOnCode THEN "reject_attempt"
    ELSE "generate_code"

RetryOrReject ==
    IF runtime_repairs <= MAX_RUNTIME_REPAIRS THEN "generate_code" ELSE "reject_attempt"

\* Mutated: a refusal is retried like a failure.
RouteAfterExecuteRetriesRefusal == IF candidate # None THEN "validate_result" ELSE RetryOrReject

RouteAfterExecute ==
    IF candidate # None THEN "validate_result"
    ELSE IF errors = "execution_refused" THEN "reject_attempt"
    ELSE RetryOrReject

RouteAfterValidateResult ==
    IF ~HasBlockingErrors THEN "critique" ELSE RetryOrReject

\* Mutated: any answer of the Critic counts as an approval.
RouteAfterCritiqueAnswered ==
    IF status = "FAILED" THEN "export_execution_delta"
    ELSE IF review # "unreviewed" THEN "commit_evidence"
    ELSE "reject_attempt"

RouteAfterCritique ==
    IF status = "FAILED" THEN "export_execution_delta"
    ELSE IF review = "accept" THEN "commit_evidence"
    ELSE "reject_attempt"

\* Mutated: the repair round left out of the seed.
ExecutionIdWithoutRound == [sha |-> program.sha, static |-> static_repairs, runtime |-> 0]

\* _execution_id: run, iteration and dataset are fixed within one attempt.
ExecutionId == [sha |-> program.sha, static |-> static_repairs, runtime |-> runtime_repairs]

\* What the worker may answer to a request: its record when it has one.
WorkerAnswers(request) ==
    IF \E w \in worker : w.request = request
    THEN {w.ok : w \in {v \in worker : v.request = request}}
    ELSE BOOLEAN

-------------------------------------------------------------------------------
\* cycle_reset_update of the accepted intent; the lists hold what earlier
\* intents of the run left.
Init ==
    /\ node = "capture_execution_entry"
    /\ program = None /\ candidate = None
    /\ errors = NoErrors
    /\ static_repairs = 0 /\ runtime_repairs = 0
    /\ streak = NoStreak
    /\ review = "none"
    /\ status = "RUNNING"
    /\ entry = Nothing /\ delta = Nothing
    /\ parent \in {Nothing, [evidence |-> 1, rejected |-> 1, issues |-> 0]}
    /\ child = parent
    /\ cache \in Shas \union {None}
    /\ worker = {}
    /\ interrupted = FALSE /\ crashes = 0
    /\ gates = {}
    /\ outcome = "working"

CaptureExecutionEntry ==
    /\ node = "capture_execution_entry"
    /\ entry' = child
    /\ node' = "lookup_program"
    /\ UNCHANGED <<program, candidate, errors, static_repairs, runtime_repairs, streak,
                   review, status, child, delta, parent, outside, gates, outcome>>

\* A hit clears validation_errors.  load_validated_program answers "no entry" for one
\* that is missing, unreadable, or whose code no longer has the recorded hash.
LookupProgram ==
    /\ node = "lookup_program"
    /\ \/ /\ cache # None
          /\ program' = [sha |-> cache, static |-> static_repairs, runtime |-> runtime_repairs]
          /\ errors' = NoErrors
       \/ /\ program' = None
          /\ UNCHANGED errors
    /\ node' = RouteAfterLookup'
    /\ UNCHANGED <<candidate, static_repairs, runtime_repairs, streak, review, status,
                   lists, outside, gates, outcome>>

\* candidate_ref is left alone: after a failed result it still names the
\* result of the previous program.
CodeGenerated ==
    /\ \E sha \in Shas :
          program' = [sha |-> sha, static |-> static_repairs, runtime |-> runtime_repairs]
    /\ errors' = NoErrors
    /\ UNCHANGED <<candidate, static_repairs, streak, status, outcome>>

CodegenFailed ==
    /\ program' = None /\ candidate' = None
    /\ errors' = "codegen_failed"
    /\ streak' = bump_error_streak("codegen_failed")
    /\ static_repairs' = static_repairs + 1
    /\ UNCHANGED <<status, outcome>>

\* No codegen model, or a terminal service failure (failure_policy.py).
CodegenUnavailable ==
    /\ program' = None /\ candidate' = None
    /\ status' = "FAILED"
    /\ outcome' = "stopped"
    /\ UNCHANGED <<errors, static_repairs, streak>>

GenerateCode ==
    /\ node = "generate_code"
    /\ CodeGenerated \/ CodegenFailed \/ CodegenUnavailable
    /\ UNCHANGED runtime_repairs
    /\ node' = RouteAfterGenerate'
    /\ UNCHANGED <<review, lists, outside, gates>>

\* Mutated: only the streak of equal errors is counted, not the repair.
ValidateCodeUncounted ==
    /\ node = "validate_code"
    /\ \/ /\ errors' = NoErrors
          /\ gates' = gates \union {<<program, "static">>}
          /\ UNCHANGED streak
       \/ /\ \E code \in StaticCodes :
                /\ errors' = code
                /\ streak' = bump_error_streak(code)
          /\ UNCHANGED gates
    /\ UNCHANGED static_repairs
    /\ node' = RouteAfterValidateCode'
    /\ UNCHANGED <<program, candidate, runtime_repairs, review, status, lists, outside, outcome>>

ValidateCode ==
    /\ node = "validate_code"
    /\ \/ /\ errors' = NoErrors
          /\ gates' = gates \union {<<program, "static">>}
          /\ UNCHANGED <<streak, static_repairs>>
       \/ /\ \E code \in StaticCodes :
                /\ errors' = code
                /\ streak' = bump_error_streak(code)
          /\ static_repairs' = static_repairs + 1
          /\ UNCHANGED gates
    /\ node' = RouteAfterValidateCode'
    /\ UNCHANGED <<program, candidate, runtime_repairs, review, status, lists, outside, outcome>>

\* Refused: no answer that can be trusted (worker unreachable, record lost,
\* still RUNNING at the deadline).  The worker may have run the code or not.
ExecutionRefused ==
    /\ candidate' = None
    /\ errors' = "execution_refused"
    /\ streak' = bump_error_streak("execution_refused")
    /\ \/ UNCHANGED worker
       \/ \E ok \in WorkerAnswers(ExecutionId) :
             worker' = worker \union {[request |-> ExecutionId, ok |-> ok]}
    /\ UNCHANGED <<runtime_repairs, gates>>

\* Mutated: the result of the previous program is not cleared.
ExecutionFailedKeepsResult ==
    /\ FALSE \in WorkerAnswers(ExecutionId)
    /\ errors' = "runtime_error"
    /\ streak' = bump_error_streak("runtime_error")
    /\ runtime_repairs' = runtime_repairs + 1
    /\ worker' = worker \union {[request |-> ExecutionId, ok |-> FALSE]}
    /\ UNCHANGED <<candidate, gates>>

ExecutionFailed ==
    /\ FALSE \in WorkerAnswers(ExecutionId)
    /\ candidate' = None
    /\ errors' = "runtime_error"
    /\ streak' = bump_error_streak("runtime_error")
    /\ runtime_repairs' = runtime_repairs + 1
    /\ worker' = worker \union {[request |-> ExecutionId, ok |-> FALSE]}
    /\ UNCHANGED gates

Executed ==
    /\ TRUE \in WorkerAnswers(ExecutionId)
    /\ candidate' = program
    /\ errors' = NoErrors
    /\ worker' = worker \union {[request |-> ExecutionId, ok |-> TRUE]}
    /\ gates' = gates \union {<<program, "executed">>}
    /\ UNCHANGED <<streak, runtime_repairs>>

Execute ==
    /\ node = "execute"
    /\ ExecutionRefused \/ ExecutionFailed \/ Executed
    /\ interrupted' = FALSE
    /\ node' = RouteAfterExecute'
    /\ UNCHANGED <<program, static_repairs, review, status, lists, cache, crashes, outcome>>

\* The result read is the one candidate_ref names.
ValidateResult ==
    /\ node = "validate_result"
    /\ \/ /\ errors' = NoErrors
          /\ gates' = gates \union {<<candidate, "result">>}
          /\ UNCHANGED <<streak, runtime_repairs>>
       \/ /\ \E code \in ResultCodes :
                /\ errors' = code
                /\ streak' = bump_error_streak(code)
          /\ runtime_repairs' = runtime_repairs + 1
          /\ UNCHANGED gates
    /\ node' = RouteAfterValidateResult'
    /\ UNCHANGED <<program, candidate, static_repairs, review, status, lists, outside, outcome>>

\* "accept" stands for an accepting verdict with a claim; "refuse" for any other
\* verdict; "unreviewed" for a Critic that failed or broke its contract.
Critique ==
    /\ node = "critique"
    /\ \/ /\ review' = "accept"
          /\ gates' = gates \union {<<candidate, "accepted">>}
          /\ UNCHANGED <<status, outcome>>
       \/ /\ review' \in {"refuse", "unreviewed"}
          /\ UNCHANGED <<status, gates, outcome>>
       \/ /\ review' = "unreviewed"
          /\ status' = "FAILED"
          /\ outcome' = "stopped"
          /\ UNCHANGED gates
    /\ node' = RouteAfterCritique'
    /\ UNCHANGED <<program, candidate, errors, static_repairs, runtime_repairs, streak,
                   lists, outside>>

CommitEvidence ==
    /\ node = "commit_evidence"
    /\ child' = [child EXCEPT !.evidence = @ + 1]
    /\ cache' = program.sha
    /\ interrupted' = FALSE
    /\ outcome' = "committed"
    /\ node' = "export_execution_delta"
    /\ UNCHANGED <<program, candidate, errors, static_repairs, runtime_repairs, streak,
                   review, status, entry, delta, parent, worker, crashes, gates>>

\* Mutated: the streak outlives the attempt it ended.
RejectAttemptKeepsStreak ==
    /\ node = "reject_attempt"
    /\ child' = [child EXCEPT !.rejected = @ + 1, !.issues = IF is_stuck THEN @ + 1 ELSE @]
    /\ outcome' = "rejected"
    /\ node' = "export_execution_delta"
    /\ UNCHANGED <<program, candidate, errors, static_repairs, runtime_repairs, streak,
                   review, status, entry, delta, parent, outside, gates>>

RejectAttempt ==
    /\ node = "reject_attempt"
    /\ child' = [child EXCEPT !.rejected = @ + 1, !.issues = IF is_stuck THEN @ + 1 ELSE @]
    /\ streak' = IF is_stuck THEN NoStreak ELSE streak
    /\ outcome' = "rejected"
    /\ node' = "export_execution_delta"
    /\ UNCHANGED <<program, candidate, errors, static_repairs, runtime_repairs,
                   review, status, entry, delta, parent, outside, gates>>

\* Mutated: the whole lists leave the subgraph.
ExportExecutionDeltaWhole ==
    /\ node = "export_execution_delta"
    /\ delta' = child
    /\ node' = "apply_execution_delta"
    /\ UNCHANGED <<program, candidate, errors, static_repairs, runtime_repairs, streak,
                   review, status, entry, child, parent, outside, gates, outcome>>

\* Only the suffix added since the entry leaves the subgraph.
ExportExecutionDelta ==
    /\ node = "export_execution_delta"
    /\ delta' = [key \in DOMAIN child |-> child[key] - entry[key]]
    /\ node' = "apply_execution_delta"
    /\ UNCHANGED <<program, candidate, errors, static_repairs, runtime_repairs, streak,
                   review, status, entry, child, parent, outside, gates, outcome>>

\* The main graph's node of that name: its append reducers add the delta.
ApplyExecutionDelta ==
    /\ node = "apply_execution_delta"
    /\ parent' = [key \in DOMAIN parent |-> parent[key] + delta[key]]
    /\ delta' = Nothing
    /\ node' = "done"
    /\ UNCHANGED <<program, candidate, errors, static_repairs, runtime_repairs, streak,
                   review, status, entry, child, outside, gates, outcome>>

\* The control process dies after the worker has taken the request ...
InterruptExecute ==
    /\ node = "execute"
    /\ crashes < MaxCrashes
    /\ \E ok \in WorkerAnswers(ExecutionId) :
          worker' = worker \union {[request |-> ExecutionId, ok |-> ok]}
    /\ interrupted' = TRUE
    /\ crashes' = crashes + 1
    /\ UNCHANGED <<control, lists, cache, gates, outcome>>

\* ... or after the program cache is written and before the Evidence is.
InterruptCommit ==
    /\ node = "commit_evidence"
    /\ crashes < MaxCrashes
    /\ cache' = program.sha
    /\ interrupted' = TRUE
    /\ crashes' = crashes + 1
    /\ UNCHANGED <<control, lists, worker, gates, outcome>>

Done == node = "done" /\ UNCHANGED vars

Step == \/ CaptureExecutionEntry \/ LookupProgram \/ GenerateCode \/ ValidateCode
        \/ Execute \/ ValidateResult \/ Critique \/ CommitEvidence \/ RejectAttempt
        \/ ExportExecutionDelta \/ ApplyExecutionDelta

Next == Step \/ InterruptExecute \/ InterruptCommit \/ Done

Spec == Init /\ [][Next]_vars

\* The graph runner runs the next node; every wait inside a node has a timeout.
FairSpec == Spec /\ WF_vars(Step)

-------------------------------------------------------------------------------
(* What an attempt may never do.                                              *)

Passed(p) == \A gate \in Gates : <<p, gate>> \in gates

\* The repair budget: the prompts, worker runs and time one intent may cost are
\* bounded by the two counters of _shared.py, and a program is generated,
\* checked and handed to the worker only while the counters are below them.
RepairBounds ==
    /\ static_repairs <= MAX_STATIC_REPAIRS
    /\ runtime_repairs <= MAX_RUNTIME_REPAIRS + 1
    /\ node \in {"capture_execution_entry", "lookup_program", "generate_code",
                 "validate_code", "execute", "validate_result"} =>
          static_repairs < MAX_STATIC_REPAIRS /\ runtime_repairs <= MAX_RUNTIME_REPAIRS

\* A result is validated, reviewed and committed only as the result of the
\* program that produced it (commit_evidence pairs candidate_ref with
\* program_ref in the Evidence and in the program cache), and Evidence exists
\* only for a program that passed lint, execution, result checks and the Critic.
EvidenceIsEarned ==
    /\ node \in {"validate_result", "critique", "commit_evidence"} =>
          candidate = program /\ <<program, "static">> \in gates /\ <<program, "executed">> \in gates
    /\ node \in {"critique", "commit_evidence"} => <<program, "result">> \in gates
    /\ node = "commit_evidence" \/ outcome = "committed" => Passed(program)

\* The worker keeps its answer by execution_id and repeats it: a repaired
\* program must therefore reach it under an id it has not seen, or the repair
\* would be judged by the answer to the program it replaces.
RepairIsANewRequest ==
    node = "execute" /\ ~interrupted => \A w \in worker : w.request # ExecutionId

\* Generated code runs at most once for each round of runtime repair, whatever
\* static repairs and restarts of the control process lie in between.
OneRunPerRound ==
    \A v, w \in worker : v.request.runtime = w.request.runtime => v = w

\* STUCK_THRESHOLD equal errors end the attempt at once, and the streak that
\* ended it is cleared with it (reject_attempt) instead of leaking into the
\* planner's own count of stalls.
StuckEndsTheAttempt == is_stuck => node = "reject_attempt"

\* The program cache is what later runs execute without asking the LLM: it
\* changes only to a program that passed every gate, also when the process
\* dies between writing it and checkpointing the Evidence.
CacheOnlyEarned == [][cache' # cache => Passed(program)]_vars

\* The subgraph is one atomic attempt for the main graph: nothing of the run's
\* append-only knowledge moves before it ends, and then by exactly one Evidence
\* record or one rejection, however many interruptions and retries it took.
phase == IF node = "done" THEN outcome ELSE "working"
AttemptOf == INSTANCE Attempt WITH knowledge <- parent
ImplementsAttempt == AttemptOf!Spec

\* Every attempt comes to an end: no path of codegen failures, static repairs,
\* runtime repairs and refusals runs for ever.
AttemptEnds == <>(node = "done")
=============================================================================
