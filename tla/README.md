# Formal models of Analysis Loop v3

TLA+ models of the run loop of `src/analysis_loop_v3`, the TLC configurations that
check them on small instances, and TLAPS proofs of what matters most for every
value of the constants. Paths below are relative to `src/analysis_loop_v3/`;
`o/` stands for `orchestration/`, `n/` for `orchestration/nodes/`.

Contents: [inventory](#1-inventory) · [plan](#2-plan) ·
[the models and the code](#3-the-models-and-the-code) · [runs](#4-runs) ·
[fairness](#5-fairness) · [proofs](#6-proofs) · [findings](#7-findings) ·
[what is not covered](#8-what-is-not-covered)

## 1. Inventory

A *run* answers one objective about one dataset. A LangGraph state machine asks a
planner (LLM) for an *intent*, turns a compute intent into a program, runs that
program on a worker, has the result reviewed, keeps it as *Evidence*, and goes on
until every goal is closed or a limit is met. Each node's update is checkpointed
as a whole; an interrupted node runs again.

| Component | Code | State | Operations |
|---|---|---|---|
| Execution subgraph | `o/execution_graph.py`, `o/routes.py`, `n/{_shared,program,running,code_validation,result_validation,review}.py` | program and candidate refs, validation errors, repair counters, error streak, review, append-only lists and their delta | one node per operation, from `lookup_program` to `commit_evidence` or `reject_attempt` |
| Main graph, planner policy, agenda | `o/graph.py`, `state.py`, `n/{planning,planner_decision,intent_policy,progress,review_agenda,review_evidence}.py` | goals, Evidence, relations, agenda, rejected attempts, stalls, iteration, expansions, status and stop code | `decompose_objective`, `plan_intent`, the five ways to carry out an intent, `assess_progress`, `expand_goals`, `finalize` |
| Remote execution | `execution/remote_sandbox.py`, `worker/{app,store}.py` | a directory per execution id that is lock and record; the handlers of POST; the client's attempt counter | POST with retries, lookup, poll with deadline, claim, reclaim of stale records, finish, sweep |
| AnalysisService | `service.py` | the thread's checkpoint, the time budget and its deadline | `start`, `resume`, `_drive` with budget and recursion limit |
| API run service | `api/{run_routes,runs,db}.py` | registry of tasks, the `runs` table | create, list (with reconciliation), resume, stop |
| Analysis memory | `llm/memory.py`, `llm/planner_service.py` | wiki and notebook files, a lock file each; a revision is the hash of the text | read, write with expected revision, both as tools of a planner call |
| Report pipeline | `n/reporting.py`, `report_validation.py` | the originals read, the draft, the report ref | read originals, generate, validate, review, fall back to JSON; once more from outside when the budget expires |
| Artifact store | `artifacts.py` | files whose reference has their hash, validated program cache | save, read with hash check, cache lookup |
| LLM client and services | `llm/*.py` | the conversation of a call | bounded tool loop, parsing |
| Local sandbox | `execution/sandbox.py`, `execution/sandbox_worker.py`, `n/running.py` | a child process and the working directory all attempts of an iteration share | spawn, wait with a timeout, kill and reap, collect the result |
| Audit | `audit.py` | none: it reads a finished run | checks of lineage, files and events |
| Validators, data, contracts, tooling | `validation/`, `data/`, `contract_models/`, `cli.py`, `bench.py`, `evaluation.py` | none across calls | pure functions, or I/O |

How they interact. The API (or the CLI) starts a task that calls the service; the
service drives the compiled graph under `asyncio.timeout`; the main graph contains
the subgraph as one node and takes its result through a delta field with append
reducers; `execute` calls `RemoteSandbox.run`, which speaks HTTP to the worker;
`commit_evidence` writes the program cache of the artifact store before its update
is checkpointed; planner, codegen and Critic are calls that may fail for good
(`o/failure_policy.py`). Runs share the worker, the artifacts, the program cache
and the wiki.

What is hard in it:

- a node is executed *at least once*, and two nodes have an effect outside the
  state (`execute`, `commit_evidence`);
- the worker answers by execution id, so the id must be new exactly when the
  program is, and the client's retry may meet its own earlier request;
- several worker processes and a sweep share one directory without a lock but
  `mkdir`;
- two repair counters and a streak, with different comparisons, decide between
  retry and rejection;
- agenda, relations and goals are updated by different nodes from the answers of
  two LLMs, over iterations, and together decide when a run may say that it is
  finished and how;
- the row of a run in the API's table is derived from the checkpoint, but written by
  handlers, tasks and lists that overlap, each with a reading of its own;
- a stopped task goes on for a while, and a finished run can be resumed;
- runs in several processes edit one wiki, each from a text it read minutes ago;
- runs share program files and a cache, whose entries and files are replaced, lost
  and altered independently of each other;
- a child process does not end with the node that started it, and the next node
  uses its directory;
- a report is written over minutes about a run whose verdict the budget may replace
  meanwhile, and from files that may be gone.

What makes each component correct: the subgraph spends a bounded number of
repairs, pairs every result with its program, and is atomic for the main graph;
the main graph loses no task and no contradiction, closes goals on work done for
them and ends; remote execution runs a program once and never attributes to it
an answer it did not give; the API runs one task per run and its table can always
be set right from the checkpoint; no run overwrites text in the wiki that it has
not read; no result is taken for that of another program, and no altered program
runs; a report says how the run ended and rests on what was read. PROJECT.json lists every hazard at its line, with the
property that covers it or the reason why none does.

## 2. Plan

Done:

1. `ExecutionGraph` with its abstract specification `Attempt`, model-checked and
   proved (`ExecutionGraph_proofs`).
2. `AnalysisLoop`, the main graph over atomic attempts, with its abstract
   specification `Inquiry`, model-checked and proved (`AnalysisLoop_proofs`).
3. `RemoteExecution`, client, worker and store, model-checked; its safety
   properties proved (`RemoteExecution_proofs`).
4. `RunService`, the API's handlers, tasks and table and `service._drive`,
   model-checked; its safety properties proved (`RunService_proofs`).
5. `Memory`, the shared wiki and the tool loop, with its abstract specification
   `Register`, model-checked; types and refinement proved (`Memory_proofs`).

6. The supersteps of a run against `RECURSION_LIMIT`: `StepsAreBounded` in
   `AnalysisLoop`; and the lineage checks of `audit.py` as an invariant of it.
7. `GoalNumbering`, the ids of goals.
8. `Report`, the report pipeline under lost originals and an expiring budget,
   model-checked; its safety properties proved (`Report_proofs`).
9. `LocalExecution`, program files, cache and child processes of several runs,
   model-checked; its properties proved (`LocalExecution_proofs`).

Next:

10. `AnalysisLoop`: `revalidates` relations. (A resume on changed data was planned; it
    cannot happen: `dataset_ref` is written by `new_state` only, and `start` refuses a run
    that exists.)

## 3. The models and the code

Every definition that stands for code has an entry in PROJECT.json `map` with the
lines it models. Definitions commented `Mutated:` are not part of any
specification: each is a plausible bug of the definition after it, and the
property it is paired with in PROJECT.json must fail when it is put in place.

### ExecutionGraph

One action per node, with the node's update and the route that follows it. The
route functions read the state the node has produced, so they appear primed
(`node' = RouteAfterExecute'`).

| State | Code |
|---|---|
| `program`, `candidate` | `program_ref`, `candidate_ref`. A program is its content hash, stamped with the counters it was obtained at: an artifact id is made from the content, and the stamp tells two generations of equal text apart, which is what the properties are about. |
| `errors`, `streak` | `streak_key(validation_errors)` and `error_streak`. |
| `entry`, `child`, `delta`, `parent` | `_entry_lengths`, the subgraph's lists, `execution_delta` and the main graph's lists, each by its length: they are append only. |
| `cache` | the validated program cache at this intent's key. |
| `worker` | the records the worker keeps, by execution id. |
| `interrupted`, `crashes` | the process died inside the current node. |
| `gates`, `outcome` | history, read by properties only. |

LLM answers, validator verdicts and the outcome of code are nondeterministic.
The interruption of a node is visible only where it has an outside effect, hence
`InterruptExecute` and `InterruptCommit`. The module takes the remote sandbox: the
local one keeps no record and runs the code again after a crash, so
`OneRunPerRound` is a property of the deployed configuration, not of the local one.

`Attempt` is what the main graph may rely on: nothing moves until the attempt ends,
and then by one Evidence record, one rejection (with at most one issue), or
nothing. The refinement maps `knowledge` to `parent` and `phase` to `outcome` at
`node = "done"`.

### AnalysisLoop

One action per node of `o/graph.py`; the node `execution` is one step (`Commit`,
`Reject` or `ServiceUnavailable`), which is what `Attempt` allows. An Evidence id is
the iteration it comes from. A task is identified by its origin (iteration, kind,
question, sources); its state is goal, status, whether an attempt was made, and the
Evidence that completed it. An intent names the Evidence it derives from; a
computation hands these parents on to the Evidence it leaves, with a `derived_from`
relation to each. `AuditIssues` is what `build_run_audit` looks for in this state: all
six of its lineage checks.
`plan_intent` chooses any intent the policies accept (`FreeIntents`, `TaskIntents`),
stalls, finishes, or loses the planner; a Critic's review is any record of
verdict, references and follow-ups that `validate_critic_references` accepts.
`clock` has three values: enough, too little for an expansion, over.
`BudgetTimeout` is `service._drive`: it may come at any node and overwrites a status
that is already terminal, as the code does.

`Inquiry` is what the service, and whoever reads the checkpoint, may rely on: attempts
one at a time, each under an id of its own and adding one Evidence record or none; one
verdict, after which what the run knows does not change; an analysed verdict only when
nothing is open; an end. Only the budget ends a run from outside. The refinement maps

| Inquiry | AnalysisLoop |
|---|---|
| `attempt` | `iteration` while `node = "execution"`, else 0 |
| `evidence` | the ids of `evidence` |
| `settled` | no pending task, no unresolved contradiction, every goal closed (`settled`) |
| `verdict`, `ended` | `stop_code`; `node = "end"` |

Agenda, goals and relations are behind `settled`: planning may change it in any way, an
analysed verdict needs it, and it stays as it is after any verdict. A node that raises is a
`Plan` step; `Tick`, and `assess_progress` after a verdict, are stuttering. `Attempt` says of
one attempt, list by list, what `Commit`, `Reject` and `Stop` of `Inquiry` say of a sequence
of them.

### RemoteExecution

The store is modelled one file system call at a time, since several processes and
the sweep thread share it: `mkdir`, the write of the record, `rmtree` as the removal
of the record (which touches the directory) and of the directory. What a handler
does between two awaits excludes the other handlers of its own process (`Free`), not
of others. `age` has the three values the code tells apart: fresh, older than
`STALE_RUNNING_SECONDS`, older than the retention. Records age only while nothing
that takes minutes is under way, on either side. A POST may be lost before or after
the worker has taken it, a response may be lost, a worker may die with all its
requests, the control process may start again at `execute` with the same id.
`ran` and `results` are history.

### RunService

One `run_id`. An action is what a handler or a task does between two awaits; all of
them run in one event loop. `Handler(h)` is the request, `Task(h)` the task it
started with `RunRegistry.start`.

| State | Code |
|---|---|
| `pc`, `want`, `seen` | the await an actor is at, the status it is to write, the status it has read |
| `registry`, `cancelling` | `RunRegistry._tasks[run_id]`; tasks with a `CancelledError` on its way |
| `verdict`, `finished`, `report`, `deadline` | in the checkpoint: status and stop code, whether `finalize` was its last node, `report_ref`, `deadline_at` against the clock |
| `row` | `RunRecord.status` |
| `alone`, `reached`, `reopened` | history, read by properties only |

A database call is two actions (`Get`, `Commit`), since the session reads the record
before it commits, and SQLAlchemy writes a column only when its value has changed. A
task that is cancelled during a commit may or may not have committed. A list may
write the status of its snapshot even when it equals the row's (`stop_reason` may
differ). The graph is reduced to its first checkpoint, its verdict and `finalize`;
the verdict `exhausted` takes a deadline that has passed. The 404 checks are merged
with what follows them: a run that exists goes on existing.

A run that hits the recursion limit between its verdict and its report has the
verdict replaced by FAILED (`RecursionLimit`, then `FinishStoppedRun`), which is why
`CompletedIsTrue` speaks of the statuses the checkpoint has had.

### Memory

The file `document`, the lock file `lock`, and for each run a planner call at a time:
its conversation (`known`: the texts whose revision it has), the message it carries
out, and the place in `snapshot` or `write` it is at. Steps are those other processes
can come between: the lookup of the file, the lock, the seed, the comparison, the
rename, the unlocked read. Runs in one server process exclude each other in these
steps, so the model allows more than they do. Revisions are hashes and modelled by the
text itself. A write quotes a revision of the conversation as it was when the
message was posted, or none that exists. Keeping what one has read is left to the
model that writes (`llm/prompts/master_memory_system.md`): the code promises only that
it was read, which is what `Register` says.

### GoalNumbering

The ids `parse_goals` gives: an item of an answer takes the number of its place, also
when it is skipped, and an expansion counts on from the number of goals there are.
`AnalysisLoop` takes ids to be distinct; this module shows that they need not be.
An answer is the sequence of its items, each usable or not.

### Report

| State | Code |
|---|---|
| `pc` | the places at which `finalize` waits: for the Critic's text, for its review |
| `stop`, `critic`, `evidence`, `superseded`, `contradicts`, `unfinished` | what the checkpoint says when `finalize` starts: any combination |
| `intact`, `results` | the result files that still have their hash; `original_results` as this `finalize` has read them |
| `draft`, `report` | the text under way; `report_ref` |

A text is reduced to what `validate_report` reads in it (`Drafts`): citations, the
citations of the section on limits, the figures by the record they come from, the
marks of goals and tasks, the end marker. Three stop codes stand for all: one the
Critic is asked under, the budget, and a service that failed (the Critic's or
another's). `LoseFile` may happen at any time; `BudgetTimeout` where `finalize` waits.

### LocalExecution

Runs that look up the same cache key. A step is what one process does without another
being able to come between; files written by rename change at once, `result.json`, which
the child writes in place, is empty first (`Garbage`). The child goes on when its
control process dies (`Crash`), and is killed and reaped when its node is cancelled
or times out. `AlterFile` and `LoseEntry` change the store at any time; only the cached
path tolerates that (`LookupCode`), the others raise (`NodeRaises`).

| State | Code |
|---|---|
| `pc`, `program`, `candidate`, `repairs`, `evidence` | the run's node and its checkpointed state |
| `cache`, `files` | `program_cache/<key>.json`; `program-<sha>.py` by its hash |
| `workdir`, `children`, `exit` | `program.py` and `result.json` of the iteration; the processes at work; `process.returncode` |
| `orphaned`, `reviewed`, `bereft` | history, read by properties only |

`ResultIsOfItsProgram` and `NoChildOutlivesItsNode` except the runs whose control
process has died on a child. For those they are false: the child goes on in the
directory that the resumed node uses again, and can write its result over that of
a program that was repaired meanwhile. The window is small and no document promises
otherwise, so it is a hazard of PROJECT.json and not a finding.

## 4. Runs

| Run | Module / cfg | Bounds | Shows |
|---|---|---|---|
| `execution_graph` | `MCExecutionGraph` / `ExecutionGraph.cfg` | the limits of the code (5, 1, 5), two contents, two static and one result code, one crash; 194 088 states | the eight properties below |
| `analysis_loop` | `MCAnalysisLoop` / `AnalysisLoop.cfg` | two goals (symmetric), one question, three iterations, two stalls, reviews naming two records, computations citing all there is, any clock; 4.9 million states | ownership of tasks, lineage, honest verdicts, tracked contradictions, a bound of the supersteps, the graph is an inquiry |
| `analysis_ends` | `MCAnalysisLoop` / `AnalysisEnds.cfg` | one goal, five iterations, one stall, reviews naming one record, time enough; 3.5 million states | every run ends; `FinishedMeansProcessed` where a contradiction is found, tried, limited and listed again |
| `remote_execution` | `MCRemoteExecution` / `RemoteExecution.cfg` | three requests, two processes, two attempts, one crash, one restart; 485 038 states | one run, one answer, earned answers, the client returns |
| `run_service` | `MCRunService` / `RunService.cfg` | three requests (symmetric) of any kind, one restart; 302 862 states | one driver, an honest row, lists that reconcile |
| `memory` | `MCMemory` / `Memory.cfg` | two runs, three texts, two rounds of two calls, one death; 455 160 states | the wiki is a register, tool loops end |
| `report` | `MCReport` / `Report.cfg` | three Evidence ids with any relations, one unfinished goal; 128 016 states | a report tells the verdict, rests on originals, is possible, and is written |
| `local_execution` | `MCLocalExecution` / `LocalExecution.cfg` | two runs, two programs (symmetric), one repair, one crash; 1.2 million states | results belong to their programs, no child is left over, the cache is harmless |
| `early_convergence`, `reuse_without_goal`, `same_id_runs_twice`, `finished_run_resumed` | violations | the smallest that show them | [findings](#7-findings) |

Why the bounds are enough. ExecutionGraph has the limits of the code itself; two
static codes let a streak break and start again, and one crash suffices since
`interrupted` is one bit that only successful nodes clear. In AnalysisLoop a
contradiction takes two Evidence records and its resolution a third, hence three
iterations and reviews that name two; five iterations are what it takes to find
one, fail at its task, mark it limited and go on. Two goals let Evidence of one
be reused by another and let verdicts differ. Parents decide nothing but what the audit
sees, so one choice of them is enough: in `analysis_loop` a computation cites every record
there is (`ParentChoices`), the most that could be missing; in `analysis_ends` only the
sources of its task. The proofs hold for any choice. In RemoteExecution two processes are
what a race over a directory takes; three requests are the two of one client
plus one after its restart. In RunService three requests are a create, a stop or a
resume, and a list or resume that overtakes them, each with its task; the proofs say
that more of them change nothing. In Memory two runs race for one document; three
texts let it return to an earlier one (a hash cannot tell) and let a third be lost;
`MAX_TOOL_ROUNDS` is 6 in the code, and two rounds are a conflict and its repair. In
Report a record can be cited, superseded or on a side of a contradiction, and three of
them make two contradictions that share a side; the proofs hold for any number. In
LocalExecution one run fills the cache while the other uses it, with two programs to
confuse and one repair to confuse them in. `STUCK_THRESHOLD` is 5 in the code: two
stalls in a row and one that fails the run are enough to tell counting from not
counting.

The type invariants are proved and not among the runs' properties.

Supersteps. `StepsAreBounded` says that every node takes at least its supersteps from
`Fuel`, so a run takes no more than `Fuel` at its start: with the code's constants
(`STUCK_THRESHOLD` 5, `MAX_GOAL_EXPANSIONS` 5) that is `12 * max_iterations + 31`, the
node `profile_data` before it included. LangGraph counts the subgraph on its own and
each resume from zero. So a run of up to 39 iterations cannot meet `RECURSION_LIMIT`
(500), and one of 500 iterations, which `max_iterations` allows, cannot reach its own
limit in one drive: an iteration takes at least three supersteps.

The properties, by hazard:

- *ExecutionGraph.* `RepairBounds`, `EvidenceIsEarned` (a result is committed only
  as that of the program that produced it), `RepairIsANewRequest` and
  `OneRunPerRound` (execution ids are new when, and only when, the program is),
  `StuckEndsTheAttempt`, `CacheOnlyEarned`, `ImplementsAttempt`, `AttemptEnds`.
- *AnalysisLoop.* `InProgressIsOwned`, `AuditFindsNothing` (the audit's six lineage
  checks on every state, and the demands `AgendaTask` makes of a completed or limited
  task when it is read back), `GoalsCloseOnWork`,
  `QuestionsAreAskedOnce`, `SatisfiedIsHonest`, `ContradictionsAreTracked`,
  `FinishedMeansProcessed`, `VerdictIsKept`, `StepsAreBounded`, `ImplementsInquiry`,
  `AnalysisEnds`.
- *RemoteExecution.* `RunOnce` and `AnswersAgree` while no record has gone stale,
  `AnswerIsEarned` always, `ClientEnds`.
- *RunService.* `OneDriver` (a stopped task that unwinds counts), `CompletedIsTrue`,
  `ListReconciles`.
- *Memory.* `WikiIsARegister`, `ConversationsEnd`.
- *Report.* `ReportTellsTheVerdict` (whatever the budget does meanwhile),
  `ReportRestsOnOriginals`, `AReportIsPossible` (the demands of the validator and of the
  review can be met together), `AReportIsWritten`.
- *LocalExecution.* `ResultIsOfItsProgram`, `NoChildOutlivesItsNode`, `CacheIsHarmless`.

Deadlock is checked in every run; the ends of a run are explicit stuttering steps
(`Done`, `Stopped`, `Idle`, `Served`, `Silent`, `Ends`).

## 5. Fairness

Weak fairness only. `ExecutionGraph!FairSpec` and `AnalysisLoop!FairSpec`: the graph
runner runs the next node, and each wait inside a node has a timeout. Nothing is
assumed of the clock: runs end because stalls, iterations, repairs and expansions
are bounded. `RemoteExecution!FairSpec`: asyncio runs a client that can run, and its
deadline passes; nothing is assumed of the worker, which may never answer.
`Memory!FairSpec`: each process goes on with its planner call, whose requests have
timeouts; the lock is given back by whoever dies. `Report!FairSpec`: the calls of the
Critic have a timeout and `finalize` goes on after them; the budget is not assumed to
expire. `RunService` and `LocalExecution` have no fairness.

## 6. Proofs

`ExecutionGraph_proofs` proves, for every limit, set of contents, set of codes and
number of crashes: `TypeOK`, `RepairBounds`, `EvidenceIsEarned`,
`RepairIsANewRequest`, `OneRunPerRound`, `StuckEndsTheAttempt`, `CacheOnlyEarned` and
the refinement `ImplementsAttempt`. Assumed of the constants:
`ThresholdAssumption` (`MAX_RUNTIME_REPAIRS + 1 < STUCK_THRESHOLD`, 2 < 5 in the
code: a streak of runtime errors cannot reach the threshold before the repairs run
out), `CodesAssumption` (error keys of different validators differ), and that `None`
is no program.

None of the properties is inductive alone. `IInv` adds:

- `PhaseInv`: the attempt is undecided exactly while its node is before the export;
- `EarnedInv`: what each node may take for granted of its program and its gates;
- `RequestInv`: the worker's records belong to earlier rounds of runtime repair,
  except one that is being sent again, which is what makes ids new;
- `StreakInv`: a streak of runtime or result errors is no longer than the repairs
  it caused, so only static errors can reach the threshold;
- `LedgerInv`: the subgraph's lists differ from the main graph's by the outcome.

Each conjunct has a lemma with one case per node; `Implementation` maps the steps
before the export to stuttering and `apply_execution_delta` to `Commit`, `Reject` or
`Stop`.

`AnalysisLoop_proofs` proves, for any number of goals, questions, iterations, stalls,
expansions and named references: `TypeOK`, `InProgressIsOwned`, `AuditFindsNothing`,
`GoalsCloseOnWork`, `QuestionsAreAskedOnce`, `ContradictionsAreTracked`,
`SatisfiedIsHonest`, `FinishedMeansProcessed`, `VerdictIsKept`, `StepsAreBounded` and the
refinement `ImplementsInquiry`. Assumed of the constants: `BoundsAssumption` (the limits
are natural numbers and not zero where the code's are not, the clock's values are those of
the model) and `NoneAssumption` (no id, no task and no intent is `None`). In the order in
which they rest on each other:

- `CoreInv` is inductive by itself and none of its parts is. The counters keep their types
  only because the planner is asked below their limits (`ControlInv`: where a run with a
  given status, intent and iteration can be); that in turn needs that an intent's task is
  in the state its node expects (`IntentInv`), that nobody else holds a task (`HeldInv`) and
  that ids of Evidence and tasks are earlier than the attempt at work (`IdInv`).
- `LineageInv` has `AuditFindsNothing` record by record (`SoundTask` for a task); that a
  task is limited only after an attempt needs `IntentInv`, since the policy looked at it one
  node earlier. `GoalsCloseOnWork`,
  `QuestionsAreAskedOnce` and `ContradictionsAreTracked` are inductive relative to `CoreInv`:
  the first since a commit adds Evidence under a new id and so takes no goal's away, the
  third since a commit that resolves one contradiction may find another in the same step.
- `EndInv` extends `FinishedMeansProcessed` to the run that is at `expand_goals`, which may
  end as analysed, and holds `SatisfiedIsHonest`.
- `StepsAreBounded` compares `Fuel` before and after a step part by part (iterations, stalls,
  expansions, open goals), since each node spends from one part and may refill the ones
  below it: an iteration gives its stalls back, an expansion opens goals.
- `Implementation` takes each node to a step of `Inquiry` or a stutter. That ids are new is
  `IdInv`; that an analysed verdict is settled, `EndInv`.

`RemoteExecution_proofs` proves, for any number of requests, processes, retries,
crashes and restarts: `TypeOK`, `RunOnce`, `AnswersAgree` and `AnswerIsEarned`. All it
assumes is that `None` is no request, process or record. The invariant has two
halves. `FreshInv` is about the time before any record goes stale: the directory is
made once and stays, the actions that remove it cannot be reached, and a request
that has lost its claim therefore finds a record; from this the code has at
most one run. `EarnedInv` needs no such condition: wherever a success or failure is
held (record, response, result), a run ended that way. `AnswersAgree` follows from
both. What is not proved is what is false: `OneRunner`, once records go stale.

`RunService_proofs` proves, for any number of requests and restarts: `TypeOK`,
`OneDriver`, `CompletedIsTrue` and `ListReconciles`. `RegistryInv` (a task that runs is
the registered one) is inductive by itself; `ReachedInv` says that a COMPLETED on its
way into the row comes from the checkpoint, and needs that a graph is finished only
with a verdict; `AloneInv` says that a list with the server to itself holds readings
that are still right, and that nothing else moves until it ends.

`Memory_proofs` proves, for any number of runs, texts, rounds and deaths: `TypeOK` and
the refinement `WikiIsARegister`. `LockInv` says what a run may rely on under the
lock: what it found in the file is there until it writes. A reader relies on less, on
there being a text, which no step takes away.

`Report_proofs` proves, for any Evidence, goals and tasks: `TypeOK`,
`ReportTellsTheVerdict`, `ReportRestsOnOriginals` and `AReportIsPossible`. `DraftInv` says
that the draft under review passed the validator in the state it is reviewed in: the
budget is the only step that changes what the validator looked at, and it takes the
draft with it. `ReportInv` carries that over to the report. `AReportIsPossible` needs
types only: its witness cites what is current and was read, and an unresolved
contradiction has only current sides.

`LocalExecution_proofs` proves, for any number of runs, programs, repairs and crashes:
`TypeOK`, `NoChildOutlivesItsNode`, `ResultIsOfItsProgram` and `CacheIsHarmless`.
`ChildInv` says that a child belongs to a run that waits and has not seen it end, and
that a run has one at most; `WorkInv` follows the text from the run into the directory, the
child and the result, which needs `ChildInv`, since only a second child could write
another program's result there. Both except the runs whose control process died on a
child. `CacheInv` adds to `CacheIsHarmless` that a program on its way into the cache was
reviewed, and that a waiting run whose program is gone lost it after it had taken it: a
waiting run executes again when it is resumed.

Only model-checked: liveness (`AttemptEnds`, `AnalysisEnds`, `ClientEnds`,
`ConversationsEnd`, `AReportIsWritten`), as fairness and ENABLED are beyond the prover. All
other properties of the passing runs are proved. The runs that expect a violation show what
is false, and have nothing to prove.

## 7. Findings

- `NoEarlyConvergence` (`llm/service_common.py:138`): goals are numbered by their place
  in the planner's answer, skipped items included, an expansion by the count of the
  goals kept (`llm/planner_service.py:170`). After an answer [unusable, usable] the goal
  is g2; the expansion starts at 1 and names its first goal g2 again, which then
  converges on the old one's Evidence.
- `ReuseNamesAGoal` (`n/planning.py:304`): a `reuse_evidence` intent without a goal
  passes every policy and makes its node raise, again at each resume.
- `OneRunner` (`worker/app.py:142`): once a record is old enough to be swept or
  reclaimed, two requests for one execution id can run at the same time,
  against `worker/app.py:3`. It takes a record older than the retention, or a stale
  RUNNING record, met by two processes at once.
- `FinishedIsKept` (`service.py:173`): resuming a finished run whose deadline has passed
  executes `finalize` again and replaces verdict and report, also FAILED by COMPLETED
  and an accepted Markdown report by the JSON summary, against `service.py:124`
  (a completed node is not executed again) and `orchestration/README.md:147,160`.

Two more disagreements are behaviours of `AnalysisLoop` that no run isolates. A goal may
be abandoned while its follow-up is pending (`n/planner_decision.py:295`), and no intent
can take the follow-up up any more; `tests/test_policies.py:37` states the rule, which is
kept for convergence only. And a contradiction task closed by `mark_data_limited` is
listed again by the next `assess_progress` (`n/progress.py:246`).

`VerdictIsKept` names one exception on purpose: the budget that expires while
`finalize` writes the report replaces a verdict that was already reached
(`service.py:173`). No document says which is wanted, so it is not a finding.

## 8. What is not covered

- Prompts, parsing and wording: data without control.
- `RunService`: a start that fails before the row is inserted has its FAILED dropped
  and leaves RUNNING in a row without a checkpoint, which no list reconciles. The
  model has this behaviour; no property speaks of it, as nothing says what is wanted.
- `Memory`: the notebook of a run, which has one writer; Windows' locks.
- `AnalysisLoop` leaves out `revalidates` relations, priorities and notes, which no route reads, and dedupe keys and lookup histories, which only
  ever turn an intent down. All Evidence of a run is taken on one snapshot.
- `LocalExecution`: resource limits, and processes that a program starts itself. The
  timeout of `SubprocessSandbox.run` covers the wait for the child and not the reading of
  its pipes (`execution/sandbox.py:194`, `:207`); a process that keeps them open would hold
  the node, cancelled or not.
- The rules of the validators (`validation/`), the profiling of data, the benchmark, the
  evaluation and the command line: sequential functions of tables, source texts and
  numbers, whose verdicts are nondeterministic in the models. The checks of `audit.py`
  on files and on the event log, which no model keeps.
- `RemoteExecution` is about one execution id; different ids share nothing but the
  sweep, which in the model may look at the directory at any time.
