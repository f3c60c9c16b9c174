------------------------------ MODULE RunService ------------------------------
(***************************************************************************)
(* One run_id in the API server: the handlers that create, list, resume    *)
(* and stop it (api/run_routes.py), the tasks that drive it in the         *)
(* background (api/runs.py, service.py), its row in the table of runs      *)
(* (api/db.py) and its checkpoint.  The row is derived from the checkpoint *)
(* but written by everyone.                                                *)
(*                                                                         *)
(* A handler or a task runs alone between two awaits, so an action is what *)
(* lies between two of them.  A database call is two actions, since the    *)
(* session reads the record and commits later, and writes a column only    *)
(* when the value differs from the one it read.  That a run exists, once   *)
(* read, stays true: a 404 check is one action with what follows it.       *)
(*                                                                         *)
(* The graph is abstracted to the verdict it reaches and its last node,    *)
(* finalize; AnalysisLoop has the rest.                                    *)
(***************************************************************************)
EXTENDS Naturals, FiniteSets

CONSTANTS
    Requests,      \* bound: requests about this run
    MaxRestarts,   \* bound on restarts of the server
    None

VARIABLES
    kind,        \* what each request asks for
    pc,          \* what each handler and each task does next
    want,        \* the status its database call is to write
    seen,        \* the status it has read from the row
    registry,    \* RunRegistry: the request whose task is registered
    cancelling,  \* requests whose task has been cancelled and has not ended
    verdict,     \* in the checkpoint: status and stop code
    finished,    \* the graph has run finalize and is at its end
    report,      \* report_ref
    deadline,    \* deadline_at: ahead or passed
    row,         \* status in the table of runs
    alone,       \* history: lists begun with nothing else under way
    reached,     \* history: statuses the checkpoint has had
    reopened,    \* history: tasks that found the run finished when they began
    restarts

actors == <<kind, pc, want, seen>>
checkpoint == <<verdict, finished, report, deadline>>
histories == <<alone, reached, reopened, restarts>>
vars == <<actors, registry, cancelling, checkpoint, row, histories>>

Handler(h) == <<h, "handler">>
Task(h) == <<h, "task">>
Actors == Requests \X {"handler", "task"}

Statuses == {"RUNNING", "COMPLETED", "FAILED"}
Rows == Statuses \union {"STOPPING"}
Verdicts == {"running", "satisfied", "failed", "exhausted"}
Reports == {"markdown", "json"}

ASSUME RunServiceAssumption ==
    /\ MaxRestarts \in Nat
    /\ None \notin Requests \union Rows \union Verdicts \union Reports

\* drive: prepare, graph, stop_*; a database call: get, commit.
Stages == {"idle", "list", "prepare", "graph", "stop_failed",
           "stop_exhausted", "get", "commit", "done"}

TypeOK ==
    /\ kind \in [Requests -> {"create", "resume", "extend", "stop", "list", "none"}]
    /\ pc \in [Actors -> Stages]
    /\ want \in [Actors -> Rows \union {None}]
    /\ seen \in [Actors -> Rows \union {None}]
    /\ registry \in Requests \union {None}
    /\ cancelling \subseteq Requests
    /\ verdict \in Verdicts \union {None}
    /\ finished \in BOOLEAN
    /\ report \in Reports \union {None}
    /\ deadline \in {"ahead", "passed"}
    /\ row \in Rows \union {None}
    /\ alone \subseteq Requests
    /\ reached \subseteq Statuses
    /\ reopened \subseteq Requests
    /\ restarts \in 0 .. MaxRestarts

StatusOf(v) == CASE v = "running" -> "RUNNING"
                 [] v = "failed"  -> "FAILED"
                 [] OTHER         -> "COMPLETED"

Active(a) == pc[a] \notin {"idle", "done"}

\* RunRegistry.is_active: the registered task has not ended.
is_active == registry # None /\ Active(Task(registry))

Quiet == \A a \in Actors : ~Active(a)

Init ==
    /\ kind = [h \in Requests |-> "none"]
    /\ pc = [a \in Actors |-> "idle"]
    /\ want = [a \in Actors |-> None]
    /\ seen = [a \in Actors |-> None]
    /\ registry = None /\ cancelling = {}
    /\ verdict = None /\ finished = FALSE /\ report = None /\ deadline = "ahead"
    /\ row = None
    /\ alone = {} /\ reached = {} /\ reopened = {}
    /\ restarts = 0

Goto(a, stage) == pc' = [pc EXCEPT ![a] = stage]

\* The local variables of the call go with it.
End(a) ==
    /\ Goto(a, "done")
    /\ want' = [want EXCEPT ![a] = None]
    /\ seen' = [seen EXCEPT ![a] = None]

-------------------------------------------------------------------------------
(* The table of runs: upsert_run and update_status.                           *)

\* The actor goes on to write a status.
Update(a, status) ==
    /\ Goto(a, "get")
    /\ want' = [want EXCEPT ![a] = status]

Upserts(a) == a[2] = "handler" /\ kind[a[1]] = "create"

\* update_status does nothing about a run that is not in the table.
Get(a) ==
    /\ pc[a] = "get"
    /\ IF row = None /\ ~Upserts(a)
       THEN End(a)
       ELSE Goto(a, "commit") /\ seen' = [seen EXCEPT ![a] = row] /\ UNCHANGED want
    /\ UNCHANGED <<kind, registry, cancelling, checkpoint, row, histories>>

\* An insert that meets a row of this run_id fails; an unchanged value is not written.
Write(a) ==
    row' = IF seen[a] = None
           THEN IF row = None THEN want[a] ELSE row
           ELSE IF want[a] # seen[a] THEN want[a] ELSE row

Commit(a) ==
    /\ pc[a] = "commit"
    /\ Write(a)
    /\ End(a)
    /\ UNCHANGED <<kind, registry, cancelling, checkpoint, histories>>

Uncancelled(a) == a[2] = "task" => a[1] \notin cancelling
Database == \E a \in Actors : Uncancelled(a) /\ (Get(a) \/ Commit(a))

-------------------------------------------------------------------------------
(* The endpoints.                                                             *)

Called(h, k) ==
    /\ kind[h] = "none"
    /\ kind' = [kind EXCEPT ![h] = k]

\* RunRegistry.start, and the database call that follows it.
StartTask(h, status) ==
    /\ registry' = h
    /\ pc' = [pc EXCEPT ![Task(h)] = "prepare", ![Handler(h)] = "get"]
    /\ want' = [want EXCEPT ![Handler(h)] = status]

\* 404 and 409.
Refuse(h) == Goto(Handler(h), "done") /\ UNCHANGED <<want, registry>>

CreateRun(h) ==
    /\ Called(h, "create")
    /\ IF is_active THEN Refuse(h) ELSE StartTask(h, "RUNNING")
    /\ alone' = {}
    /\ UNCHANGED <<seen, cancelling, checkpoint, row, reached, reopened, restarts>>

\* "extend" is a resume with a new time budget.
ResumeRun(h) ==
    /\ \E k \in {"resume", "extend"} : Called(h, k)
    /\ IF verdict = None \/ is_active THEN Refuse(h) ELSE StartTask(h, "RUNNING")
    /\ alone' = {}
    /\ UNCHANGED <<seen, cancelling, checkpoint, row, reached, reopened, restarts>>

\* Mutated: the cancelled task is forgotten at once.
StopRunForgets(h) ==
    /\ Called(h, "stop")
    /\ IF verdict = None \/ ~is_active
       THEN Refuse(h) /\ UNCHANGED cancelling
       ELSE /\ cancelling' = cancelling \union {registry}
            /\ Update(Handler(h), "STOPPING")
            /\ registry' = None
    /\ alone' = {}
    /\ UNCHANGED <<seen, checkpoint, row, reached, reopened, restarts>>

StopRun(h) ==
    /\ Called(h, "stop")
    /\ IF verdict = None \/ ~is_active
       THEN Refuse(h) /\ UNCHANGED cancelling
       ELSE /\ cancelling' = cancelling \union {registry}
            /\ Update(Handler(h), "STOPPING")
            /\ UNCHANGED registry
    /\ alone' = {}
    /\ UNCHANGED <<seen, checkpoint, row, reached, reopened, restarts>>

\* list_runs reads the table ...
ListRuns(h) ==
    /\ Called(h, "list")
    /\ Goto(Handler(h), IF row = None THEN "done" ELSE "list")
    /\ seen' = [seen EXCEPT ![Handler(h)] = row]
    /\ alone' = IF Quiet THEN {h} ELSE {}
    /\ UNCHANGED <<want, registry, cancelling, checkpoint, row, reached, reopened, restarts>>

\* Mutated: only a row that says RUNNING is compared with its checkpoint.
ReconcileRunning(h) ==
    /\ pc[Handler(h)] = "list"
    /\ IF verdict = None \/ seen[Handler(h)] # "RUNNING"
       THEN End(Handler(h))
       ELSE Update(Handler(h), StatusOf(verdict)) /\ UNCHANGED seen
    /\ UNCHANGED <<kind, registry, cancelling, checkpoint, row, histories>>

\* ... then the checkpoint, and writes the row when status or stop_reason differ.
Reconcile(h) ==
    /\ pc[Handler(h)] = "list"
    /\ \/ /\ verdict = None \/ seen[Handler(h)] = StatusOf(verdict)
          /\ End(Handler(h))
       \/ /\ verdict # None
          /\ Update(Handler(h), StatusOf(verdict))
          /\ UNCHANGED seen
    /\ UNCHANGED <<kind, registry, cancelling, checkpoint, row, histories>>

-------------------------------------------------------------------------------
(* The task: drive, AnalysisService.start and resume, _drive.                 *)

At(h, stage) == pc[Task(h)] = stage /\ h \notin cancelling

Raise(h) == Update(Task(h), "FAILED")

\* Without its services the task ends before anything is recorded; a new run must
\* be new, and its data may be unreadable.
Prepare(h) ==
    /\ At(h, "prepare")
    /\ \/ Goto(Task(h), "done") /\ UNCHANGED <<want, deadline>>
       \/ /\ (kind[h] = "create") = (verdict = None)
          /\ Goto(Task(h), "graph")
          /\ deadline' = IF kind[h] \in {"create", "extend"} THEN "ahead" ELSE deadline
          /\ UNCHANGED want
       \/ /\ kind[h] = "create" \/ verdict = None
          /\ Raise(h)
          /\ UNCHANGED deadline
    /\ reopened' = IF finished THEN reopened \union {h} ELSE reopened
    /\ UNCHANGED <<kind, seen, registry, cancelling, verdict, finished, report, row,
                   alone, reached, restarts>>

Reach == reached' = reached \union {StatusOf(verdict')}

\* The graph's first checkpoint, then a node that reaches a verdict.
Advance(h) ==
    /\ At(h, "graph") /\ verdict \in {None, "running"}
    /\ \/ verdict = None /\ verdict' = "running"
       \/ verdict = "running" /\ verdict' \in {"satisfied", "failed"}
       \/ verdict = "running" /\ deadline = "passed" /\ verdict' = "exhausted"
    /\ Reach
    /\ UNCHANGED <<actors, registry, cancelling, finished, report, deadline, row,
                   alone, reopened, restarts>>

\* write_report: no text is generated once the budget is gone, and a text that does
\* not pass its validation and review is replaced by the JSON summary.
Report(v) == report' \in IF v = "exhausted" THEN {"json"} ELSE Reports

Finalize(h) ==
    /\ At(h, "graph") /\ verdict \notin {None, "running"} /\ ~finished
    /\ finished' = TRUE
    /\ Report(verdict)
    /\ UNCHANGED <<actors, registry, cancelling, verdict, deadline, row, histories>>

\* Mutated: a run whose graph returned is taken for complete.
ReturnCompleted(h, v) == Update(Task(h), "COMPLETED")

\* The status of the handle, read from the checkpoint, goes to the table.
Return(h, v) == Update(Task(h), StatusOf(v))

GraphReturns(h) ==
    /\ At(h, "graph") /\ finished
    /\ Return(h, verdict)
    /\ UNCHANGED <<kind, seen, registry, cancelling, checkpoint, row, histories>>

GraphRaises(h) ==
    /\ At(h, "graph") /\ ~finished
    /\ Raise(h)
    /\ UNCHANGED <<kind, seen, registry, cancelling, checkpoint, row, histories>>

RecursionLimit(h) ==
    /\ At(h, "graph") /\ verdict # None /\ ~finished
    /\ Goto(Task(h), "stop_failed")
    /\ UNCHANGED <<kind, want, seen, registry, cancelling, checkpoint, row, histories>>

\* The timeout encloses the graph and what follows the recursion limit.
BudgetExpires(h) ==
    /\ At(h, "graph") \/ At(h, "stop_failed")
    /\ deadline = "passed"
    /\ Goto(Task(h), "stop_exhausted")
    /\ UNCHANGED <<kind, want, seen, registry, cancelling, checkpoint, row, histories>>

FinishStoppedRun(h) ==
    /\ \E v \in {"failed", "exhausted"} :
          /\ At(h, IF v = "failed" THEN "stop_failed" ELSE "stop_exhausted")
          /\ verdict' = v /\ finished' = TRUE
          /\ Report(v)
          /\ Return(h, v)
    /\ Reach
    /\ UNCHANGED <<kind, seen, registry, cancelling, deadline, row, alone, reopened, restarts>>

\* CancelledError passes `except Exception`: nothing is recorded, except by a commit
\* that was under way.
Cancelled(h) ==
    /\ h \in cancelling
    /\ End(Task(h))
    /\ cancelling' = cancelling \ {h}
    /\ \/ UNCHANGED row
       \/ pc[Task(h)] = "commit" /\ Write(Task(h))
    /\ UNCHANGED <<kind, registry, checkpoint, histories>>

Drive(h) ==
    \/ Prepare(h) \/ Advance(h) \/ Finalize(h) \/ GraphReturns(h)
    \/ GraphRaises(h) \/ RecursionLimit(h) \/ BudgetExpires(h) \/ FinishStoppedRun(h)
    \/ Cancelled(h)

-------------------------------------------------------------------------------
Tick ==
    /\ verdict # None /\ deadline = "ahead"
    /\ deadline' = "passed"
    /\ UNCHANGED <<actors, registry, cancelling, verdict, finished, report, row, histories>>

\* Handlers and tasks die; the table and the checkpoint stay.
ServerRestart ==
    /\ restarts < MaxRestarts /\ ~Quiet
    /\ pc' = [a \in Actors |-> IF Active(a) THEN "done" ELSE pc[a]]
    /\ want' = [a \in Actors |-> None] /\ seen' = [a \in Actors |-> None]
    /\ registry' = None /\ cancelling' = {} /\ alone' = {}
    /\ restarts' = restarts + 1
    /\ UNCHANGED <<kind, checkpoint, row, reached, reopened>>

Endpoint(h) == CreateRun(h) \/ ResumeRun(h) \/ StopRun(h) \/ ListRuns(h) \/ Reconcile(h)

Served == Quiet /\ (\A h \in Requests : kind[h] # "none") /\ UNCHANGED vars

Next ==
    \/ \E h \in Requests : Endpoint(h) \/ Drive(h)
    \/ Database \/ Tick \/ ServerRestart \/ Served

Spec == Init /\ [][Next]_vars

-------------------------------------------------------------------------------
(* What the server may never do to a run.                                     *)

\* Two tasks never drive one checkpoint: a stopped task that is still unwinding
\* counts, and a resume waits for it to end (api/runs.py: no concurrent ainvoke).
OneDriver == \A g, h \in Requests : Active(Task(g)) /\ Active(Task(h)) => g = h

\* A run is listed as COMPLETED only after its checkpoint was, whichever of the
\* handlers and tasks that hold older readings wrote the row last.
CompletedIsTrue == row = "COMPLETED" => "COMPLETED" \in reached

\* What interrupted, overtaken or failed writers left in the row, one list with
\* nothing else under way sets right (api/db.py: a value derived from the checkpoint).
ListReconciles ==
    \A h \in alone :
       pc[Handler(h)] = "done" /\ row # None /\ verdict # None => row = StatusOf(verdict)

\* service.py, resume: a node that has completed is not executed again.  When the
\* deadline has passed, a resume of a finished run executes finalize once more,
\* over the verdict and the report that are there.
FinishedIsKept ==
    [][(\E h \in reopened : Active(Task(h))) => UNCHANGED <<verdict, finished, report>>]_vars
=============================================================================
