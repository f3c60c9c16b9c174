-------------------------- MODULE RunService_proofs --------------------------
(***************************************************************************)
(* Proofs about RunService for any number of requests and restarts.        *)
(*                                                                         *)
(* One driver follows from the registry alone.  What the row says follows  *)
(* from what its writers hold: a status that an actor is about to write is *)
(* one the checkpoint has had, and a list that has the server to itself    *)
(* holds readings that are not out of date.                                *)
(***************************************************************************)
EXTENDS RunService, TLAPS

\* The task that runs is the registered one.
RegistryInv == \A h \in Requests : Active(Task(h)) => registry = h

\* A status on its way into the row comes from the checkpoint.
ReachedInv ==
    /\ finished => verdict # None
    /\ verdict # None => StatusOf(verdict) \in reached
    /\ row = "COMPLETED" => "COMPLETED" \in reached
    /\ \A a \in Actors : want[a] = "COMPLETED" => "COMPLETED" \in reached

\* A list with nothing else under way.
AloneInv ==
    \A h \in alone :
       /\ kind[h] = "list"
       /\ pc[Handler(h)] \in {"list", "get", "commit", "done"}
       /\ \A a \in Actors : Active(a) => a = Handler(h)
       /\ pc[Handler(h)] \in {"list", "commit"} => seen[Handler(h)] = row /\ row # None
       /\ pc[Handler(h)] \in {"get", "commit"} =>
             verdict # None /\ want[Handler(h)] = StatusOf(verdict)
       /\ pc[Handler(h)] = "done" /\ row # None /\ verdict # None => row = StatusOf(verdict)

IInv == TypeOK /\ RegistryInv /\ ReachedInv /\ AloneInv
-------------------------------------------------------------------------------
\* A handler is no task, and an actor is one or the other.
LEMMA ActorFacts ==
    /\ \A h \in Requests : Handler(h) \in Actors /\ Task(h) \in Actors
    /\ \A g, h \in Requests : Handler(g) # Task(h)
    /\ \A g, h \in Requests : (Task(g) = Task(h) \/ Handler(g) = Handler(h)) => g = h
    /\ \A a \in Actors : \E h \in Requests : a = Handler(h) \/ a = Task(h)
<1>1. \A h \in Requests : Handler(h) \in Actors /\ Task(h) \in Actors
  BY DEF Handler, Task, Actors
<1>2. \A g, h \in Requests : Handler(g) # Task(h)
  BY DEF Handler, Task
<1>3. \A g, h \in Requests : (Task(g) = Task(h) \/ Handler(g) = Handler(h)) => g = h
  BY DEF Handler, Task
<1>4. ASSUME NEW a \in Actors PROVE \E h \in Requests : a = Handler(h) \/ a = Task(h)
  <2>1. PICK h \in Requests, k \in {"handler", "task"} : a = <<h, k>>
    BY DEF Actors
  <2> QED
    BY <2>1 DEF Handler, Task
<1> QED
  BY <1>1, <1>2, <1>3, <1>4

\* The cases of a step.
LEMMA StepCases ==
    ASSUME [Next]_vars
    PROVE  \/ \E h \in Requests :
                 \/ CreateRun(h) \/ ResumeRun(h) \/ StopRun(h) \/ ListRuns(h) \/ Reconcile(h)
                 \/ Prepare(h) \/ Advance(h) \/ Finalize(h) \/ GraphReturns(h) \/ GraphRaises(h)
                 \/ RecursionLimit(h) \/ BudgetExpires(h) \/ FinishStoppedRun(h) \/ Cancelled(h)
           \/ \E a \in Actors : Uncancelled(a) /\ (Get(a) \/ Commit(a))
           \/ Tick \/ ServerRestart \/ UNCHANGED vars
BY DEF Next, Endpoint, Drive, Database, Served

LEMMA StatusType == \A v \in Verdicts : StatusOf(v) \in Statuses
BY DEF Verdicts, Statuses, StatusOf

LEMMA TypeInit == Init => TypeOK
<1> SUFFICES ASSUME Init PROVE TypeOK
  OBVIOUS
<1>1. /\ kind \in [Requests -> {"create", "resume", "extend", "stop", "list", "none"}]
      /\ pc \in [Actors -> Stages]
      /\ want \in [Actors -> Rows \union {None}]
      /\ seen \in [Actors -> Rows \union {None}]
  BY DEF Init, Stages
<1>2. restarts \in 0 .. MaxRestarts
  BY RunServiceAssumption DEF Init
<1> QED
  BY <1>1, <1>2 DEF Init, TypeOK

LEMMA TypeStep == ASSUME TypeOK, [Next]_vars PROVE TypeOK'
<1> USE RunServiceAssumption, ActorFacts, StatusType
        DEF TypeOK, Stages, Rows, Statuses, actors, checkpoint, histories, Goto, End, Update
<1>1. ASSUME NEW h \in Requests, CreateRun(h) PROVE TypeOK'
  BY <1>1 DEF CreateRun, Called, Refuse, StartTask
<1>2. ASSUME NEW h \in Requests, ResumeRun(h) PROVE TypeOK'
  <2>1. kind' \in [Requests -> {"create", "resume", "extend", "stop", "list", "none"}]
    BY <1>2 DEF ResumeRun, Called
  <2>2. /\ pc' \in [Actors -> Stages] /\ want' \in [Actors -> Rows \union {None}]
        /\ registry' \in Requests \union {None}
    <3>1. CASE Refuse(h)
      BY <3>1 DEF Refuse
    <3>2. CASE StartTask(h, "RUNNING")
      BY <3>2 DEF StartTask
    <3> QED
      BY <1>2, <3>1, <3>2 DEF ResumeRun
  <2>3. /\ UNCHANGED <<seen, cancelling, verdict, finished, report, deadline, row, reached,
                       reopened, restarts>>
        /\ alone' = {}
    BY <1>2 DEF ResumeRun
  <2> QED
    BY <2>1, <2>2, <2>3
<1>3. ASSUME NEW h \in Requests, StopRun(h) PROVE TypeOK'
  BY <1>3 DEF StopRun, Called, Refuse, is_active
<1>4. ASSUME NEW h \in Requests, ListRuns(h) PROVE TypeOK'
  BY <1>4 DEF ListRuns, Called
<1>5. ASSUME NEW h \in Requests, Reconcile(h) PROVE TypeOK'
  BY <1>5 DEF Reconcile
<1>6. ASSUME NEW h \in Requests, Prepare(h) PROVE TypeOK'
  BY <1>6 DEF Prepare, At, Raise
<1>7. ASSUME NEW h \in Requests, Advance(h) PROVE TypeOK'
  BY <1>7 DEF Advance, Reach, Verdicts
<1>8. ASSUME NEW h \in Requests, Finalize(h) PROVE TypeOK'
  BY <1>8 DEF Finalize, Report, Reports
<1>9. ASSUME NEW h \in Requests, GraphReturns(h) \/ GraphRaises(h) PROVE TypeOK'
  BY <1>9 DEF GraphReturns, GraphRaises, Return, Raise, StatusOf
<1>10. ASSUME NEW h \in Requests, RecursionLimit(h) \/ BudgetExpires(h) PROVE TypeOK'
  BY <1>10 DEF RecursionLimit, BudgetExpires
<1>11. ASSUME NEW h \in Requests, FinishStoppedRun(h) PROVE TypeOK'
  <2>1. PICK v \in {"failed", "exhausted"} : verdict' = v /\ Report(v) /\ Return(h, v)
    BY <1>11 DEF FinishStoppedRun
  <2>2. StatusOf(v) \in Statuses /\ v \in Verdicts /\ report' \in Reports
    BY <2>1 DEF Verdicts, Report, Reports
  <2> QED
    BY <1>11, <2>1, <2>2 DEF FinishStoppedRun, Return, Reach
<1>12. ASSUME NEW h \in Requests, Cancelled(h) PROVE TypeOK'
  BY <1>12 DEF Cancelled, Write
<1>13. ASSUME NEW a \in Actors, Get(a) \/ Commit(a) PROVE TypeOK'
  <2>1. CASE Get(a)
    BY <2>1 DEF Get
  <2>2. CASE Commit(a)
    <3>1. row' \in Rows \union {None}
      BY <2>2 DEF Commit, Write
    <3> QED
      BY <2>2, <3>1 DEF Commit
  <2> QED
    BY <1>13, <2>1, <2>2
<1>14. CASE Tick
  BY <1>14 DEF Tick
<1>15. CASE ServerRestart
  BY <1>15 DEF ServerRestart, Active
<1>16. CASE UNCHANGED vars
  BY <1>16 DEF vars
<1> QED
  BY <1>1, <1>2, <1>3, <1>4, <1>5, <1>6, <1>7, <1>8, <1>9, <1>10, <1>11, <1>12, <1>13,
     <1>14, <1>15, <1>16, StepCases

-------------------------------------------------------------------------------
\* Only a request that finds no registered task at work registers one.
LEMMA RegistryStep == ASSUME TypeOK, RegistryInv, [Next]_vars PROVE RegistryInv'
<1> SUFFICES ASSUME NEW s \in Requests PROVE Active(Task(s))' => registry' = s
  BY DEF RegistryInv
<1> USE RunServiceAssumption, ActorFacts
        DEF TypeOK, RegistryInv, Active, actors, checkpoint, histories, Goto, End, Update
<1>1. ASSUME NEW h \in Requests, CreateRun(h) \/ ResumeRun(h)
      PROVE  Active(Task(s))' => registry' = s
  BY <1>1 DEF CreateRun, ResumeRun, Refuse, StartTask, is_active
<1>2. ASSUME NEW h \in Requests, StopRun(h) \/ ListRuns(h) \/ Reconcile(h)
      PROVE  Active(Task(s))' => registry' = s
  BY <1>2 DEF StopRun, Refuse, ListRuns, Reconcile
<1>3. ASSUME NEW h \in Requests,
             Prepare(h) \/ GraphReturns(h) \/ GraphRaises(h) \/ RecursionLimit(h)
                \/ BudgetExpires(h) \/ FinishStoppedRun(h)
      PROVE  Active(Task(s))' => registry' = s
  <2>1. registry' = registry /\ Active(Task(h))
    BY <1>3 DEF Prepare, GraphReturns, GraphRaises, RecursionLimit, BudgetExpires,
                FinishStoppedRun, At
  <2>2. \E stage \in Stages : Goto(Task(h), stage)
    BY <1>3 DEF Prepare, GraphReturns, GraphRaises, RecursionLimit, BudgetExpires,
                FinishStoppedRun, Raise, Return, Stages
  <2> QED
    BY <2>1, <2>2
<1>4. ASSUME NEW h \in Requests, Advance(h) \/ Finalize(h) \/ Cancelled(h)
      PROVE  Active(Task(s))' => registry' = s
  BY <1>4 DEF Advance, Finalize, Cancelled
<1>5. ASSUME NEW a \in Actors, Get(a) \/ Commit(a)
      PROVE  Active(Task(s))' => registry' = s
  BY <1>5 DEF Get, Commit
<1>6. CASE Tick
  BY <1>6 DEF Tick
<1>7. CASE ServerRestart
  BY <1>7 DEF ServerRestart
<1>8. CASE UNCHANGED vars
  BY <1>8 DEF vars
<1> QED
  BY <1>1, <1>2, <1>3, <1>4, <1>5, <1>6, <1>7, <1>8, StepCases

-------------------------------------------------------------------------------
\* Whoever writes a status had it from the checkpoint, or writes another.
LEMMA ReachedStep == ASSUME TypeOK, ReachedInv, [Next]_vars PROVE ReachedInv'
<1> USE RunServiceAssumption, ActorFacts
        DEF TypeOK, ReachedInv, Rows, Statuses, actors, checkpoint, histories, Goto, End, Update
<1>1. ASSUME NEW h \in Requests, CreateRun(h) \/ ResumeRun(h) \/ StopRun(h) \/ ListRuns(h)
      PROVE  ReachedInv'
  BY <1>1 DEF CreateRun, ResumeRun, StopRun, ListRuns, Refuse, StartTask
<1>2. ASSUME NEW h \in Requests, Reconcile(h) PROVE ReachedInv'
  BY <1>2 DEF Reconcile
<1>3. ASSUME NEW h \in Requests,
             Prepare(h) \/ GraphRaises(h) \/ RecursionLimit(h) \/ BudgetExpires(h)
      PROVE  ReachedInv'
  BY <1>3 DEF Prepare, GraphRaises, Raise, RecursionLimit, BudgetExpires
<1>4. ASSUME NEW h \in Requests, GraphReturns(h) PROVE ReachedInv'
  BY <1>4 DEF GraphReturns, Return
<1>5. ASSUME NEW h \in Requests, Advance(h) PROVE ReachedInv'
  BY <1>5 DEF Advance, Reach, Verdicts
<1>6. ASSUME NEW h \in Requests, Finalize(h) PROVE ReachedInv'
  BY <1>6 DEF Finalize
<1>7. ASSUME NEW h \in Requests, FinishStoppedRun(h) PROVE ReachedInv'
  <2>1. PICK v \in {"failed", "exhausted"} : verdict' = v /\ Return(h, v)
    BY <1>7 DEF FinishStoppedRun
  <2>2. verdict' # None
    BY <2>1 DEF Verdicts
  <2> QED
    BY <1>7, <2>1, <2>2 DEF FinishStoppedRun, Return, Reach
<1>8. ASSUME NEW h \in Requests, Cancelled(h) PROVE ReachedInv'
  BY <1>8 DEF Cancelled, Write
<1>9. ASSUME NEW a \in Actors, Get(a) \/ Commit(a) PROVE ReachedInv'
  BY <1>9 DEF Get, Commit, Write
<1>10. CASE Tick
  BY <1>10 DEF Tick
<1>11. CASE ServerRestart
  BY <1>11 DEF ServerRestart
<1>12. CASE UNCHANGED vars
  BY <1>12 DEF vars
<1> QED
  BY <1>1, <1>2, <1>3, <1>4, <1>5, <1>6, <1>7, <1>8, <1>9, <1>10, <1>11, <1>12, StepCases

-------------------------------------------------------------------------------
\* While a list is alone, no task and no other handler moves.
LEMMA AloneStep == ASSUME TypeOK, AloneInv, [Next]_vars PROVE AloneInv'
<1> USE RunServiceAssumption, ActorFacts
        DEF TypeOK, AloneInv, Active, actors, checkpoint, histories, Goto, End, Update
<1>1. ASSUME NEW h \in Requests, CreateRun(h) \/ ResumeRun(h) \/ StopRun(h)
      PROVE  AloneInv'
  BY <1>1 DEF CreateRun, ResumeRun, StopRun
<1>2. ASSUME NEW h \in Requests, ListRuns(h) PROVE AloneInv'
  BY <1>2 DEF ListRuns, Called, Quiet
<1>3. ASSUME NEW h \in Requests, Reconcile(h) PROVE AloneInv'
  BY <1>3 DEF Reconcile
<1>4. ASSUME NEW h \in Requests,
             Prepare(h) \/ Advance(h) \/ Finalize(h) \/ GraphReturns(h) \/ GraphRaises(h)
                \/ RecursionLimit(h) \/ BudgetExpires(h) \/ FinishStoppedRun(h)
      PROVE  AloneInv'
  <2>1. Active(Task(h)) /\ alone' = alone
    BY <1>4 DEF Prepare, Advance, Finalize, GraphReturns, GraphRaises, RecursionLimit,
                BudgetExpires, FinishStoppedRun, At
  <2>2. alone = {}
    BY <2>1
  <2> QED
    BY <2>1, <2>2
<1>5. ASSUME NEW h \in Requests, Cancelled(h) PROVE AloneInv'
  BY <1>5 DEF Cancelled
<1>6. ASSUME NEW a \in Actors, Get(a) PROVE AloneInv'
  <2> SUFFICES ASSUME NEW h \in alone PROVE AloneInv'
    BY <1>6 DEF Get
  <2>1. a = Handler(h)
    BY <1>6 DEF Get
  <2>2. ~Upserts(a)
    BY <2>1 DEF Upserts, Handler
  <2>3. \A g \in alone : g = h
    BY <1>6, <2>1 DEF Get
  <2> QED
    BY <1>6, <2>1, <2>2, <2>3 DEF Get
<1>7. ASSUME NEW a \in Actors, Commit(a) PROVE AloneInv'
  BY <1>7 DEF Commit, Write
<1>8. CASE Tick
  BY <1>8 DEF Tick
<1>9. CASE ServerRestart
  BY <1>9 DEF ServerRestart
<1>10. CASE UNCHANGED vars
  BY <1>10 DEF vars
<1> QED
  BY <1>1, <1>2, <1>3, <1>4, <1>5, <1>6, <1>7, <1>8, <1>9, <1>10, StepCases

-------------------------------------------------------------------------------
LEMMA Invariance == Spec => []IInv
<1>1. Init => IInv
  <2> SUFFICES ASSUME Init PROVE IInv
    OBVIOUS
  <2>1. RegistryInv
    BY ActorFacts DEF Init, RegistryInv, Active
  <2>2. ReachedInv
    BY RunServiceAssumption DEF Init, ReachedInv, Rows, Statuses
  <2>3. AloneInv
    BY DEF Init, AloneInv
  <2> QED
    BY <2>1, <2>2, <2>3, TypeInit DEF IInv
<1>2. IInv /\ [Next]_vars => IInv'
  BY TypeStep, RegistryStep, ReachedStep, AloneStep DEF IInv
<1> QED
  BY <1>1, <1>2, PTL DEF Spec

\* Registry, row, checkpoint and the locals of every handler and task have their types.
THEOREM TypeCorrect == Spec => []TypeOK
BY Invariance, PTL DEF IInv

\* However requests create, stop and resume a run, and a stopped task takes its time
\* to unwind, two tasks never drive it at once (api/runs.py).
THEOREM OneDriverAtATime == Spec => []OneDriver
<1>1. IInv => OneDriver
  BY DEF IInv, RegistryInv, OneDriver
<1> QED
  BY <1>1, Invariance, PTL

\* No order of the handlers' and tasks' late writes lists a run as COMPLETED whose
\* checkpoint never was (api/run_routes.py, api/db.py).
THEOREM CompletedIsEarned == Spec => []CompletedIsTrue
<1>1. IInv => CompletedIsTrue
  BY DEF IInv, ReachedInv, CompletedIsTrue
<1> QED
  BY <1>1, Invariance, PTL

\* Whatever was left in the row, a list that had the server to itself has set it
\* to what the checkpoint says (api/run_routes.py, list_runs).
THEOREM ListsReconcile == Spec => []ListReconciles
<1>1. IInv => ListReconciles
  BY DEF IInv, AloneInv, ListReconciles
<1> QED
  BY <1>1, Invariance, PTL
=============================================================================
