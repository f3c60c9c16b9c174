--------------------------- MODULE RemoteExecution ---------------------------
(***************************************************************************)
(* One execution_id between the control process and the workers: the       *)
(* client RemoteSandbox (execution/remote_sandbox.py), the handlers of     *)
(* POST /executions (worker/app.py), and the directory that is both lock   *)
(* and record (worker/store.py), with the sweep of old records.            *)
(*                                                                         *)
(* One action per file system call of the store, since several worker      *)
(* processes and the sweep thread share the directory; what a handler does *)
(* between two awaits excludes the other handlers of its own process.      *)
(*                                                                         *)
(* A record is as old as its directory: both are written together.         *)
(* Nothing ages while code is running: a run ends within its timeout of    *)
(* minutes, records go stale after hours.                                  *)
(***************************************************************************)
EXTENDS Naturals, FiniteSets

CONSTANTS
    Posts,             \* bound: requests that reach a worker
    Processes,         \* worker processes on one state directory
    CONNECT_RETRIES,   \* _CONNECT_RETRIES
    MaxCrashes,        \* bound on worker crashes
    MaxRestarts,       \* bound on restarts of the control process
    None

\* "refused" is FAILED with a refused_reason: an error inside the worker, or code
\* its sandbox would not run.
Terminal == {"SUCCEEDED", "FAILED", "refused"}
Records == Terminal \union {"RUNNING"}

ASSUME RemoteAssumption ==
    /\ CONNECT_RETRIES \in Nat \ {0}
    /\ MaxCrashes \in Nat /\ MaxRestarts \in Nat
    /\ None \notin Posts \union Processes \union Records

VARIABLES
    dir,       \* the directory of the execution_id and the record in it
    age,       \* 0: fresh, 1: over STALE_RUNNING_SECONDS, 2: over retention
    sweeper,   \* the sweep that looks at this directory
    pc,        \* what each request's handler does next
    process,   \* the worker process that serves a request
    reply,     \* its response
    client, attempt, call, answer,
    results,   \* history: what run() returned, over restarts
    ran,       \* history: requests whose code was run, with how it ended
    aged,      \* history: a record has gone stale
    crashes, restarts

store == <<dir, age, sweeper>>
handlers == <<pc, process, reply>>
caller == <<client, attempt, call, answer, results>>
history == <<ran, aged, crashes, restarts>>
vars == <<store, handlers, caller, history>>

\* Between the awaits of create_execution: claim and what follows a lost claim.
Claiming == {"stale", "unlink", "rmdir", "remake", "write", "read"}
Stages == Claiming \union {"idle", "claim", "run", "replied", "dead"}

TypeOK ==
    /\ dir \in Records \union {"absent", "empty"}
    /\ age \in 0 .. 2
    /\ sweeper \in {"idle", "unlink", "rmdir"}
    /\ pc \in [Posts -> Stages]
    /\ process \in [Posts -> Processes \union {None}]
    /\ reply \in [Posts -> Records \union {None}]
    /\ client \in {"post", "wait", "lookup", "await", "done"}
    /\ attempt \in 1 .. CONNECT_RETRIES
    /\ call \in Posts \union {None}
    /\ answer \in Records \union {None}
    /\ results \subseteq Terminal
    /\ ran \subseteq Posts \X (Terminal \union {"running"})
    /\ aged \in BOOLEAN
    /\ crashes \in 0 .. MaxCrashes
    /\ restarts \in 0 .. MaxRestarts

Init ==
    /\ dir = "absent" /\ age = 0 /\ sweeper = "idle"
    /\ pc = [h \in Posts |-> "idle"]
    /\ process = [h \in Posts |-> None]
    /\ reply = [h \in Posts |-> None]
    /\ client = "post" /\ attempt = 1 /\ call = None /\ answer = None
    /\ results = {} /\ ran = {} /\ aged = FALSE
    /\ crashes = 0 /\ restarts = 0

-------------------------------------------------------------------------------
(* The store, read and written by one file system call at a time.             *)

\* ExecutionStore.read: a directory without a record has been claimed.
Read == IF dir = "absent" THEN None ELSE IF dir = "empty" THEN "RUNNING" ELSE dir

IsStale == dir \in {"RUNNING", "empty"} /\ age >= 1

MakeDirectory == dir' = "empty" /\ age' = 0
WriteRecord(status) == dir' = status /\ age' = 0

\* shutil.rmtree: the record first, which touches the directory, ...
Unlink == IF dir \in Records THEN dir' = "empty" /\ age' = 0 ELSE UNCHANGED <<dir, age>>
\* ... then the directory, unless something was written into it meanwhile.
Rmdir == IF dir = "empty" THEN dir' = "absent" /\ age' = 0 ELSE UNCHANGED <<dir, age>>

-------------------------------------------------------------------------------
(* create_execution, the handler of one POST.                                 *)

Free(p) == \A h \in Posts : process[h] = p => pc[h] \notin Claiming

Goto(h, stage) == pc' = [pc EXCEPT ![h] = stage]

Answer(h, status) == Goto(h, "replied") /\ reply' = [reply EXCEPT ![h] = status]

StartRun(h) == Goto(h, "run") /\ ran' = ran \union {<<h, "running">>}

\* Mutated: the directory is looked for before it is made.
ClaimExisting(h) ==
    /\ pc[h] = "claim" /\ Free(process[h])
    /\ Goto(h, IF dir = "absent" THEN "write" ELSE "stale")
    /\ UNCHANGED <<store, process, reply, caller, history>>

\* mkdir(exist_ok=False) is the lock.
Claim(h) ==
    /\ pc[h] = "claim" /\ Free(process[h])
    /\ \/ dir = "absent" /\ MakeDirectory /\ Goto(h, "write")
       \/ dir # "absent" /\ Goto(h, "stale") /\ UNCHANGED <<dir, age>>
    /\ UNCHANGED <<sweeper, process, reply, caller, history>>

CheckStale(h) ==
    /\ pc[h] = "stale"
    /\ Goto(h, IF IsStale THEN "unlink" ELSE "read")
    /\ UNCHANGED <<store, process, reply, caller, history>>

RemoveRecord(h) ==
    /\ pc[h] = "unlink" /\ Unlink /\ Goto(h, "rmdir")
    /\ UNCHANGED <<sweeper, process, reply, caller, history>>

RemoveDirectory(h) ==
    /\ pc[h] = "rmdir" /\ Rmdir /\ Goto(h, "remake")
    /\ UNCHANGED <<sweeper, process, reply, caller, history>>

Reclaim(h) ==
    /\ pc[h] = "remake"
    /\ \/ dir = "absent" /\ MakeDirectory /\ Goto(h, "write")
       \/ dir # "absent" /\ Goto(h, "read") /\ UNCHANGED <<dir, age>>
    /\ UNCHANGED <<sweeper, process, reply, caller, history>>

\* _write makes the directory again when it is gone.
RecordRunning(h) ==
    /\ pc[h] = "write" /\ WriteRecord("RUNNING") /\ StartRun(h)
    /\ UNCHANGED <<sweeper, process, reply, caller, aged, crashes, restarts>>

\* Mutated: a directory without a record reads as no record at all.
ReadExistingNoRecord(h) ==
    /\ pc[h] = "read"
    /\ \/ dir \in Records /\ Answer(h, dir) /\ UNCHANGED ran
       \/ dir \notin Records /\ StartRun(h) /\ UNCHANGED reply
    /\ UNCHANGED <<store, process, caller, aged, crashes, restarts>>

\* Not claimed, and no record either: run it all the same.
ReadExisting(h) ==
    /\ pc[h] = "read"
    /\ \/ Read # None /\ Answer(h, Read) /\ UNCHANGED ran
       \/ Read = None /\ StartRun(h) /\ UNCHANGED reply
    /\ UNCHANGED <<store, process, caller, aged, crashes, restarts>>

Finish(h) ==
    /\ pc[h] = "run" /\ Free(process[h])
    /\ \E status \in Terminal :
          /\ WriteRecord(status)
          /\ Answer(h, status)
          /\ ran' = (ran \ {<<h, "running">>}) \union {<<h, status>>}
    /\ UNCHANGED <<sweeper, process, caller, aged, crashes, restarts>>

Handler(h) ==
    \/ Claim(h) \/ CheckStale(h) \/ RemoveRecord(h) \/ RemoveDirectory(h)
    \/ Reclaim(h) \/ RecordRunning(h) \/ ReadExisting(h) \/ Finish(h)

\* A worker process dies with every request it was serving.
Crash(p) ==
    /\ crashes < MaxCrashes
    /\ \E h \in Posts : process[h] = p /\ pc[h] \notin {"idle", "replied", "dead"}
    /\ pc' = [h \in Posts |-> IF process[h] = p /\ pc[h] # "replied" THEN "dead" ELSE pc[h]]
    /\ crashes' = crashes + 1
    /\ UNCHANGED <<store, process, reply, caller, ran, aged, restarts>>

\* A sweep follows the end of any execution, of this id or another.
SweepLook ==
    /\ sweeper = "idle" /\ dir # "absent" /\ age = 2
    /\ sweeper' = "unlink"
    /\ UNCHANGED <<dir, age, handlers, caller, history>>

SweepUnlink ==
    /\ sweeper = "unlink" /\ Unlink /\ sweeper' = "rmdir"
    /\ UNCHANGED <<handlers, caller, history>>

SweepRmdir ==
    /\ sweeper = "rmdir" /\ Rmdir /\ sweeper' = "idle"
    /\ UNCHANGED <<handlers, caller, history>>

\* Hours pass: nothing that takes minutes is under way, on either side.
GrowOld ==
    /\ dir # "absent" /\ age < 2
    /\ client \in {"done", "post"} /\ (client = "post" => attempt = 1)
    /\ sweeper = "idle"
    /\ \A h \in Posts : pc[h] \in {"idle", "replied", "dead"}
    /\ age' = age + 1
    /\ aged' = TRUE
    /\ UNCHANGED <<dir, sweeper, handlers, caller, ran, crashes, restarts>>

-------------------------------------------------------------------------------
(* RemoteSandbox.run, the client.                                             *)

\* _materialize: RUNNING at the deadline is a refusal.
Return(result) ==
    /\ client' = "done"
    /\ results' = results \union {result}
    /\ UNCHANGED <<attempt, call, answer>>

Accepted(status) ==
    IF status = "RUNNING"
    THEN client' = "await" /\ answer' = status /\ UNCHANGED <<attempt, call, results>>
    ELSE Return(status)

\* GET /executions/{id}, served by a process that is not in the middle of a claim.
Reachable == \E p \in Processes : Free(p)

\* Requests differ in nothing but their name, so any unused name will do.
Unused == {h \in Posts : pc[h] = "idle"}
NextPost == CHOOSE h \in Unused : TRUE

Post ==
    /\ client = "post"
    /\ \/ \E p \in Processes :
             /\ Unused # {}
             /\ pc' = [pc EXCEPT ![NextPost] = "claim"]
             /\ process' = [process EXCEPT ![NextPost] = p]
             /\ client' = "wait" /\ call' = NextPost
       \/ client' = "lookup" /\ UNCHANGED <<pc, process, call>>
    /\ UNCHANGED <<store, reply, attempt, answer, results, history>>

Responded ==
    /\ client = "wait" /\ reply[call] # None
    /\ Accepted(reply[call])
    /\ UNCHANGED <<store, handlers, history>>

\* Timed out, connection lost or worker dead: it may have taken the request.
PostFailed ==
    /\ client = "wait"
    /\ client' = "lookup"
    /\ UNCHANGED <<store, handlers, attempt, call, answer, results, history>>

\* Mutated: the attempts are not counted.
LookUpAgain ==
    /\ client = "lookup"
    /\ \/ Reachable /\ Read # None /\ Accepted(Read)
       \/ client' = "post" /\ UNCHANGED <<attempt, call, answer, results>>
    /\ UNCHANGED <<store, handlers, history>>

\* After a failed POST: is there a record?
LookUp ==
    /\ client = "lookup"
    /\ \/ Reachable /\ Read # None /\ Accepted(Read)
       \/ IF attempt = CONNECT_RETRIES THEN Return("refused")
          ELSE client' = "post" /\ attempt' = attempt + 1 /\ UNCHANGED <<call, answer, results>>
    /\ UNCHANGED <<store, handlers, history>>

\* The poll: a lost record is an answer, an unreachable worker is not.
Poll ==
    /\ client = "await"
    /\ Reachable
    /\ IF Read = None THEN Return("refused") ELSE Accepted(Read)
    /\ UNCHANGED <<store, handlers, history>>

\* Mutated: no answer in time counts as a failure of the code.
DeadlineFails ==
    /\ client = "await"
    /\ Return("FAILED")
    /\ UNCHANGED <<store, handlers, history>>

Deadline ==
    /\ client = "await"
    /\ Return("refused")
    /\ UNCHANGED <<store, handlers, history>>

\* The control process starts again at the node `execute`, with the same id.
Restart ==
    /\ restarts < MaxRestarts
    /\ client' = "post" /\ attempt' = 1 /\ call' = None /\ answer' = None
    /\ restarts' = restarts + 1
    /\ UNCHANGED <<store, handlers, results, ran, aged, crashes>>

Client == Post \/ Responded \/ PostFailed \/ LookUp \/ Poll \/ Deadline

Idle == client = "done" /\ UNCHANGED vars

Next ==
    \/ \E h \in Posts : Handler(h)
    \/ \E p \in Processes : Crash(p)
    \/ SweepLook \/ SweepUnlink \/ SweepRmdir \/ GrowOld
    \/ Client \/ Restart \/ Idle

Spec == Init /\ [][Next]_vars

\* asyncio runs a task that can run; every HTTP call has a timeout, and the
\* deadline of the poll passes.  Nothing is assumed of the worker.
FairSpec == Spec /\ WF_vars(Client) /\ WF_vars(Deadline)

-------------------------------------------------------------------------------
(* What asking again, from a retry or after a restart, may never do.          *)

\* While no record goes stale, the code of one execution_id runs at most once:
\* whatever requests of whatever processes, crashes and restarts come together.
RunOnce == ~aged => \A r, s \in ran : r = s

\* Then every answer the control process gets is that of the one run: a restart
\* cannot turn the result it has acted on into another.
AnswersAgree == ~aged => \A r, s \in results \ {"refused"} : r = s

\* A success or a failure is charged to the generated code only if it was run
\* and ended that way, records gone stale or lost included; anything else is a
\* refusal, which costs no repair round (nodes/running.py).
AnswerIsEarned ==
    \A status \in results \ {"refused"} : \E h \in Posts : <<h, status>> \in ran

\* run() returns, with any sequence of lost responses and unreachable workers.
ClientEnds == <>[](client = "done")

\* worker/app.py: the same execution_id is not run twice.  A claim lost to a
\* record that the sweep then removes runs without a claim, and the next request
\* claims and runs as well; two processes that find the same stale record may
\* also reclaim it from each other.
OneRunner == \A g, h \in Posts : pc[g] = "run" /\ pc[h] = "run" => g = h
=============================================================================
