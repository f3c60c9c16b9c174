---------------------------- MODULE LocalExecution ----------------------------
(***************************************************************************)
(* Attempts of several runs with the local sandbox (execution/sandbox.py   *)
(* and sandbox_worker.py) and the artifact store they share (artifacts.py):*)
(* the validated program cache, program files named by their content, and  *)
(* the working directory of an attempt, in which a child process runs.     *)
(*                                                                         *)
(* All runs look up the same cache key, each has its control process.  A   *)
(* step is what a process does without another being able to come between: *)
(* a file that is replaced by a rename is there at once, a file that is    *)
(* written in place is not, and a child goes on when its parent is dead.   *)
(* Files of the store may be altered or lost at any time.                  *)
(*                                                                         *)
(* A program is its text, a result is the text that computed it.  What     *)
(* lint, result checks and the Critic say is left open; ExecutionGraph has *)
(* their order and the repairs they cause.  A node whose read of the store *)
(* fails raises, and a resume executes it again: it waits.                 *)
(***************************************************************************)
EXTENDS Naturals, FiniteSets

CONSTANTS
    Runs,
    Programs,       \* texts of programs
    MaxRepairs,     \* runtime repairs of an attempt
    MaxCrashes,     \* bound: deaths of control processes
    Garbage,        \* content of a file nobody wrote like that
    None

ASSUME TextsAssumption ==
    /\ MaxRepairs \in Nat /\ MaxCrashes \in Nat
    /\ {Garbage, None} \intersect Programs = {} /\ Garbage # None

VARIABLES
    pc,         \* node of each run, or the place inside it
    program,    \* program_ref
    candidate,  \* candidate_ref: the result that is judged
    repairs,    \* runtime_repairs
    evidence,   \* the Evidence of each run: program and result
    cache,      \* program_cache/<key>.json: the program it names
    files,      \* program-<sha>.py: what it contains
    workdir,    \* program.py and result.json of each run
    children,   \* processes at work
    exit,       \* how the child a run waits for has ended
    crashes,
    orphaned, reviewed, bereft   \* history: runs that died on a child; programs accepted;
                                 \* runs whose program was altered after they took it

store == <<cache, files>>
sandbox == <<workdir, children, exit>>
attempt == <<program, candidate, repairs, evidence>>
history == <<orphaned, reviewed, bereft>>
vars == <<pc, attempt, store, sandbox, crashes, history>>

Texts == Programs \union {Garbage}
OrNone(S) == S \union {None}
Nodes == {"lookup_program", "check_code", "generate_code", "execute", "waiting",
          "critique", "commit_evidence", "checkpoint", "committed", "rejected"}
Children == [run: Runs, parent: BOOLEAN, text: OrNone(Texts), wrote: BOOLEAN]

TypeOK ==
    /\ pc \in [Runs -> Nodes]
    /\ program \in [Runs -> OrNone(Programs)]
    /\ candidate \in [Runs -> OrNone(Texts)]
    /\ repairs \in [Runs -> 0 .. MaxRepairs]
    /\ evidence \in [Runs -> OrNone([program: Programs, result: Texts])]
    /\ cache \in OrNone(Programs)
    /\ files \in [Programs -> OrNone(Texts)]
    /\ workdir \in [Runs -> [program: OrNone(Texts), result: OrNone(Texts)]]
    /\ children \subseteq Children
    /\ exit \in [Runs -> {"none", "ok", "failed"}]
    /\ crashes \in 0 .. MaxCrashes
    /\ orphaned \subseteq Runs /\ reviewed \subseteq Programs /\ bereft \subseteq Runs

-------------------------------------------------------------------------------
\* read_text: the content, if it still has the hash of the reference.
Readable(p) == files[p] = p

ChildrenOf(r) == {c \in children : c.run = r}
Own(r) == {c \in ChildrenOf(r) : c.parent}

At(r, here) == pc[r] = here
Go(r, there) == pc' = [pc EXCEPT ![r] = there]

Init ==
    /\ pc = [r \in Runs |-> "lookup_program"]
    /\ program = [r \in Runs |-> None]
    /\ candidate = [r \in Runs |-> None]
    /\ repairs = [r \in Runs |-> 0]
    /\ evidence = [r \in Runs |-> None]
    /\ cache = None
    /\ files = [p \in Programs |-> None]
    /\ workdir = [r \in Runs |-> [program |-> None, result |-> None]]
    /\ children = {}
    /\ exit = [r \in Runs |-> "none"]
    /\ crashes = 0
    /\ orphaned = {} /\ reviewed = {} /\ bereft = {}

\* load_validated_program reads the entry ...
LookupEntry(r) ==
    /\ At(r, "lookup_program")
    /\ program' = [program EXCEPT ![r] = cache]
    /\ Go(r, IF cache = None THEN "generate_code" ELSE "check_code")
    /\ UNCHANGED <<candidate, repairs, evidence, store, sandbox, crashes, history>>

\* Mutated: ... and trusts it.
LookupTrusts(r) ==
    /\ At(r, "check_code")
    /\ Go(r, "execute")
    /\ UNCHANGED <<attempt, store, sandbox, crashes, history>>

\* ... and then the program it names; a cache that cannot be read is no cache.
LookupCode(r) ==
    /\ At(r, "check_code")
    /\ IF Readable(program[r])
       THEN Go(r, "execute") /\ UNCHANGED program
       ELSE Go(r, "generate_code") /\ program' = [program EXCEPT ![r] = None]
    /\ UNCHANGED <<candidate, repairs, evidence, store, sandbox, crashes, history>>

\* A program that passes validate_code, stored under the hash of its text; or the
\* static repairs run out.
GenerateCode(r) ==
    /\ At(r, "generate_code")
    /\ \/ \E p \in Programs :
             /\ program' = [program EXCEPT ![r] = p]
             /\ files' = [files EXCEPT ![p] = p]
             /\ Go(r, "execute")
       \/ Go(r, "rejected") /\ UNCHANGED <<program, files>>
    /\ UNCHANGED <<candidate, repairs, evidence, cache, sandbox, crashes, history>>

\* execute clears the directory, which all attempts of an iteration have in common;
\* SubprocessSandbox.run writes program.py and starts the child.
Execute(r) ==
    /\ At(r, "execute") /\ Readable(program[r])
    /\ workdir' = [workdir EXCEPT ![r] = [program |-> files[program[r]], result |-> None]]
    /\ children' = children \union {[run |-> r, parent |-> TRUE, text |-> None, wrote |-> FALSE]}
    /\ exit' = [exit EXCEPT ![r] = "none"]
    /\ Go(r, "waiting")
    /\ UNCHANGED <<attempt, store, crashes, history>>

-------------------------------------------------------------------------------
(* The child process (sandbox_worker.main).                                   *)

Ended(c, how) ==
    /\ children' = children \ {c}
    /\ exit' = IF c.parent THEN [exit EXCEPT ![c.run] = how] ELSE exit

ChildReads(c) ==
    /\ c.text = None /\ workdir[c.run].program # None
    /\ children' = (children \ {c}) \union {[c EXCEPT !.text = workdir[c.run].program]}
    /\ UNCHANGED <<workdir, exit>>

\* write_bytes empties the file and then fills it.
ChildWrites(c) ==
    /\ c.text # None /\ ~c.wrote
    /\ workdir' = [workdir EXCEPT ![c.run].result = Garbage]
    /\ children' = (children \ {c}) \union {[c EXCEPT !.wrote = TRUE]}
    /\ UNCHANGED exit

ChildSucceeds(c) ==
    /\ c.wrote
    /\ workdir' = [workdir EXCEPT ![c.run].result = c.text]
    /\ Ended(c, "ok")

\* An exception in the program, a limit, the system.
ChildFails(c) == Ended(c, "failed") /\ UNCHANGED workdir

Child ==
    \E c \in children :
       /\ ChildReads(c) \/ ChildWrites(c) \/ ChildSucceeds(c) \/ ChildFails(c)
       /\ UNCHANGED <<pc, attempt, store, crashes, history>>

-------------------------------------------------------------------------------
(* What the run does with the child.                                          *)

\* _finish, and execute, which copies result.json into the store.
Collect(r) ==
    /\ At(r, "waiting") /\ exit[r] = "ok"
    /\ candidate' = [candidate EXCEPT ![r] = workdir[r].result]
    /\ Go(r, "critique")
    /\ UNCHANGED <<program, repairs, evidence, store, sandbox, crashes, history>>

\* runtime_repairs are counted for the attempt; an attempt that has none left ends.
Repair(r) == IF repairs[r] < MaxRepairs
             THEN repairs' = [repairs EXCEPT ![r] = @ + 1] /\ Go(r, "generate_code")
             ELSE Go(r, "rejected") /\ UNCHANGED repairs

RuntimeError(r) ==
    /\ At(r, "waiting") /\ exit[r] = "failed"
    /\ candidate' = [candidate EXCEPT ![r] = None]
    /\ Repair(r)
    /\ UNCHANGED <<program, evidence, store, sandbox, crashes, history>>

\* Mutated: wait_for gives up on the child and nobody kills it.
TimeoutLeavesChild(r) ==
    /\ At(r, "waiting") /\ exit[r] = "none"
    /\ children' = {IF c \in Own(r) THEN [c EXCEPT !.parent = FALSE] ELSE c : c \in children}
    /\ candidate' = [candidate EXCEPT ![r] = None]
    /\ Go(r, "rejected")
    /\ UNCHANGED <<program, repairs, evidence, store, workdir, exit, crashes, history>>

\* The sandbox's own timeout: the child is killed and reaped, the run refused.
Timeout(r) ==
    /\ At(r, "waiting") /\ exit[r] = "none"
    /\ children' = children \ Own(r)
    /\ candidate' = [candidate EXCEPT ![r] = None]
    /\ Go(r, "rejected")
    /\ UNCHANGED <<program, repairs, evidence, store, workdir, exit, crashes, history>>

\* Mutated: the child is left to itself.
CancelLeavesChild(r) ==
    /\ At(r, "waiting")
    /\ children' = {IF c \in Own(r) THEN [c EXCEPT !.parent = FALSE] ELSE c : c \in children}
    /\ Go(r, "execute")
    /\ UNCHANGED <<attempt, store, workdir, exit, crashes, history>>

\* A stop or the budget cancels the node: the child is killed and reaped on the way
\* out.  The node is executed again when the run is resumed.
Cancel(r) ==
    /\ At(r, "waiting")
    /\ children' = children \ Own(r)
    /\ Go(r, "execute")
    /\ UNCHANGED <<attempt, store, workdir, exit, crashes, history>>

\* validate_result and critique.  Both read result and program from the store, and
\* raise when the result is no JSON text.
Critique(r) ==
    /\ At(r, "critique") /\ candidate[r] # Garbage /\ Readable(program[r])
    /\ \/ Go(r, "commit_evidence") /\ reviewed' = reviewed \union {program[r]}
          /\ UNCHANGED repairs
       \/ Repair(r) /\ UNCHANGED reviewed
       \/ Go(r, "rejected") /\ UNCHANGED <<repairs, reviewed>>
    /\ UNCHANGED <<program, candidate, evidence, store, sandbox, crashes, orphaned, bereft>>

\* commit_evidence: the cache entry is replaced, whoever wrote it ...
CacheProgram(r) ==
    /\ At(r, "commit_evidence") /\ Readable(program[r])
    /\ cache' = program[r]
    /\ Go(r, "checkpoint")
    /\ UNCHANGED <<attempt, files, sandbox, crashes, history>>

\* ... and then the Evidence is checkpointed.
CommitEvidence(r) ==
    /\ At(r, "checkpoint")
    /\ evidence' = [evidence EXCEPT ![r] = [program |-> program[r], result |-> candidate[r]]]
    /\ Go(r, "committed")
    /\ UNCHANGED <<program, candidate, repairs, store, sandbox, crashes, history>>

-------------------------------------------------------------------------------
(* Failures.                                                                  *)

\* The checkpoint is that of the last node that completed.
NodeStart(here) ==
    CASE here = "check_code" -> "lookup_program"
      [] here = "waiting" -> "execute"
      [] here = "checkpoint" -> "commit_evidence"
      [] OTHER -> here

Crash(r) ==
    /\ pc[r] \notin {"committed", "rejected"}
    /\ crashes < MaxCrashes
    /\ crashes' = crashes + 1
    /\ Go(r, NodeStart(pc[r]))
    /\ children' = {IF c \in Own(r) THEN [c EXCEPT !.parent = FALSE] ELSE c : c \in children}
    /\ orphaned' = IF Own(r) # {} THEN orphaned \union {r} ELSE orphaned
    /\ UNCHANGED <<attempt, store, workdir, exit, reviewed, bereft>>

AlterFile ==
    /\ \E p \in Programs, text \in {Garbage, None} :
          /\ files[p] = p /\ files' = [files EXCEPT ![p] = text]
          /\ bereft' = bereft \union {r \in Runs : program[r] = p /\ ~At(r, "check_code")}
    /\ UNCHANGED <<pc, attempt, cache, sandbox, crashes, orphaned, reviewed>>

LoseEntry ==
    /\ cache # None /\ cache' = None
    /\ UNCHANGED <<pc, attempt, files, sandbox, crashes, history>>

Run(r) ==
    \/ LookupEntry(r) \/ LookupCode(r) \/ GenerateCode(r) \/ Execute(r)
    \/ Collect(r) \/ RuntimeError(r) \/ Timeout(r) \/ Critique(r)
    \/ CacheProgram(r) \/ CommitEvidence(r)

\* The run ends with an exception, and with the same one after a resume.
NodeRaises(r) ==
    /\ \/ pc[r] \in {"execute", "critique", "commit_evidence"} /\ ~Readable(program[r])
       \/ At(r, "critique") /\ candidate[r] = Garbage
    /\ UNCHANGED vars

Ends == (\A r \in Runs : pc[r] \in {"committed", "rejected"}) /\ UNCHANGED vars

Next ==
    \/ \E r \in Runs : Run(r) \/ Cancel(r) \/ Crash(r) \/ NodeRaises(r)
    \/ Child \/ AlterFile \/ LoseEntry \/ Ends

Spec == Init /\ [][Next]_vars

-------------------------------------------------------------------------------
\* Evidence pairs a program with the result of that very program, across repairs in
\* one directory, cancellations, and program files that change under the runs.  A
\* control process that died on a child gives no such guarantee: the child may
\* write its result over that of the program that was repaired meanwhile.
ResultIsOfItsProgram ==
    \A r \in Runs \ orphaned :
       evidence[r] # None => evidence[r].result = evidence[r].program

\* No child outlives the node that started it, however the node ends; so no two
\* programs ever run in one directory.
NoChildOutlivesItsNode ==
    \A r \in Runs \ orphaned :
       /\ Cardinality(ChildrenOf(r)) <= 1
       /\ pc[r] # "waiting" => ChildrenOf(r) = {}

\* The cache can only save work.  What one run leaves to the others was accepted by
\* a Critic; no text but such a program or a newly generated one ever reaches a
\* working directory; and a program that is gone is generated anew: a run is held
\* up by an unreadable file only if that changed after the run had taken it.
CacheIsHarmless ==
    /\ cache # None => cache \in reviewed
    /\ \A r \in Runs :
          /\ workdir[r].program \in OrNone(Programs)
          /\ At(r, "execute") /\ ~Readable(program[r]) => r \in bereft
=============================================================================
