------------------------- MODULE LocalExecution_proofs -------------------------
(***************************************************************************)
(* Proofs about LocalExecution: for any number of runs, programs, repairs  *)
(* and crashes, Evidence pairs a program with its own result, a child does *)
(* not outlive its node unless the control process died on it, and the     *)
(* shared cache can only save work.                                        *)
(***************************************************************************)
EXTENDS LocalExecution, FiniteSetTheorems, TLAPS

\* What a run has at each of its nodes.
HoldsProgram == {"check_code", "execute", "waiting", "critique", "commit_evidence", "checkpoint"}
HoldsResult == {"critique", "commit_evidence", "checkpoint"}

PhaseInv ==
    /\ \A r \in Runs :
          /\ pc[r] \in HoldsProgram => program[r] \in Programs
          /\ pc[r] \in HoldsResult => candidate[r] \in Texts
          /\ exit[r] = "ok" => workdir[r].result \in Texts
    /\ \A c \in children : c.wrote => c.text \in Texts

TypeInv == TypeOK /\ PhaseInv

\* A run that waits has one child, or one that has ended; nobody else has any.
ChildInv ==
    /\ \A c \in children : c.run \notin orphaned =>
          pc[c.run] = "waiting" /\ exit[c.run] = "none" /\ c.parent
    /\ \A c \in children, d \in children : c.run = d.run /\ c.run \notin orphaned => c = d

\* The child runs the program of its run, so what it leaves is that one's result.
WorkInv ==
    /\ \A r \in Runs \ orphaned :
          /\ pc[r] = "waiting" => workdir[r].program = program[r]
          /\ pc[r] = "waiting" /\ exit[r] = "ok" => workdir[r].result = program[r]
          /\ pc[r] \in HoldsResult => candidate[r] = program[r]
          /\ evidence[r] # None => evidence[r].result = evidence[r].program
    /\ \A c \in children : c.run \notin orphaned => c.text \in {None, program[c.run]}

\* Programs on their way into the cache were reviewed, and a program that was read
\* is still there unless it was altered since.
CacheInv ==
    /\ cache # None => cache \in reviewed
    /\ \A r \in Runs :
          /\ pc[r] \in {"commit_evidence", "checkpoint"} => program[r] \in reviewed
          /\ workdir[r].program \in OrNone(Programs)
          /\ pc[r] \in {"execute", "waiting"} /\ ~Readable(program[r]) => r \in bereft

-------------------------------------------------------------------------------
LEMMA TypeInit == Init => TypeInv
BY TextsAssumption
   DEF Init, TypeInv, TypeOK, PhaseInv, HoldsProgram, HoldsResult, Nodes, OrNone, Texts

\* What a child is when its parent has died, when it has read its program and when
\* it has begun to write.
LEMMA ChildOrphaned ==
    ASSUME NEW c \in Children
    PROVE  LET d == [c EXCEPT !.parent = FALSE]
           IN d \in Children /\ d.run = c.run /\ d.text = c.text /\ d.wrote = c.wrote
BY DEF Children

LEMMA ChildHasRead ==
    ASSUME NEW c \in Children, NEW t \in OrNone(Texts)
    PROVE  LET d == [c EXCEPT !.text = t]
           IN d \in Children /\ d.run = c.run /\ d.parent = c.parent /\ d.text = t /\ d.wrote = c.wrote
BY DEF Children

LEMMA ChildHasWritten ==
    ASSUME NEW c \in Children
    PROVE  LET d == [c EXCEPT !.wrote = TRUE]
           IN d \in Children /\ d.run = c.run /\ d.parent = c.parent /\ d.text = c.text /\ d.wrote
BY DEF Children

\* A repair counts, within its limit, or ends the attempt.
LEMMA RepairType ==
    ASSUME NEW r \in Runs, repairs \in [Runs -> 0 .. MaxRepairs], pc \in [Runs -> Nodes], Repair(r)
    PROVE  repairs' \in [Runs -> 0 .. MaxRepairs] /\ pc' \in [Runs -> Nodes]
<1>1. CASE repairs[r] < MaxRepairs
  <2>1. repairs[r] + 1 \in 0 .. MaxRepairs
    BY <1>1, TextsAssumption
  <2>2. repairs' \in [Runs -> 0 .. MaxRepairs]
    BY <1>1, <2>1 DEF Repair
  <2> QED
    BY <1>1, <2>2 DEF Repair, Go, Nodes
<1>2. CASE ~(repairs[r] < MaxRepairs)
  BY <1>2 DEF Repair, Go, Nodes
<1> QED
  BY <1>1, <1>2

LEMMA TypeNext == TypeInv /\ [Next]_vars => TypeInv'
<1> SUFFICES ASSUME TypeInv, [Next]_vars PROVE TypeInv'
  OBVIOUS
<1> USE TextsAssumption
    DEF TypeInv, TypeOK, PhaseInv, HoldsProgram, HoldsResult, Nodes, OrNone, Texts, At, Go,
        store, sandbox, attempt, history
<1>1. ASSUME NEW r \in Runs, Run(r) PROVE TypeInv'
  <2>1. CASE LookupEntry(r)
    BY <2>1 DEF LookupEntry
  <2>2. CASE LookupCode(r)
    <3>1. CASE Readable(program[r])
      BY <2>2, <3>1 DEF LookupCode
    <3>2. CASE ~Readable(program[r])
      <4>1. program' = [program EXCEPT ![r] = None] /\ pc' = [pc EXCEPT ![r] = "generate_code"]
        BY <2>2, <3>2 DEF LookupCode
      <4>2. UNCHANGED <<candidate, repairs, evidence, store, sandbox, crashes, history>>
        BY <2>2 DEF LookupCode
      <4> QED
        BY <4>1, <4>2
    <3> QED
      BY <3>1, <3>2
  <2>3. CASE GenerateCode(r)
    <3>1. CASE Go(r, "rejected") /\ UNCHANGED <<program, files>>
      BY <2>3, <3>1 DEF GenerateCode
    <3>2. ASSUME NEW p \in Programs, program' = [program EXCEPT ![r] = p],
                 files' = [files EXCEPT ![p] = p], Go(r, "execute")
          PROVE  TypeInv'
      <4>1. files' \in [Programs -> OrNone(Texts)] /\ program' \in [Runs -> OrNone(Programs)]
        BY <3>2
      <4> QED
        BY <2>3, <3>2, <4>1 DEF GenerateCode
    <3> QED
      BY <2>3, <3>1, <3>2 DEF GenerateCode
  <2>4. CASE Execute(r)
    <3> DEFINE new == [run |-> r, parent |-> TRUE, text |-> None, wrote |-> FALSE]
    <3>1. new \in Children /\ children' = children \union {new} /\ ~new.wrote
      BY <2>4 DEF Execute, Children
    <3>2. workdir' \in [Runs -> [program: OrNone(Texts), result: OrNone(Texts)]]
      BY <2>4 DEF Execute, Readable
    <3>3. TypeOK'
      BY <2>4, <3>1, <3>2 DEF Execute
    <3>4. PhaseInv'
      BY <2>4, <3>1 DEF Execute
    <3> QED
      BY <3>3, <3>4
  <2>5. CASE Collect(r)
    BY <2>5 DEF Collect
  <2>6. CASE RuntimeError(r)
    <3>1. repairs' \in [Runs -> 0 .. MaxRepairs] /\ pc' \in [Runs -> Nodes]
      BY <2>6, RepairType DEF RuntimeError
    <3>2. \A s \in Runs : s # r => pc'[s] = pc[s]
      BY <2>6 DEF RuntimeError, Repair
    <3>3. pc'[r] \in {"generate_code", "rejected"}
      BY <2>6 DEF RuntimeError, Repair
    <3> QED
      BY <2>6, <3>1, <3>2, <3>3 DEF RuntimeError
  <2>7. CASE Timeout(r)
    BY <2>7 DEF Timeout
  <2>8. CASE Critique(r)
    <3>1. repairs' \in [Runs -> 0 .. MaxRepairs] /\ pc' \in [Runs -> Nodes]
      <4>1. CASE Repair(r)
        BY <4>1, RepairType
      <4>2. CASE UNCHANGED repairs
        BY <2>8, <4>2 DEF Critique, Repair
      <4> QED
        BY <2>8, <4>1, <4>2 DEF Critique
    <3>2. /\ UNCHANGED <<program, candidate, evidence, store, sandbox, crashes, orphaned, bereft>>
          /\ reviewed' \subseteq Programs /\ pc[r] = "critique"
      BY <2>8 DEF Critique
    <3>3. \A s \in Runs : s # r => pc'[s] = pc[s]
      BY <2>8 DEF Critique, Repair
    <3> QED
      BY <3>1, <3>2, <3>3
  <2>9. CASE CacheProgram(r)
    BY <2>9 DEF CacheProgram
  <2>10. CASE CommitEvidence(r)
    BY <2>10 DEF CommitEvidence
  <2> QED
    BY <1>1, <2>1, <2>2, <2>3, <2>4, <2>5, <2>6, <2>7, <2>8, <2>9, <2>10 DEF Run
<1>2. ASSUME NEW r \in Runs, Cancel(r) PROVE TypeInv'
  BY <1>2 DEF Cancel
<1>3. ASSUME NEW r \in Runs, Crash(r) PROVE TypeInv'
  <2>1. NodeStart(pc[r]) \in Nodes
    BY DEF NodeStart
  <2>2. NodeStart(pc[r]) \in HoldsProgram => pc[r] \in HoldsProgram
    BY DEF NodeStart
  <2>3. NodeStart(pc[r]) \in HoldsResult => pc[r] \in HoldsResult
    BY DEF NodeStart
  <2>4. pc' \in [Runs -> Nodes] /\ crashes' \in 0 .. MaxCrashes /\ orphaned' \subseteq Runs
    BY <1>3, <2>1 DEF Crash
  <2>5. children' \subseteq Children /\ \A c \in children' : c.wrote => c.text \in Texts
    <3> SUFFICES ASSUME NEW d \in children' PROVE d \in Children /\ (d.wrote => d.text \in Texts)
      OBVIOUS
    <3>1. PICK c \in children : d = [c EXCEPT !.parent = FALSE] \/ d = c
      BY <1>3 DEF Crash
    <3>2. c \in Children /\ (c.wrote => c.text \in Texts)
      OBVIOUS
    <3>3. d \in Children /\ d.wrote = c.wrote /\ d.text = c.text
      BY <3>1, <3>2, ChildOrphaned
    <3> QED
      BY <3>2, <3>3
  <2>6. TypeOK'
    BY <1>3, <2>4, <2>5 DEF Crash
  <2>7. PhaseInv'
    BY <1>3, <2>2, <2>3, <2>5 DEF Crash
  <2> QED
    BY <2>6, <2>7
<1>4. CASE Child
  <2> SUFFICES ASSUME NEW c \in children,
                      ChildReads(c) \/ ChildWrites(c) \/ ChildSucceeds(c) \/ ChildFails(c),
                      UNCHANGED <<pc, attempt, store, crashes, history>>
               PROVE  TypeInv'
    BY <1>4 DEF Child
  <2>1. CASE ChildReads(c)
    BY <2>1 DEF ChildReads, Children
  <2>2. CASE ChildWrites(c)
    <3> DEFINE d == [c EXCEPT !.wrote = TRUE]
    <3>1. d \in Children /\ d.text \in Texts
      <4> HIDE DEF d
      <4>1. c \in Children /\ c.text \in Texts
        BY <2>2 DEF ChildWrites, Children
      <4> QED
        BY <4>1, ChildHasWritten DEF d
    <3>2. c.run \in Runs /\ workdir' \in [Runs -> [program: OrNone(Texts), result: OrNone(Texts)]]
      BY <2>2 DEF ChildWrites, Children
    <3>3. \A r \in Runs : exit[r] = "ok" => workdir'[r].result \in Texts
      BY <2>2 DEF ChildWrites, Children
    <3>4. children' = (children \ {c}) \union {d}
      BY <2>2 DEF ChildWrites
    <3> QED
      BY <2>2, <3>1, <3>2, <3>3, <3>4 DEF ChildWrites
  <2>3. CASE ChildSucceeds(c)
    BY <2>3 DEF ChildSucceeds, Ended, Children
  <2>4. CASE ChildFails(c)
    BY <2>4 DEF ChildFails, Ended, Children
  <2> QED
    BY <2>1, <2>2, <2>3, <2>4
<1>5. CASE AlterFile
  BY <1>5 DEF AlterFile
<1>6. CASE LoseEntry
  BY <1>6 DEF LoseEntry
<1>7. CASE UNCHANGED vars
  BY <1>7 DEF vars
<1> QED
  BY <1>1, <1>2, <1>3, <1>4, <1>5, <1>6, <1>7 DEF Next, NodeRaises, Ends

-------------------------------------------------------------------------------
LEMMA ChildInit == Init => ChildInv /\ WorkInv /\ CacheInv
BY TextsAssumption DEF Init, ChildInv, WorkInv, CacheInv, OrNone, HoldsResult

LEMMA ChildNext == TypeInv /\ ChildInv /\ [Next]_vars => ChildInv'
<1> SUFFICES ASSUME TypeInv, ChildInv, [Next]_vars PROVE ChildInv'
  OBVIOUS
<1> USE DEF ChildInv, At, Go, store, sandbox, attempt, history
<1>0. /\ pc \in [Runs -> Nodes] /\ exit \in [Runs -> {"none", "ok", "failed"}]
      /\ children \subseteq Children /\ \A c \in children : c.run \in Runs
  BY DEF TypeInv, TypeOK, Children
\* A run that is not at work on a child has none: wherever it goes, nothing changes.
<1>1. ASSUME NEW r \in Runs, pc[r] # "waiting" \/ exit[r] # "none",
             \A s \in Runs : s # r => pc'[s] = pc[s],
             children' = children, exit' = exit, orphaned' = orphaned
      PROVE  ChildInv'
  BY <1>0, <1>1
<1>2. ASSUME NEW r \in Runs, Run(r) PROVE ChildInv'
  <2>1. CASE LookupEntry(r)
    BY <2>1, <1>0, <1>1 DEF LookupEntry
  <2>2. CASE LookupCode(r)
    BY <2>2, <1>0, <1>1 DEF LookupCode
  <2>3. CASE GenerateCode(r)
    BY <2>3, <1>0, <1>1 DEF GenerateCode
  <2>4. CASE Execute(r)
    <3> DEFINE new == [run |-> r, parent |-> TRUE, text |-> None, wrote |-> FALSE]
    <3>1. /\ children' = children \union {new} /\ new.run = r /\ new.parent
          /\ pc' = [pc EXCEPT ![r] = "waiting"] /\ exit' = [exit EXCEPT ![r] = "none"]
          /\ orphaned' = orphaned /\ pc[r] = "execute"
      BY <2>4 DEF Execute
    <3> HIDE DEF new
    <3> QED
      BY <3>1, <1>0
  <2>5. CASE Collect(r)
    BY <2>5, <1>0, <1>1 DEF Collect
  <2>6. CASE RuntimeError(r)
    BY <2>6, <1>0, <1>1 DEF RuntimeError, Repair
  <2>7. CASE Timeout(r)
    BY <2>7, <1>0 DEF Timeout, Own, ChildrenOf
  <2>8. CASE Critique(r)
    BY <2>8, <1>0, <1>1 DEF Critique, Repair
  <2>9. CASE CacheProgram(r)
    BY <2>9, <1>0, <1>1 DEF CacheProgram
  <2>10. CASE CommitEvidence(r)
    BY <2>10, <1>0, <1>1 DEF CommitEvidence
  <2> QED
    BY <1>2, <2>1, <2>2, <2>3, <2>4, <2>5, <2>6, <2>7, <2>8, <2>9, <2>10 DEF Run
<1>3. ASSUME NEW r \in Runs, Cancel(r) PROVE ChildInv'
  BY <1>3, <1>0 DEF Cancel, Own, ChildrenOf
<1>4. ASSUME NEW r \in Runs, Crash(r) PROVE ChildInv'
  <2>1. \A d \in children' : d.run \notin orphaned' => d \in children /\ d.run # r
    <3> SUFFICES ASSUME NEW d \in children', d.run \notin orphaned'
                 PROVE  d \in children /\ d.run # r
      OBVIOUS
    <3>1. PICK c \in children : d = IF c \in Own(r) THEN [c EXCEPT !.parent = FALSE] ELSE c
      BY <1>4 DEF Crash
    <3>2. c.run = d.run
      BY <3>1, <1>0, ChildOrphaned
    <3>3. c.run \notin orphaned /\ c.run \notin {s \in {r} : Own(r) # {}}
      BY <1>4, <3>2 DEF Crash
    <3>4. c.run # r
      BY <3>3 DEF Own, ChildrenOf
    <3> QED
      BY <3>1, <3>2, <3>4 DEF Own, ChildrenOf
  <2> QED
    BY <1>4, <1>0, <2>1 DEF Crash
<1>5. CASE Child
  <2> SUFFICES ASSUME NEW c \in children,
                      ChildReads(c) \/ ChildWrites(c) \/ ChildSucceeds(c) \/ ChildFails(c),
                      UNCHANGED <<pc, attempt, store, crashes, history>>
               PROVE  ChildInv'
    BY <1>5 DEF Child
  \* A child that goes on takes the place of itself.
  <2>1. ASSUME NEW d, d.run = c.run, d.parent = c.parent,
               children' = (children \ {c}) \union {d}, exit' = exit
        PROVE  ChildInv'
    BY <1>0, <2>1
  <2>2. CASE ChildReads(c)
    <3>1. workdir[c.run].program \in OrNone(Texts)
      BY <1>0 DEF TypeInv, TypeOK
    <3> QED
      <4>1. PICK t \in OrNone(Texts) : children' = (children \ {c}) \union {[c EXCEPT !.text = t]}
        BY <2>2, <3>1 DEF ChildReads
      <4>2. c \in Children
        BY <1>0
      <4> QED
        BY <2>2, <2>1, <4>1, <4>2, ChildHasRead DEF ChildReads
  <2>3. CASE ChildWrites(c)
    BY <2>3, <2>1, <1>0, ChildHasWritten DEF ChildWrites
  <2>4. ASSUME NEW how, Ended(c, how) PROVE ChildInv'
    BY <2>4, <1>0 DEF Ended
  <2> QED
    BY <2>2, <2>3, <2>4 DEF ChildSucceeds, ChildFails
<1>6. CASE AlterFile
  BY <1>6 DEF AlterFile
<1>7. CASE LoseEntry
  BY <1>7 DEF LoseEntry
<1>8. CASE UNCHANGED vars
  BY <1>8 DEF vars
<1> QED
  BY <1>2, <1>3, <1>4, <1>5, <1>6, <1>7, <1>8 DEF Next, NodeRaises, Ends

-------------------------------------------------------------------------------
LEMMA WorkNext == TypeInv /\ ChildInv /\ WorkInv /\ [Next]_vars => WorkInv'
<1> SUFFICES ASSUME TypeInv, ChildInv, WorkInv, [Next]_vars PROVE WorkInv'
  OBVIOUS
<1> USE DEF WorkInv, At, Go, store, sandbox, attempt, history
<1>0. /\ pc \in [Runs -> Nodes] /\ exit \in [Runs -> {"none", "ok", "failed"}]
      /\ program \in [Runs -> OrNone(Programs)] /\ candidate \in [Runs -> OrNone(Texts)]
      /\ evidence \in [Runs -> OrNone([program: Programs, result: Texts])]
      /\ workdir \in [Runs -> [program: OrNone(Texts), result: OrNone(Texts)]]
      /\ children \subseteq Children /\ \A c \in children : c.run \in Runs
  BY DEF TypeInv, TypeOK, Children
<1>i. \A c \in children : c.run \notin orphaned =>
         pc[c.run] = "waiting" /\ exit[c.run] = "none" /\ c.parent
  BY DEF ChildInv
\* A run that has no child and no result is free to choose another program.
<1>1. ASSUME NEW r \in Runs,
             pc[r] # "waiting" \/ exit[r] # "none", pc'[r] \notin HoldsResult \union {"waiting"},
             \A s \in Runs : s # r => /\ pc'[s] = pc[s] /\ program'[s] = program[s]
                                      /\ candidate'[s] = candidate[s],
             UNCHANGED <<workdir, children, exit, orphaned, evidence>>
      PROVE  WorkInv'
  BY <1>0, <1>i, <1>1
<1>2. ASSUME NEW r \in Runs, Run(r) PROVE WorkInv'
  <2>1. CASE LookupEntry(r)
    BY <2>1, <1>0, <1>1 DEF LookupEntry, HoldsResult
  <2>2. CASE LookupCode(r)
    BY <2>2, <1>0, <1>1 DEF LookupCode, HoldsResult
  <2>3. CASE GenerateCode(r)
    BY <2>3, <1>0, <1>1 DEF GenerateCode, HoldsResult
  <2>4. CASE Execute(r)
    <3> DEFINE new == [run |-> r, parent |-> TRUE, text |-> None, wrote |-> FALSE]
    <3>1. /\ children' = children \union {new} /\ new.run = r /\ new.text = None
          /\ pc' = [pc EXCEPT ![r] = "waiting"] /\ exit' = [exit EXCEPT ![r] = "none"]
          /\ orphaned' = orphaned /\ pc[r] = "execute"
          /\ UNCHANGED <<program, candidate, evidence>>
      BY <2>4 DEF Execute
    <3>2. /\ workdir'[r].program = program[r]
          /\ \A s \in Runs : s # r => workdir'[s] = workdir[s]
      BY <2>4, <1>0 DEF Execute, Readable
    <3> HIDE DEF new
    <3> QED
      BY <3>1, <3>2, <1>0 DEF HoldsResult
  <2>5. CASE Collect(r)
    BY <2>5, <1>0, <1>i DEF Collect, HoldsResult
  <2>6. CASE RuntimeError(r)
    <3>1. pc'[r] \in {"generate_code", "rejected"} /\ \A s \in Runs : s # r => pc'[s] = pc[s]
      BY <2>6, <1>0 DEF RuntimeError, Repair
    <3> QED
      BY <2>6, <3>1, <1>0, <1>1 DEF RuntimeError, HoldsResult
  <2>7. CASE Timeout(r)
    BY <2>7, <1>0 DEF Timeout, HoldsResult
  <2>8. CASE Critique(r)
    <3>1. /\ pc[r] = "critique" /\ pc'[r] # "waiting" /\ \A s \in Runs : s # r => pc'[s] = pc[s]
          /\ UNCHANGED <<program, candidate, evidence, workdir, children, exit, orphaned>>
      BY <2>8, <1>0 DEF Critique, Repair
    <3> QED
      BY <3>1, <1>0, <1>i DEF HoldsResult
  <2>9. CASE CacheProgram(r)
    BY <2>9, <1>0 DEF CacheProgram, HoldsResult
  <2>10. CASE CommitEvidence(r)
    <3> DEFINE e == [program |-> program[r], result |-> candidate[r]]
    <3>1. evidence' = [evidence EXCEPT ![r] = e] /\ pc[r] = "checkpoint"
          /\ e.program = program[r] /\ e.result = candidate[r]
      BY <2>10 DEF CommitEvidence
    <3>2. r \notin orphaned => e.result = e.program
      BY <3>1 DEF HoldsResult
    <3> HIDE DEF e
    <3> QED
      BY <2>10, <3>1, <3>2, <1>0 DEF CommitEvidence, HoldsResult
  <2> QED
    BY <1>2, <2>1, <2>2, <2>3, <2>4, <2>5, <2>6, <2>7, <2>8, <2>9, <2>10 DEF Run
<1>3. ASSUME NEW r \in Runs, Cancel(r) PROVE WorkInv'
  BY <1>3, <1>0 DEF Cancel, HoldsResult
<1>4. ASSUME NEW r \in Runs, Crash(r) PROVE WorkInv'
  <2>1. /\ pc'[r] # "waiting"
        /\ pc'[r] \in HoldsResult => pc[r] \in HoldsResult
        /\ \A s \in Runs : s # r => pc'[s] = pc[s]
    BY <1>4, <1>0 DEF Crash, NodeStart, HoldsResult
  <2>2. orphaned \subseteq orphaned'
    BY <1>4 DEF Crash
  <2>3. \A d \in children' : \E c \in children : d.run = c.run /\ d.text = c.text
    <3> SUFFICES ASSUME NEW d \in children'
                 PROVE  \E c \in children : d.run = c.run /\ d.text = c.text
      OBVIOUS
    <3>1. PICK c \in children : d = [c EXCEPT !.parent = FALSE] \/ d = c
      BY <1>4 DEF Crash
    <3>2. c \in Children
      BY <1>0
    <3> QED
      BY <3>1, <3>2, ChildOrphaned
  <2>4. UNCHANGED <<program, candidate, evidence, workdir, exit>>
    BY <1>4 DEF Crash
  <2> QED
    BY <2>1, <2>2, <2>3, <2>4, <1>0
<1>5. CASE Child
  <2> SUFFICES ASSUME NEW c \in children,
                      ChildReads(c) \/ ChildWrites(c) \/ ChildSucceeds(c) \/ ChildFails(c),
                      UNCHANGED <<pc, attempt, store, crashes, history>>
               PROVE  WorkInv'
    BY <1>5 DEF Child
  <2>0. c \in Children /\ c.run \in Runs
    BY <1>0
  <2>1. CASE ChildReads(c)
    <3>1. PICK d : /\ d.run = c.run /\ d.text = workdir[c.run].program
                   /\ children' = (children \ {c}) \union {d}
      <4>1. workdir[c.run].program \in OrNone(Texts)
        BY <1>0
      <4> QED
        BY <2>0, <2>1, <4>1, ChildHasRead DEF ChildReads
    <3> QED
      BY <2>0, <2>1, <3>1, <1>0, <1>i DEF ChildReads
  <2>2. CASE ChildWrites(c)
    <3>1. PICK d : /\ d.run = c.run /\ d.text = c.text
                   /\ children' = (children \ {c}) \union {d}
      BY <2>0, <2>2, ChildHasWritten DEF ChildWrites
    <3>2. /\ workdir'[c.run].program = workdir[c.run].program
          /\ \A s \in Runs : s # c.run => workdir'[s] = workdir[s]
      BY <2>0, <2>2, <1>0 DEF ChildWrites
    <3> QED
      BY <2>0, <2>2, <3>1, <3>2, <1>0, <1>i DEF ChildWrites
  <2>3. CASE ChildSucceeds(c)
    <3>1. /\ workdir'[c.run].program = workdir[c.run].program /\ workdir'[c.run].result = c.text
          /\ \A s \in Runs : s # c.run => workdir'[s] = workdir[s]
      BY <2>0, <2>3, <1>0 DEF ChildSucceeds
    <3>2. c.run \notin orphaned => c.text = program[c.run]
      BY <2>3, TextsAssumption DEF ChildSucceeds, TypeInv, PhaseInv, Texts
    <3>3. /\ children' \subseteq children /\ \A s \in Runs : s # c.run => exit'[s] = exit[s]
      BY <2>0, <2>3, <1>0 DEF ChildSucceeds, Ended
    <3>4. UNCHANGED <<pc, program, candidate, evidence, orphaned>>
      OBVIOUS
    <3> QED
      BY <2>0, <3>1, <3>2, <3>3, <3>4, <1>0
  <2>4. CASE ChildFails(c)
    <3>1. children' \subseteq children /\ \A s \in Runs : exit'[s] = "ok" => exit[s] = "ok"
      BY <2>0, <2>4, <1>0 DEF ChildFails, Ended
    <3>2. UNCHANGED <<pc, program, candidate, evidence, workdir, orphaned>>
      BY <2>4 DEF ChildFails
    <3> QED
      BY <3>1, <3>2, <1>0
  <2> QED
    BY <2>1, <2>2, <2>3, <2>4
<1>6. CASE AlterFile
  BY <1>6 DEF AlterFile
<1>7. CASE LoseEntry
  BY <1>7 DEF LoseEntry
<1>8. CASE UNCHANGED vars
  BY <1>8 DEF vars
<1> QED
  BY <1>2, <1>3, <1>4, <1>5, <1>6, <1>7, <1>8 DEF Next, NodeRaises, Ends

-------------------------------------------------------------------------------
LEMMA CacheNext == TypeInv /\ CacheInv /\ [Next]_vars => CacheInv'
<1> SUFFICES ASSUME TypeInv, CacheInv, [Next]_vars PROVE CacheInv'
  OBVIOUS
<1> USE DEF CacheInv, At, Go, Readable, store, sandbox, attempt, history
<1>0. /\ pc \in [Runs -> Nodes] /\ program \in [Runs -> OrNone(Programs)]
      /\ files \in [Programs -> OrNone(Texts)] /\ children \subseteq Children
      /\ workdir \in [Runs -> [program: OrNone(Texts), result: OrNone(Texts)]]
      /\ \A s \in Runs : pc[s] \in HoldsProgram => program[s] \in Programs
  BY DEF TypeInv, TypeOK, PhaseInv
\* A run that is not about to execute takes part in nothing of this.
<1>1. ASSUME NEW r \in Runs,
             pc'[r] \notin {"execute", "waiting", "commit_evidence", "checkpoint"},
             \A s \in Runs : s # r => pc'[s] = pc[s] /\ program'[s] = program[s],
             UNCHANGED <<cache, files, workdir, bereft>>, reviewed \subseteq reviewed'
      PROVE  CacheInv'
  BY <1>1
<1>2. ASSUME NEW r \in Runs, Run(r) PROVE CacheInv'
  <2>1. CASE LookupEntry(r)
    BY <2>1, <1>0, <1>1 DEF LookupEntry
  <2>2. CASE LookupCode(r)
    BY <2>2, <1>0 DEF LookupCode
  <2>3. CASE GenerateCode(r)
    <3>1. CASE Go(r, "rejected") /\ UNCHANGED <<program, files>>
      BY <2>3, <3>1, <1>0, <1>1 DEF GenerateCode
    <3>2. ASSUME NEW p \in Programs, program' = [program EXCEPT ![r] = p],
                 files' = [files EXCEPT ![p] = p], Go(r, "execute")
          PROVE  CacheInv'
      <4>1. UNCHANGED <<cache, workdir, reviewed, bereft>>
        BY <2>3 DEF GenerateCode
      <4>2. ASSUME NEW s \in Runs, pc'[s] \in {"execute", "waiting"}, files'[program'[s]] # program'[s]
            PROVE  s \in bereft'
        <5>1. s # r
          BY <1>0, <3>2, <4>2
        <5>2. pc[s] \in {"execute", "waiting"} /\ program'[s] = program[s] /\ program[s] \in Programs
          BY <1>0, <3>2, <4>2, <5>1 DEF HoldsProgram
        <5> QED
          BY <1>0, <3>2, <4>1, <4>2, <5>2
      <4> QED
        BY <1>0, <3>2, <4>1, <4>2
    <3> QED
      BY <2>3, <3>1, <3>2 DEF GenerateCode
  <2>4. CASE Execute(r)
    <3>1. workdir'[r].program \in Programs /\ \A s \in Runs : s # r => workdir'[s] = workdir[s]
      BY <2>4, <1>0 DEF Execute, HoldsProgram
    <3>2. UNCHANGED <<program, files, cache, reviewed, bereft>> /\ pc' = [pc EXCEPT ![r] = "waiting"]
          /\ pc[r] = "execute"
      BY <2>4 DEF Execute
    <3> QED
      BY <3>1, <3>2, <1>0 DEF OrNone
  <2>5. CASE Collect(r)
    BY <2>5, <1>0, <1>1 DEF Collect
  <2>6. CASE RuntimeError(r)
    <3>1. pc'[r] \in {"generate_code", "rejected"} /\ \A s \in Runs : s # r => pc'[s] = pc[s]
      BY <2>6, <1>0 DEF RuntimeError, Repair
    <3> QED
      BY <2>6, <3>1, <1>1 DEF RuntimeError
  <2>7. CASE Timeout(r)
    BY <2>7, <1>0, <1>1 DEF Timeout
  <2>8. CASE Critique(r)
    <3>1. /\ UNCHANGED <<program, cache, files, workdir, bereft>> /\ reviewed \subseteq reviewed'
          /\ \A s \in Runs : s # r => pc'[s] = pc[s]
          /\ \/ pc'[r] \in {"generate_code", "rejected"}
             \/ pc'[r] = "commit_evidence" /\ program[r] \in reviewed'
      BY <2>8, <1>0 DEF Critique, Repair
    <3> QED
      BY <3>1
  <2>9. CASE CacheProgram(r)
    BY <2>9, <1>0 DEF CacheProgram
  <2>10. CASE CommitEvidence(r)
    BY <2>10, <1>0, <1>1 DEF CommitEvidence
  <2> QED
    BY <1>2, <2>1, <2>2, <2>3, <2>4, <2>5, <2>6, <2>7, <2>8, <2>9, <2>10 DEF Run
<1>3. ASSUME NEW r \in Runs, Cancel(r) PROVE CacheInv'
  BY <1>3, <1>0 DEF Cancel
<1>4. ASSUME NEW r \in Runs, Crash(r) PROVE CacheInv'
  <2>1. /\ pc'[r] \in {"commit_evidence", "checkpoint"} => pc[r] \in {"commit_evidence", "checkpoint"}
        /\ pc'[r] \in {"execute", "waiting"} => pc[r] \in {"execute", "waiting"}
        /\ \A s \in Runs : s # r => pc'[s] = pc[s]
    BY <1>4, <1>0 DEF Crash, NodeStart
  <2> QED
    BY <1>4, <2>1 DEF Crash
<1>5. CASE Child
  <2>1. \A r \in Runs : workdir'[r].program = workdir[r].program
    BY <1>5, <1>0 DEF Child, ChildReads, ChildWrites, ChildSucceeds, ChildFails
  <2> QED
    BY <1>5, <2>1 DEF Child
<1>6. CASE AlterFile
  <2>1. PICK p \in Programs, text \in {Garbage, None} :
           /\ files' = [files EXCEPT ![p] = text]
           /\ bereft' = bereft \union {r \in Runs : program[r] = p /\ pc[r] # "check_code"}
    BY <1>6 DEF AlterFile
  <2>2. UNCHANGED <<pc, program, workdir, cache, reviewed>>
    BY <1>6 DEF AlterFile
  <2>3. ASSUME NEW s \in Runs, pc[s] \in {"execute", "waiting"}, files'[program[s]] # program[s]
        PROVE  s \in bereft'
    <3>1. program[s] \in Programs
      BY <1>0, <2>3 DEF HoldsProgram
    <3> QED
      BY <1>0, <2>1, <2>3, <3>1
  <2> QED
    BY <2>2, <2>3
<1>7. CASE LoseEntry
  BY <1>7 DEF LoseEntry
<1>8. CASE UNCHANGED vars
  BY <1>8 DEF vars
<1> QED
  BY <1>2, <1>3, <1>4, <1>5, <1>6, <1>7, <1>8 DEF Next, NodeRaises, Ends

-------------------------------------------------------------------------------
\* Every variable has its type, whatever the interleaving; a child that began to
\* write has a program, and a child that ended well left a result.
THEOREM TypeCorrect == Spec => [](TypeOK /\ PhaseInv)
<1>1. Spec => []TypeInv
  BY TypeInit, TypeNext, PTL DEF Spec
<1> QED
  BY <1>1, PTL DEF TypeInv

\* The four parts together are inductive: the properties below follow from them.
THEOREM Invariance == Spec => [](TypeInv /\ ChildInv /\ WorkInv /\ CacheInv)
<1>1. Init => TypeInv /\ ChildInv /\ WorkInv /\ CacheInv
  BY TypeInit, ChildInit
<1>2. TypeInv /\ ChildInv /\ WorkInv /\ CacheInv /\ [Next]_vars
      => (TypeInv /\ ChildInv /\ WorkInv /\ CacheInv)'
  BY TypeNext, ChildNext, WorkNext, CacheNext
<1> QED
  BY <1>1, <1>2, PTL DEF Spec

\* Evidence pairs a program with the result of that very program, through repairs in
\* one directory, cancellations and altered files, unless the control process died
\* on a child (execute, SubprocessSandbox.run, commit_evidence).
THEOREM ResultIsRight == Spec => []ResultIsOfItsProgram
<1>1. WorkInv => ResultIsOfItsProgram
  BY DEF WorkInv, ResultIsOfItsProgram
<1> QED
  BY <1>1, Invariance, PTL

\* However a node ends that started a child, the child ends with it, so a directory
\* has one child at work at most (SubprocessSandbox._wait kills and reaps).
THEOREM ChildrenEnd == Spec => []NoChildOutlivesItsNode
<1>1. ChildInv => NoChildOutlivesItsNode
  <2> SUFFICES ASSUME ChildInv, NEW r \in Runs \ orphaned
               PROVE  /\ Cardinality(ChildrenOf(r)) <= 1
                      /\ pc[r] # "waiting" => ChildrenOf(r) = {}
    BY DEF NoChildOutlivesItsNode
  <2>1. pc[r] # "waiting" => ChildrenOf(r) = {}
    BY DEF ChildInv, ChildrenOf
  <2>2. CASE ChildrenOf(r) = {}
    BY <2>1, <2>2, FS_EmptySet
  <2>3. CASE ChildrenOf(r) # {}
    <3>1. PICK c \in ChildrenOf(r) : TRUE
      BY <2>3
    <3>2. c \in children /\ c.run = r
      BY <3>1 DEF ChildrenOf
    <3>3. \A d \in children : d.run = r => d = c
      BY <3>2 DEF ChildInv
    <3>4. ChildrenOf(r) = {c}
      BY <3>2, <3>3 DEF ChildrenOf
    <3>5. Cardinality({c}) = 1
      BY FS_Singleton
    <3> QED
      BY <2>1, <3>4, <3>5
  <2> QED
    BY <2>2, <2>3
<1> QED
  BY <1>1, Invariance, PTL

\* What a run finds in the cache was accepted by a Critic, only programs are ever
\* executed, and a run is held up by an unreadable program only when that changed
\* after the run had taken it (load_validated_program, save_validated_program).
THEOREM CacheOnlySavesWork == Spec => []CacheIsHarmless
<1>1. CacheInv => CacheIsHarmless
  BY DEF CacheInv, CacheIsHarmless, At
<1> QED
  BY <1>1, Invariance, PTL
=============================================================================
