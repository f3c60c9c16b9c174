---------------------------- MODULE Memory_proofs ----------------------------
(***************************************************************************)
(* The memory implements the register, for any number of runs, texts,      *)
(* rounds, calls, conversations and deaths.                                *)
(*                                                                         *)
(* The invariant says what the lock is worth: only its holder is between   *)
(* the check and the rename, so what the check found is still so.  Readers *)
(* do not take the lock and need not: a text is never taken away again.    *)
(***************************************************************************)
EXTENDS Memory, TLAPS

\* What a run has checked, it may rely on.
Relies(r) ==
    /\ pc[r] \in Holding => lock = r
    /\ pc[r] \in {"read_seed", "seed"} => document = None
    /\ pc[r] \in {"load", "read_unlock", "compare"} => document # None
    /\ pc[r] = "replace" => document = quoted[r] /\ document # None
    /\ quoted[r] # None => quoted[r] \in known[r]
    /\ basis[r] \subseteq known[r]
    /\ pc[r] \in Writing => content[r] \in Contents

LockInv == \A r \in Runs : Relies(r)

IInv == TypeOK /\ LockInv

LEMMA TypeInit == Init => TypeOK
BY MemoryAssumption DEF Init, TypeOK, Reading, Writing

LEMMA TypeStep == TypeOK /\ LockInv /\ [Next]_vars => TypeOK'
<1> SUFFICES ASSUME TypeOK, LockInv, [Next]_vars PROVE TypeOK'
  OBVIOUS
<1> USE MemoryAssumption DEF TypeOK, Reading, Writing, At, Goto, call, loop, bounds
<1>1. ASSUME NEW r \in Runs, Begin(r) PROVE TypeOK'
  BY <1>1 DEF Begin
<1>2. ASSUME NEW r \in Runs, Ask(r) PROVE TypeOK'
  BY <1>2 DEF Ask
<1>3. ASSUME NEW r \in Runs, Answer(r) PROVE TypeOK'
  BY <1>3 DEF Answer, Ends
<1>4. ASSUME NEW r \in Runs, Call(r) PROVE TypeOK'
  BY <1>4 DEF Call
<1>5. ASSUME NEW r \in Runs, Called(r) PROVE TypeOK'
  BY <1>5 DEF Called
<1>6. ASSUME NEW r \in Runs, Snapshot(r) PROVE TypeOK'
  BY <1>6 DEF Snapshot
<1>7. ASSUME NEW r \in Runs, LockToRead(r) PROVE TypeOK'
  BY <1>7 DEF LockToRead, Acquire
<1>8. ASSUME NEW r \in Runs, SeedWiki(r) PROVE TypeOK'
  BY <1>8 DEF SeedWiki
<1>9. ASSUME NEW r \in Runs, Unlock(r) PROVE TypeOK'
  BY <1>9 DEF Unlock
<1>10. ASSUME NEW r \in Runs, Load(r) PROVE TypeOK'
  BY <1>10 DEF Load, LockInv, Relies
<1>11. ASSUME NEW r \in Runs, LockToWrite(r) PROVE TypeOK'
  BY <1>11 DEF LockToWrite, Acquire
<1>12. ASSUME NEW r \in Runs, Compare(r) PROVE TypeOK'
  BY <1>12 DEF Compare
<1>13. ASSUME NEW r \in Runs, Replace(r) PROVE TypeOK'
  BY <1>13 DEF Replace, LockInv, Relies
<1>14. ASSUME NEW r \in Runs, Death(r) PROVE TypeOK'
  BY <1>14 DEF Death, Ends
<1>15. CASE UNCHANGED vars
  BY <1>15 DEF vars
<1> QED
  BY <1>1, <1>2, <1>3, <1>4, <1>5, <1>6, <1>7, <1>8, <1>9, <1>10, <1>11, <1>12, <1>13,
     <1>14, <1>15 DEF Next, Progress, Silent

LEMMA LockInit == Init => LockInv
BY DEF Init, LockInv, Relies, Holding, Writing

LEMMA LockStep == TypeOK /\ LockInv /\ [Next]_vars => LockInv'
<1> SUFFICES ASSUME TypeOK, LockInv, [Next]_vars, NEW s \in Runs PROVE Relies(s)'
  BY DEF LockInv
<1> USE MemoryAssumption DEF TypeOK, Relies, LockInv, Reading, Writing, Holding, At, Goto,
        call, loop, bounds
<1>1. ASSUME NEW r \in Runs, Begin(r) PROVE Relies(s)'
  BY <1>1 DEF Begin
<1>2. ASSUME NEW r \in Runs, Ask(r) PROVE Relies(s)'
  BY <1>2 DEF Ask
<1>3. ASSUME NEW r \in Runs, Answer(r) PROVE Relies(s)'
  BY <1>3 DEF Answer, Ends
<1>4. ASSUME NEW r \in Runs, Call(r) PROVE Relies(s)'
  BY <1>4 DEF Call
<1>5. ASSUME NEW r \in Runs, Called(r) PROVE Relies(s)'
  BY <1>5 DEF Called
<1>6. ASSUME NEW r \in Runs, Snapshot(r) PROVE Relies(s)'
  BY <1>6 DEF Snapshot
<1>7. ASSUME NEW r \in Runs, LockToRead(r) PROVE Relies(s)'
  BY <1>7 DEF LockToRead, Acquire
<1>8. ASSUME NEW r \in Runs, SeedWiki(r) PROVE Relies(s)'
  BY <1>8 DEF SeedWiki
<1>9. ASSUME NEW r \in Runs, Unlock(r) PROVE Relies(s)'
  BY <1>9 DEF Unlock
<1>10. ASSUME NEW r \in Runs, Load(r) PROVE Relies(s)'
  BY <1>10 DEF Load
<1>11. ASSUME NEW r \in Runs, LockToWrite(r) PROVE Relies(s)'
  BY <1>11 DEF LockToWrite, Acquire
<1>12. ASSUME NEW r \in Runs, Compare(r) PROVE Relies(s)'
  BY <1>12 DEF Compare
<1>13. ASSUME NEW r \in Runs, Replace(r) PROVE Relies(s)'
  BY <1>13 DEF Replace
<1>14. ASSUME NEW r \in Runs, Death(r) PROVE Relies(s)'
  BY <1>14 DEF Death, Ends
<1>15. CASE UNCHANGED vars
  BY <1>15 DEF vars
<1> QED
  BY <1>1, <1>2, <1>3, <1>4, <1>5, <1>6, <1>7, <1>8, <1>9, <1>10, <1>11, <1>12, <1>13,
     <1>14, <1>15 DEF Next, Progress, Silent

LEMMA Invariance == Spec => []IInv
<1>1. Init => IInv
  BY TypeInit, LockInit DEF IInv
<1>2. IInv /\ [Next]_vars => IInv'
  BY TypeStep, LockStep DEF IInv
<1> QED
  BY <1>1, <1>2, PTL DEF Spec

\* Every variable of the memory and of its tool loops has its type.
THEOREM TypeCorrect == Spec => []TypeOK
BY Invariance, PTL DEF IInv

\* A step of the memory is a step of the register, or none.
LEMMA StepSimulation == IInv /\ [Next]_vars => [R!Next]_<<document, known>>
<1> SUFFICES ASSUME TypeOK, LockInv, [Next]_vars PROVE [R!Next]_<<document, known>>
  BY DEF IInv
<1> USE DEF At, Goto, call, loop, bounds
<1>1. ASSUME NEW r \in Runs,
             Begin(r) \/ Ask(r) \/ Call(r) \/ Called(r) \/ Snapshot(r) \/ LockToRead(r)
                \/ Unlock(r) \/ LockToWrite(r) \/ Compare(r)
      PROVE  UNCHANGED <<document, known>>
  BY <1>1 DEF Begin, Ask, Call, Called, Snapshot, LockToRead, Unlock, LockToWrite, Compare
<1>2. ASSUME NEW r \in Runs, Answer(r) \/ Death(r) PROVE R!Forget(r)
  BY <1>2 DEF Answer, Death, Ends, R!Forget
<1>3. ASSUME NEW r \in Runs, SeedWiki(r) PROVE R!Create
  BY <1>3 DEF SeedWiki, R!Create, LockInv, Relies
<1>4. ASSUME NEW r \in Runs, Load(r) PROVE R!Read(r)
  BY <1>4 DEF Load, R!Read, LockInv, Relies
<1>5. ASSUME NEW r \in Runs, Replace(r) PROVE R!Write(r)
  BY <1>5 DEF Replace, R!Write, LockInv, Relies, TypeOK, Writing
<1>6. CASE UNCHANGED vars
  BY <1>6 DEF vars
<1> QED
  BY <1>1, <1>2, <1>3, <1>4, <1>5, <1>6 DEF Next, Progress, Silent, R!Next, vars

\* The shared wiki is a register that a run replaces only knowing what it replaces:
\* lookups without the lock, the check for the seed under it, compare and rename, in
\* any interleaving of processes, deaths included (llm/memory.py).
THEOREM WikiImplementsRegister == Spec => WikiIsARegister
<1>1. Init => R!Init
  BY DEF Init, R!Init
<1> QED
  BY <1>1, StepSimulation, Invariance, PTL DEF Spec, R!Spec, WikiIsARegister
=============================================================================
