------------------------ MODULE RemoteExecution_proofs ------------------------
(***************************************************************************)
(* Proofs about RemoteExecution for all numbers of requests, processes,    *)
(* retries, crashes and restarts.  The argument has two halves: while no   *)
(* record has gone stale the directory is never given up, so that mkdir    *)
(* admits one request (FreshInv); and an answer, wherever it is held, is   *)
(* that of a run, stale records or not (EarnedInv).                        *)
(***************************************************************************)
EXTENDS RemoteExecution, TLAPS

USE DEF store, handlers, caller, history

\* A client that waits has sent the request it waits for.
WaitInv == client = "wait" => call \in Posts

\* The directory is made once and stays; the request that made it is the only one
\* on its way to a first run.
FreshInv ==
    ~aged =>
      /\ age = 0 /\ sweeper = "idle"
      /\ \A h \in Posts : pc[h] \notin {"unlink", "rmdir", "remake"}
      /\ dir = "absent" =>
            ran = {} /\ \A h \in Posts : pc[h] \notin {"stale", "read", "write", "run"}
      /\ \A h \in Posts : pc[h] = "write" => ran = {}
      /\ \A g, h \in Posts : pc[g] = "write" /\ pc[h] = "write" => g = h
      /\ \A h \in Posts : pc[h] = "run" => <<h, "running">> \in ran
      /\ \A r, s \in ran : r = s

\* The end of a run, wherever it is told, is that of a run there was.
Earned(status) == \E h \in Posts : <<h, status>> \in ran
EarnedInv ==
    /\ dir \in Terminal => Earned(dir)
    /\ \A h \in Posts : reply[h] \in Terminal => Earned(reply[h])
    /\ AnswerIsEarned

IInv == TypeOK /\ WaitInv /\ FreshInv /\ EarnedInv

-------------------------------------------------------------------------------
\* The initial states satisfy the invariant.
LEMMA InitIInv == Init => IInv
<1> SUFFICES ASSUME Init PROVE IInv
  OBVIOUS
<1> USE RemoteAssumption DEF Init
<1>1. TypeOK
  <2>1. /\ dir \in Records \union {"absent", "empty"}
        /\ pc \in [Posts -> Stages]
        /\ process \in [Posts -> Processes \union {None}]
        /\ reply \in [Posts -> Records \union {None}]
    BY DEF Stages
  <2>2. /\ age \in 0 .. 2 /\ attempt \in 1 .. CONNECT_RETRIES
        /\ crashes \in 0 .. MaxCrashes /\ restarts \in 0 .. MaxRestarts
    OBVIOUS
  <2> QED
    BY <2>1, <2>2 DEF TypeOK
<1>2. WaitInv
  BY DEF WaitInv
<1>3. FreshInv
  BY DEF FreshInv
<1>4. EarnedInv
  BY DEF EarnedInv, AnswerIsEarned, Terminal, Records
<1> QED
  BY <1>1, <1>2, <1>3, <1>4 DEF IInv

\* The store keeps its types under every call the handlers and the sweep make.
LEMMA StoreType ==
  ASSUME TypeOK,
         \/ MakeDirectory \/ Unlink \/ Rmdir
         \/ \E status \in Records : WriteRecord(status)
  PROVE  dir' \in Records \union {"absent", "empty"} /\ age' \in 0 .. 2
  BY DEF TypeOK, MakeDirectory, Unlink, Rmdir, WriteRecord

\* A status the client accepts leaves it waiting for more or done with a result.
LEMMA AcceptedType ==
  ASSUME TypeOK, NEW status \in Records, Accepted(status)
  PROVE  /\ client' \in {"await", "done"} /\ answer' \in Records \union {None}
         /\ results' \subseteq Terminal
         /\ attempt' = attempt /\ call' = call
  BY DEF TypeOK, Accepted, Return, Records, Terminal

\* A record that is read is a record.
LEMMA ReadType ==
  ASSUME TypeOK, Read # None
  PROVE  Read \in Records /\ (Read \in Terminal => Read = dir) /\ dir # "absent"
  BY RemoteAssumption DEF TypeOK, Read, Records, Terminal

-------------------------------------------------------------------------------
\* Every step keeps the types, and a client waits only for a request of its own.
LEMMA TypeStep == TypeOK /\ WaitInv /\ [Next]_vars => TypeOK' /\ WaitInv'
<1> SUFFICES ASSUME TypeOK, WaitInv, [Next]_vars PROVE TypeOK' /\ WaitInv'
  OBVIOUS
<1> USE RemoteAssumption DEF TypeOK, WaitInv
<1>1. ASSUME NEW h \in Posts, Handler(h) PROVE TypeOK' /\ WaitInv'
  <2>1. dir' \in Records \union {"absent", "empty"} /\ age' \in 0 .. 2
    BY <1>1, StoreType
    DEF Handler, Claim, CheckStale, RemoveRecord, RemoveDirectory, Reclaim, RecordRunning,
        ReadExisting, Finish, Records
  <2>2. pc' \in [Posts -> Stages]
    BY <1>1
    DEF Handler, Claim, CheckStale, RemoveRecord, RemoveDirectory, Reclaim, RecordRunning,
        ReadExisting, Finish, Goto, StartRun, Answer, Stages, Claiming
  <2>3. reply' \in [Posts -> Records \union {None}]
    <3>1. CASE ReadExisting(h)
      BY <3>1, ReadType DEF ReadExisting, Answer
    <3>2. CASE Finish(h)
      BY <3>2 DEF Finish, Answer, Records
    <3> QED
      BY <1>1, <3>1, <3>2
      DEF Handler, Claim, CheckStale, RemoveRecord, RemoveDirectory, Reclaim, RecordRunning
  <2>4. ran' \subseteq Posts \X (Terminal \union {"running"})
    BY <1>1
    DEF Handler, Claim, CheckStale, RemoveRecord, RemoveDirectory, Reclaim, RecordRunning,
        ReadExisting, Finish, StartRun
  <2>5. UNCHANGED <<sweeper, process, caller, aged, crashes, restarts>>
    BY <1>1
    DEF Handler, Claim, CheckStale, RemoveRecord, RemoveDirectory, Reclaim, RecordRunning,
        ReadExisting, Finish
  <2> QED
    BY <2>1, <2>2, <2>3, <2>4, <2>5
<1>2. ASSUME NEW p \in Processes, Crash(p) PROVE TypeOK' /\ WaitInv'
  BY <1>2 DEF Crash, Stages
<1>3. CASE SweepLook \/ SweepUnlink \/ SweepRmdir
  <2>1. dir' \in Records \union {"absent", "empty"} /\ age' \in 0 .. 2
    BY <1>3, StoreType DEF SweepLook, SweepUnlink, SweepRmdir
  <2> QED
    BY <1>3, <2>1 DEF SweepLook, SweepUnlink, SweepRmdir
<1>4. CASE GrowOld
  BY <1>4 DEF GrowOld
<1>5. CASE Post
  <2>1. CASE client' = "lookup"
    BY <1>5, <2>1 DEF Post
  <2>2. CASE client' # "lookup"
    <3>1. NextPost \in Posts
      BY <1>5, <2>2 DEF Post, NextPost, Unused
    <3> QED
      BY <1>5, <2>2, <3>1 DEF Post, Stages
  <2> QED
    BY <2>1, <2>2
<1>6. CASE Responded \/ LookUp \/ Poll \/ Deadline
  <2>1. CASE Responded
    <3>1. reply[call] \in Records
      BY <2>1 DEF Responded
    <3> QED
      BY <2>1, <3>1, AcceptedType DEF Responded
  <2>2. CASE LookUp
    <3>1. CASE Read # None /\ Accepted(Read)
      BY <2>2, <3>1, ReadType, AcceptedType DEF LookUp
    <3>2. CASE attempt = CONNECT_RETRIES /\ Return("refused")
      BY <2>2, <3>2 DEF LookUp, Return, Terminal
    <3>3. CASE attempt # CONNECT_RETRIES /\ client' = "post" /\ attempt' = attempt + 1
                /\ UNCHANGED <<call, answer, results>>
      BY <2>2, <3>3 DEF LookUp
    <3> QED
      BY <2>2, <3>1, <3>2, <3>3 DEF LookUp
  <2>3. CASE Poll
    BY <2>3, ReadType, AcceptedType DEF Poll, Return, Terminal
  <2>4. CASE Deadline
    BY <2>4 DEF Deadline, Return, Terminal
  <2> QED
    BY <1>6, <2>1, <2>2, <2>3, <2>4
<1>7. CASE PostFailed
  BY <1>7 DEF PostFailed
<1>8. CASE Restart
  BY <1>8 DEF Restart
<1>9. CASE UNCHANGED vars
  BY <1>9 DEF vars
<1> QED
  BY <1>1, <1>2, <1>3, <1>4, <1>5, <1>6, <1>7, <1>8, <1>9 DEF Next, Client, Idle

-------------------------------------------------------------------------------
\* While no record has gone stale the directory admits one request: the actions
\* that could remove it are out of reach, and a lost claim finds a record.
LEMMA FreshStep == TypeOK /\ FreshInv /\ [Next]_vars => FreshInv'
<1> SUFFICES ASSUME TypeOK, FreshInv, [Next]_vars, ~aged' PROVE FreshInv'
  BY DEF FreshInv
<1> USE RemoteAssumption DEF TypeOK, FreshInv
<1>1. ~aged
  BY DEF Next, Handler, Claim, CheckStale, RemoveRecord, RemoveDirectory, Reclaim,
         RecordRunning, ReadExisting, Finish, Crash, SweepLook, SweepUnlink, SweepRmdir,
         GrowOld, Client, Post, Responded, PostFailed, LookUp, Poll, Deadline, Restart,
         Idle, vars
<1>2. ASSUME NEW h \in Posts, Handler(h) PROVE FreshInv'
  <2>1. CASE Claim(h)
    <3>1. CASE dir = "absent"
      BY <1>1, <2>1, <3>1 DEF Claim, MakeDirectory, Goto
    <3>2. CASE dir # "absent"
      BY <1>1, <2>1, <3>2 DEF Claim, Goto
    <3> QED
      BY <3>1, <3>2
  <2>2. CASE CheckStale(h)
    <3>1. ~IsStale
      BY <1>1 DEF IsStale
    <3> QED
      BY <1>1, <2>2, <3>1 DEF CheckStale, Goto
  <2>3. CASE RecordRunning(h)
    <3>1. ran' = {<<h, "running">>} /\ dir' = "RUNNING" /\ age' = 0
      BY <1>1, <2>3 DEF RecordRunning, StartRun, WriteRecord
    <3>2. pc' = [pc EXCEPT ![h] = "run"]
      BY <2>3 DEF RecordRunning, StartRun, Goto
    <3>3. \A g \in Posts : pc[g] # "run" /\ (g # h => pc[g] # "write")
      BY <1>1, <2>3 DEF RecordRunning
    <3> QED
      BY <1>1, <2>3, <3>1, <3>2, <3>3 DEF RecordRunning
  <2>4. CASE ReadExisting(h)
    <3>1. dir # "absent"
      BY <1>1, <2>4 DEF ReadExisting
    <3>2. Read # None
      BY <3>1 DEF Read, Records
    <3> QED
      BY <1>1, <2>4, <3>1, <3>2 DEF ReadExisting, Answer, Goto
  <2>5. CASE Finish(h)
    <3>1. PICK status \in Terminal :
             /\ dir' = status /\ age' = 0
             /\ pc' = [pc EXCEPT ![h] = "replied"]
             /\ ran' = (ran \ {<<h, "running">>}) \union {<<h, status>>}
      BY <2>5 DEF Finish, WriteRecord, Answer, Goto
    <3>2. ran = {<<h, "running">>}
      <4>1. <<h, "running">> \in ran /\ \A r, s \in ran : r = s
        BY <1>1, <2>5 DEF Finish
      <4> QED
        BY <4>1
    <3>3. ran' = {<<h, status>>}
      BY <3>1, <3>2
    <3>4. \A g \in Posts : pc[g] # "write" /\ (g # h => pc[g] # "run")
      BY <1>1, <2>5, <3>2 DEF Finish
    <3> QED
      BY <1>1, <2>5, <3>1, <3>3, <3>4 DEF Finish, Terminal
  <2>6. CASE RemoveRecord(h) \/ RemoveDirectory(h) \/ Reclaim(h)
    BY <1>1, <2>6 DEF RemoveRecord, RemoveDirectory, Reclaim
  <2> QED
    BY <1>2, <2>1, <2>2, <2>3, <2>4, <2>5, <2>6 DEF Handler
<1>3. ASSUME NEW p \in Processes, Crash(p) PROVE FreshInv'
  BY <1>1, <1>3 DEF Crash
<1>4. CASE SweepLook \/ SweepUnlink \/ SweepRmdir \/ GrowOld
  BY <1>1, <1>4 DEF SweepLook, SweepUnlink, SweepRmdir, GrowOld
<1>5. CASE Post
  BY <1>1, <1>5 DEF Post
<1>6. CASE Responded \/ PostFailed \/ LookUp \/ Poll \/ Deadline \/ Restart \/ UNCHANGED vars
  BY <1>1, <1>6 DEF Responded, PostFailed, LookUp, Poll, Deadline, Restart, vars
<1> QED
  BY <1>2, <1>3, <1>4, <1>5, <1>6 DEF Next, Client, Idle

-------------------------------------------------------------------------------
\* A run that has ended stays in the history, so what was earned stays earned.
LEMMA EarnedKept ==
  ASSUME NEW status \in Terminal, Earned(status),
         \/ ran \subseteq ran'
         \/ \E h \in Posts : ran \ {<<h, "running">>} \subseteq ran'
  PROVE  Earned(status)'
  BY DEF Earned, Terminal

\* What the client accepts as a result was earned when it was told.
LEMMA AcceptedEarned ==
  ASSUME AnswerIsEarned, NEW status \in Records, Accepted(status), UNCHANGED ran,
         status \in Terminal => Earned(status)
  PROVE  AnswerIsEarned'
  BY DEF AnswerIsEarned, Accepted, Return, Earned, Records

\* Every step keeps the answers earned, at the store, the handlers and the client.
LEMMA EarnedStep == TypeOK /\ WaitInv /\ EarnedInv /\ [Next]_vars => EarnedInv'
<1> SUFFICES ASSUME TypeOK, WaitInv, EarnedInv, [Next]_vars PROVE EarnedInv'
  OBVIOUS
<1> USE RemoteAssumption DEF TypeOK, EarnedInv
<1>1. ASSUME ran \subseteq ran', UNCHANGED results, dir' = dir \/ dir' \notin Terminal,
             UNCHANGED reply
      PROVE  EarnedInv'
  BY <1>1 DEF Earned, AnswerIsEarned
<1>2. ASSUME NEW h \in Posts, Handler(h) PROVE EarnedInv'
  <2>1. CASE ReadExisting(h)
    <3>1. CASE Read # None /\ Answer(h, Read) /\ UNCHANGED ran
      <4>1. Read \in Terminal => Earned(Read)
        BY <3>1, ReadType
      <4> QED
        BY <2>1, <3>1, <4>1 DEF ReadExisting, Answer, Earned, AnswerIsEarned
    <3>2. CASE Read = None /\ StartRun(h) /\ UNCHANGED reply
      BY <1>1, <2>1, <3>2 DEF ReadExisting, StartRun
    <3> QED
      BY <2>1, <3>1, <3>2 DEF ReadExisting
  <2>2. CASE Finish(h)
    <3>1. PICK status \in Terminal :
             /\ dir' = status
             /\ reply' = [reply EXCEPT ![h] = status]
             /\ ran' = (ran \ {<<h, "running">>}) \union {<<h, status>>}
      BY <2>2 DEF Finish, WriteRecord, Answer
    <3>2. Earned(status)'
      BY <3>1 DEF Earned
    <3>3. \A other \in Terminal : Earned(other) => Earned(other)'
      BY <3>1, EarnedKept
    <3>4. AnswerIsEarned'
      <4>1. results' = results /\ results \subseteq Terminal
        BY <2>2 DEF Finish
      <4> QED
        BY <3>3, <4>1 DEF AnswerIsEarned, Earned
    <3>5. ASSUME NEW g \in Posts PROVE (reply[g] \in Terminal => Earned(reply[g]))'
      <4>1. CASE g = h
        BY <3>1, <3>2, <4>1 DEF Earned
      <4>2. CASE g # h
        BY <3>1, <3>3, <4>2 DEF Earned
      <4> QED
        BY <4>1, <4>2
    <3>6. (dir \in Terminal => Earned(dir))'
      BY <3>1, <3>2 DEF Earned
    <3> QED
      BY <3>4, <3>5, <3>6
  <2>3. CASE Claim(h) \/ CheckStale(h) \/ RemoveRecord(h) \/ RemoveDirectory(h)
              \/ Reclaim(h) \/ RecordRunning(h)
    BY <1>1, <2>3
    DEF Claim, CheckStale, RemoveRecord, RemoveDirectory, Reclaim, RecordRunning, StartRun,
        MakeDirectory, WriteRecord, Unlink, Rmdir, Terminal
  <2> QED
    BY <1>2, <2>1, <2>2, <2>3 DEF Handler
<1>3. ASSUME NEW p \in Processes, Crash(p) PROVE EarnedInv'
  BY <1>1, <1>3 DEF Crash
<1>4. CASE SweepLook \/ SweepUnlink \/ SweepRmdir \/ GrowOld
  BY <1>1, <1>4 DEF SweepLook, SweepUnlink, SweepRmdir, GrowOld, Unlink, Rmdir, Terminal
<1>5. CASE Post \/ PostFailed \/ Restart \/ UNCHANGED vars
  BY <1>1, <1>5 DEF Post, PostFailed, Restart, vars
<1>6. CASE Responded \/ LookUp \/ Poll \/ Deadline
  <2>1. UNCHANGED <<dir, reply, ran>>
    BY <1>6 DEF Responded, LookUp, Poll, Deadline
  <2>2. Read # None => Read \in Records /\ (Read \in Terminal => Earned(Read))
    BY ReadType
  <2>3. CASE Return("refused")
    BY <2>1, <2>3 DEF Return, AnswerIsEarned, Earned
  <2>4. CASE Responded
    <3>1. reply[call] \in Records /\ (reply[call] \in Terminal => Earned(reply[call]))
      BY <2>4 DEF Responded, WaitInv
    <3>2. AnswerIsEarned'
      BY <2>1, <2>4, <3>1, AcceptedEarned DEF Responded
    <3> QED
      BY <2>1, <3>2 DEF Earned
  <2>5. CASE Read # None /\ Accepted(Read)
    <3>1. AnswerIsEarned'
      BY <2>1, <2>2, <2>5, AcceptedEarned
    <3> QED
      BY <2>1, <3>1 DEF Earned
  <2>6. CASE UNCHANGED results
    BY <1>1, <2>1, <2>6
  <2> QED
    BY <1>6, <2>3, <2>4, <2>5, <2>6 DEF LookUp, Poll, Deadline
<1> QED
  BY <1>2, <1>3, <1>4, <1>5, <1>6 DEF Next, Client, Idle

-------------------------------------------------------------------------------
\* Every reachable state satisfies the invariant.
THEOREM Invariance == Spec => []IInv
<1>1. Init => IInv
  BY InitIInv
<1>2. IInv /\ [Next]_vars => IInv'
  BY TypeStep, FreshStep, EarnedStep DEF IInv
<1> QED
  BY <1>1, <1>2, PTL DEF Spec

\* The record, the handlers, the client and the history have their types.
THEOREM TypeCorrect == Spec => []TypeOK
<1>1. IInv => TypeOK
  BY DEF IInv
<1> QED
  BY <1>1, Invariance, PTL

\* POST /executions: while no record has gone stale, one execution_id is run at
\* most once, by whatever requests, processes, crashes and restarts.
THEOREM RunsOnce == Spec => []RunOnce
<1>1. IInv => RunOnce
  BY DEF IInv, FreshInv, RunOnce
<1> QED
  BY <1>1, Invariance, PTL

\* A success or a failure that run() returns is how a run of the code ended, stale
\* and lost records included.
THEOREM AnswersAreEarned == Spec => []AnswerIsEarned
<1>1. IInv => AnswerIsEarned
  BY DEF IInv, EarnedInv
<1> QED
  BY <1>1, Invariance, PTL

\* While no record has gone stale, every answer run() returns is that of the one
\* run, over restarts of the control process.
THEOREM AnswersAreOne == Spec => []AnswersAgree
<1>1. ASSUME IInv PROVE AnswersAgree
  <2> SUFFICES ASSUME ~aged, NEW r \in results \ {"refused"}, NEW s \in results \ {"refused"}
               PROVE  r = s
    BY DEF AnswersAgree
  <2>1. PICK g \in Posts : <<g, r>> \in ran
    BY <1>1 DEF IInv, EarnedInv, AnswerIsEarned
  <2>2. PICK h \in Posts : <<h, s>> \in ran
    BY <1>1 DEF IInv, EarnedInv, AnswerIsEarned
  <2>3. <<g, r>> = <<h, s>>
    BY <1>1, <2>1, <2>2 DEF IInv, FreshInv
  <2> QED
    BY <2>3
<1> QED
  BY <1>1, Invariance, PTL
=============================================================================
