-------------------------------- MODULE Memory --------------------------------
(***************************************************************************)
(* The wiki that all runs share (llm/memory.py), read and written by the   *)
(* tool loop of a planner call (llm/client.py, llm/planner_service.py).    *)
(* Runs may be in different processes: between them there is a lock file   *)
(* and the atomicity of a rename.  A revision is the hash of a text, so it *)
(* is modelled by the text.                                                *)
(*                                                                         *)
(* The calls of one message are chosen before any of them is carried out,  *)
(* hence from what the conversation had when the message was posted        *)
(* (basis); which call comes next is decided when its turn comes.  A call  *)
(* that is malformed yields an error text and is left out.                 *)
(***************************************************************************)
EXTENDS Naturals

CONSTANTS
    Runs,
    Contents,           \* the texts of the wiki
    Seed,               \* the text it starts with (load_bundled_wiki)
    MAX_TOOL_ROUNDS,
    MaxCalls,           \* bound on the tool calls of one message
    MaxConversations,   \* bound on the planner calls of a run
    MaxDeaths,          \* bound on deaths of a process
    None

VARIABLES
    document,        \* the file: a text, or None while there is none
    lock,            \* the run that holds the lock file
    pc,              \* what each run does next
    known,           \* the texts whose revision its conversation has
    basis,           \* those it had when the last message was posted
    quoted,          \* expected_revision of the write under way
    content,         \* the text it is to save
    calls,           \* calls of the last message that are left
    rounds,
    conversations,
    deaths

call == <<quoted, content>>
loop == <<basis, calls, rounds>>
bounds == <<conversations, deaths>>
vars == <<document, lock, pc, known, call, loop, bounds>>

ASSUME MemoryAssumption ==
    /\ MAX_TOOL_ROUNDS \in Nat /\ MaxCalls \in Nat
    /\ MaxConversations \in Nat /\ MaxDeaths \in Nat
    /\ Seed \in Contents
    /\ None \notin Runs \union Contents

\* snapshot: read, read_lock, read_seed, read_unlock, load.
\* write: lock, seed, compare, replace, unlock.
Reading == {"read", "read_lock", "read_seed", "read_unlock", "load"}
Writing == {"lock", "seed", "compare", "replace", "unlock"}
Holding == {"read_seed", "read_unlock", "seed", "compare", "replace", "unlock"}

TypeOK ==
    /\ document \in Contents \union {None}
    /\ lock \in Runs \union {None}
    /\ pc \in [Runs -> Reading \union Writing \union {"idle", "ask", "call"}]
    /\ known \in [Runs -> SUBSET Contents]
    /\ basis \in [Runs -> SUBSET Contents]
    /\ quoted \in [Runs -> Contents \union {None}]
    /\ content \in [Runs -> Contents \union {None}]
    /\ calls \in [Runs -> 0 .. MaxCalls]
    /\ rounds \in [Runs -> 0 .. MAX_TOOL_ROUNDS]
    /\ conversations \in [Runs -> 0 .. MaxConversations]
    /\ deaths \in 0 .. MaxDeaths

Init ==
    /\ document = None /\ lock = None
    /\ pc = [r \in Runs |-> "idle"]
    /\ known = [r \in Runs |-> {}] /\ basis = [r \in Runs |-> {}]
    /\ quoted = [r \in Runs |-> None] /\ content = [r \in Runs |-> None]
    /\ calls = [r \in Runs |-> 0] /\ rounds = [r \in Runs |-> 0]
    /\ conversations = [r \in Runs |-> 0]
    /\ deaths = 0

At(r, stage) == pc[r] = stage
Goto(r, stage) == pc' = [pc EXCEPT ![r] = stage]

-------------------------------------------------------------------------------
(* The tool loop.                                                             *)

\* The conversation is gone: nothing of it is kept but the document.
Ends(r) ==
    /\ Goto(r, "idle")
    /\ known' = [known EXCEPT ![r] = {}] /\ basis' = [basis EXCEPT ![r] = {}]
    /\ quoted' = [quoted EXCEPT ![r] = None] /\ content' = [content EXCEPT ![r] = None]
    /\ calls' = [calls EXCEPT ![r] = 0] /\ rounds' = [rounds EXCEPT ![r] = 0]

\* _generate_json: the prompt has the wiki and its revision.
Begin(r) ==
    /\ At(r, "idle") /\ conversations[r] < MaxConversations
    /\ Goto(r, "read")
    /\ conversations' = [conversations EXCEPT ![r] = @ + 1]
    /\ UNCHANGED <<document, lock, known, call, loop, deaths>>

\* Mutated: a round is counted only when it brings several calls.
AskUncounted(r) ==
    /\ At(r, "ask") /\ rounds[r] < MAX_TOOL_ROUNDS
    /\ \E n \in 1 .. MaxCalls :
          /\ calls' = [calls EXCEPT ![r] = n]
          /\ rounds' = [rounds EXCEPT ![r] = IF n > 1 THEN @ + 1 ELSE @]
    /\ basis' = [basis EXCEPT ![r] = known[r]]
    /\ Goto(r, "call")
    /\ UNCHANGED <<document, lock, known, call, bounds>>

\* A message with tool calls.
Ask(r) ==
    /\ At(r, "ask") /\ rounds[r] < MAX_TOOL_ROUNDS
    /\ \E n \in 1 .. MaxCalls : calls' = [calls EXCEPT ![r] = n]
    /\ rounds' = [rounds EXCEPT ![r] = @ + 1]
    /\ basis' = [basis EXCEPT ![r] = known[r]]
    /\ Goto(r, "call")
    /\ UNCHANGED <<document, lock, known, call, bounds>>

\* The final JSON, an error, the limit of the rounds, or the run's budget.
Answer(r) ==
    /\ At(r, "ask")
    /\ Ends(r)
    /\ UNCHANGED <<document, lock, bounds>>

Call(r) ==
    /\ At(r, "call") /\ calls[r] > 0
    /\ calls' = [calls EXCEPT ![r] = @ - 1]
    /\ \/ Goto(r, "read") /\ UNCHANGED call
       \/ \E old \in basis[r] \union {None}, new \in Contents :
             /\ quoted' = [quoted EXCEPT ![r] = old]
             /\ content' = [content EXCEPT ![r] = new]
             /\ Goto(r, "lock")
    /\ UNCHANGED <<document, lock, known, basis, rounds, bounds>>

\* All results are in the conversation.
Called(r) ==
    /\ At(r, "call") /\ calls[r] = 0
    /\ Goto(r, "ask")
    /\ UNCHANGED <<document, lock, known, call, loop, bounds>>

-------------------------------------------------------------------------------
(* AnalysisMemory.snapshot: without the lock, unless there is no file.        *)

Snapshot(r) ==
    /\ At(r, "read")
    /\ Goto(r, IF document = None THEN "read_lock" ELSE "load")
    /\ UNCHANGED <<document, lock, known, call, loop, bounds>>

Acquire(r) ==
    /\ lock = None
    /\ lock' = r

\* Mutated: the file is not looked for again under the lock.
LockToReadUnchecked(r) ==
    /\ At(r, "read_lock") /\ Acquire(r)
    /\ Goto(r, "read_seed")
    /\ UNCHANGED <<document, known, call, loop, bounds>>

LockToRead(r) ==
    /\ At(r, "read_lock") /\ Acquire(r)
    /\ Goto(r, IF document = None THEN "read_seed" ELSE "read_unlock")
    /\ UNCHANGED <<document, known, call, loop, bounds>>

\* _write: the rename.
SeedWiki(r) ==
    /\ At(r, "read_seed") \/ At(r, "seed")
    /\ document' = Seed
    /\ Goto(r, IF At(r, "read_seed") THEN "read_unlock" ELSE "compare")
    /\ UNCHANGED <<lock, known, call, loop, bounds>>

Unlock(r) ==
    /\ At(r, "read_unlock") \/ At(r, "unlock")
    /\ lock' = None
    /\ Goto(r, IF At(r, "read_unlock") THEN "load" ELSE "call")
    /\ quoted' = [quoted EXCEPT ![r] = None] /\ content' = [content EXCEPT ![r] = None]
    /\ UNCHANGED <<document, known, loop, bounds>>

\* The text read goes into the prompt, or into the conversation as the call's result.
Load(r) ==
    /\ At(r, "load")
    /\ known' = [known EXCEPT ![r] = @ \union {document}]
    /\ Goto(r, IF rounds[r] = 0 THEN "ask" ELSE "call")
    /\ UNCHANGED <<document, lock, call, loop, bounds>>

-------------------------------------------------------------------------------
(* AnalysisMemory.write: under the lock.                                      *)

LockToWrite(r) ==
    /\ At(r, "lock") /\ Acquire(r)
    /\ Goto(r, IF document = None THEN "seed" ELSE "compare")
    /\ UNCHANGED <<document, known, call, loop, bounds>>

\* MemoryConflictError goes into the conversation without a revision.
Compare(r) ==
    /\ At(r, "compare")
    /\ Goto(r, IF document = quoted[r] THEN "replace" ELSE "unlock")
    /\ UNCHANGED <<document, lock, known, call, loop, bounds>>

Replace(r) ==
    /\ At(r, "replace")
    /\ document' = content[r]
    /\ known' = [known EXCEPT ![r] = @ \union {content[r]}]
    /\ Goto(r, "unlock")
    /\ UNCHANGED <<lock, call, loop, bounds>>

-------------------------------------------------------------------------------
\* The system gives the lock of a dead process back.
Death(r) ==
    /\ ~At(r, "idle") /\ deaths < MaxDeaths
    /\ Ends(r)
    /\ lock' = IF lock = r THEN None ELSE lock
    /\ deaths' = deaths + 1
    /\ UNCHANGED <<document, conversations>>

Progress(r) ==
    \/ Ask(r) \/ Answer(r) \/ Call(r) \/ Called(r)
    \/ Snapshot(r) \/ LockToRead(r) \/ SeedWiki(r) \/ Unlock(r) \/ Load(r)
    \/ LockToWrite(r) \/ Compare(r) \/ Replace(r)

Silent == (\A r \in Runs : At(r, "idle") /\ conversations[r] = MaxConversations) /\ UNCHANGED vars

Next == (\E r \in Runs : Begin(r) \/ Progress(r) \/ Death(r)) \/ Silent

Spec == Init /\ [][Next]_vars

FairSpec == Spec /\ \A r \in Runs : WF_vars(Progress(r))

-------------------------------------------------------------------------------
\* Runs in different processes lose no update of one another: the wiki is created
\* once, by whoever comes first, and each text that replaces another is saved by a
\* run whose conversation has the text that it replaces (llm/memory.py:
\* MemoryConflictError).
R == INSTANCE Register
WikiIsARegister == R!Spec

\* Every planner call ends, whatever tools its model goes on calling and whoever
\* dies with the lock.
ConversationsEnd == \A r \in Runs : ~At(r, "idle") ~> At(r, "idle")
=============================================================================
