------------------------------- MODULE Register -------------------------------
(***************************************************************************)
(* What the shared memory promises to the runs that edit it (llm/memory.py,*)
(* llm/prompts/master_memory_system.md): one document that changes at once,*)
(* is created at most once, and is replaced only by a run whose            *)
(* conversation has the text it replaces.                                  *)
(***************************************************************************)
CONSTANTS Runs, Contents, Seed, None

VARIABLES
    document,   \* the text, or None before it is created
    known       \* the texts in the conversation of each run

Init == document = None /\ known = [r \in Runs |-> {}]

Create == document = None /\ document' = Seed /\ UNCHANGED known

Read(r) ==
    /\ document # None
    /\ known' = [known EXCEPT ![r] = @ \union {document}]
    /\ UNCHANGED document

Write(r) ==
    /\ document \in known[r]
    /\ document' \in Contents
    /\ known' = [known EXCEPT ![r] = @ \union {document'}]

Forget(r) == known' = [known EXCEPT ![r] = {}] /\ UNCHANGED document

Next == Create \/ \E r \in Runs : Read(r) \/ Write(r) \/ Forget(r)

Spec == Init /\ [][Next]_<<document, known>>
=============================================================================
