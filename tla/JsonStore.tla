------------------------------ MODULE JsonStore ------------------------------
(***************************************************************************)
(* One document of the JSON persistence, src/lib/json-store.js: a file, a  *)
(* copy of it in memory, and a promise chain that serializes updates.      *)
(*                                                                         *)
(* The document is the set of the updates in it.  The process may stop at  *)
(* any moment and start again: what it had in memory is gone, files stay   *)
(* as the last rename left them.  A temporary file has a name of its own   *)
(* and is never read, so that only the rename shows.  A loss of power that *)
(* undoes a rename, and a second process that uses the files, are excluded *)
(* by the code's own comment (json-store.js:5).                            *)
(***************************************************************************)
CONSTANTS
    Updates,        \* bound: the calls of update
    Readers         \* callers of read

VARIABLES
    disk,       \* the file
    cache,      \* state.value
    loaded,     \* state.loaded
    step,       \* step[u]: how far update u is
    work,       \* work[u]: the working copy the mutator of u edited
    reading,    \* the readers that wait for the file to be loaded
    seen        \* seen[r]: the document reader r was given last

docVars == <<disk, cache, loaded, step, work, reading, seen>>

Steps == {"none", "queued", "holding", "writing", "renamed", "done", "failed", "lost"}

DocTypeOK ==
    /\ disk \subseteq Updates
    /\ cache \subseteq Updates
    /\ loaded \in BOOLEAN
    /\ step \in [Updates -> Steps]
    /\ work \in [Updates -> SUBSET Updates]
    /\ reading \subseteq Readers
    /\ seen \in [Readers -> SUBSET Updates]

\* ENOENT: a file that is not there reads as the default document.
DocInit ==
    /\ disk = {}
    /\ cache = {}
    /\ loaded = FALSE
    /\ step = [u \in Updates |-> "none"]
    /\ work = [u \in Updates |-> {}]
    /\ reading = {}
    /\ seen = [r \in Readers |-> {}]

-----------------------------------------------------------------------------
(* update.                                                                 *)

Holds(u) == step[u] \in {"holding", "writing", "renamed"}

Queue(u) ==
    /\ step[u] = "none"
    /\ step' = [step EXCEPT ![u] = "queued"]
    /\ UNCHANGED <<disk, cache, loaded, work, reading, seen>>

\* Mutant of Unlocked: updates do not wait for each other.
UnlockedAlways == TRUE

\* withStoreLock: the update before has settled.
Unlocked == \A u \in Updates : ~Holds(u)

\* The chain is in the order of the calls; here it is in any order.
Acquire(u) ==
    /\ step[u] = "queued"
    /\ Unlocked
    /\ step' = [step EXCEPT ![u] = "holding"]
    /\ UNCHANGED <<disk, cache, loaded, work, reading, seen>>

\* Mutant of Prepare: the mutator edits the copy that readers are given.
PrepareInPlace(u) ==
    /\ step[u] = "holding"
    /\ loaded
    /\ cache' = cache \cup {u}
    /\ work' = [work EXCEPT ![u] = cache \cup {u}]
    /\ step' = [step EXCEPT ![u] = "writing"]
    /\ UNCHANGED <<disk, loaded, reading, seen>>

\* The mutator edits a clone, which is then serialized.
Prepare(u) ==
    /\ step[u] = "holding"
    /\ loaded
    /\ work' = [work EXCEPT ![u] = cache \cup {u}]
    /\ step' = [step EXCEPT ![u] = "writing"]
    /\ UNCHANGED <<disk, cache, loaded, reading, seen>>

\* The mutator throws, or the temporary file cannot be written or renamed.
Reject(u) ==
    /\ loaded
    /\ step[u] \in {"holding", "writing"}
    /\ step' = [step EXCEPT ![u] = "failed"]
    /\ UNCHANGED <<disk, cache, loaded, work, reading, seen>>

Rename(u) ==
    /\ step[u] = "writing"
    /\ disk' = work[u]
    /\ step' = [step EXCEPT ![u] = "renamed"]
    /\ UNCHANGED <<cache, loaded, work, reading, seen>>

\* After the temporary name is unlinked the document is published, and the
\* caller answered.
Publish(u) ==
    /\ step[u] = "renamed"
    /\ cache' = work[u]
    /\ loaded' = TRUE
    /\ step' = [step EXCEPT ![u] = "done"]
    /\ UNCHANGED <<disk, work, reading, seen>>

-----------------------------------------------------------------------------
(* read.                                                                   *)

ReadLoaded(r) ==
    /\ loaded
    /\ seen' = [seen EXCEPT ![r] = cache]
    /\ reading' = reading \ {r}
    /\ UNCHANGED <<disk, cache, loaded, step, work>>

ReadWaits(r) ==
    /\ ~loaded
    /\ reading' = reading \cup {r}
    /\ UNCHANGED <<disk, cache, loaded, step, work, seen>>

Wanted == reading # {} \/ \E u \in Updates : step[u] = "holding"

\* One load serves all who wait for it.
Load ==
    /\ ~loaded
    /\ Wanted
    /\ cache' = disk
    /\ loaded' = TRUE
    /\ UNCHANGED <<disk, step, work, reading, seen>>

\* All who wait are given the error; the next call tries again.
LoadFails ==
    /\ ~loaded
    /\ Wanted
    /\ reading' = {}
    /\ step' = [u \in Updates |-> IF step[u] = "holding" THEN "failed" ELSE step[u]]
    /\ UNCHANGED <<disk, cache, loaded, work, seen>>

-----------------------------------------------------------------------------
Crash ==
    /\ cache' = {}
    /\ loaded' = FALSE
    /\ reading' = {}
    /\ work' = [u \in Updates |-> {}]
    /\ step' = [u \in Updates |->
                  IF step[u] = "queued" \/ Holds(u) THEN "lost" ELSE step[u]]
    /\ UNCHANGED <<disk, seen>>

DocNext ==
    \/ \E u \in Updates :
        \/ Queue(u) \/ Acquire(u) \/ Prepare(u) \/ Reject(u) \/ Rename(u)
        \/ Publish(u)
    \/ \E r \in Readers : ReadLoaded(r) \/ ReadWaits(r)
    \/ Load \/ LoadFails \/ Crash

DocSpec == DocInit /\ [][DocNext]_docVars

-----------------------------------------------------------------------------
(* What the store promises.                                                *)

\* Whatever callers were told survives any crash: updates that were answered
\* are in the file, what was read is in the file, and "exceptions never leak
\* uncommitted edits" (json-store.js:74): an update that failed is not.
AnswersStand ==
    /\ \A u \in Updates : step[u] = "done" => u \in disk
    /\ \A u \in Updates : step[u] = "failed" => u \notin disk
    /\ \A r \in Readers : seen[r] \subseteq disk

\* What the process goes by, or would go by if it started now.
Current == IF loaded THEN cache ELSE disk

Answer == [u \in Updates |->
             IF step[u] \in {"done", "failed"} THEN step[u] ELSE "none"]

\* Updates take effect one at a time, whole and for good; one that is renamed
\* but not published when the process stops takes effect by that.
Document == INSTANCE AtomicDocument WITH doc <- Current, answer <- Answer

ImplementsDocument == Document!Spec
=============================================================================
