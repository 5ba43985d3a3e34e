--------------------------- MODULE JsonStoreProofs ---------------------------
(***************************************************************************)
(* What JsonStore promises, for any number of updates and readers and      *)
(* through any number of crashes: types, answers that stand, and the       *)
(* refinement of AtomicDocument.                                           *)
(*                                                                         *)
(* The file is the published document, but for the one update that was     *)
(* renamed and not yet published; that update holds the lock.              *)
(***************************************************************************)
EXTENDS JsonStore, TLAPS

OneHolds == \A u, v \in Updates : Holds(u) /\ Holds(v) => u = v

Copied ==
    \A u \in Updates : step[u] \in {"writing", "renamed"} =>
        loaded /\ work[u] = cache \cup {u}

RenamedInFile == \A u \in Updates : step[u] = "renamed" => disk = work[u]

FilePublished == loaded /\ (\A u \in Updates : step[u] # "renamed") => disk = cache

InFile == \A u \in disk : step[u] \in {"renamed", "done", "lost"}

InCopy == loaded => \A u \in cache : step[u] \in {"done", "lost"}

DocInv ==
    /\ DocTypeOK
    /\ OneHolds /\ Copied /\ RenamedInFile /\ FilePublished /\ InFile /\ InCopy
    /\ AnswersStand

-----------------------------------------------------------------------------
LEMMA InitDocInv == DocInit => DocInv
BY DEF DocInit, DocInv, DocTypeOK, Steps, OneHolds, Holds, Copied, RenamedInFile,
       FilePublished, InFile, InCopy, AnswersStand

\* The published document is never ahead of the file.
LEMMA CopyWithinFile == DocInv /\ loaded => cache \subseteq disk
<1> SUFFICES ASSUME DocInv, loaded PROVE cache \subseteq disk
  OBVIOUS
<1>1. CASE \A u \in Updates : step[u] # "renamed"
  BY <1>1 DEF DocInv, FilePublished
<1>2. CASE \E u \in Updates : step[u] = "renamed"
  BY <1>2 DEF DocInv, Copied, RenamedInFile
<1> QED
  BY <1>1, <1>2

\* While an update prepares or writes, the file is the published document.
LEMMA HeldFile ==
    ASSUME DocInv, NEW u \in Updates, loaded, step[u] \in {"holding", "writing"}
    PROVE  disk = cache /\ u \notin disk
<1>1. \A v \in Updates : step[v] # "renamed"
  BY DEF DocInv, OneHolds, Holds
<1> QED
  BY <1>1 DEF DocInv, FilePublished, InFile

LEMMA QueueDocInv ==
    ASSUME DocInv, NEW u \in Updates, Queue(u)
    PROVE  DocInv'
BY DEF DocInv, Queue, DocTypeOK, Steps, OneHolds, Holds, Copied, RenamedInFile,
       FilePublished, InFile, InCopy, AnswersStand

LEMMA AcquireDocInv ==
    ASSUME DocInv, NEW u \in Updates, Acquire(u)
    PROVE  DocInv'
BY DEF DocInv, Acquire, Unlocked, DocTypeOK, Steps, OneHolds, Holds, Copied,
       RenamedInFile, FilePublished, InFile, InCopy, AnswersStand

LEMMA PrepareDocInv ==
    ASSUME DocInv, NEW u \in Updates, Prepare(u)
    PROVE  DocInv'
BY DEF DocInv, Prepare, DocTypeOK, Steps, OneHolds, Holds, Copied, RenamedInFile,
       FilePublished, InFile, InCopy, AnswersStand

LEMMA RejectDocInv ==
    ASSUME DocInv, NEW u \in Updates, Reject(u)
    PROVE  DocInv'
<1>1. u \notin disk
  BY HeldFile DEF Reject
<1> QED
  BY <1>1 DEF DocInv, Reject, DocTypeOK, Steps, OneHolds, Holds, Copied, RenamedInFile,
              FilePublished, InFile, InCopy, AnswersStand

LEMMA RenameDocInv ==
    ASSUME DocInv, NEW u \in Updates, Rename(u)
    PROVE  DocInv'
<1>1. disk = cache /\ u \notin disk
  BY HeldFile DEF Rename, DocInv, Copied
<1>2. loaded /\ disk' = cache \cup {u}
  BY DEF Rename, DocInv, Copied
<1>3. step' = [step EXCEPT ![u] = "renamed"]
      /\ UNCHANGED <<cache, loaded, work, reading, seen>>
  BY DEF Rename
<1>4. \A v \in Updates : Holds(v) => v = u
  BY DEF DocInv, OneHolds, Rename, Holds
<1>5. DocTypeOK' /\ OneHolds'
  BY <1>2, <1>3 DEF DocInv, DocTypeOK, Steps, OneHolds, Holds, Rename
<1>6. Copied' /\ RenamedInFile'
  BY <1>2, <1>3, <1>4 DEF DocInv, DocTypeOK, Copied, RenamedInFile, Rename, Holds
<1>7. FilePublished' /\ InFile' /\ InCopy'
  BY <1>1, <1>2, <1>3 DEF DocInv, DocTypeOK, FilePublished, InFile, InCopy
<1>8. AnswersStand'
  BY <1>1, <1>2, <1>3 DEF DocInv, DocTypeOK, AnswersStand
<1> QED
  BY <1>5, <1>6, <1>7, <1>8 DEF DocInv

LEMMA PublishDocInv ==
    ASSUME DocInv, NEW u \in Updates, Publish(u)
    PROVE  DocInv'
<1>1. loaded /\ disk = cache \cup {u} /\ work[u] = disk
  BY DEF Publish, DocInv, Copied, RenamedInFile
<1>2. \A v \in Updates : Holds(v) => v = u
  BY DEF DocInv, OneHolds, Publish, Holds
<1>3. step' = [step EXCEPT ![u] = "done"] /\ cache' = disk /\ loaded'
      /\ UNCHANGED <<disk, work, reading, seen>>
  BY <1>1 DEF Publish
<1>4. DocTypeOK' /\ OneHolds' /\ Copied' /\ RenamedInFile'
  BY <1>2, <1>3 DEF DocInv, DocTypeOK, Steps, OneHolds, Copied, RenamedInFile, Holds
<1>5. FilePublished' /\ InFile' /\ AnswersStand'
  BY <1>1, <1>3 DEF DocInv, DocTypeOK, FilePublished, InFile, AnswersStand
<1>6. InCopy'
  BY <1>2, <1>3 DEF DocInv, DocTypeOK, InFile, InCopy, Holds
<1> QED
  BY <1>4, <1>5, <1>6 DEF DocInv

LEMMA ReadDocInv ==
    ASSUME DocInv, NEW r \in Readers, ReadLoaded(r) \/ ReadWaits(r)
    PROVE  DocInv'
<1>1. ReadLoaded(r) => cache \subseteq disk
  BY CopyWithinFile DEF ReadLoaded
<1> QED
  BY <1>1 DEF DocInv, ReadLoaded, ReadWaits, DocTypeOK, OneHolds, Holds, Copied,
              RenamedInFile, FilePublished, InFile, InCopy, AnswersStand

LEMMA LoadDocInv ==
    ASSUME DocInv, Load \/ LoadFails \/ Crash
    PROVE  DocInv'
<1>1. ~loaded => \A u \in Updates : step[u] \notin {"writing", "renamed"}
  BY DEF DocInv, Copied
<1>2. CASE Load
  BY <1>1, <1>2 DEF DocInv, Load, DocTypeOK, OneHolds, Holds, Copied, RenamedInFile,
                    FilePublished, InFile, InCopy, AnswersStand
<1>3. CASE LoadFails
  BY <1>1, <1>3 DEF DocInv, LoadFails, DocTypeOK, Steps, OneHolds, Holds, Copied,
                    RenamedInFile, FilePublished, InFile, InCopy, AnswersStand
<1>4. CASE Crash
  BY <1>4 DEF DocInv, Crash, DocTypeOK, Steps, OneHolds, Holds, Copied, RenamedInFile,
              FilePublished, InFile, InCopy, AnswersStand
<1> QED
  BY <1>2, <1>3, <1>4

LEMMA NextDocInv == DocInv /\ [DocNext]_docVars => DocInv'
<1> SUFFICES ASSUME DocInv, [DocNext]_docVars PROVE DocInv'
  OBVIOUS
<1>1. CASE UNCHANGED docVars
  BY <1>1 DEF docVars, DocInv, DocTypeOK, OneHolds, Holds, Copied, RenamedInFile,
              FilePublished, InFile, InCopy, AnswersStand
<1> QED
  BY <1>1, QueueDocInv, AcquireDocInv, PrepareDocInv, RejectDocInv, RenameDocInv,
     PublishDocInv, ReadDocInv, LoadDocInv DEF DocNext

-----------------------------------------------------------------------------
\* The store stays well typed.
THEOREM DocTypeCorrect == DocSpec => []DocTypeOK
<1>1. DocInv => DocTypeOK
  BY DEF DocInv
<1> QED
  BY <1>1, InitDocInv, NextDocInv, PTL DEF DocSpec

\* An answered update is in the file, a refused one is not, and nothing is read
\* that a crash could take back: atomicWrite comes before the publication.
THEOREM AnswersOutliveCrashes == DocSpec => []AnswersStand
<1>1. DocInv => AnswersStand
  BY DEF DocInv
<1> QED
  BY <1>1, InitDocInv, NextDocInv, PTL DEF DocSpec

-----------------------------------------------------------------------------
(* Each step is one of AtomicDocument, or shows nothing.                   *)

Shown == <<Current, Answer, seen>>

LEMMA QuietMaps ==
    ASSUME DocInv, NEW u \in Updates,
           Queue(u) \/ Acquire(u) \/ Prepare(u) \/ Rename(u)
    PROVE  UNCHANGED Shown
<1>1. Rename(u) => loaded
  BY DEF Rename, DocInv, Copied
<1>2. UNCHANGED <<Current, seen>>
  BY <1>1 DEF Queue, Acquire, Prepare, Rename, Current
<1>3. UNCHANGED Answer
  BY DEF Queue, Acquire, Prepare, Rename, Answer, DocInv, DocTypeOK
<1> QED
  BY <1>2, <1>3 DEF Shown

LEMMA RejectMaps ==
    ASSUME DocInv, NEW u \in Updates, Reject(u)
    PROVE  Document!Refuse(u)
<1>1. u \notin Current /\ UNCHANGED <<Current, seen>>
  BY HeldFile DEF Reject, Current
<1>2. Answer[u] = "none" /\ Answer' = [Answer EXCEPT ![u] = "failed"]
  BY DEF Reject, Answer, DocInv, DocTypeOK
<1> QED
  BY <1>1, <1>2 DEF Document!Refuse

LEMMA PublishMaps ==
    ASSUME DocInv, NEW u \in Updates, Publish(u)
    PROVE  Document!Apply(u)
<1>1. u \notin Current /\ Current' = Current \cup {u} /\ UNCHANGED seen
  BY DEF Publish, Current, DocInv, Copied, InCopy
<1>2. Answer[u] = "none" /\ Answer' = [Answer EXCEPT ![u] = "done"]
  BY DEF Publish, Answer, DocInv, DocTypeOK
<1> QED
  BY <1>1, <1>2 DEF Document!Apply

LEMMA LoadFailsMaps ==
    ASSUME DocInv, LoadFails
    PROVE  UNCHANGED Shown \/ \E u \in Updates : Document!Refuse(u)
<1>1. UNCHANGED <<Current, seen>>
  BY DEF LoadFails, Current
<1>2. CASE \A u \in Updates : step[u] # "holding"
  <2>1. UNCHANGED Answer
    BY <1>2 DEF LoadFails, Answer
  <2> QED
    BY <1>1, <2>1 DEF Shown
<1>3. ASSUME NEW u \in Updates, step[u] = "holding" PROVE Document!Refuse(u)
  <2>1. \A v \in Updates : step[v] = "holding" => v = u
    BY <1>3 DEF DocInv, OneHolds, Holds
  <2>2. u \notin Current
    BY <1>3 DEF LoadFails, Current, DocInv, InFile
  <2>3. Answer[u] = "none" /\ Answer' = [Answer EXCEPT ![u] = "failed"]
    BY <1>3, <2>1 DEF LoadFails, Answer
  <2> QED
    BY <1>1, <2>2, <2>3 DEF Document!Refuse
<1> QED
  BY <1>2, <1>3

\* A crash between the rename and the publication makes the update effective.
LEMMA CrashMaps ==
    ASSUME DocInv, Crash
    PROVE  UNCHANGED Shown \/ \E u \in Updates : Document!Apply(u)
<1>1. UNCHANGED seen /\ Current' = disk
  BY DEF Crash, Current
<1>2. UNCHANGED Answer
  BY DEF Crash, Answer, Holds
<1>3. CASE \A u \in Updates : step[u] # "renamed"
  BY <1>1, <1>2, <1>3 DEF Shown, Current, DocInv, FilePublished
<1>4. ASSUME NEW u \in Updates, step[u] = "renamed" PROVE Document!Apply(u)
  <2>1. Current = cache /\ disk = cache \cup {u} /\ u \notin cache
    BY <1>4 DEF Current, DocInv, Copied, RenamedInFile, InCopy
  <2>2. Answer[u] = "none"
    BY <1>4 DEF Answer
  <2> QED
    BY <1>1, <1>2, <2>1, <2>2 DEF Document!Apply
<1> QED
  BY <1>3, <1>4

LEMMA DocStepMaps == DocInv /\ [DocNext]_docVars => [Document!Next]_Shown
<1> SUFFICES ASSUME DocInv, [DocNext]_docVars PROVE [Document!Next]_Shown
  OBVIOUS
<1>1. CASE UNCHANGED docVars
  BY <1>1 DEF docVars, Shown, Current, Answer
<1>2. ASSUME NEW u \in Updates, Queue(u) \/ Acquire(u) \/ Prepare(u) \/ Rename(u)
      PROVE  UNCHANGED Shown
  BY <1>2, QuietMaps
<1>3. ASSUME NEW u \in Updates, Reject(u) \/ Publish(u) PROVE Document!Next
  BY <1>3, RejectMaps, PublishMaps DEF Document!Next
<1>4. ASSUME NEW r \in Readers, ReadLoaded(r) PROVE Document!Next
  <2>1. Document!Read(r)
    BY <1>4 DEF ReadLoaded, Document!Read, Current, Answer
  <2> QED
    BY <2>1 DEF Document!Next
<1>5. ASSUME NEW r \in Readers, ReadWaits(r) PROVE UNCHANGED Shown
  BY <1>5 DEF ReadWaits, Shown, Current, Answer
<1>6. CASE Load
  BY <1>6 DEF Load, Shown, Current, Answer
<1>7. CASE LoadFails
  BY <1>7, LoadFailsMaps DEF Document!Next
<1>8. CASE Crash
  BY <1>8, CrashMaps DEF Document!Next
<1> QED
  BY <1>1, <1>2, <1>3, <1>4, <1>5, <1>6, <1>7, <1>8 DEF DocNext

\* The file, its copy in memory, the lock and the crashes together behave as one
\* document whose updates take effect one at a time, whole and for good.
THEOREM StoreImplementsDocument == DocSpec => ImplementsDocument
<1>1. DocInit => Document!Init
  BY DEF DocInit, Document!Init, Current, Answer
<1>2. DocInv /\ [DocNext]_docVars => [Document!Next]_<<Current, Answer, seen>>
  BY DocStepMaps DEF Shown
<1> QED
  BY <1>1, <1>2, InitDocInv, NextDocInv, PTL
     DEF DocSpec, ImplementsDocument, Document!Spec, Document!vars
=============================================================================
