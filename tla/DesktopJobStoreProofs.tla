------------------------ MODULE DesktopJobStoreProofs ------------------------
(***************************************************************************)
(* What the proofs about the two stores of desktop jobs share.             *)
(***************************************************************************)
EXTENDS DesktopJobStore, TLAPS

-----------------------------------------------------------------------------
(* What the operators on one record return.                                *)

\* A record the sweep returns is a record, and it is the old one or one whose
\* deadline was missed.
LEMMA SweptRecord ==
    ASSUME NEW r \in JobRecord, NEW late \in BOOLEAN
    PROVE  /\ Swept(r, late) \in JobRecord
           /\ \/ Swept(r, late) = r
              \/ /\ r.status = "queued"
                 /\ Swept(r, late) = [r EXCEPT !.status = "expired"]
              \/ /\ r.status = "leased"
                 /\ Swept(r, late) = [r EXCEPT !.status = "outcome_unknown"]
              \/ /\ r.status = "outcome_unknown"
                 /\ Swept(r, late) =
                      [r EXCEPT !.status = "expired_unreconciled",
                                !.leaseHash = None, !.claimKey = None]
  BY ZenonT(60) DEF Swept, JobRecord, Status, Gone, Active, Terminal, Outcome

LEMMA StoredRecords ==
    /\ Absent \in JobRecord
    /\ Removed \in JobRecord
    /\ \A u \in Users, e \in JobEnvs : Queued(u, e) \in JobRecord
    /\ \A r \in JobRecord : [r EXCEPT !.result = "purged"] \in JobRecord
<1> USE DEF JobRecord
<1>1. Absent \in JobRecord
  BY DEF Absent, Status, Gone
<1>2. Removed \in JobRecord
  BY <1>1 DEF Removed, Status, Gone
<1>3. \A u \in Users, e \in JobEnvs : Queued(u, e) \in JobRecord
  BY <1>1 DEF Queued, Status, Active
<1>4. \A r \in JobRecord : [r EXCEPT !.result = "purged"] \in JobRecord
  OBVIOUS
<1> QED
  BY <1>1, <1>2, <1>3, <1>4

LEMMA CompletedRecord ==
    ASSUME NEW r \in JobRecord, NEW c \in Claims, NEW o \in Outcome
    PROVE  Completed(r, c, o) \in JobRecord
  BY DEF Completed, JobRecord, Status, Terminal

Open == {"leased", "outcome_unknown"}

\* What removing or sweeping does to one record.
MovedOn(r, s) ==
    \/ s = r
    \/ r.status \in Terminal /\ s = Removed
    \/ r.status = "queued" /\ s = [r EXCEPT !.status = "expired"]
    \/ r.status = "leased" /\ s = [r EXCEPT !.status = "outcome_unknown"]
    \/ /\ r.status = "outcome_unknown"
       /\ s = [r EXCEPT !.status = "expired_unreconciled",
                        !.leaseHash = None, !.claimKey = None]

\* Absent records are left alone.
LEMMA MovedOnAbsent ==
    ASSUME NEW s, MovedOn(Absent, s)
    PROVE  s = Absent
  BY DEF MovedOn, Absent, Terminal, Outcome

-----------------------------------------------------------------------------
\* The operations the two stores share keep every variable well typed.
LEMMA StoreType ==
    ASSUME TypeOK, StoreNext
    PROVE  TypeOK'
<1>1. ASSUME NEW j \in Jobs, NEW c \in Claims, NEW o \in Outcome, Complete(c, j, o)
      PROVE  TypeOK'
  <2>1. Completed(job[j], c, o) \in JobRecord
    BY CompletedRecord DEF TypeOK
  <2> QED
    BY <1>1, <2>1 DEF Complete, TypeOK
<1>2. ASSUME NEW j \in Jobs, NEW c \in Claims, CompleteAgain(c, j)
      PROVE  TypeOK'
  BY <1>2 DEF CompleteAgain, TypeOK
<1>3. ASSUME NEW j \in Jobs, WaitRead(j) PROVE TypeOK'
  BY <1>3 DEF WaitRead, TypeOK, WaiterState
<1>4. ASSUME NEW j \in Jobs, WaitPurge(j) PROVE TypeOK'
  <2>1. [job[j] EXCEPT !.result = "purged"] \in JobRecord
    BY StoredRecords DEF TypeOK
  <2> QED
    BY <1>4, <2>1 DEF WaitPurge, TypeOK, WaiterState
<1>5. ASSUME NEW j \in Jobs, WaitDeadline(j) PROVE TypeOK'
  BY <1>5 DEF WaitDeadline, TypeOK, WaiterState
<1>6. ASSUME NEW j \in Jobs, WaitRemoved(j) PROVE TypeOK'
  BY <1>6 DEF WaitRemoved, TypeOK, WaiterState
<1>7. ASSUME NEW j \in Jobs, Poll(j) PROVE TypeOK'
  BY <1>7 DEF Poll, TypeOK
<1>8. ASSUME NEW j \in Jobs, Elapse(j) PROVE TypeOK'
  BY <1>8 DEF Elapse, TypeOK, Deadlines
<1>9. ASSUME NEW j \in Jobs, WaitAnswer(j) \/ WaitFail(j) PROVE TypeOK'
  BY <1>9 DEF WaitAnswer, WaitFail, TypeOK, WaiterState
<1> QED
  BY <1>1, <1>2, <1>3, <1>4, <1>5, <1>6, <1>7, <1>8, <1>9 DEF StoreNext

-----------------------------------------------------------------------------
(* What the parties are told of one job: the outcomes acks a desktop was   *)
(* acknowledged, the terminal statuses reps polls returned, the wait w.    *)

Told(r, acks, reps, w) ==
    /\ \A s \in acks \cup (reps \cap Outcome) : r.status \in {s, "pruned"}
    /\ w \in {"handing", "returned"} => r.status \in {"completed", "pruned"}
    /\ w \in {"waiting", "settling", "pending"} /\ r.status = "completed"
         => r.result = "stored"

ToldOfAll == \A j \in Jobs : Told(job[j], acked[j], reported[j], waiter[j])

LEMMA MovedOnTold ==
    ASSUME NEW r \in JobRecord, NEW s, NEW acks \in SUBSET Outcome, NEW reps, NEW w,
           Told(r, acks, reps, w), MovedOn(r, s)
    PROVE  Told(s, acks, reps, w)
<1>1. CASE s = r
  BY <1>1
<1>2. CASE s = Removed
  BY <1>2 DEF Told, Removed, Absent
<1>3. CASE r.status \in Active /\ s.status \in {"expired", "outcome_unknown", "expired_unreconciled"}
  BY <1>3 DEF Told, Active, Outcome
<1> QED
  BY <1>1, <1>2, <1>3 DEF MovedOn, JobRecord, Active

\* No operation the two stores share tells anybody of another outcome.
LEMMA StoreTold ==
    ASSUME TypeOK, ToldOfAll, StoreNext
    PROVE  ToldOfAll'
<1>1. ASSUME NEW j \in Jobs, NEW c \in Claims, NEW o \in Outcome, Complete(c, j, o)
      PROVE  ToldOfAll'
  <2>1. /\ job[j] \in JobRecord /\ job[j].status \in Open
        /\ job' = [job EXCEPT ![j] = Completed(job[j], c, o)]
        /\ acked' = [acked EXCEPT ![j] = @ \cup {o}]
        /\ reported' = reported /\ waiter' = waiter
    BY <1>1 DEF Complete, Completable, Open, TypeOK
  <2>2. acked[j] \cup (reported[j] \cap Outcome) = {}
       /\ waiter[j] \notin {"handing", "returned"}
    BY <2>1 DEF ToldOfAll, Told, Outcome, Open, TypeOK
  <2>3. Completed(job[j], c, o).status = o /\ Completed(job[j], c, o).result = "stored"
    BY <2>1 DEF Completed, JobRecord
  <2>4. Told(Completed(job[j], c, o), {o}, reported[j], waiter[j])
    BY <2>2, <2>3 DEF Told
  <2>5. acked'[j] = {o} /\ job'[j] = Completed(job[j], c, o)
    BY <2>1, <2>2 DEF TypeOK
  <2>6. ASSUME NEW k \in Jobs, k # j
        PROVE  job'[k] = job[k] /\ acked'[k] = acked[k]
    BY <2>1, <2>6 DEF TypeOK
  <2> QED
    BY <2>1, <2>4, <2>5, <2>6 DEF ToldOfAll
<1>2. ASSUME NEW j \in Jobs, NEW c \in Claims, CompleteAgain(c, j)
      PROVE  ToldOfAll'
  BY <1>2 DEF CompleteAgain, ToldOfAll, Told, TypeOK
<1>3. ASSUME NEW j \in Jobs, WaitPurge(j) PROVE ToldOfAll'
  <2>1. /\ job[j] \in JobRecord /\ job[j].status \in Terminal
        /\ job' = [job EXCEPT ![j] = [job[j] EXCEPT !.result = "purged"]]
        /\ waiter' = [waiter EXCEPT ![j] = IF job[j].status = "completed"
                                           THEN "handing" ELSE "failing"]
        /\ acked' = acked /\ reported' = reported
    BY <1>3 DEF WaitPurge, TypeOK
  <2>2. Told([job[j] EXCEPT !.result = "purged"], acked[j], reported[j], waiter'[j])
    BY <2>1 DEF ToldOfAll, Told, JobRecord, TypeOK
  <2> QED
    BY <2>1, <2>2 DEF ToldOfAll, TypeOK
<1>4. ASSUME NEW j \in Jobs,
             \/ WaitRead(j) \/ WaitDeadline(j) \/ WaitRemoved(j)
             \/ WaitAnswer(j) \/ WaitFail(j)
      PROVE  ToldOfAll'
  <2>1. job' = job /\ acked' = acked /\ reported' = reported
    BY <1>4 DEF WaitRead, WaitDeadline, WaitRemoved, WaitAnswer, WaitFail
  <2>2. ASSUME NEW k \in Jobs PROVE Told(job[k], acked[k], reported[k], waiter'[k])
    <3>1. CASE WaitRead(j) \/ WaitDeadline(j) \/ WaitRemoved(j)
      BY <3>1 DEF WaitRead, WaitDeadline, WaitRemoved, ToldOfAll, Told, TypeOK
    <3>2. CASE WaitAnswer(j) \/ WaitFail(j)
      BY <3>2 DEF WaitAnswer, WaitFail, ToldOfAll, Told, TypeOK
    <3> QED
      BY <1>4, <3>1, <3>2
  <2> QED
    BY <2>1, <2>2 DEF ToldOfAll
<1>5. ASSUME NEW j \in Jobs, Poll(j) PROVE ToldOfAll'
  <2>1. /\ job' = job /\ acked' = acked /\ waiter' = waiter
        /\ reported' = [reported EXCEPT ![j] = @ \cup {Projected(j)}]
        /\ Projected(j) \in Outcome => Projected(j) = job[j].status
    BY <1>5 DEF Poll, Projected, Outcome
  <2> QED
    BY <2>1 DEF ToldOfAll, Told, TypeOK
<1>6. ASSUME NEW j \in Jobs, Elapse(j) PROVE ToldOfAll'
  BY <1>6 DEF Elapse, ToldOfAll
<1> QED
  BY <1>1, <1>2, <1>3, <1>4, <1>5, <1>6 DEF StoreNext
=============================================================================
