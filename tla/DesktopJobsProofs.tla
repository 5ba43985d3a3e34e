-------------------------- MODULE DesktopJobsProofs --------------------------
(***************************************************************************)
(* Proofs about the desktop job broker on its JSON file, for any number of *)
(* jobs, claims, users and environments: its safety, that it implements    *)
(* the abstract life of a job, and that it keeps within the pending limit. *)
(***************************************************************************)
EXTENDS DesktopJobs, DesktopJobStoreProofs, FiniteSetTheorems, TLAPS

-----------------------------------------------------------------------------
\* Pruning keeps a record or replaces a terminal one by Removed.
LEMMA PrunedStore ==
    ASSUME JsonTypeOK, NEW n \in Nat
    PROVE  /\ Pruned(n) \in [Jobs -> JobRecord]
           /\ \A j \in Jobs :
                \/ Pruned(n)[j] = job[j]
                \/ job[j].status \in Terminal /\ Pruned(n)[j] = Removed
  BY StoredRecords DEF JsonTypeOK, TypeOK, Pruned, Dropped

LEMMA SweptStoreType ==
    ASSUME JsonTypeOK, NEW n \in Nat, NEW c \in Claims
    PROVE  SweptStore(c, n) \in [Jobs -> JobRecord]
<1>1. ASSUME NEW j \in Jobs
      PROVE  Swept(Pruned(n)[j], <<j, job[j].status>> \in seen[c]) \in JobRecord
  <2>1. Pruned(n)[j] \in JobRecord
    BY PrunedStore
  <2>2. (<<j, job[j].status>> \in seen[c]) \in BOOLEAN
    OBVIOUS
  <2> QED
    BY <2>1, <2>2, SweptRecord
<1> QED
  BY <1>1 DEF SweptStore

LEMMA ClaimedRecords ==
    ASSUME NEW r \in JobRecord, NEW c \in Claims
    PROVE  LeasedTo(r, c) \in JobRecord
  BY DEF LeasedTo, ClaimKey, JobRecord, Status, Active

-----------------------------------------------------------------------------
(* Type correctness.                                                       *)

LEMMA TypeInit == JsonInit => JsonTypeOK
  BY StoredRecords, DesktopJobStoreAssumption
     DEF JsonInit, Init, JsonTypeOK, TypeOK, WaiterState

LEMMA TypeStep == JsonTypeOK /\ [JsonNext]_vars => JsonTypeOK'
<1> SUFFICES ASSUME JsonTypeOK, [JsonNext]_vars PROVE JsonTypeOK'
  OBVIOUS
<1> USE DEF JsonTypeOK
<1>1. ASSUME NEW u \in Users, NEW e \in JobEnvs, NEW n \in 0..created, Enqueue(u, e, n)
      PROVE  JsonTypeOK'
  <2>1. n \in Nat /\ created + 1 \in Jobs
    BY <1>1, DesktopJobStoreAssumption DEF Enqueue, TypeOK, Jobs
  <2>2. created' \in 0..NumJobs
    BY <1>1, <2>1, DesktopJobStoreAssumption DEF Enqueue, TypeOK, Jobs
  <2>3. job' \in [Jobs -> JobRecord]
    BY <1>1, <2>1, PrunedStore, StoredRecords DEF Enqueue, TypeOK
  <2>4. waiter' \in [Jobs -> WaiterState]
    BY <1>1, <2>1 DEF Enqueue, TypeOK, WaiterState
  <2> QED
    BY <1>1, <2>2, <2>3, <2>4 DEF Enqueue, TypeOK
<1>2. ASSUME NEW c \in Claims, ClaimArrive(c) PROVE JsonTypeOK'
  <2>1. Overdue \subseteq Deadlines
    BY DEF TypeOK, Overdue
  <2> QED
    BY <1>2, <2>1 DEF ClaimArrive, TypeOK, jobVars
<1>3. ASSUME NEW c \in Claims, NEW n \in 0..created, ClaimReplay(c, n)
      PROVE  JsonTypeOK'
  <2>1. n \in Nat
    BY DEF TypeOK
  <2>2. job' \in [Jobs -> JobRecord]
    BY <1>3, <2>1, PrunedStore DEF ClaimReplay
  <2>3. granted' \in [Jobs -> SUBSET Claims]
    BY <1>3 DEF ClaimReplay, TypeOK
  <2> QED
    BY <1>3, <2>2, <2>3 DEF ClaimReplay, ClaimAnswered, TypeOK
<1>4. ASSUME NEW c \in Claims, NEW n \in 0..created, ClaimJob(c, n)
      PROVE  JsonTypeOK'
  <2>1. n \in Nat
    BY DEF TypeOK
  <2>2. PICK j \in Jobs :
          /\ job' = [SweptStore(c, n) EXCEPT ![j] = LeasedTo(@, c)]
          /\ granted' = [granted EXCEPT ![j] = @ \cup {c}]
    BY <1>4 DEF ClaimJob, Ready
  <2>3. job' \in [Jobs -> JobRecord]
    BY <2>1, <2>2, SweptStoreType, ClaimedRecords
  <2>4. granted' \in [Jobs -> SUBSET Claims]
    BY <2>2 DEF TypeOK
  <2> QED
    BY <1>4, <2>3, <2>4 DEF ClaimJob, ClaimAnswered, TypeOK
<1>5. ASSUME NEW c \in Claims, NEW n \in 0..created, ClaimNothing(c, n)
      PROVE  JsonTypeOK'
  <2>1. n \in Nat
    BY DEF TypeOK
  <2>2. job' \in [Jobs -> JobRecord]
    BY <1>5, <2>1, SweptStoreType DEF ClaimNothing
  <2> QED
    BY <1>5, <2>2 DEF ClaimNothing, ClaimAnswered, TypeOK
<1>6. ASSUME StoreNext, UNCHANGED <<claiming, seen>> PROVE JsonTypeOK'
  BY <1>6, StoreType
<1>7. ASSUME Restart PROVE JsonTypeOK'
  BY <1>7 DEF Restart, LoseWaits, TypeOK, WaiterState
<1>8. ASSUME UNCHANGED vars PROVE JsonTypeOK'
  BY <1>8 DEF vars, TypeOK
<1> QED
  BY <1>1, <1>2, <1>3, <1>4, <1>5, <1>6, <1>7, <1>8 DEF JsonNext

\* Every record, deadline, wait and claim keeps its shape: no operation of the
\* broker stores a status another operation does not know.
THEOREM TypeCorrect == JsonSpec => []JsonTypeOK
  BY TypeInit, TypeStep, PTL DEF JsonSpec

-----------------------------------------------------------------------------
(* The inductive invariant.  The properties of the broker speak of the     *)
(* envelopes that were sent; a step is guarded by the record alone.  The   *)
(* invariant says what a record tells of the envelopes sent for it.        *)

\* A record r whose envelope was sent to the claims g.
Delivered(r, g) ==
    /\ r.status \in {"absent", "queued", "expired"} => g = {}
    /\ r.status \in Open => g = {r.leaseHash}
    /\ r.status \in Open \cup Outcome => \A c \in g : r.claimKey = ClaimKey(c)
    /\ \A c, d \in g : c = d

\* A claim without a claimId that is being served was sent nothing yet.
FreshClaims == \A c \in claiming \ Keyed : \A j \in Jobs : c \notin granted[j]

Unborn == \A j \in Jobs : j > created => job[j] = Absent

IInv ==
    /\ JsonTypeOK
    /\ Unborn
    /\ \A j \in Jobs : Delivered(job[j], granted[j])
    /\ FreshClaims

LEMMA SweptStoreRecords ==
    ASSUME JsonTypeOK, NEW n \in Nat, NEW c \in Claims, NEW j \in Jobs
    PROVE  MovedOn(job[j], SweptStore(c, n)[j])
<1> DEFINE late == <<j, job[j].status>> \in seen[c]
<1>1. /\ Pruned(n)[j] \in JobRecord
      /\ \/ Pruned(n)[j] = job[j]
         \/ job[j].status \in Terminal /\ Pruned(n)[j] = Removed
  BY PrunedStore
<1>2. SweptStore(c, n)[j] = Swept(Pruned(n)[j], late)
  BY DEF SweptStore
<1>3. late \in BOOLEAN
  OBVIOUS
<1>4. CASE Pruned(n)[j] = job[j]
  <2>1. MovedOn(job[j], Swept(job[j], late))
    BY <1>1, <1>3, <1>4, SweptRecord DEF MovedOn
  <2> QED
    BY <1>2, <1>4, <2>1
<1>5. CASE job[j].status \in Terminal /\ Pruned(n)[j] = Removed
  <2>1. Swept(Removed, late) = Removed
    BY DEF Swept, Removed, Absent
  <2> QED
    BY <1>2, <1>5, <2>1 DEF MovedOn
<1> QED
  BY <1>1, <1>4, <1>5

\* Neither a prune nor a sweep contradicts the envelopes sent.
LEMMA MovedOnDelivered ==
    ASSUME NEW r \in JobRecord, NEW s, NEW g \in SUBSET Claims,
           Delivered(r, g), MovedOn(r, s)
    PROVE  Delivered(s, g)
  BY DEF Delivered, MovedOn, Removed, Absent, JobRecord, Terminal, Outcome, Open

LEMMA PrunedMovedOn ==
    ASSUME JsonTypeOK, NEW n \in Nat, NEW j \in Jobs
    PROVE  MovedOn(job[j], Pruned(n)[j])
  BY PrunedStore DEF MovedOn

LEMMA IInvInit == JsonInit => IInv
  BY TypeInit DEF JsonInit, Init, IInv, Unborn, FreshClaims, Delivered, Absent,
                  Open, Outcome

LEMMA IInvEnqueue ==
    ASSUME IInv, JsonTypeOK', NEW u \in Users, NEW e \in JobEnvs,
           NEW n \in 0..created, Enqueue(u, e, n)
    PROVE  IInv'
<1> USE DEF IInv
<1>1. /\ n \in Nat /\ created \in Nat /\ created + 1 \in Jobs
      /\ created' = created + 1
      /\ job' = [Pruned(n) EXCEPT ![created + 1] = Queued(u, e)]
      /\ granted' = granted /\ claiming' = claiming
  BY DesktopJobStoreAssumption DEF Enqueue, JsonTypeOK, TypeOK, Jobs
<1>2. ASSUME NEW j \in Jobs, j # created + 1
      PROVE  job'[j] = Pruned(n)[j] /\ MovedOn(job[j], job'[j])
  BY <1>1, <1>2, PrunedStore, PrunedMovedOn
<1>3. job'[created + 1] = Queued(u, e)
  BY <1>1, PrunedStore
<1>4. granted[created + 1] = {}
  BY <1>1 DEF Unborn, Delivered, Absent
<1>5. Unborn'
  <2> SUFFICES ASSUME NEW j \in Jobs, j > created + 1 PROVE job'[j] = Absent
    BY <1>1 DEF Unborn
  <2>1. job[j] = Absent /\ j # created + 1
    BY <1>1 DEF Unborn, Jobs
  <2> QED
    BY <1>2, <2>1, MovedOnAbsent
<1>6. ASSUME NEW j \in Jobs PROVE Delivered(job'[j], granted'[j])
  <2>1. CASE j = created + 1
    <3>1. Queued(u, e).status = "queued"
      BY DEF Queued, Absent
    <3>2. Delivered(Queued(u, e), {})
      BY <3>1 DEF Delivered, Open, Outcome
    <3> QED
      BY <1>1, <1>3, <1>4, <2>1, <3>2
  <2>2. CASE j # created + 1
    BY <1>1, <1>2, <2>2, MovedOnDelivered DEF JsonTypeOK, TypeOK
  <2> QED
    BY <2>1, <2>2
<1>7. FreshClaims'
  BY <1>1 DEF FreshClaims
<1> QED
  BY <1>5, <1>6, <1>7

LEMMA IInvClaimArrive ==
    ASSUME IInv, JsonTypeOK', NEW c \in Claims, ClaimArrive(c)
    PROVE  IInv'
  BY DEF IInv, ClaimArrive, jobVars, Unborn, FreshClaims

\* A retried claim is sent only the envelope it already was sent.
LEMMA ReplaySame ==
    ASSUME IInv, NEW c \in Claims, NEW n \in Nat,
           NEW j \in Previous(Pruned(n), c), job[j].status = "leased"
    PROVE  granted[j] = {c}
<1>1. j \in Jobs /\ c \in Keyed /\ Pruned(n)[j].claimKey = c
  BY DEF Previous
<1>2. Pruned(n)[j] = job[j]
  BY <1>1, PrunedStore DEF IInv, Terminal, Outcome
<1>3. Delivered(job[j], granted[j])
  BY <1>1 DEF IInv
<1>4. job[j].leaseHash \in granted[j] /\ job[j].claimKey = ClaimKey(job[j].leaseHash)
  BY <1>3 DEF Delivered, Open
<1>5. job[j].leaseHash = c
  BY <1>1, <1>2, <1>4, DesktopJobStoreAssumption DEF ClaimKey
<1> QED
  BY <1>3, <1>5 DEF Delivered, Open

LEMMA IInvClaimReplay ==
    ASSUME IInv, JsonTypeOK', NEW c \in Claims, NEW n \in 0..created,
           ClaimReplay(c, n)
    PROVE  IInv'
<1> USE DEF IInv
<1>1. /\ n \in Nat /\ created' = created
      /\ job' = Pruned(n)
      /\ claiming' = claiming \ {c}
  BY DEF ClaimReplay, ClaimAnswered, JsonTypeOK, TypeOK
<1>2. ASSUME NEW j \in Jobs PROVE granted'[j] = granted[j]
  <2>1. CASE j \in Previous(Pruned(n), c) /\ job[j].status = "leased"
    <3>1. granted[j] = {c}
      BY <1>1, <2>1, ReplaySame
    <3> QED
      BY <2>1, <3>1 DEF ClaimReplay
  <2>2. CASE ~(j \in Previous(Pruned(n), c) /\ job[j].status = "leased")
    BY <2>2 DEF ClaimReplay
  <2> QED
    BY <2>1, <2>2
<1>3. ASSUME NEW j \in Jobs PROVE MovedOn(job[j], job'[j])
  BY <1>1, PrunedMovedOn
<1>4. Unborn'
  BY <1>1, <1>3, MovedOnAbsent DEF Unborn
<1>5. ASSUME NEW j \in Jobs PROVE Delivered(job'[j], granted'[j])
  BY <1>2, <1>3, MovedOnDelivered DEF JsonTypeOK, TypeOK
<1>6. FreshClaims'
  BY <1>1, <1>2 DEF FreshClaims
<1> QED
  BY <1>4, <1>5, <1>6

LEMMA IInvClaimJob ==
    ASSUME IInv, JsonTypeOK', NEW c \in Claims, NEW n \in 0..created,
           ClaimJob(c, n)
    PROVE  IInv'
<1> USE DEF IInv
<1>1. /\ n \in Nat /\ created' = created
      /\ claiming' = claiming \ {c}
  BY DEF ClaimJob, ClaimAnswered, JsonTypeOK, TypeOK
<1>2. PICK k \in Ready(c, n) :
        /\ job' = [SweptStore(c, n) EXCEPT ![k] = LeasedTo(@, c)]
        /\ granted' = [granted EXCEPT ![k] = @ \cup {c}]
  BY DEF ClaimJob
<1>3. k \in Jobs /\ SweptStore(c, n)[k].status = "queued"
  BY <1>2 DEF Ready, Matches
<1>4. ASSUME NEW j \in Jobs PROVE MovedOn(job[j], SweptStore(c, n)[j])
  BY <1>1, SweptStoreRecords
<1>5. ASSUME NEW j \in Jobs PROVE Delivered(SweptStore(c, n)[j], granted[j])
  BY <1>4, MovedOnDelivered DEF JsonTypeOK, TypeOK
<1>6. granted[k] = {}
  BY <1>3, <1>5 DEF Delivered
<1>7. ASSUME NEW j \in Jobs, j # k
      PROVE  job'[j] = SweptStore(c, n)[j] /\ granted'[j] = granted[j]
  BY <1>1, <1>2, <1>7, SweptStoreType DEF JsonTypeOK, TypeOK
<1>8. job'[k] = LeasedTo(SweptStore(c, n)[k], c) /\ granted'[k] = {c}
  BY <1>1, <1>2, <1>3, <1>6, SweptStoreType DEF JsonTypeOK, TypeOK
<1>9. Unborn'
  <2> SUFFICES ASSUME NEW j \in Jobs, j > created PROVE job'[j] = Absent
    BY <1>1 DEF Unborn
  <2>1. SweptStore(c, n)[j] = Absent
    BY <1>4, MovedOnAbsent DEF Unborn
  <2>2. j # k
    BY <1>3, <2>1 DEF Absent
  <2> QED
    BY <1>7, <2>1, <2>2
<1>10. ASSUME NEW j \in Jobs PROVE Delivered(job'[j], granted'[j])
  <2>1. CASE j = k
    <3>1. SweptStore(c, n)[k] \in JobRecord
      BY <1>1, <1>3, SweptStoreType
    <3> QED
      BY <1>8, <2>1, <3>1 DEF LeasedTo, Delivered, JobRecord, Open, Outcome
  <2>2. CASE j # k
    BY <1>5, <1>7, <2>2
  <2> QED
    BY <2>1, <2>2
<1>11. FreshClaims'
  BY <1>1, <1>7, <1>8 DEF FreshClaims
<1> QED
  BY <1>9, <1>10, <1>11

LEMMA IInvClaimNothing ==
    ASSUME IInv, JsonTypeOK', NEW c \in Claims, NEW n \in 0..created,
           ClaimNothing(c, n)
    PROVE  IInv'
<1> USE DEF IInv
<1>1. /\ n \in Nat /\ created' = created
      /\ job' = SweptStore(c, n) /\ granted' = granted
      /\ claiming' = claiming \ {c}
  BY DEF ClaimNothing, ClaimAnswered, JsonTypeOK, TypeOK
<1>2. ASSUME NEW j \in Jobs PROVE MovedOn(job[j], job'[j])
  BY <1>1, SweptStoreRecords
<1>3. Unborn'
  BY <1>1, <1>2, MovedOnAbsent DEF Unborn
<1>4. ASSUME NEW j \in Jobs PROVE Delivered(job'[j], granted'[j])
  BY <1>1, <1>2, MovedOnDelivered DEF JsonTypeOK, TypeOK
<1>5. FreshClaims'
  BY <1>1 DEF FreshClaims
<1> QED
  BY <1>3, <1>4, <1>5

\* The operations the two stores share.
LEMMA IInvStoreNext ==
    ASSUME IInv, JsonTypeOK', StoreNext, UNCHANGED <<claiming, seen>>
    PROVE  IInv'
<1> USE DEF IInv
<1>1. ASSUME NEW j \in Jobs, NEW c \in Claims, NEW o \in Outcome, Complete(c, j, o)
      PROVE  IInv'
  <2>1. /\ job[j] \in JobRecord /\ job[j].status \in Open
        /\ job' = [job EXCEPT ![j] = Completed(job[j], c, o)]
        /\ granted' = granted /\ created' = created
    BY <1>1 DEF Complete, Completable, Open, JsonTypeOK, TypeOK
  <2>2. Unborn'
    BY <2>1 DEF Unborn, Absent, Open, JsonTypeOK, TypeOK
  <2>3. Delivered(Completed(job[j], c, o), granted[j])
    BY <2>1 DEF Delivered, Completed, Open, Outcome, JobRecord
  <2>4. ASSUME NEW k \in Jobs PROVE Delivered(job'[k], granted'[k])
    BY <2>1, <2>3 DEF JsonTypeOK, TypeOK
  <2> QED
    BY <1>1, <2>1, <2>2, <2>4 DEF FreshClaims
<1>2. ASSUME NEW j \in Jobs, WaitPurge(j) PROVE IInv'
  <2>1. /\ job[j] \in JobRecord /\ job[j].status \in Terminal
        /\ job' = [job EXCEPT ![j] = [job[j] EXCEPT !.result = "purged"]]
        /\ granted' = granted /\ created' = created
    BY <1>2 DEF WaitPurge, JsonTypeOK, TypeOK
  <2>2. Unborn'
    BY <2>1 DEF Unborn, Absent, Terminal, Outcome, JsonTypeOK, TypeOK
  <2>3. Delivered([job[j] EXCEPT !.result = "purged"], granted[j])
    BY <2>1 DEF Delivered, JobRecord
  <2>4. ASSUME NEW k \in Jobs PROVE Delivered(job'[k], granted'[k])
    BY <2>1, <2>3 DEF JsonTypeOK, TypeOK
  <2> QED
    BY <2>1, <2>2, <2>4 DEF FreshClaims
<1>3. ASSUME UNCHANGED <<created, job, granted>> PROVE IInv'
  BY <1>3 DEF Unborn, FreshClaims
<1>4. ASSUME NEW j \in Jobs,
             \/ \E c \in Claims : CompleteAgain(c, j)
             \/ WaitRead(j) \/ WaitAnswer(j) \/ WaitFail(j)
             \/ WaitDeadline(j) \/ WaitRemoved(j) \/ Poll(j) \/ Elapse(j)
      PROVE  IInv'
  BY <1>3, <1>4
     DEF CompleteAgain, WaitRead, WaitAnswer, WaitFail, WaitDeadline, WaitRemoved,
         Poll, Elapse
<1> QED
  BY <1>1, <1>2, <1>4 DEF StoreNext

LEMMA IInvStep == IInv /\ [JsonNext]_vars => IInv'
<1> SUFFICES ASSUME IInv, [JsonNext]_vars PROVE IInv'
  OBVIOUS
<1>1. JsonTypeOK'
  BY TypeStep DEF IInv
<1>2. CASE Restart
  BY <1>1, <1>2 DEF Restart, IInv, Unborn, FreshClaims
<1>3. CASE UNCHANGED vars
  BY <1>1, <1>3 DEF vars, IInv, Unborn, FreshClaims
<1> QED
  BY <1>1, <1>2, <1>3, IInvEnqueue, IInvClaimArrive, IInvClaimReplay, IInvClaimJob,
     IInvClaimNothing, IInvStoreNext DEF JsonNext

LEMMA IInvHolds == JsonSpec => []IInv
  BY IInvInit, IInvStep, PTL DEF JsonSpec

\* However claims are retried, delayed or repeated, a job's envelope is sent to
\* one claim at most (claimDesktopJobs, prune and the sweep of the deadlines).
THEOREM OneClaimPerJob == JsonSpec => []AtMostOneClaim
<1>1. IInv => AtMostOneClaim
  BY DEF IInv, Delivered, AtMostOneClaim
<1> QED
  BY <1>1, IInvHolds, PTL

\* Whoever was sent an envelope can complete the job until it has ended: the
\* record of a job that is still open holds the hash of the lease it carries.
THEOREM LeaseHonoured == JsonSpec => []DeliveredLeaseIsHonoured
<1>1. IInv => DeliveredLeaseIsHonoured
  BY DEF IInv, Delivered, DeliveredLeaseIsHonoured, Open
<1> QED
  BY <1>1, IInvHolds, PTL

\* A job that expired because no desktop accepted it in time was sent to none,
\* so submitting the call again cannot execute it twice.
THEOREM LapsedUndelivered == JsonSpec => []LapsedNeverDelivered
<1>1. IInv => LapsedNeverDelivered
  BY DEF IInv, Delivered, LapsedNeverDelivered
<1> QED
  BY <1>1, IInvHolds, PTL

-----------------------------------------------------------------------------
LEMMA ToldStep ==
    ASSUME IInv, ToldOfAll, [JsonNext]_vars
    PROVE  ToldOfAll'
<1> USE DEF IInv, JsonTypeOK
<1>0. TypeOK /\ JsonTypeOK
  OBVIOUS
<1>1. ASSUME NEW u \in Users, NEW e \in JobEnvs, NEW n \in 0..created, Enqueue(u, e, n)
      PROVE  ToldOfAll'
  <2>1. /\ n \in Nat /\ created + 1 \in Jobs /\ job[created + 1] = Absent
        /\ job' = [Pruned(n) EXCEPT ![created + 1] = Queued(u, e)]
        /\ waiter' = [waiter EXCEPT ![created + 1] = "waiting"]
        /\ acked' = acked /\ reported' = reported
    BY <1>1, DesktopJobStoreAssumption DEF Enqueue, TypeOK, Jobs, Unborn
  <2>2. ASSUME NEW j \in Jobs
        PROVE  Told(job'[j], acked'[j], reported'[j], waiter'[j])
    <3>1. CASE j = created + 1
      <4>1. acked[j] \cup (reported[j] \cap Outcome) = {}
        BY <2>1, <3>1 DEF ToldOfAll, Told, Absent, Outcome, TypeOK
      <4>2. job'[j] = Queued(u, e) /\ waiter'[j] = "waiting"
        BY <2>1, <3>1, PrunedStore DEF TypeOK
      <4>3. Queued(u, e).status = "queued"
        BY DEF Queued, Absent
      <4> QED
        BY <2>1, <4>1, <4>2, <4>3 DEF Told
    <3>2. CASE j # created + 1
      <4>1. MovedOn(job[j], job'[j]) /\ waiter'[j] = waiter[j]
        BY <2>1, <3>2, PrunedMovedOn, PrunedStore DEF TypeOK
      <4> QED
        BY <2>1, <4>1, MovedOnTold DEF ToldOfAll, TypeOK
    <3> QED
      BY <3>1, <3>2
  <2> QED
    BY <2>2 DEF ToldOfAll
<1>2. ASSUME NEW c \in Claims, NEW n \in 0..created,
             ClaimReplay(c, n) \/ ClaimNothing(c, n)
      PROVE  ToldOfAll'
  <2>1. /\ n \in Nat /\ acked' = acked /\ reported' = reported /\ waiter' = waiter
        /\ job' = Pruned(n) \/ job' = SweptStore(c, n)
    BY <1>2 DEF ClaimReplay, ClaimNothing, ClaimAnswered, TypeOK
  <2>2. \A j \in Jobs : MovedOn(job[j], job'[j])
    BY <2>1, PrunedMovedOn, SweptStoreRecords
  <2> QED
    BY <2>1, <2>2, MovedOnTold DEF ToldOfAll, TypeOK
<1>3. ASSUME NEW c \in Claims, NEW n \in 0..created, ClaimJob(c, n)
      PROVE  ToldOfAll'
  <2>1. n \in Nat /\ acked' = acked /\ reported' = reported /\ waiter' = waiter
    BY <1>3 DEF ClaimJob, ClaimAnswered, TypeOK
  <2>2. PICK k \in Jobs :
          /\ SweptStore(c, n)[k].status = "queued"
          /\ job' = [SweptStore(c, n) EXCEPT ![k] = LeasedTo(@, c)]
    BY <1>3 DEF ClaimJob, Ready, Matches
  <2>3. \A j \in Jobs : MovedOn(job[j], SweptStore(c, n)[j])
    BY <2>1, SweptStoreRecords
  <2>4. \A j \in Jobs : Told(SweptStore(c, n)[j], acked[j], reported[j], waiter[j])
    BY <2>3, MovedOnTold DEF ToldOfAll, TypeOK
  <2>5. SweptStore(c, n) \in [Jobs -> JobRecord]
    BY <2>1, SweptStoreType
  <2>6. Told(LeasedTo(SweptStore(c, n)[k], c), acked[k], reported[k], waiter[k])
    <3>1. LeasedTo(SweptStore(c, n)[k], c).status = "leased"
      BY <2>5 DEF LeasedTo, JobRecord
    <3>2. acked[k] \cup (reported[k] \cap Outcome) = {}
           /\ waiter[k] \notin {"handing", "returned"}
      BY <2>2, <2>4 DEF Told, Outcome, TypeOK
    <3> QED
      BY <3>1, <3>2 DEF Told
  <2>7. ASSUME NEW j \in Jobs PROVE Told(job'[j], acked'[j], reported'[j], waiter'[j])
    BY <2>1, <2>2, <2>4, <2>5, <2>6
  <2> QED
    BY <2>7 DEF ToldOfAll
<1>4. ASSUME StoreNext PROVE ToldOfAll'
  BY <1>0, <1>4, StoreTold
<1>5. ASSUME Restart PROVE ToldOfAll'
  BY <1>5 DEF Restart, LoseWaits, Waiting, ToldOfAll, Told, TypeOK
<1>6. CASE UNCHANGED <<job, acked, reported, waiter>>
  BY <1>6 DEF ToldOfAll
<1>7. ASSUME NEW c \in Claims, ClaimArrive(c) PROVE ToldOfAll'
  BY <1>6, <1>7 DEF ClaimArrive, jobVars
<1> QED
  BY <1>1, <1>2, <1>3, <1>4, <1>5, <1>6, <1>7 DEF JsonNext, vars

LEMMA ToldHolds == JsonSpec => []ToldOfAll
<1>1. JsonInit => ToldOfAll
  BY DEF JsonInit, Init, ToldOfAll, Told, Absent
<1> QED
  BY <1>1, IInvHolds, ToldStep, PTL DEF JsonSpec

\* What a desktop was acknowledged, what polls returned and what the inline
\* wait returned are one outcome, the stored one (completeDesktopJob with its
\* completionHash, waitForDesktopJob, getDesktopOperation).
THEOREM EveryoneToldOneOutcome == JsonSpec => []OneOutcome
<1>1. ToldOfAll => OneOutcome
  BY DEF ToldOfAll, Told, OneOutcome
<1> QED
  BY <1>1, ToldHolds, PTL

\* The output of a completed job is in the file when the inline wait takes it
\* out, and at every poll of an operation a caller was told to poll: the purge
\* is that of a wait which still holds the output and tells nobody to poll.
THEOREM ResultKeptForPoll == JsonSpec => []ResultAvailable
<1>1. ToldOfAll => ResultAvailable
  BY DEF ToldOfAll, Told, ResultAvailable
<1> QED
  BY <1>1, ToldHolds, PTL

-----------------------------------------------------------------------------
(* A claim id leases one job.                                              *)

Over == {"expired_unreconciled", "pruned"}

\* A claim that is neither a replay nor a token in use was sent only the
\* envelopes of jobs that were given up or dropped.
LEMMA NewClaim ==
    ASSUME IInv, NEW c \in Claims, NEW n \in Nat, c \in claiming,
           Previous(Pruned(n), c) = {},
           NEW j \in Jobs, c \in granted[j]
    PROVE  SweptStore(c, n)[j].status \in Over
<1> USE DEF IInv
<1>1. /\ Pruned(n)[j] \in JobRecord
      /\ Delivered(Pruned(n)[j], granted[j])
  BY PrunedStore, PrunedMovedOn, MovedOnDelivered DEF JsonTypeOK, TypeOK
<1>2. c \in Keyed
  BY DEF FreshClaims
<1>3. Pruned(n)[j].claimKey # c
  BY <1>2 DEF Previous
<1>4. Pruned(n)[j].status \notin Open \cup Outcome
  BY <1>1, <1>2, <1>3 DEF Delivered, ClaimKey
<1>5. Pruned(n)[j].status \notin {"absent", "queued", "expired"}
  BY <1>1 DEF Delivered
<1>6. Pruned(n)[j].status \in Over
  BY <1>1, <1>4, <1>5
     DEF JobRecord, Status, Gone, Active, Terminal, Open, Outcome, Over
<1>7. SweptStore(c, n)[j] = Pruned(n)[j]
  BY <1>6 DEF SweptStore, Swept, Over
<1> QED
  BY <1>6, <1>7

LEMMA MovedOnOver ==
    ASSUME NEW r, NEW s, r.status \in Over, MovedOn(r, s)
    PROVE  s.status \in Over
  BY DEF MovedOn, Over, Removed, Absent, Terminal, Outcome

LEMMA SpentStep ==
    ASSUME IInv, ClaimIdIsSpent, [JsonNext]_vars
    PROVE  ClaimIdIsSpent'
<1> USE DEF IInv, JsonTypeOK
<1>1. ASSUME \A j \in Jobs : granted'[j] = granted[j],
             \A j \in Jobs : job[j].status \in Over => job'[j].status \in Over
      PROVE  ClaimIdIsSpent'
  BY <1>1 DEF ClaimIdIsSpent, Over
<1>2. ASSUME NEW u \in Users, NEW e \in JobEnvs, NEW n \in 0..created, Enqueue(u, e, n)
      PROVE  ClaimIdIsSpent'
  <2>1. /\ n \in Nat /\ created + 1 \in Jobs /\ job[created + 1] = Absent
        /\ job' = [Pruned(n) EXCEPT ![created + 1] = Queued(u, e)]
        /\ granted' = granted
    BY <1>2, DesktopJobStoreAssumption DEF Enqueue, TypeOK, Jobs, Unborn
  <2>2. ASSUME NEW j \in Jobs, job[j].status \in Over
        PROVE  job'[j].status \in Over
    <3>1. j # created + 1
      BY <2>1, <2>2 DEF Absent, Over
    <3>2. job'[j] = Pruned(n)[j]
      BY <2>1, <3>1, PrunedStore
    <3> QED
      BY <2>1, <2>2, <3>2, PrunedMovedOn, MovedOnOver
  <2> QED
    BY <1>1, <2>1, <2>2
<1>3. ASSUME NEW c \in Claims, NEW n \in 0..created, ClaimReplay(c, n)
      PROVE  ClaimIdIsSpent'
  <2>1. n \in Nat /\ job' = Pruned(n)
    BY <1>3 DEF ClaimReplay, TypeOK
  <2>2. ASSUME NEW j \in Jobs PROVE granted'[j] = granted[j]
    <3>1. CASE j \in Previous(Pruned(n), c) /\ job[j].status = "leased"
      <4>1. granted[j] = {c}
        BY <2>1, <3>1, ReplaySame
      <4> QED
        BY <1>3, <3>1, <4>1 DEF ClaimReplay
    <3>2. CASE ~(j \in Previous(Pruned(n), c) /\ job[j].status = "leased")
      BY <1>3, <3>2 DEF ClaimReplay
    <3> QED
      BY <3>1, <3>2
  <2> QED
    BY <1>1, <2>1, <2>2, PrunedMovedOn, MovedOnOver
<1>4. ASSUME NEW c \in Claims, NEW n \in 0..created, ClaimNothing(c, n)
      PROVE  ClaimIdIsSpent'
  <2>1. n \in Nat /\ job' = SweptStore(c, n) /\ granted' = granted
    BY <1>4 DEF ClaimNothing, TypeOK
  <2> QED
    BY <1>1, <2>1, SweptStoreRecords, MovedOnOver
<1>5. ASSUME NEW c \in Claims, NEW n \in 0..created, ClaimJob(c, n)
      PROVE  ClaimIdIsSpent'
  <2>1. n \in Nat /\ c \in claiming /\ Previous(Pruned(n), c) = {}
    BY <1>5 DEF ClaimJob, TypeOK
  <2>2. PICK k \in Jobs :
          /\ SweptStore(c, n)[k].status = "queued"
          /\ job' = [SweptStore(c, n) EXCEPT ![k] = LeasedTo(@, c)]
          /\ granted' = [granted EXCEPT ![k] = @ \cup {c}]
    BY <1>5 DEF ClaimJob, Ready, Matches
  <2>3. granted[k] = {}
    <3>1. MovedOn(job[k], SweptStore(c, n)[k])
      BY <2>1, SweptStoreRecords
    <3>2. Delivered(SweptStore(c, n)[k], granted[k])
      BY <3>1, MovedOnDelivered DEF TypeOK
    <3> QED
      BY <2>2, <3>2 DEF Delivered
  <2>4. granted'[k] = {c}
    BY <2>2, <2>3 DEF TypeOK
  <2>5. ASSUME NEW j \in Jobs, j # k
        PROVE  /\ job'[j] = SweptStore(c, n)[j]
               /\ granted'[j] = granted[j]
               /\ job[j].status \in Over => job'[j].status \in Over
               /\ c \in granted[j] => job'[j].status \in Over
    <3>1. job'[j] = SweptStore(c, n)[j] /\ granted'[j] = granted[j]
      BY <2>1, <2>2, <2>5, SweptStoreType DEF TypeOK
    <3> QED
      BY <2>1, <3>1, SweptStoreRecords, MovedOnOver, NewClaim
  <2>6. ASSUME NEW i \in Jobs, NEW j \in Jobs, i # j, granted'[i] \cap granted'[j] # {}
        PROVE  job'[i].status \in Over \/ job'[j].status \in Over
    <3>1. CASE i = k
      <4>1. c \in granted[j]
        BY <2>4, <2>5, <2>6, <3>1
      <4> QED
        BY <2>5, <2>6, <3>1, <4>1
    <3>2. CASE j = k
      <4>1. c \in granted[i]
        BY <2>4, <2>5, <2>6, <3>2
      <4> QED
        BY <2>5, <2>6, <3>2, <4>1
    <3>3. CASE i # k /\ j # k
      <4>1. granted[i] \cap granted[j] # {}
        BY <2>5, <2>6, <3>3
      <4>2. job[i].status \in Over \/ job[j].status \in Over
        BY <2>6, <4>1 DEF ClaimIdIsSpent, Over
      <4> QED
        BY <2>5, <3>3, <4>2
    <3> QED
      BY <3>1, <3>2, <3>3
  <2> QED
    BY <2>6 DEF ClaimIdIsSpent, Over
<1>6. ASSUME NEW j \in Jobs, NEW c \in Claims, NEW o \in Outcome, Complete(c, j, o)
      PROVE  ClaimIdIsSpent'
  BY <1>1, <1>6 DEF Complete, Completable, Over, TypeOK
<1>7. ASSUME NEW j \in Jobs, WaitPurge(j) PROVE ClaimIdIsSpent'
  <2>1. /\ job[j] \in JobRecord /\ granted' = granted
        /\ job' = [job EXCEPT ![j] = [job[j] EXCEPT !.result = "purged"]]
    BY <1>7 DEF WaitPurge, TypeOK
  <2>2. [job[j] EXCEPT !.result = "purged"].status = job[j].status
    BY <2>1 DEF JobRecord
  <2> QED
    BY <1>1, <2>1, <2>2 DEF TypeOK
<1>8. CASE UNCHANGED <<job, granted>>
  BY <1>1, <1>8
<1>9. ASSUME NEW j \in Jobs,
             \/ \E c \in Claims : CompleteAgain(c, j)
             \/ WaitRead(j) \/ WaitAnswer(j) \/ WaitFail(j)
             \/ WaitDeadline(j) \/ WaitRemoved(j) \/ Poll(j) \/ Elapse(j)
      PROVE  ClaimIdIsSpent'
  BY <1>8, <1>9
     DEF CompleteAgain, WaitRead, WaitAnswer, WaitFail, WaitDeadline, WaitRemoved,
         Poll, Elapse
<1>10. ASSUME NEW c \in Claims, ClaimArrive(c) PROVE ClaimIdIsSpent'
  BY <1>8, <1>10 DEF ClaimArrive, jobVars
<1>11. ASSUME Restart PROVE ClaimIdIsSpent'
  BY <1>8, <1>11 DEF Restart
<1> QED
  BY <1>2, <1>3, <1>4, <1>5, <1>6, <1>7, <1>8, <1>9, <1>10, <1>11
     DEF JsonNext, StoreNext, vars

\* A desktop that retries a claim id after its job ended acquires no other job
\* (the lookup of claimKey before a claim leases anything), unless the first
\* one was given up unreconciled, which clears the key, or was dropped.
THEOREM SpentClaimIds == JsonSpec => []ClaimIdIsSpent
<1>1. JsonInit => ClaimIdIsSpent
  BY DEF JsonInit, Init, ClaimIdIsSpent
<1> QED
  BY <1>1, IInvHolds, SpentStep, PTL DEF JsonSpec

-----------------------------------------------------------------------------
(* Every step of the broker moves each job along its abstract life.        *)

phaseOfJob == [j \in Jobs |-> PhaseOf(job[j].status)]

holderOfJob == [j \in Jobs |-> HolderOf(granted[j])]

LEMMA HolderFacts ==
    /\ HolderOf({}) = None
    /\ \A c \in Claims : HolderOf({c}) = c
    /\ \A g \in SUBSET Claims : HolderOf(g) \in Claims \cup {None}
<1>1. HolderOf({}) = None
  BY DEF HolderOf
<1>2. ASSUME NEW c \in Claims PROVE HolderOf({c}) = c
  BY DEF HolderOf
<1>3. ASSUME NEW g \in SUBSET Claims PROVE HolderOf(g) \in Claims \cup {None}
  BY DEF HolderOf
<1> QED
  BY <1>1, <1>2, <1>3

AbstractTypeOK ==
    /\ phaseOfJob \in [Jobs -> Lifecycle!Phase]
    /\ holderOfJob \in [Jobs -> Claims \cup {None}]

LEMMA AbstractState == IInv => AbstractTypeOK
<1> SUFFICES ASSUME IInv PROVE AbstractTypeOK
  OBVIOUS
<1>1. ASSUME NEW j \in Jobs PROVE PhaseOf(job[j].status) \in Lifecycle!Phase
  <2>1. job[j].status \in Status
    BY DEF IInv, JsonTypeOK, TypeOK, JobRecord
  <2> QED
    BY <2>1 DEF PhaseOf, Lifecycle!Phase, Status, Gone, Active, Terminal, Outcome
<1>2. ASSUME NEW j \in Jobs PROVE HolderOf(granted[j]) \in Claims \cup {None}
  BY HolderFacts DEF IInv, JsonTypeOK, TypeOK
<1> QED
  BY <1>1, <1>2 DEF AbstractTypeOK, phaseOfJob, holderOfJob

\* The abstract steps of one job, in terms of its phase and its envelopes.
LEMMA Moves ==
    ASSUME NEW j \in Jobs, NEW p, NEW q,
           p = PhaseOf(job[j].status), q = PhaseOf(job'[j].status)
    PROVE  /\ q = p /\ granted'[j] = granted[j] => Lifecycle!Move(j)
           /\ p = "unborn" /\ q = "offered" /\ granted'[j] = {} => Lifecycle!Move(j)
           /\ /\ p = "offered" /\ q = "accepted"
              /\ \E c \in Claims : granted'[j] = {c}
              => Lifecycle!Move(j)
           /\ p = "offered" /\ q = "lapsed" /\ granted'[j] = {} => Lifecycle!Move(j)
           /\ /\ p = "accepted" /\ q \in {"completed", "failed", "abandoned"}
              /\ granted'[j] = granted[j]
              => Lifecycle!Move(j)
           /\ /\ p \in {"completed", "failed", "lapsed", "abandoned"}
              /\ q = "forgotten" /\ granted'[j] = granted[j]
              => Lifecycle!Move(j)
  BY HolderFacts
     DEF Lifecycle!Move, Lifecycle!Rest, Lifecycle!Submit, Lifecycle!Accept,
         Lifecycle!Lapse, Lifecycle!Settle, Lifecycle!Abandon, Lifecycle!Forget

\* A record that is pruned or swept, and whose envelope is sent to nobody new.
LEMMA MovedOnMoves ==
    ASSUME IInv, NEW j \in Jobs, MovedOn(job[j], job'[j]), granted'[j] = granted[j]
    PROVE  Lifecycle!Move(j)
<1>1. job[j] \in JobRecord /\ Delivered(job[j], granted[j])
  BY DEF IInv, JsonTypeOK, TypeOK
<1>2. CASE job'[j] = job[j]
  BY <1>2, Moves
<1>3. CASE job[j].status \in Terminal /\ job'[j] = Removed
  <2>1. PhaseOf(job[j].status) \in {"completed", "failed", "lapsed", "abandoned"}
    BY <1>3 DEF PhaseOf, Terminal, Outcome
  <2>2. PhaseOf(job'[j].status) = "forgotten"
    BY <1>3 DEF PhaseOf, Removed, Absent
  <2> QED
    BY <2>1, <2>2, Moves
<1>4. CASE job[j].status = "queued" /\ job'[j].status = "expired"
  <2>1. granted'[j] = {}
    BY <1>1, <1>4 DEF Delivered
  <2> QED
    BY <1>4, <2>1, Moves DEF PhaseOf
<1>5. CASE job[j].status = "leased" /\ job'[j].status = "outcome_unknown"
  BY <1>5, Moves DEF PhaseOf
<1>6. CASE job[j].status = "outcome_unknown" /\ job'[j].status = "expired_unreconciled"
  BY <1>6, Moves DEF PhaseOf
<1> QED
  BY <1>1, <1>2, <1>3, <1>4, <1>5, <1>6 DEF MovedOn, JobRecord

LEMMA RestMoves ==
    ASSUME NEW j \in Jobs, job'[j].status = job[j].status, granted'[j] = granted[j]
    PROVE  Lifecycle!Move(j)
  BY Moves

LEMMA EveryJobMoves ==
    ASSUME IInv, [JsonNext]_vars, NEW j \in Jobs
    PROVE  Lifecycle!Move(j)
<1> USE DEF IInv, JsonTypeOK
<1>1. ASSUME NEW u \in Users, NEW e \in JobEnvs, NEW n \in 0..created, Enqueue(u, e, n)
      PROVE  Lifecycle!Move(j)
  <2>1. /\ n \in Nat /\ created + 1 \in Jobs /\ job[created + 1] = Absent
        /\ job' = [Pruned(n) EXCEPT ![created + 1] = Queued(u, e)]
        /\ granted' = granted
    BY <1>1, DesktopJobStoreAssumption DEF Enqueue, TypeOK, Jobs, Unborn
  <2>2. CASE j = created + 1
    <3>1. job'[j].status = "queued" /\ job[j].status = "absent"
      BY <2>1, <2>2, PrunedStore DEF Queued, Absent
    <3>2. granted'[j] = {}
      BY <2>1, <3>1 DEF Delivered
    <3> QED
      BY <3>1, <3>2, Moves DEF PhaseOf
  <2>3. CASE j # created + 1
    BY <2>1, <2>3, PrunedStore, PrunedMovedOn, MovedOnMoves
  <2> QED
    BY <2>2, <2>3
<1>2. ASSUME NEW c \in Claims, NEW n \in 0..created, ClaimReplay(c, n)
      PROVE  Lifecycle!Move(j)
  <2>1. n \in Nat /\ job' = Pruned(n)
    BY <1>2 DEF ClaimReplay, TypeOK
  <2>2. granted'[j] = granted[j]
    <3>1. CASE j \in Previous(Pruned(n), c) /\ job[j].status = "leased"
      <4>1. granted[j] = {c}
        BY <2>1, <3>1, ReplaySame
      <4> QED
        BY <1>2, <3>1, <4>1 DEF ClaimReplay
    <3>2. CASE ~(j \in Previous(Pruned(n), c) /\ job[j].status = "leased")
      BY <1>2, <3>2 DEF ClaimReplay
    <3> QED
      BY <3>1, <3>2
  <2> QED
    BY <2>1, <2>2, PrunedMovedOn, MovedOnMoves
<1>3. ASSUME NEW c \in Claims, NEW n \in 0..created, ClaimNothing(c, n)
      PROVE  Lifecycle!Move(j)
  <2>1. n \in Nat /\ job' = SweptStore(c, n) /\ granted' = granted
    BY <1>3 DEF ClaimNothing, TypeOK
  <2> QED
    BY <2>1, SweptStoreRecords, MovedOnMoves
<1>4. ASSUME NEW c \in Claims, NEW n \in 0..created, ClaimJob(c, n)
      PROVE  Lifecycle!Move(j)
  <2>1. n \in Nat
    BY DEF TypeOK
  <2>2. PICK k \in Jobs :
          /\ SweptStore(c, n)[k].status = "queued"
          /\ job' = [SweptStore(c, n) EXCEPT ![k] = LeasedTo(@, c)]
          /\ granted' = [granted EXCEPT ![k] = @ \cup {c}]
    BY <1>4 DEF ClaimJob, Ready, Matches
  <2>3. MovedOn(job[j], SweptStore(c, n)[j]) /\ SweptStore(c, n)[j] \in JobRecord
    BY <2>1, SweptStoreRecords, SweptStoreType
  <2>4. CASE j = k
    <3>1. job[j] \in JobRecord /\ job[j].status = "queued"
      BY <2>2, <2>3, <2>4 DEF MovedOn, Removed, Absent, TypeOK, JobRecord
    <3>2. granted[j] = {}
      BY <3>1 DEF Delivered
    <3>3. granted'[j] = {c}
      BY <2>2, <2>4, <3>2 DEF TypeOK
    <3>4. job'[j] = LeasedTo(SweptStore(c, n)[j], c)
      BY <2>1, <2>2, <2>4, SweptStoreType
    <3>5. job'[j].status = "leased"
      BY <2>3, <3>4 DEF LeasedTo, JobRecord
    <3> QED
      BY <3>1, <3>3, <3>5, Moves DEF PhaseOf
  <2>5. CASE j # k
    <3>1. job'[j] = SweptStore(c, n)[j] /\ granted'[j] = granted[j]
      BY <2>1, <2>2, <2>5, SweptStoreType DEF TypeOK
    <3> QED
      BY <2>3, <3>1, MovedOnMoves
  <2> QED
    BY <2>4, <2>5
<1>5. ASSUME NEW k \in Jobs, NEW c \in Claims, NEW o \in Outcome, Complete(c, k, o)
      PROVE  Lifecycle!Move(j)
  <2>1. /\ job[k] \in JobRecord /\ job[k].status \in Open
        /\ job' = [job EXCEPT ![k] = Completed(job[k], c, o)]
        /\ granted' = granted
    BY <1>5 DEF Complete, Completable, Open, TypeOK
  <2>2. CASE j = k
    <3>1. job'[j].status = o
      <4>1. job'[j] = Completed(job[k], c, o)
        BY <2>1, <2>2 DEF TypeOK
      <4> QED
        BY <2>1, <4>1 DEF Completed, JobRecord
    <3> QED
      BY <2>1, <2>2, <3>1, Moves DEF PhaseOf, Open, Outcome
  <2>3. CASE j # k
    BY <2>1, <2>3, RestMoves DEF TypeOK
  <2> QED
    BY <2>2, <2>3
<1>6. ASSUME NEW k \in Jobs, WaitPurge(k) PROVE Lifecycle!Move(j)
  <2>1. /\ job[k] \in JobRecord /\ granted' = granted
        /\ job' = [job EXCEPT ![k] = [job[k] EXCEPT !.result = "purged"]]
    BY <1>6 DEF WaitPurge, TypeOK
  <2>2. [job[k] EXCEPT !.result = "purged"].status = job[k].status
    BY <2>1 DEF JobRecord
  <2> QED
    BY <2>1, <2>2, RestMoves DEF TypeOK
<1>7. CASE UNCHANGED <<job, granted>>
  BY <1>7, RestMoves
<1>8. ASSUME NEW k \in Jobs,
             \/ \E c \in Claims : CompleteAgain(c, k)
             \/ WaitRead(k) \/ WaitAnswer(k) \/ WaitFail(k)
             \/ WaitDeadline(k) \/ WaitRemoved(k) \/ Poll(k) \/ Elapse(k)
      PROVE  Lifecycle!Move(j)
  BY <1>7, <1>8
     DEF CompleteAgain, WaitRead, WaitAnswer, WaitFail, WaitDeadline, WaitRemoved,
         Poll, Elapse
<1>9. ASSUME NEW c \in Claims, ClaimArrive(c) PROVE Lifecycle!Move(j)
  BY <1>7, <1>9 DEF ClaimArrive, jobVars
<1>10. ASSUME Restart PROVE Lifecycle!Move(j)
  BY <1>7, <1>10 DEF Restart
<1> QED
  BY <1>1, <1>2, <1>3, <1>4, <1>5, <1>6, <1>7, <1>8, <1>9, <1>10
     DEF JsonNext, StoreNext, vars

\* Submitting, leasing, sweeping, completing, polling and pruning on the JSON
\* file only ever move a job along its abstract life: offered once, accepted by
\* one claim, ended once, and dropped only then.
THEOREM BrokerImplementsLifecycle == JsonSpec => ImplementsLifecycle
<1>1. JsonInit => Lifecycle!Init
  BY HolderFacts DEF JsonInit, Init, Lifecycle!Init, Absent, PhaseOf
<1>2. ASSUME IInv, AbstractTypeOK', [JsonNext]_vars PROVE Lifecycle!Next
  <2>1. \A j \in Jobs : Lifecycle!Move(j)
    BY <1>2, EveryJobMoves
  <2> QED
    BY <1>2, <2>1 DEF Lifecycle!Next, AbstractTypeOK, phaseOfJob, holderOfJob
<1> QED
  BY <1>1, <1>2, AbstractState, IInvHolds, PTL
     DEF JsonSpec, ImplementsLifecycle, Lifecycle!Spec

-----------------------------------------------------------------------------
(* The pending limit.                                                      *)

LEMMA FinitePending ==
    ASSUME NEW store, NEW u
    PROVE  /\ IsFiniteSet(Pending(store, u))
           /\ Cardinality(Pending(store, u)) \in Nat
<1>1. IsFiniteSet(Jobs)
  BY FS_Interval, DesktopJobStoreAssumption DEF Jobs
<1>2. Pending(store, u) \subseteq Jobs
  BY DEF Pending
<1>3. IsFiniteSet(Pending(store, u))
  BY <1>1, <1>2, FS_Subset
<1> QED
  BY <1>3, FS_CardinalityType

\* A set grows by at most one element when one is added to it.
LEMMA OneMore ==
  ASSUME NEW S, NEW x, IsFiniteSet(S)
  PROVE  /\ IsFiniteSet(S \cup {x})
         /\ Cardinality(S \cup {x}) <= Cardinality(S) + 1
<1>1. Cardinality(S) \in Nat
  BY FS_CardinalityType
<1>2. /\ IsFiniteSet(S \cup {x})
      /\ Cardinality(S \cup {x}) = IF x \in S THEN Cardinality(S) ELSE Cardinality(S) + 1
  BY FS_AddElement
<1> QED
  BY <1>1, <1>2

LEMMA FewerPending ==
    ASSUME NEW store, NEW next, NEW u, Pending(next, u) \subseteq Pending(store, u)
    PROVE  Cardinality(Pending(next, u)) <= Cardinality(Pending(store, u))
  BY FinitePending, FS_Subset

\* A step that submits nothing makes no job pending.
LEMMA MovedOnPending ==
    ASSUME NEW store, NEW next, NEW u,
           \A j \in Jobs : MovedOn(store[j], next[j])
                          \/ (next[j].user = store[j].user
                                /\ (next[j].status \in Active => store[j].status \in Active)),
           store \in [Jobs -> JobRecord]
    PROVE  Pending(next, u) \subseteq Pending(store, u)
<1> SUFFICES ASSUME NEW j \in Jobs, next[j].user = u, next[j].status \in Active
             PROVE  store[j].user = u /\ store[j].status \in Active
  BY DEF Pending
<1>1. CASE MovedOn(store[j], next[j])
  BY <1>1 DEF MovedOn, JobRecord, Removed, Absent, Active, Terminal, Outcome
<1>2. CASE /\ next[j].user = store[j].user
           /\ next[j].status \in Active => store[j].status \in Active
  BY <1>2
<1> QED
  BY <1>1, <1>2

LEMMA PendingStep ==
    ASSUME IInv, PendingBound, [JsonNext]_vars
    PROVE  PendingBound'
<1> USE DEF IInv, JsonTypeOK
<1>1. ASSUME \A u \in Users : Pending(job', u) \subseteq Pending(job, u)
      PROVE  PendingBound'
  <2> SUFFICES ASSUME NEW u \in Users PROVE Cardinality(Pending(job', u)) <= MaxPending
    BY DEF PendingBound, Pending
  <2>1. Cardinality(Pending(job', u)) <= Cardinality(Pending(job, u))
    BY <1>1, FewerPending
  <2> QED
    BY <2>1, FinitePending, DesktopJobStoreAssumption DEF PendingBound
<1>2. ASSUME \A j \in Jobs : MovedOn(job[j], job'[j])
                          \/ (job'[j].user = job[j].user
                                /\ (job'[j].status \in Active => job[j].status \in Active))
      PROVE  PendingBound'
  BY <1>1, <1>2, MovedOnPending DEF TypeOK
<1>3. ASSUME NEW u \in Users, NEW e \in JobEnvs, NEW n \in 0..created, Enqueue(u, e, n)
      PROVE  PendingBound'
  <2>1. /\ n \in Nat /\ created + 1 \in Jobs
        /\ job' = [Pruned(n) EXCEPT ![created + 1] = Queued(u, e)]
        /\ Cardinality(Pending(Pruned(n), u)) < MaxPending
    BY <1>3, DesktopJobStoreAssumption DEF Enqueue, TypeOK, Jobs
  <2>2. Queued(u, e).user = u
    BY DEF Queued, Absent
  <2>3. \A j \in Jobs : job'[j] = IF j = created + 1 THEN Queued(u, e) ELSE Pruned(n)[j]
    BY <2>1, PrunedStore
  <2> SUFFICES ASSUME NEW v \in Users PROVE Cardinality(Pending(job', v)) <= MaxPending
    BY DEF PendingBound, Pending
  <2>4. CASE v = u
    <3> DEFINE more == Pending(Pruned(n), u) \cup {created + 1}
    <3>1. Pending(job', u) \subseteq more
      BY <2>3 DEF Pending
    <3>2. /\ IsFiniteSet(more)
          /\ Cardinality(more) <= Cardinality(Pending(Pruned(n), u)) + 1
      <4>1. IsFiniteSet(Pending(Pruned(n), u)) /\ Cardinality(Pending(Pruned(n), u)) \in Nat
        BY FinitePending
      <4> QED
        BY <4>1, OneMore
    <3>3. Cardinality(Pending(job', u)) <= Cardinality(more) /\ Cardinality(more) \in Nat
      BY <3>1, <3>2, FS_Subset, FS_CardinalityType
    <3>4. Cardinality(Pending(job', u)) \in Nat /\ Cardinality(Pending(Pruned(n), u)) \in Nat
      BY FinitePending
    <3> HIDE DEF more
    <3> QED
      BY <2>1, <2>4, <3>2, <3>3, <3>4, DesktopJobStoreAssumption
  <2>5. CASE v # u
    <3>1. Pending(job', v) \subseteq Pending(Pruned(n), v)
      BY <2>2, <2>3, <2>5 DEF Pending
    <3>2. Pending(Pruned(n), v) \subseteq Pending(job, v)
      BY <2>1, PrunedMovedOn, MovedOnPending DEF TypeOK
    <3>3. Cardinality(Pending(job', v)) <= Cardinality(Pending(job, v))
      BY <3>1, <3>2, FewerPending
    <3> QED
      BY <3>3, FinitePending, DesktopJobStoreAssumption DEF PendingBound
  <2> QED
    BY <2>4, <2>5
<1>4. ASSUME NEW c \in Claims, NEW n \in 0..created,
             ClaimReplay(c, n) \/ ClaimNothing(c, n)
      PROVE  PendingBound'
  <2>1. n \in Nat /\ (job' = Pruned(n) \/ job' = SweptStore(c, n))
    BY <1>4 DEF ClaimReplay, ClaimNothing, TypeOK
  <2> QED
    BY <1>2, <2>1, PrunedMovedOn, SweptStoreRecords
<1>5. ASSUME NEW c \in Claims, NEW n \in 0..created, ClaimJob(c, n)
      PROVE  PendingBound'
  <2>1. n \in Nat
    BY DEF TypeOK
  <2>2. PICK k \in Jobs :
          /\ SweptStore(c, n)[k].status = "queued"
          /\ job' = [SweptStore(c, n) EXCEPT ![k] = LeasedTo(@, c)]
    BY <1>5 DEF ClaimJob, Ready, Matches
  <2>3. \A j \in Jobs : /\ MovedOn(job[j], SweptStore(c, n)[j])
                        /\ SweptStore(c, n)[j] \in JobRecord
    BY <2>1, SweptStoreRecords, SweptStoreType
  <2>4. SweptStore(c, n)[k] = job[k]
    BY ZenonT(60), <2>2, <2>3 DEF MovedOn, Removed, Absent, TypeOK, JobRecord
  <2>5. LeasedTo(job[k], c).user = job[k].user
    BY <2>3, <2>4 DEF LeasedTo, JobRecord
  <2>6. job'[k] = LeasedTo(job[k], c) /\ \A j \in Jobs : j # k => job'[j] = SweptStore(c, n)[j]
    BY <2>1, <2>2, <2>4, SweptStoreType
  <2> QED
    BY <1>2, <2>2, <2>3, <2>4, <2>5, <2>6 DEF Active
<1>6. ASSUME NEW k \in Jobs, NEW c \in Claims, NEW o \in Outcome, Complete(c, k, o)
      PROVE  PendingBound'
  <2>1. /\ job[k] \in JobRecord
        /\ job[k].status \in Active
        /\ job' = [job EXCEPT ![k] = Completed(job[k], c, o)]
    BY <1>6 DEF Complete, Completable, Active, TypeOK
  <2>2. Completed(job[k], c, o).user = job[k].user
    BY <2>1 DEF Completed, JobRecord
  <2> QED
    BY <1>2, <2>1, <2>2 DEF TypeOK
<1>7. ASSUME NEW k \in Jobs, WaitPurge(k) PROVE PendingBound'
  <2>1. /\ job[k] \in JobRecord
        /\ job' = [job EXCEPT ![k] = [job[k] EXCEPT !.result = "purged"]]
    BY <1>7 DEF WaitPurge, TypeOK
  <2>2. /\ [job[k] EXCEPT !.result = "purged"].user = job[k].user
        /\ [job[k] EXCEPT !.result = "purged"].status = job[k].status
    BY <2>1 DEF JobRecord
  <2> QED
    BY <1>2, <2>1, <2>2 DEF TypeOK
<1>8. CASE UNCHANGED job
  BY <1>8 DEF PendingBound, Pending
<1>9. ASSUME NEW k \in Jobs,
             \/ \E c \in Claims : CompleteAgain(c, k)
             \/ WaitRead(k) \/ WaitAnswer(k) \/ WaitFail(k)
             \/ WaitDeadline(k) \/ WaitRemoved(k) \/ Poll(k) \/ Elapse(k)
      PROVE  PendingBound'
  BY <1>8, <1>9
     DEF CompleteAgain, WaitRead, WaitAnswer, WaitFail, WaitDeadline, WaitRemoved,
         Poll, Elapse
<1>10. ASSUME NEW c \in Claims, ClaimArrive(c) PROVE PendingBound'
  BY <1>8, <1>10 DEF ClaimArrive, jobVars
<1>11. ASSUME Restart PROVE PendingBound'
  BY <1>8, <1>11 DEF Restart
<1> QED
  BY <1>3, <1>4, <1>5, <1>6, <1>7, <1>8, <1>9, <1>10, <1>11 DEF JsonNext, StoreNext, vars

\* On the JSON file, where counting and storing are one update of
\* enqueueDesktopToolCall, no user ever holds more than
\* MAX_PENDING_JOBS_PER_USER jobs that may still run.
THEOREM PendingWithinBound == JsonSpec => []PendingBound
<1>1. JsonInit => PendingBound
  <2> SUFFICES ASSUME JsonInit, NEW u \in Users PROVE Cardinality(Pending(job, u)) <= MaxPending
    BY DEF PendingBound
  <2>1. Pending(job, u) = {}
    BY DEF JsonInit, Init, Pending, Absent, Active
  <2> QED
    BY <2>1, FS_EmptySet, DesktopJobStoreAssumption
<1> QED
  BY <1>1, IInvHolds, PendingStep, PTL DEF JsonSpec
=============================================================================
