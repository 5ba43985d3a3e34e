------------------------ MODULE DesktopJobsMongoProofs ------------------------
(***************************************************************************)
(* Proofs about the desktop job broker on MongoDB, for any number of jobs, *)
(* claims, users, environments and server processes, whose operations on   *)
(* the collection interleave and may each fail.                            *)
(***************************************************************************)
EXTENDS DesktopJobsMongo, DesktopJobStoreProofs, TLAPS

-----------------------------------------------------------------------------
(* Type correctness.                                                       *)

LEMMA MongoTypeInit == MongoInit => MongoTypeOK
  BY StoredRecords, DesktopJobStoreAssumption, MaxCountedAssumption
     DEF MongoInit, Init, MongoTypeOK, TypeOK, WaiterState, Request, Idle

LEMMA LeasedRecord ==
    ASSUME NEW r \in JobRecord, NEW c \in Claims
    PROVE  /\ [r EXCEPT !.status = "leased", !.claimKey = ClaimKey(c)] \in JobRecord
           /\ [r EXCEPT !.leaseHash = c] \in JobRecord
  BY DEF ClaimKey, JobRecord, Status, Active

LEMMA LeasedRequest ==
    ASSUME NEW r \in Request, NEW j \in Jobs
    PROVE  [r EXCEPT !.step = "leased", !.job = j] \in Request
<1>1. "leased" \in {"idle", "arrived", "swept", "leased"} /\ j \in Jobs \cup {NoJob}
  OBVIOUS
<1> QED
  BY <1>1 DEF Request

LEMMA SweptRequest ==
    ASSUME NEW r \in Request
    PROVE  [r EXCEPT !.step = "swept", !.seen = {}] \in Request
<1>1. {} \in SUBSET Deadlines /\ "swept" \in {"idle", "arrived", "swept", "leased"}
  OBVIOUS
<1> QED
  BY <1>1 DEF Request

\* A sweep keeps the shape of every record.
LEMMA SweepType ==
    ASSUME MongoTypeOK, NEW s \in Servers, NEW c \in Claims, ClaimSweep(s, c)
    PROVE  /\ job' \in [Jobs -> JobRecord]
           /\ \A j \in Jobs : MovedOn(job[j], job'[j])
<1>1. ASSUME NEW j \in Jobs
      PROVE  job'[j] \in JobRecord /\ MovedOn(job[j], job'[j])
  <2> DEFINE late == <<j, job[j].status>> \in request[s][c].seen
  <2>1. job[j] \in JobRecord /\ late \in BOOLEAN
    BY DEF MongoTypeOK, TypeOK
  <2>2. job'[j] = Swept(job[j], late)
    BY DEF ClaimSweep
  <2> HIDE DEF late
  <2> QED
    BY ZenonT(60), <2>1, <2>2, SweptRecord DEF MovedOn
<1> QED
  BY <1>1 DEF ClaimSweep

\* A claim leases one queued job, and its request remembers which.
LEMMA LeaseRecords ==
    ASSUME MongoTypeOK, NEW s \in Servers, NEW c \in Claims, ClaimLease(s, c)
    PROVE  /\ job' \in [Jobs -> JobRecord]
           /\ request' \in [Servers -> [Claims -> Request]]
           /\ \E j \in Jobs :
               /\ job[j].status = "queued"
               /\ job'[j] = [job[j] EXCEPT !.status = "leased", !.claimKey = ClaimKey(c)]
               /\ \A k \in Jobs \ {j} : job'[k] = job[k]
               /\ request'[s][c].job = j
               /\ \A t \in Servers, d \in Claims :
                     <<t, d>> # <<s, c>> => request'[t][d] = request[t][d]
<1>1. PICK j \in Jobs :
        /\ job[j].status = "queued"
        /\ job' = [job EXCEPT ![j].status = "leased", ![j].claimKey = ClaimKey(c)]
        /\ request' = [request EXCEPT ![s][c].step = "leased", ![s][c].job = j]
  BY DEF ClaimLease, Ready, Matches
<1>2. job[j] \in JobRecord /\ job \in [Jobs -> JobRecord]
  BY DEF MongoTypeOK, TypeOK
<1>3. job'[j] = [job[j] EXCEPT !.status = "leased", !.claimKey = ClaimKey(c)]
  BY <1>1, <1>2
<1>4. \A k \in Jobs \ {j} : job'[k] = job[k]
  BY <1>1, <1>2
<1>5. job' \in [Jobs -> JobRecord]
  <2>1. job'[j] \in JobRecord
    BY <1>2, <1>3, LeasedRecord
  <2>2. DOMAIN job' = Jobs /\ job' = [k \in Jobs |-> job'[k]]
    BY <1>1, <1>2
  <2> QED
    BY <1>2, <1>4, <2>1, <2>2
<1>6. request' = [request EXCEPT ![s] = [request[s] EXCEPT ![c] =
                     [request[s][c] EXCEPT !.step = "leased", !.job = j]]]
  BY <1>1 DEF MongoTypeOK
<1>7. [request[s][c] EXCEPT !.step = "leased", !.job = j] \in Request
  BY LeasedRequest DEF MongoTypeOK
<1>8. request' \in [Servers -> [Claims -> Request]]
  BY <1>6, <1>7 DEF MongoTypeOK
<1>9. request'[s][c].job = j
  BY <1>6 DEF MongoTypeOK, Request
<1>10. \A t \in Servers, d \in Claims :
          <<t, d>> # <<s, c>> => request'[t][d] = request[t][d]
  BY <1>6 DEF MongoTypeOK
<1> QED
  BY <1>1, <1>3, <1>4, <1>5, <1>8, <1>9, <1>10

LEMMA MongoTypeStep == MongoTypeOK /\ [MongoNext]_vars => MongoTypeOK'
<1> SUFFICES ASSUME MongoTypeOK, [MongoNext]_vars PROVE MongoTypeOK'
  OBVIOUS
<1> USE DEF MongoTypeOK
<1>1. ASSUME NEW u \in Users, CountPending(u) PROVE MongoTypeOK'
  BY <1>1, MaxCountedAssumption DEF CountPending, jobVars, TypeOK
<1>2. ASSUME NEW u \in Users, NEW e \in JobEnvs, InsertJob(u, e) PROVE MongoTypeOK'
  <2>1. created' \in 0..NumJobs /\ created + 1 \in Jobs
    BY <1>2, DesktopJobStoreAssumption DEF InsertJob, TypeOK, Jobs
  <2>2. job' \in [Jobs -> JobRecord]
    BY <1>2, <2>1, StoredRecords DEF InsertJob, TypeOK
  <2>3. counted' \in [Users -> 0..MaxCounted]
    BY <1>2, MaxCountedAssumption DEF InsertJob
  <2>4. waiter' \in [Jobs -> WaiterState]
    BY <1>2 DEF InsertJob, TypeOK, WaiterState
  <2> QED
    BY <1>2, <2>1, <2>2, <2>3, <2>4 DEF InsertJob, TypeOK
<1>3. ASSUME NEW s \in Servers, NEW c \in Claims, ClaimArrive(s, c) PROVE MongoTypeOK'
  <2>1. Overdue \subseteq Deadlines
    BY DEF TypeOK, Overdue
  <2>2. request' \in [Servers -> [Claims -> Request]]
    BY <1>3, <2>1 DEF ClaimArrive, Request
  <2> QED
    BY <1>3, <2>2 DEF ClaimArrive, jobVars, TypeOK
<1>4. ASSUME NEW s \in Servers, NEW c \in Claims, ClaimAnswered(s, c),
             job' \in [Jobs -> JobRecord], granted' \in [Jobs -> SUBSET Claims]
      PROVE  MongoTypeOK'
  <2>1. Idle \in Request
    BY DEF Idle, Request
  <2> QED
    BY <1>4, <2>1 DEF ClaimAnswered, TypeOK
<1>5. ASSUME NEW s \in Servers, NEW c \in Claims, ClaimReplay(s, c) PROVE MongoTypeOK'
  <2>1. PICK j \in Jobs :
          granted' = [granted EXCEPT ![j] =
                        IF job[j].status = "leased" THEN @ \cup {c} ELSE @]
    BY <1>5 DEF ClaimReplay
  <2>2. granted' \in [Jobs -> SUBSET Claims]
    BY <2>1 DEF TypeOK
  <2> QED
    BY <1>4, <1>5, <2>2 DEF ClaimReplay, TypeOK
<1>6. ASSUME NEW s \in Servers, NEW c \in Claims, ClaimSweep(s, c) PROVE MongoTypeOK'
  <2>1. request' = [request EXCEPT ![s] = [request[s] EXCEPT ![c] =
                       [request[s][c] EXCEPT !.step = "swept", !.seen = {}]]]
    BY <1>6 DEF ClaimSweep
  <2>2. request' \in [Servers -> [Claims -> Request]]
    BY <2>1, SweptRequest
  <2> QED
    BY <1>6, <2>2, SweepType DEF ClaimSweep, TypeOK
<1>7. ASSUME NEW s \in Servers, NEW c \in Claims, ClaimLease(s, c) PROVE MongoTypeOK'
  <2>1. /\ job' \in [Jobs -> JobRecord]
        /\ request' \in [Servers -> [Claims -> Request]]
    BY <1>7, LeaseRecords
  <2> QED
    BY <1>7, <2>1 DEF ClaimLease, TypeOK
<1>8. ASSUME NEW s \in Servers, NEW c \in Claims,
             ClaimNothing(s, c) \/ ClaimUnsecured(s, c) \/ ClaimFail(s, c)
      PROVE  MongoTypeOK'
  BY <1>4, <1>8 DEF ClaimNothing, ClaimUnsecured, ClaimFail, TypeOK
<1>9. ASSUME NEW s \in Servers, NEW c \in Claims, ClaimSecure(s, c) PROVE MongoTypeOK'
  <2> DEFINE j == request[s][c].job
  <2>1. /\ job' = [job EXCEPT ![j] = [job[j] EXCEPT !.leaseHash = c]]
        /\ granted' = [granted EXCEPT ![j] = @ \cup {c}]
    BY <1>9 DEF ClaimSecure
  <2>2. job' \in [Jobs -> JobRecord] /\ granted' \in [Jobs -> SUBSET Claims]
    BY <2>1, LeasedRecord DEF TypeOK
  <2> QED
    BY <1>4, <1>9, <2>2 DEF ClaimSecure
<1>10. ASSUME NEW j \in Jobs, Retire(j) PROVE MongoTypeOK'
  BY <1>10, StoredRecords DEF Retire, TypeOK
<1>11. ASSUME NEW s \in Servers, Restart(s) PROVE MongoTypeOK'
  <2>1. Idle \in Request
    BY DEF Idle, Request
  <2>2. request' \in [Servers -> [Claims -> Request]]
    BY <1>11, <2>1 DEF Restart
  <2>3. waiter' \in [Jobs -> WaiterState]
    BY <1>11 DEF Restart, LoseWaits, TypeOK, WaiterState
  <2> QED
    BY <1>11, <2>2, <2>3 DEF Restart, TypeOK
<1>12. CASE StoreNext /\ UNCHANGED <<counted, request>>
  BY <1>12, StoreType
<1>13. CASE UNCHANGED vars
  BY <1>13 DEF vars, TypeOK
<1>14. ASSUME NEW j \in Jobs, PurgeUnconfirmed(j) PROVE MongoTypeOK'
  <2>1. [job[j] EXCEPT !.result = "purged"] \in JobRecord
    BY StoredRecords DEF TypeOK
  <2> QED
    BY <1>14, <2>1 DEF PurgeUnconfirmed, TypeOK, WaiterState
<1> QED
  BY <1>1, <1>2, <1>3, <1>5, <1>6, <1>7, <1>8, <1>9, <1>10, <1>11, <1>12, <1>13,
     <1>14 DEF MongoNext

\* Every record, deadline, wait and request keeps its shape, whatever the
\* servers' operations interleave with.
THEOREM MongoTypeCorrect == MongoSpec => []MongoTypeOK
  BY MongoTypeInit, MongoTypeStep, PTL DEF MongoSpec

-----------------------------------------------------------------------------
(* The inductive invariant: who a job belongs to.  A job that is offered   *)
(* was sent to nobody and no request has leased it; a job that is accepted *)
(* belongs to one claim, the only one whose requests may have leased it    *)
(* and the only one it was, or will be, sent to.                           *)

Offered == {"absent", "queued", "expired"}

Asks(s, c, j) == request[s][c].step = "leased" /\ request[s][c].job = j

Owned(j) ==
    /\ job[j].status \in Offered =>
          granted[j] = {} /\ \A s \in Servers, c \in Claims : ~Asks(s, c, j)
    /\ job[j].status \in Open =>
          \E c \in Claims :
             /\ granted[j] \subseteq {c}
             /\ job[j].claimKey = ClaimKey(c)
             /\ \A s \in Servers, d \in Claims : Asks(s, d, j) => d = c
    /\ \A c, d \in granted[j] : c = d

MInv ==
    /\ MongoTypeOK
    /\ \A j \in Jobs : j > created => job[j].status = "absent"
    /\ \A j \in Jobs : Owned(j)

LEMMA MInvInit == MongoInit => MInv
  BY MongoTypeInit DEF MongoInit, Init, MInv, Owned, Asks, Idle, Absent, Open

\* What happens to a record as far as its owner is concerned.
Settles(r, s) ==
    /\ s.status \in Offered => r.status \in Offered
    /\ s.status \in Open => r.status \in Open /\ s.claimKey = r.claimKey
    /\ r.status = "absent" => s.status = "absent"

LEMMA OwnedStays ==
    ASSUME NEW j \in Jobs, Owned(j), Settles(job[j], job'[j]), granted'[j] = granted[j],
           \A s \in Servers, c \in Claims : Asks(s, c, j)' => Asks(s, c, j)
    PROVE  Owned(j)'
  BY DEF Owned, Settles

\* A step that sends nothing, leases nothing and at most settles records.
LEMMA MInvStays ==
    ASSUME MInv, MongoTypeOK', created' = created, granted' = granted,
           \A j \in Jobs : Settles(job[j], job'[j]),
           \A s \in Servers, c \in Claims :
              request'[s][c].step = "leased" => request'[s][c] = request[s][c]
    PROVE  MInv'
<1>1. \A j \in Jobs : j > created' => job'[j].status = "absent"
  BY DEF MInv, Settles
<1>2. \A j \in Jobs : Owned(j)'
  BY OwnedStays DEF MInv, Asks
<1> QED
  BY <1>1, <1>2 DEF MInv

LEMMA SettlesSame == ASSUME NEW r PROVE Settles(r, r)
  BY DEF Settles

LEMMA SettlesMoved ==
    ASSUME NEW r \in JobRecord, NEW s, MovedOn(r, s)
    PROVE  Settles(r, s)
  BY DEF MovedOn, Settles, Removed, Absent, Terminal, Outcome, Offered, Open, JobRecord

\* The request that is answered has leased nothing any more.
LEMMA AnsweredRequests ==
    ASSUME MongoTypeOK, NEW s \in Servers, NEW c \in Claims, ClaimAnswered(s, c)
    PROVE  /\ created' = created
           /\ \A t \in Servers, d \in Claims :
                request'[t][d].step = "leased" => request'[t][d] = request[t][d]
<1>1. request' = [request EXCEPT ![s] = [request[s] EXCEPT ![c] = Idle]]
  BY DEF ClaimAnswered
<1>2. Idle.step # "leased"
  BY DEF Idle
<1> QED
  BY <1>1, <1>2 DEF MongoTypeOK, ClaimAnswered

\* Purging a payload gives a job to nobody.
LEMMA PurgeSettles ==
    ASSUME MongoTypeOK, NEW j \in Jobs, job' = [job EXCEPT ![j].result = "purged"]
    PROVE  \A k \in Jobs : Settles(job[k], job'[k])
<1>1. job[j] \in JobRecord
  BY DEF MongoTypeOK, TypeOK
<1>2. Settles(job[j], [job[j] EXCEPT !.result = "purged"])
  BY <1>1 DEF Settles, JobRecord
<1> QED
  BY <1>2, SettlesSame DEF MongoTypeOK, TypeOK

\* The operations the two stores share.
LEMMA MInvStore ==
    ASSUME MInv, MongoTypeOK', StoreNext, UNCHANGED <<counted, request>>
    PROVE  MInv'
<1> USE DEF MInv, MongoTypeOK
<1>1. ASSUME created' = created, granted' = granted,
             \A j \in Jobs : Settles(job[j], job'[j])
      PROVE  MInv'
  BY <1>1, MInvStays
<1>2. ASSUME NEW j \in Jobs, NEW c \in Claims, NEW o \in Outcome, Complete(c, j, o)
      PROVE  MInv'
  <2>1. /\ job[j] \in JobRecord /\ job[j].status \in Open
        /\ job' = [job EXCEPT ![j] = Completed(job[j], c, o)]
        /\ granted' = granted /\ created' = created
    BY <1>2 DEF Complete, Completable, Open, TypeOK
  <2>2. Completed(job[j], c, o).status = o
    BY <2>1 DEF Completed, JobRecord
  <2>3. \A k \in Jobs : Settles(job[k], job'[k])
    BY <2>1, <2>2 DEF Settles, Offered, Open, Outcome, TypeOK
  <2> QED
    BY <1>1, <2>1, <2>3
<1>3. ASSUME NEW j \in Jobs, WaitPurge(j) PROVE MInv'
  <2>1. job' = [job EXCEPT ![j].result = "purged"] /\ UNCHANGED <<created, granted>>
    BY <1>3 DEF WaitPurge
  <2> QED
    BY <1>1, <2>1, PurgeSettles
<1>4. ASSUME NEW j \in Jobs,
             \/ \E c \in Claims : CompleteAgain(c, j)
             \/ WaitRead(j) \/ WaitAnswer(j) \/ WaitFail(j)
             \/ WaitDeadline(j) \/ WaitRemoved(j) \/ Poll(j) \/ Elapse(j)
      PROVE  MInv'
  <2>1. UNCHANGED <<created, job, granted>>
    BY <1>4
       DEF CompleteAgain, WaitRead, WaitAnswer, WaitFail, WaitDeadline, WaitRemoved,
           Poll, Elapse
  <2> QED
    BY <1>1, <2>1, SettlesSame
<1> QED
  BY <1>2, <1>3, <1>4 DEF StoreNext

LEMMA MInvInsert ==
    ASSUME MInv, MongoTypeOK', NEW u \in Users, NEW e \in JobEnvs, InsertJob(u, e)
    PROVE  MInv'
<1> USE DEF MInv
<1>0. PICK new \in Jobs : new = created + 1
  BY DesktopJobStoreAssumption DEF InsertJob, MongoTypeOK, TypeOK, Jobs
<1>1. /\ created \in Nat /\ job[new].status = "absent"
      /\ job' = [job EXCEPT ![new] = Queued(u, e)]
      /\ granted' = granted /\ request' = request /\ created' = created + 1
  BY <1>0 DEF InsertJob, MongoTypeOK, TypeOK
<1>2. job'[new].status = "queued"
  <2>1. Queued(u, e).status = "queued"
    BY DEF Queued, Absent
  <2> QED
    BY <1>1, <2>1 DEF MongoTypeOK, TypeOK
<1>3. \A k \in Jobs : k # new => job'[k] = job[k]
  BY <1>1 DEF MongoTypeOK, TypeOK
<1>4. \A k \in Jobs : k > created' => job'[k].status = "absent"
  BY <1>0, <1>1, <1>3 DEF Jobs
<1>5. Owned(new)'
  BY <1>1, <1>2 DEF Owned, Asks, Offered, Open
<1>6. \A k \in Jobs : k # new => Owned(k)'
  BY <1>1, <1>3, OwnedStays, SettlesSame DEF Asks
<1> QED
  BY <1>4, <1>5, <1>6

LEMMA MInvReplay ==
    ASSUME MInv, MongoTypeOK', NEW s \in Servers, NEW c \in Claims, ClaimReplay(s, c)
    PROVE  MInv'
<1> USE DEF MInv
<1>1. PICK j \in Jobs :
        /\ HasKey(j, c)
        /\ granted' = [granted EXCEPT ![j] =
                         IF job[j].status = "leased" THEN @ \cup {c} ELSE @]
  BY DEF ClaimReplay
<1>2. /\ job' = job /\ created' = created
      /\ \A t \in Servers, d \in Claims, k \in Jobs : Asks(t, d, k)' => Asks(t, d, k)
  BY AnsweredRequests DEF ClaimReplay, Asks
<1>3. \A k \in Jobs : k # j => Owned(k)'
  BY <1>1, <1>2, OwnedStays, SettlesSame DEF MongoTypeOK, TypeOK
<1>4. CASE job[j].status # "leased"
  <2>1. granted'[j] = granted[j]
    BY <1>1, <1>4 DEF MongoTypeOK, TypeOK
  <2>2. Owned(j)'
    BY <1>2, <2>1, OwnedStays, SettlesSame
  <2> QED
    BY <1>2, <1>3, <2>2
<1>5. CASE job[j].status = "leased"
  <2>1. PICK d \in Claims :
          /\ granted[j] \subseteq {d}
          /\ job[j].claimKey = ClaimKey(d)
          /\ \A t \in Servers, b \in Claims : Asks(t, b, j) => b = d
    BY <1>5 DEF Owned, Open
  <2>2. d = c
    BY <1>1, <2>1, DesktopJobStoreAssumption DEF HasKey, ClaimKey
  <2>3. granted'[j] = {c}
    BY <1>1, <1>5, <2>1, <2>2 DEF MongoTypeOK, TypeOK
  <2>4. Owned(j)'
    BY <1>2, <1>5, <2>1, <2>2, <2>3 DEF Owned, Offered, Open
  <2> QED
    BY <1>2, <1>3, <2>4
<1> QED
  BY <1>4, <1>5

LEMMA MInvLease ==
    ASSUME MInv, MongoTypeOK', NEW s \in Servers, NEW c \in Claims, ClaimLease(s, c)
    PROVE  MInv'
<1> USE DEF MInv
<1>1. PICK j \in Jobs :
        /\ job[j].status = "queued"
        /\ job'[j] = [job[j] EXCEPT !.status = "leased", !.claimKey = ClaimKey(c)]
        /\ \A k \in Jobs \ {j} : job'[k] = job[k]
        /\ request'[s][c].job = j
        /\ \A t \in Servers, d \in Claims :
              <<t, d>> # <<s, c>> => request'[t][d] = request[t][d]
  BY LeaseRecords
<1>2. job'[j].status = "leased" /\ job'[j].claimKey = ClaimKey(c)
  BY <1>1 DEF MongoTypeOK, TypeOK, JobRecord
<1>3. created' = created /\ granted' = granted
  BY DEF ClaimLease
<1>4. granted[j] = {} /\ \A t \in Servers, d \in Claims : ~Asks(t, d, j)
  BY <1>1 DEF Owned, Offered
<1>5. \A t \in Servers, d \in Claims : Asks(t, d, j)' => d = c
  BY <1>1, <1>4 DEF Asks
<1>6. Owned(j)'
  BY <1>2, <1>3, <1>4, <1>5 DEF Owned, Offered, Open
<1>7. \A k \in Jobs : k # j => Owned(k)'
  BY <1>1, <1>3, OwnedStays, SettlesSame DEF Asks
<1>8. \A k \in Jobs : k > created' => job'[k].status = "absent"
  BY <1>1, <1>3
<1> QED
  BY <1>6, <1>7, <1>8

LEMMA MInvSecure ==
    ASSUME MInv, MongoTypeOK', NEW s \in Servers, NEW c \in Claims, ClaimSecure(s, c)
    PROVE  MInv'
<1> USE DEF MInv
<1>0. PICK j : j = request[s][c].job
  OBVIOUS
<1>1. /\ Asks(s, c, j) /\ job[j].status = "leased"
      /\ job' = [job EXCEPT ![j] = [job[j] EXCEPT !.leaseHash = c]]
      /\ granted' = [granted EXCEPT ![j] = @ \cup {c}]
  BY <1>0 DEF ClaimSecure, Securable, Asks
<1>2. created' = created /\ \A t \in Servers, d \in Claims, k \in Jobs :
                               Asks(t, d, k)' => Asks(t, d, k)
  BY AnsweredRequests DEF ClaimSecure, Asks
<1>3. CASE j \in Jobs
  <2>1. /\ job'[j].status = "leased" /\ job'[j].claimKey = job[j].claimKey
        /\ \A k \in Jobs : k # j => job'[k] = job[k] /\ granted'[k] = granted[k]
        /\ granted'[j] = granted[j] \cup {c}
    BY <1>1, <1>3 DEF MongoTypeOK, TypeOK, JobRecord
  <2>2. PICK d \in Claims :
          /\ granted[j] \subseteq {d}
          /\ job[j].claimKey = ClaimKey(d)
          /\ \A t \in Servers, b \in Claims : Asks(t, b, j) => b = d
    BY <1>1, <1>3 DEF Owned, Open
  <2>3. d = c
    BY <1>1, <2>2
  <2>4. Owned(j)'
    BY <1>2, <1>3, <2>1, <2>2, <2>3 DEF Owned, Offered, Open
  <2>5. \A k \in Jobs : k # j => Owned(k)'
    BY <1>2, <2>1, OwnedStays, SettlesSame
  <2>6. \A k \in Jobs : k > created' => job'[k].status = "absent"
    BY <1>1, <1>2, <1>3, <2>1
  <2> QED
    BY <2>4, <2>5, <2>6
<1>4. CASE j \notin Jobs
  <2>1. job' = job /\ granted' = granted
    BY <1>1, <1>4 DEF MongoTypeOK, TypeOK
  <2> QED
    BY <1>2, <2>1, OwnedStays, SettlesSame
<1> QED
  BY <1>3, <1>4

LEMMA MInvStep == MInv /\ [MongoNext]_vars => MInv'
<1> SUFFICES ASSUME MInv, [MongoNext]_vars PROVE MInv'
  OBVIOUS
<1>1. MongoTypeOK /\ MongoTypeOK'
  BY MongoTypeStep DEF MInv
<1>2. ASSUME UNCHANGED <<created, job, granted, request>> PROVE MInv'
  BY <1>1, <1>2, MInvStays, SettlesSame
<1>3. ASSUME NEW u \in Users, CountPending(u) PROVE MInv'
  BY <1>2, <1>3 DEF CountPending, jobVars
<1>4. ASSUME NEW s \in Servers, NEW c \in Claims, ClaimArrive(s, c) PROVE MInv'
  <2>1. request' = [request EXCEPT ![s] = [request[s] EXCEPT ![c] =
                       [step |-> "arrived", seen |-> Overdue, job |-> NoJob]]]
    BY <1>4 DEF ClaimArrive
  <2>2. UNCHANGED <<created, job, granted>>
    BY <1>4 DEF ClaimArrive, jobVars
  <2>3. \A t \in Servers, d \in Claims :
           request'[t][d].step = "leased" => request'[t][d] = request[t][d]
    BY <1>1, <2>1 DEF MongoTypeOK
  <2> QED
    BY <1>1, <2>2, <2>3, MInvStays, SettlesSame
<1>5. ASSUME NEW s \in Servers, NEW c \in Claims, ClaimSweep(s, c) PROVE MInv'
  <2>1. request' = [request EXCEPT ![s] = [request[s] EXCEPT ![c] =
                       [request[s][c] EXCEPT !.step = "swept", !.seen = {}]]]
    BY <1>5 DEF ClaimSweep
  <2>2. [request[s][c] EXCEPT !.step = "swept", !.seen = {}].step = "swept"
    BY <1>1 DEF MongoTypeOK, Request
  <2>3. \A t \in Servers, d \in Claims :
           request'[t][d].step = "leased" => request'[t][d] = request[t][d]
    BY <1>1, <2>1, <2>2 DEF MongoTypeOK
  <2>4. created' = created /\ granted' = granted
    BY <1>5 DEF ClaimSweep
  <2>5. \A j \in Jobs : Settles(job[j], job'[j])
    BY <1>1, <1>5, SweepType, SettlesMoved DEF MongoTypeOK, TypeOK
  <2> QED
    BY <1>1, <2>3, <2>4, <2>5, MInvStays
<1>6. ASSUME NEW s \in Servers, NEW c \in Claims,
             ClaimNothing(s, c) \/ ClaimUnsecured(s, c) \/ ClaimFail(s, c)
      PROVE  MInv'
  <2>1. ClaimAnswered(s, c) /\ UNCHANGED <<job, granted>>
    BY <1>6 DEF ClaimNothing, ClaimUnsecured, ClaimFail
  <2> QED
    BY <1>1, <2>1, AnsweredRequests, MInvStays, SettlesSame
<1>7. ASSUME NEW j \in Jobs, Retire(j) PROVE MInv'
  <2>1. \A k \in Jobs : Settles(job[k], job'[k])
    BY <1>1, <1>7 DEF Retire, Settles, Removed, Absent, Terminal, Outcome, Offered,
                      Open, MongoTypeOK, TypeOK
  <2> QED
    BY <1>1, <1>7, <2>1, MInvStays DEF Retire
<1>8. ASSUME NEW s \in Servers, Restart(s) PROVE MInv'
  <2>1. request' = [request EXCEPT ![s] = [c \in Claims |-> Idle]]
    BY <1>8 DEF Restart
  <2>2. Idle.step # "leased"
    BY DEF Idle
  <2>3. \A t \in Servers, d \in Claims :
           request'[t][d].step = "leased" => request'[t][d] = request[t][d]
    BY <1>1, <2>1, <2>2 DEF MongoTypeOK
  <2>4. UNCHANGED <<created, job, granted>>
    BY <1>8 DEF Restart
  <2> QED
    BY <1>1, <2>3, <2>4, MInvStays, SettlesSame
<1>9. CASE UNCHANGED vars
  BY <1>2, <1>9 DEF vars
<1>10. ASSUME NEW j \in Jobs, PurgeUnconfirmed(j) PROVE MInv'
  <2>1. /\ job' = [job EXCEPT ![j].result = "purged"]
        /\ UNCHANGED <<created, granted, request>>
    BY <1>10 DEF PurgeUnconfirmed
  <2> QED
    BY <1>1, <2>1, PurgeSettles, MInvStays
<1> QED
  BY <1>1, <1>3, <1>4, <1>5, <1>6, <1>7, <1>8, <1>9, <1>10, MInvInsert, MInvReplay,
     MInvLease, MInvSecure, MInvStore DEF MongoNext

LEMMA MInvHolds == MongoSpec => []MInv
  BY MInvInit, MInvStep, PTL DEF MongoSpec

\* Although a claim on MongoDB looks its claimId up, sweeps, leases and secures
\* in separate operations on servers that do not know of each other, a job's
\* envelope is sent to one claim at most.
THEOREM MongoOneClaimPerJob == MongoSpec => []AtMostOneClaim
<1>1. MInv => AtMostOneClaim
  BY DEF MInv, Owned, AtMostOneClaim
<1> QED
  BY <1>1, MInvHolds, PTL

\* A job that expired because no desktop accepted it in time was sent to none,
\* on MongoDB too, and no request that leased it can still send it.
THEOREM MongoLapsedUndelivered == MongoSpec => []LapsedNeverDelivered
<1>1. MInv => LapsedNeverDelivered
  BY DEF MInv, Owned, Offered, LapsedNeverDelivered
<1> QED
  BY <1>1, MInvHolds, PTL

-----------------------------------------------------------------------------
(* What the parties are told.                                              *)

LEMMA MongoToldStep ==
    ASSUME MInv, ToldOfAll, [MongoNext]_vars
    PROVE  ToldOfAll'
<1>0. MongoTypeOK
  BY DEF MInv
<1> USE DEF MInv
<1>1. ASSUME UNCHANGED <<job, acked, reported, waiter>> PROVE ToldOfAll'
  BY <1>1 DEF ToldOfAll
<1>2. ASSUME UNCHANGED <<acked, reported, waiter>>,
             \A j \in Jobs : MovedOn(job[j], job'[j])
      PROVE  ToldOfAll'
  BY <1>2, MovedOnTold DEF ToldOfAll, MongoTypeOK, TypeOK
<1>3. ASSUME NEW u \in Users, NEW e \in JobEnvs, InsertJob(u, e) PROVE ToldOfAll'
  <2>1. PICK new \in Jobs : new = created + 1
    BY <1>3, DesktopJobStoreAssumption DEF InsertJob, MongoTypeOK, TypeOK, Jobs
  <2>2. /\ job[new].status = "absent" /\ UNCHANGED <<acked, reported>>
        /\ job' = [job EXCEPT ![new] = Queued(u, e)]
        /\ waiter' = [waiter EXCEPT ![new] = "waiting"]
    BY <1>3, <2>1 DEF InsertJob, MongoTypeOK, TypeOK
  <2>3. acked[new] \cup (reported[new] \cap Outcome) = {}
    BY <2>2 DEF ToldOfAll, Told, Outcome, MongoTypeOK, TypeOK
  <2>4. Queued(u, e).status = "queued"
    BY DEF Queued, Absent
  <2>5. Told(Queued(u, e), acked[new], reported[new], "waiting")
    BY <2>3, <2>4 DEF Told
  <2> QED
    BY <2>2, <2>5 DEF ToldOfAll, MongoTypeOK, TypeOK
<1>4. ASSUME NEW s \in Servers, NEW c \in Claims, ClaimLease(s, c) PROVE ToldOfAll'
  <2>1. PICK j \in Jobs :
          /\ job[j].status = "queued"
          /\ job'[j] = [job[j] EXCEPT !.status = "leased", !.claimKey = ClaimKey(c)]
          /\ \A k \in Jobs \ {j} : job'[k] = job[k]
          /\ request'[s][c].job = j
          /\ \A t \in Servers, d \in Claims :
                <<t, d>> # <<s, c>> => request'[t][d] = request[t][d]
    BY <1>0, <1>4, LeaseRecords
  <2>2. job'[j].status = "leased"
    BY <2>1 DEF MongoTypeOK, TypeOK, JobRecord
  <2>3. UNCHANGED <<acked, reported, waiter>>
    BY <1>4 DEF ClaimLease
  <2>4. Told(job'[j], acked[j], reported[j], waiter[j])
    BY <2>1, <2>2 DEF ToldOfAll, Told, Outcome, MongoTypeOK, TypeOK
  <2> QED
    BY <2>1, <2>3, <2>4 DEF ToldOfAll
<1>5. ASSUME NEW s \in Servers, NEW c \in Claims, ClaimSecure(s, c) PROVE ToldOfAll'
  <2>1. PICK j : job' = [job EXCEPT ![j] = [job[j] EXCEPT !.leaseHash = c]]
    BY <1>5 DEF ClaimSecure
  <2>2. UNCHANGED <<acked, reported, waiter>>
    BY <1>5 DEF ClaimSecure, ClaimAnswered
  <2>3. ASSUME NEW k \in Jobs
        PROVE  job'[k].status = job[k].status /\ job'[k].result = job[k].result
    BY <2>1 DEF MongoTypeOK, TypeOK, JobRecord
  <2> QED
    BY <2>2, <2>3 DEF ToldOfAll, Told
<1>6. ASSUME NEW s \in Servers, NEW c \in Claims,
             ClaimReplay(s, c) \/ ClaimNothing(s, c) \/ ClaimUnsecured(s, c)
                \/ ClaimFail(s, c)
      PROVE  ToldOfAll'
  BY <1>1, <1>6 DEF ClaimReplay, ClaimNothing, ClaimUnsecured, ClaimFail, ClaimAnswered
<1>7. ASSUME NEW s \in Servers, NEW c \in Claims, ClaimSweep(s, c) PROVE ToldOfAll'
  <2>1. UNCHANGED <<acked, reported, waiter>>
    BY <1>7 DEF ClaimSweep
  <2> QED
    BY <1>2, <1>7, <2>1, SweepType
<1>8. ASSUME NEW u \in Users, CountPending(u) PROVE ToldOfAll'
  BY <1>1, <1>8 DEF CountPending, jobVars
<1>9. ASSUME NEW s \in Servers, NEW c \in Claims, ClaimArrive(s, c) PROVE ToldOfAll'
  BY <1>1, <1>9 DEF ClaimArrive, jobVars
<1>10. ASSUME NEW j \in Jobs, Retire(j) PROVE ToldOfAll'
  <2>1. /\ job' = [job EXCEPT ![j] = Removed]
        /\ UNCHANGED <<acked, reported, waiter>>
    BY <1>10 DEF Retire
  <2>2. Told(Removed, acked[j], reported[j], waiter[j])
    BY <1>10 DEF Told, Removed, Absent, Retire
  <2> QED
    BY <2>1, <2>2 DEF ToldOfAll, MongoTypeOK, TypeOK
<1>11. ASSUME NEW s \in Servers, Restart(s) PROVE ToldOfAll'
  BY <1>11 DEF Restart, LoseWaits, Waiting, ToldOfAll, Told, MongoTypeOK, TypeOK
<1>12. CASE StoreNext /\ UNCHANGED <<counted, request>>
  BY <1>12, StoreTold DEF MongoTypeOK
<1>13. CASE UNCHANGED vars
  BY <1>1, <1>13 DEF vars
<1>14. ASSUME NEW j \in Jobs, PurgeUnconfirmed(j) PROVE ToldOfAll'
  <2>1. /\ job' = [job EXCEPT ![j] = [job[j] EXCEPT !.result = "purged"]]
        /\ waiter' = [waiter EXCEPT ![j] = "errored"]
        /\ UNCHANGED <<acked, reported>> /\ job[j] \in JobRecord
    BY <1>14 DEF PurgeUnconfirmed, MongoTypeOK, TypeOK
  <2>2. [job[j] EXCEPT !.result = "purged"].status = job[j].status
    BY <2>1 DEF JobRecord
  <2>3. Told([job[j] EXCEPT !.result = "purged"], acked[j], reported[j], "errored")
    BY <2>2 DEF ToldOfAll, Told
  <2> QED
    BY <2>1, <2>3 DEF ToldOfAll, MongoTypeOK, TypeOK
<1> QED
  BY <1>3, <1>4, <1>5, <1>6, <1>7, <1>8, <1>9, <1>10, <1>11, <1>12, <1>13, <1>14
     DEF MongoNext

LEMMA MongoToldHolds == MongoSpec => []ToldOfAll
<1>1. MongoInit => ToldOfAll
  BY DEF MongoInit, Init, ToldOfAll, Told, Absent
<1> QED
  BY <1>1, MInvHolds, MongoToldStep, PTL DEF MongoSpec

\* On MongoDB, too, what a desktop was acknowledged, what polls returned and
\* what the inline wait returned are one outcome, the stored one.
THEOREM MongoOneOutcome == MongoSpec => []OneOutcome
<1>1. ToldOfAll => OneOutcome
  BY DEF ToldOfAll, Told, OneOutcome
<1> QED
  BY <1>1, MongoToldHolds, PTL

\* On MongoDB, too, the output of a completed job is there for the inline wait
\* that is to take it out and for every poll of an operation a caller was told
\* to poll, whichever servers run the wait, the claims and the poll, and also if
\* one of them stops, or is not told that its update was applied.
THEOREM MongoResultKeptForPoll == MongoSpec => []ResultAvailable
<1>1. ToldOfAll => ResultAvailable
  BY DEF ToldOfAll, Told, ResultAvailable
<1> QED
  BY <1>1, MongoToldHolds, PTL
=============================================================================
