--------------------------- MODULE DesktopJobsMongo ---------------------------
(***************************************************************************)
(* The desktop job broker on MongoDB, the store several server processes   *)
(* share.  Each operation on the collection is one atomic step and nothing *)
(* holds between two of them: a submission counts and then inserts, and a  *)
(* claim looks its claimId up, sweeps the deadlines, leases the oldest job *)
(* and then secures the lease with its hash.  Any of these operations may  *)
(* fail, and a process may stop between them.                              *)
(*                                                                         *)
(* completeDesktopJob reads and then updates; the update is guarded by all *)
(* it read, so it is the single step Complete of DesktopJobStore.  The     *)
(* three deadline updates of a claim touch disjoint records, and are one   *)
(* step.                                                                   *)
(***************************************************************************)
EXTENDS DesktopJobStore

CONSTANTS
    Servers,        \* server processes
    Routes,         \* Routes[c]: the servers requests of claim c may reach
    MaxCounted,     \* bound: submissions of one user between count and insert
    Polling         \* claims of desktops assumed to keep polling for work

ASSUME MaxCountedAssumption == MaxCounted \in Nat

VARIABLES
    counted,    \* counted[u]: submissions of u that passed the pending check
    request     \* request[s][c]: claim c as server s serves it

vars == <<created, job, passed, waiter, granted, acked, reported, counted, request>>

NoJob == 0

Request ==
    [step : {"idle", "arrived", "swept", "leased"}, seen : SUBSET Deadlines,
     job : Jobs \cup {NoJob}]

Idle == [step |-> "idle", seen |-> {}, job |-> NoJob]

MongoTypeOK ==
    /\ TypeOK
    /\ counted \in [Users -> 0..MaxCounted]
    /\ request \in [Servers -> [Claims -> Request]]

MongoInit ==
    /\ Init
    /\ counted = [u \in Users |-> 0]
    /\ request = [s \in Servers |-> [c \in Claims |-> Idle]]

-----------------------------------------------------------------------------
(* enqueueDesktopToolCall: countDocuments, then insertOne.                 *)

CountPending(u) ==
    /\ counted[u] < MaxCounted
    /\ Cardinality(Pending(job, u)) < MaxPending
    /\ counted' = [counted EXCEPT ![u] = @ + 1]
    /\ UNCHANGED <<jobVars, request>>

InsertJob(u, e) ==
    /\ counted[u] > 0
    /\ created < NumJobs
    /\ counted' = [counted EXCEPT ![u] = @ - 1]
    /\ created' = created + 1
    /\ job' = [job EXCEPT ![created + 1] = Queued(u, e)]
    /\ waiter' = [waiter EXCEPT ![created + 1] = "waiting"]
    /\ UNCHANGED <<passed, granted, acked, reported, request>>

-----------------------------------------------------------------------------
(* claimDesktopJobs.                                                       *)

\* A process shares one response between requests with the same claimId; a
\* claim without one has a random token, used for a single lease.
ClaimArrive(s, c) ==
    /\ s \in Routes[c]
    /\ request[s][c].step = "idle"
    /\ c \notin Keyed =>
          /\ \A t \in Servers : request[t][c].step = "idle"
          /\ \A j \in Jobs : c \notin granted[j]
    /\ request' = [request EXCEPT ![s][c] =
                     [step |-> "arrived", seen |-> Overdue, job |-> NoJob]]
    /\ UNCHANGED <<jobVars, counted>>

ClaimAnswered(s, c) ==
    /\ request' = [request EXCEPT ![s][c] = Idle]
    /\ UNCHANGED <<created, passed, waiter, acked, reported, counted>>

HasKey(j, c) == c \in Keyed /\ job[j].claimKey = c

\* The lookup of a retried claimId found its job.
ClaimReplay(s, c) ==
    /\ request[s][c].step = "arrived"
    /\ \E j \in Jobs :
        /\ HasKey(j, c)
        /\ granted' = [granted EXCEPT ![j] =
                         IF job[j].status = "leased" THEN @ \cup {c} ELSE @]
    /\ UNCHANGED job
    /\ ClaimAnswered(s, c)

\* The lookup found nothing; the deadlines past at nowMs are swept.
ClaimSweep(s, c) ==
    /\ request[s][c].step = "arrived"
    /\ \A j \in Jobs : ~HasKey(j, c)
    /\ job' = [j \in Jobs |->
                 Swept(job[j], <<j, job[j].status>> \in request[s][c].seen)]
    /\ request' = [request EXCEPT ![s][c].step = "swept", ![s][c].seen = {}]
    /\ UNCHANGED <<created, passed, waiter, granted, acked, reported, counted>>

Ready(c) == {j \in Jobs : Matches(job[j], c)}

\* The oldest matching job is leased, not yet with the hash of its lease.
ClaimLease(s, c) ==
    /\ request[s][c].step = "swept"
    /\ \A j \in Jobs : ~HasKey(j, c)
    /\ \E j \in Ready(c) :
        /\ \A k \in Ready(c) : j <= k
        /\ job' = [job EXCEPT ![j].status = "leased", ![j].claimKey = ClaimKey(c)]
        /\ request' = [request EXCEPT ![s][c].step = "leased", ![s][c].job = j]
    /\ UNCHANGED <<created, passed, waiter, granted, acked, reported, counted>>

\* No job matches, or the unique index on the claimId refuses a second one.
ClaimNothing(s, c) ==
    /\ request[s][c].step = "swept"
    /\ Ready(c) = {} \/ \E j \in Jobs : HasKey(j, c)
    /\ UNCHANGED <<job, granted>>
    /\ ClaimAnswered(s, c)

Securable(r) == r.status = "leased" /\ r.leaseHash = None

ClaimSecure(s, c) ==
    LET j == request[s][c].job IN
    /\ request[s][c].step = "leased"
    /\ Securable(job[j])
    /\ job' = [job EXCEPT ![j].leaseHash = c]
    /\ granted' = [granted EXCEPT ![j] = @ \cup {c}]
    /\ ClaimAnswered(s, c)

\* The lease ran out before it was secured: nothing is delivered.
ClaimUnsecured(s, c) ==
    /\ request[s][c].step = "leased"
    /\ ~Securable(job[request[s][c].job])
    /\ UNCHANGED <<job, granted>>
    /\ ClaimAnswered(s, c)

\* An operation of the claim fails: the request ends with an error.
ClaimFail(s, c) ==
    /\ request[s][c].step # "idle"
    /\ UNCHANGED <<job, granted>>
    /\ ClaimAnswered(s, c)

-----------------------------------------------------------------------------
\* The TTL index on retentionAt, which is set when a job ends and also when
\* its outcome becomes unknown, always a day ahead.
Retire(j) ==
    /\ job[j].status \in Terminal \cup {"outcome_unknown"}
    /\ job[j].status = "outcome_unknown" => <<j, "outcome_unknown">> \in passed
    /\ j \notin Waiting
    /\ job' = [job EXCEPT ![j] = Removed]
    /\ UNCHANGED <<created, passed, waiter, granted, acked, reported, counted, request>>

\* The update that purges a payload is applied but reported as failed: the
\* waiting call ends with that error, and its outcome with it.
PurgeUnconfirmed(j) ==
    /\ waiter[j] = "settling"
    /\ job[j].status \in Terminal
    /\ job' = [job EXCEPT ![j].result = "purged"]
    /\ waiter' = [waiter EXCEPT ![j] = "errored"]
    /\ UNCHANGED <<created, passed, granted, acked, reported, counted, request>>

\* A server stops: its claims and the waits it ran are lost.
Restart(s) ==
    /\ request' = [request EXCEPT ![s] = [c \in Claims |-> Idle]]
    /\ \E lost \in SUBSET Waiting : LoseWaits(lost)
    /\ counted' \in [Users -> 0..MaxCounted]
    /\ \A u \in Users : counted'[u] <= counted[u]
    /\ UNCHANGED <<created, job, passed, granted, acked, reported>>

-----------------------------------------------------------------------------
MongoNext ==
    \/ \E u \in Users : CountPending(u)
    \/ \E u \in Users, e \in JobEnvs : InsertJob(u, e)
    \/ \E s \in Servers, c \in Claims : ClaimArrive(s, c)
    \/ \E s \in Servers, c \in Claims : ClaimReplay(s, c)
    \/ \E s \in Servers, c \in Claims : ClaimSweep(s, c)
    \/ \E s \in Servers, c \in Claims : ClaimLease(s, c)
    \/ \E s \in Servers, c \in Claims : ClaimNothing(s, c)
    \/ \E s \in Servers, c \in Claims : ClaimSecure(s, c)
    \/ \E s \in Servers, c \in Claims : ClaimUnsecured(s, c)
    \/ \E s \in Servers, c \in Claims : ClaimFail(s, c)
    \/ \E j \in Jobs : Retire(j)
    \/ \E j \in Jobs : PurgeUnconfirmed(j)
    \/ \E s \in Servers : Restart(s)
    \/ StoreNext /\ UNCHANGED <<counted, request>>

MongoSpec == MongoInit /\ [][MongoNext]_vars

\* Deadlines pass, and some desktops keep polling for work: their requests
\* arrive again and again, and not every one of them fails before its sweep.
ClaimAfterSweep(s, c) ==
    ClaimLease(s, c) \/ ClaimNothing(s, c) \/ ClaimSecure(s, c) \/ ClaimUnsecured(s, c)

Fairness ==
    /\ \A j \in Jobs : WF_vars(Elapse(j) /\ UNCHANGED <<counted, request>>)
    /\ \A c \in Polling :
        /\ WF_vars(\E s \in Servers : ClaimArrive(s, c))
        /\ SF_vars(\E s \in Servers : ClaimSweep(s, c))
        /\ WF_vars(\E s \in Servers : ClaimAfterSweep(s, c))

MongoFairSpec == MongoSpec /\ Fairness
=============================================================================
