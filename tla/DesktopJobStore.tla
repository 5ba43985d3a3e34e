--------------------------- MODULE DesktopJobStore ---------------------------
(***************************************************************************)
(* The desktop job broker, src/modules/mcp/broker.js: the records of its   *)
(* store and the operations that do not depend on which store holds them.  *)
(* DesktopJobs and DesktopJobsMongo add the submission and claiming of a   *)
(* job, which the JSON file and MongoDB perform with different atomicity.  *)
(*                                                                         *)
(* An MCP tool call becomes a job.  The user's running desktop claims it   *)
(* over HTTP, executes it and posts its outcome; the call that submitted   *)
(* it waits inline for at most 25 seconds and then hands its client an     *)
(* operation id to poll.                                                   *)
(*                                                                         *)
(* Responses may be lost, delayed or repeated: an envelope that was sent   *)
(* stays in granted, and whoever received it may complete the job at any   *)
(* later time, any number of times, or never.                              *)
(***************************************************************************)
EXTENDS Integers, FiniteSets

CONSTANTS
    NumJobs,        \* bound: how many jobs a behaviour submits
    Users,          \* accounts (a user together with one tenant)
    JobEnvs,        \* environments calls are made for
    NoEnv,          \* the environment of a call not bound to one
    Claims,         \* claim requests that may lease a job; a claim id and its
                    \* lease token are one value, the token being a hash of it
    Keyed,          \* the claims that carry a claimId and so can be retried
    ClaimUser,      \* ClaimUser[c], ClaimEnv[c]: the desktop that claims
    ClaimEnv,
    None,
    MaxPending      \* MAX_PENDING_JOBS_PER_USER

ASSUME DesktopJobStoreAssumption ==
    /\ NumJobs \in Nat
    /\ MaxPending \in Nat
    /\ Keyed \subseteq Claims
    /\ None \notin Claims

Jobs == 1..NumJobs      \* in order of createdAt

VARIABLES
    created,    \* how many jobs were submitted
    job,        \* the store: job[j] is the record of job j
    passed,     \* <<j, s>>: the deadline job j has in status s has passed
    waiter,     \* waiter[j]: the inline wait of the call that submitted j
    granted,    \* granted[j]: claims that were sent the envelope of job j
    acked,      \* acked[j]: outcomes a desktop was told are recorded
    reported    \* reported[j]: terminal statuses a poll of j returned

jobVars == <<created, job, passed, waiter, granted, acked, reported>>

Active == {"queued", "leased", "outcome_unknown"}
Outcome == {"completed", "failed"}
Terminal == Outcome \cup {"expired", "expired_unreconciled"}
Gone == {"absent", "pruned"}
Status == Gone \cup Active \cup Terminal

JobRecord ==
    [status : Status, user : Users \cup {None}, env : JobEnvs \cup {NoEnv},
     claimKey : Claims \cup {None}, leaseHash : Claims \cup {None},
     completionHash : Claims \cup {None}, result : {"none", "stored", "purged"}]

Absent ==
    [status |-> "absent", user |-> None, env |-> NoEnv, claimKey |-> None,
     leaseHash |-> None, completionHash |-> None, result |-> "none"]

\* The call waits; has read a terminal status; has purged the payload and is to
\* answer with the result or the failure; has answered; or is lost.
WaiterState == {"none", "waiting", "settling", "handing", "failing",
                "returned", "errored", "pending", "lost"}

Deadlines == Jobs \X Active

TypeOK ==
    /\ created \in 0..NumJobs
    /\ job \in [Jobs -> JobRecord]
    /\ passed \subseteq Deadlines
    /\ waiter \in [Jobs -> WaiterState]
    /\ granted \in [Jobs -> SUBSET Claims]
    /\ acked \in [Jobs -> SUBSET Outcome]
    /\ reported \in [Jobs -> SUBSET Terminal]

Init ==
    /\ created = 0
    /\ job = [j \in Jobs |-> Absent]
    /\ passed = {}
    /\ waiter = [j \in Jobs |-> "none"]
    /\ granted = [j \in Jobs |-> {}]
    /\ acked = [j \in Jobs |-> {}]
    /\ reported = [j \in Jobs |-> {}]

-----------------------------------------------------------------------------
(* What the two stores do to one record.                                   *)

Pending(store, u) == {j \in Jobs : store[j].user = u /\ store[j].status \in Active}

Queued(u, e) == [Absent EXCEPT !.status = "queued", !.user = u, !.env = e]

\* The deadlines that are past at this instant, for the statuses jobs are in.
Overdue == {d \in passed : job[d[1]].status = d[2]}

\* Mutants of Swept, none of them part of the specification: a lease that ran
\* out puts the job back in the queue; or expires it as if never accepted; or a
\* queued job is overlooked.
SweptRequeues(r, late) ==
    IF late /\ r.status = "leased"
    THEN [r EXCEPT !.status = "queued", !.leaseHash = None, !.claimKey = None]
    ELSE r

SweptExpiresLeased(r, late) ==
    IF late /\ r.status \in Active THEN [r EXCEPT !.status = "expired"] ELSE r

SweptOverlooksQueued(r, late) ==
    IF late /\ r.status = "leased" THEN [r EXCEPT !.status = "outcome_unknown"]
    ELSE IF late /\ r.status = "outcome_unknown"
         THEN [r EXCEPT !.status = "expired_unreconciled"]
         ELSE r

\* The deadline sweep of one record: late tells whether the deadline of its
\* present status is past.  A job that was never accepted expires; an accepted
\* one is never offered again, its outcome becomes unknown and, at the end of
\* the reconciliation window, given up.
Swept(r, late) ==
    IF ~late THEN r
    ELSE CASE r.status = "queued" -> [r EXCEPT !.status = "expired"]
           [] r.status = "leased" -> [r EXCEPT !.status = "outcome_unknown"]
           [] r.status = "outcome_unknown" ->
                [r EXCEPT !.status = "expired_unreconciled",
                          !.leaseHash = None, !.claimKey = None]
           [] OTHER -> r

Matches(r, c) ==
    /\ r.status = "queued"
    /\ r.user = ClaimUser[c]
    /\ r.env \in {NoEnv, ClaimEnv[c]}

ClaimKey(c) == IF c \in Keyed THEN c ELSE None

\* The record of a job that is no longer stored.
Removed == [Absent EXCEPT !.status = "pruned"]

-----------------------------------------------------------------------------
(* completeDesktopJob, by a desktop that was sent the envelope.            *)

\* Mutant of Completable: a repeated completion is applied again.
CompletableAgain(r, c) ==
    /\ r.status \in {"leased", "outcome_unknown"} \cup Outcome
    /\ c \in {r.leaseHash, r.completionHash}

Completable(r, c) ==
    /\ r.status \in {"leased", "outcome_unknown"}
    /\ r.leaseHash = c

Completed(r, c, outcome) ==
    [r EXCEPT !.status = outcome, !.leaseHash = None, !.completionHash = c,
              !.result = "stored"]

Complete(c, j, outcome) ==
    /\ c \in granted[j]
    /\ Completable(job[j], c)
    /\ job' = [job EXCEPT ![j] = Completed(@, c, outcome)]
    /\ acked' = [acked EXCEPT ![j] = @ \cup {outcome}]
    /\ UNCHANGED <<created, passed, waiter, granted, reported>>

\* A repeated completion is acknowledged with the outcome already recorded,
\* whatever outcome it carries.
CompleteAgain(c, j) ==
    /\ c \in granted[j]
    /\ job[j].status \in Outcome
    /\ job[j].completionHash = c
    /\ acked' = [acked EXCEPT ![j] = @ \cup {job[j].status}]
    /\ UNCHANGED <<created, job, passed, waiter, granted, reported>>

-----------------------------------------------------------------------------
(* waitForDesktopJob with leavePending, as executeTool calls it.           *)

\* The loop reads a terminal status and leaves to settle it.
WaitRead(j) ==
    /\ waiter[j] = "waiting"
    /\ job[j].status \in Terminal
    /\ waiter' = [waiter EXCEPT ![j] = "settling"]
    /\ UNCHANGED <<created, job, passed, granted, acked, reported>>

\* A later update purges the payload and leaves the outcome in the memory of
\* the waiting call alone ...
WaitPurge(j) ==
    /\ waiter[j] = "settling"
    /\ job[j].status \in Terminal
    /\ job' = [job EXCEPT ![j].result = "purged"]
    /\ waiter' = [waiter EXCEPT ![j] = IF job[j].status = "completed"
                                       THEN "handing" ELSE "failing"]
    /\ UNCHANGED <<created, passed, granted, acked, reported>>

\* ... which answers with it, whatever has become of the record.
WaitAnswer(j) ==
    /\ waiter[j] \in {"handing", "failing"}
    /\ waiter' = [waiter EXCEPT ![j] = IF @ = "handing" THEN "returned" ELSE "errored"]
    /\ UNCHANGED <<created, job, passed, granted, acked, reported>>

\* A read or an update fails and leaves the store as it is.
WaitFail(j) ==
    /\ waiter[j] \in {"waiting", "settling"}
    /\ waiter' = [waiter EXCEPT ![j] = "errored"]
    /\ UNCHANGED <<created, job, passed, granted, acked, reported>>

\* The deadline: a completion that won the last interval is returned and left
\* stored, and a job still active becomes an operation to poll.
WaitDeadline(j) ==
    /\ waiter[j] = "waiting"
    /\ job[j].status \notin Gone
    /\ waiter' = [waiter EXCEPT ![j] =
                    IF job[j].status = "completed" THEN "returned"
                    ELSE IF job[j].status \in Terminal THEN "errored"
                    ELSE "pending"]
    /\ UNCHANGED <<created, job, passed, granted, acked, reported>>

\* The record is no longer stored.
WaitRemoved(j) ==
    /\ waiter[j] \in {"waiting", "settling"}
    /\ job[j].status \in Gone
    /\ waiter' = [waiter EXCEPT ![j] = "errored"]
    /\ UNCHANGED <<created, job, passed, granted, acked, reported>>

Waiting == {j \in Jobs : waiter[j] \in {"waiting", "settling", "handing", "failing"}}

\* The process that ran these waits is gone; the store is not.
LoseWaits(lost) ==
    waiter' = [j \in Jobs |-> IF j \in lost THEN "lost" ELSE waiter[j]]

-----------------------------------------------------------------------------
(* getDesktopOperation reads the store and projects the deadlines on the   *)
(* status it returns.  A leased record has no reconcileExpiresAt, which is *)
(* read as a time long past: once its lease is over it projects all the    *)
(* way.  A poll that finds the job active leaves nothing behind.           *)

Projected(j) ==
    IF <<j, job[j].status>> \notin Overdue THEN job[j].status
    ELSE IF job[j].status = "queued" THEN "expired"
    ELSE "expired_unreconciled"

\* Mutant of Poll: it consumes the result as the inline wait does.
PollConsumes(j) ==
    /\ waiter[j] = "pending"
    /\ Projected(j) \in Terminal
    /\ reported' = [reported EXCEPT ![j] = @ \cup {Projected(j)}]
    /\ job' = [job EXCEPT ![j].result = "purged"]
    /\ UNCHANGED <<created, passed, waiter, granted, acked>>

Poll(j) ==
    /\ waiter[j] = "pending"
    /\ Projected(j) \in Terminal
    /\ reported' = [reported EXCEPT ![j] = @ \cup {Projected(j)}]
    /\ UNCHANGED <<created, job, passed, waiter, granted, acked>>

\* Time: expiresAt, leaseExpiresAt or reconcileExpiresAt, by the status.
Elapse(j) ==
    /\ job[j].status \in Active
    /\ passed' = passed \cup {<<j, job[j].status>>}
    /\ UNCHANGED <<created, job, waiter, granted, acked, reported>>

\* The steps both stores share.
StoreNext ==
    \/ \E j \in Jobs, c \in Claims, o \in Outcome : Complete(c, j, o)
    \/ \E j \in Jobs, c \in Claims : CompleteAgain(c, j)
    \/ \E j \in Jobs : WaitRead(j)
    \/ \E j \in Jobs : WaitPurge(j)
    \/ \E j \in Jobs : WaitAnswer(j)
    \/ \E j \in Jobs : WaitFail(j)
    \/ \E j \in Jobs : WaitDeadline(j)
    \/ \E j \in Jobs : WaitRemoved(j)
    \/ \E j \in Jobs : Poll(j)
    \/ \E j \in Jobs : Elapse(j)

-----------------------------------------------------------------------------
(* What the broker promises.                                               *)

\* A job is delivered under one claim at most: an accepted job is never
\* offered again, whatever became of its lease, its waiter or a server, and a
\* repeated claim is answered with the job it already holds.
AtMostOneClaim ==
    \A j \in Jobs : \A c, d \in granted[j] : c = d

\* A delivered envelope carries a lease the broker honours: until the job has
\* ended, the desktop that executes it can record the outcome.
DeliveredLeaseIsHonoured ==
    \A j \in Jobs : \A c \in granted[j] :
        job[j].status \in {"leased", "outcome_unknown"} => job[j].leaseHash = c

\* "The connected Quicker Portal desktop did not accept the job in time": a
\* job that ends this way was delivered to nobody, so its caller may resubmit.
LapsedNeverDelivered ==
    \A j \in Jobs : job[j].status = "expired" => granted[j] = {}

\* Every party is told the same outcome and it stays the stored one: what a
\* desktop was acknowledged, what a poll returned as completed or failed and
\* what the inline wait returns agree, however completions are repeated.
OneOutcome ==
    \A j \in Jobs :
        /\ \A s \in acked[j] \cup (reported[j] \cap Outcome) :
               job[j].status \in {s, "pruned"}
        /\ waiter[j] \in {"handing", "returned"} => job[j].status \in {"completed", "pruned"}

\* The output of a completed job is there for whoever is still to be given it:
\* the inline wait until it has taken the output out itself, and, ever after a
\* caller was told to poll, every poll.  Nothing keeps the output of a wait that
\* is lost, or fails, between purging the payload and answering.
ResultAvailable ==
    \A j \in Jobs :
        waiter[j] \in {"waiting", "settling", "pending"} /\ job[j].status = "completed"
            => job[j].result = "stored"

\* No user holds more than MAX_PENDING_JOBS_PER_USER jobs that may still run.
PendingBound ==
    \A u \in Users : Cardinality(Pending(job, u)) <= MaxPending

\* A claim id is good for one job: retrying it after the job was acknowledged
\* cannot acquire another one, unless the first was given up unreconciled or
\* dropped from the store.
ClaimIdIsSpent ==
    \A j, k \in Jobs :
        j # k /\ granted[j] \cap granted[k] # {}
            => {job[j].status, job[k].status} \cap {"expired_unreconciled", "pruned"} # {}

\* A poll that says the reconciliation window ended without a result is not
\* sent before that window has ended.
UnreconciledMeansWindowEnded ==
    \A j \in Jobs :
        "expired_unreconciled" \in reported[j] => <<j, "outcome_unknown">> \in passed

\* Every job submitted reaches an end, so it stops counting against its
\* user's pending limit: the claims of any desktop sweep the deadlines of
\* every job, also of jobs it may not lease.
JobEventuallySettles ==
    \A j \in Jobs : job[j].status \in Active ~> job[j].status \notin Active

-----------------------------------------------------------------------------
(* The abstract life of a job.                                             *)

PhaseOf(status) ==
    CASE status = "absent" -> "unborn"
      [] status = "queued" -> "offered"
      [] status \in {"leased", "outcome_unknown"} -> "accepted"
      [] status = "expired" -> "lapsed"
      [] status = "expired_unreconciled" -> "abandoned"
      [] status = "pruned" -> "forgotten"
      [] OTHER -> status
=============================================================================
