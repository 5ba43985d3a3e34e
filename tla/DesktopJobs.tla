----------------------------- MODULE DesktopJobs -----------------------------
(***************************************************************************)
(* The desktop job broker on its JSON file, the store of a single process. *)
(*                                                                         *)
(* Every store.update is one atomic step: the file's updates run one at a  *)
(* time and a document is published only after it is durable.  A claim     *)
(* reads the clock before it waits for its turn.  A restart loses the      *)
(* waits and the claims in flight, never the file.                         *)
(***************************************************************************)
EXTENDS DesktopJobStore

CONSTANT KeepTerminal       \* terminal jobs a prune retains (2000 in the code)

ASSUME DesktopJobsAssumption == KeepTerminal \in Nat

VARIABLES
    claiming,   \* claims being served (claimsInFlight)
    seen        \* seen[c]: the deadlines past at the claim's nowMs

vars == <<created, job, passed, waiter, granted, acked, reported, claiming, seen>>

JsonTypeOK ==
    /\ TypeOK
    /\ claiming \subseteq Claims
    /\ seen \in [Claims -> SUBSET Deadlines]

JsonInit ==
    /\ Init
    /\ claiming = {}
    /\ seen = [c \in Claims |-> {}]

-----------------------------------------------------------------------------
(* prune: jobs 1..n are older than JOB_RETENTION_MS.  The old terminal jobs *)
(* are dropped, then all but the newest KeepTerminal of the others.        *)

\* Mutant of Dropped: every old job is dropped, whatever its status.
DroppedByAge(n) == {j \in Jobs : job[j].status # "absent" /\ j <= n}

Dropped(n) ==
    {j \in Jobs :
        /\ job[j].status \in Terminal
        /\ \/ j <= n
           \/ KeepTerminal <= Cardinality({k \in Jobs : k > n /\ k > j
                                             /\ job[k].status \in Terminal})}

\* A day is far longer than an inline wait.
OldEnough(n) == \A j \in 1..n : j \notin Waiting

Pruned(n) == [j \in Jobs |-> IF j \in Dropped(n) THEN Removed ELSE job[j]]

-----------------------------------------------------------------------------
(* enqueueDesktopToolCall, and the inline wait it is followed by.          *)

Enqueue(u, e, n) ==
    /\ created < NumJobs
    /\ OldEnough(n)
    /\ Cardinality(Pending(Pruned(n), u)) < MaxPending
    /\ created' = created + 1
    /\ job' = [Pruned(n) EXCEPT ![created + 1] = Queued(u, e)]
    /\ waiter' = [waiter EXCEPT ![created + 1] = "waiting"]
    /\ UNCHANGED <<passed, granted, acked, reported, claiming, seen>>

-----------------------------------------------------------------------------
(* claimDesktopJobs.                                                       *)

\* Requests with a claimId already being served share its response; a claim
\* without one has a random token, used for a single lease.
ClaimArrive(c) ==
    /\ c \notin claiming
    /\ c \notin Keyed => \A j \in Jobs : c \notin granted[j]
    /\ claiming' = claiming \cup {c}
    /\ seen' = [seen EXCEPT ![c] = Overdue]
    /\ UNCHANGED jobVars

ClaimAnswered(c) ==
    /\ claiming' = claiming \ {c}
    /\ seen' = [seen EXCEPT ![c] = {}]
    /\ UNCHANGED <<created, passed, waiter, acked, reported>>

\* Mutant of Previous: only a job that is still leased is looked up.
PreviousLeased(store, c) ==
    {j \in Jobs : c \in Keyed /\ store[j].claimKey = c /\ store[j].status = "leased"}

Previous(store, c) == {j \in Jobs : c \in Keyed /\ store[j].claimKey = c}

\* A delivery retry gets the envelope again while its job is still leased,
\* and nothing once it is not.
ClaimReplay(c, n) ==
    /\ c \in claiming
    /\ OldEnough(n)
    /\ Previous(Pruned(n), c) # {}
    /\ job' = Pruned(n)
    /\ granted' = [j \in Jobs |->
                     IF j \in Previous(Pruned(n), c) /\ job[j].status = "leased"
                     THEN granted[j] \cup {c}
                     ELSE granted[j]]
    /\ ClaimAnswered(c)

SweptStore(c, n) ==
    [j \in Jobs |-> Swept(Pruned(n)[j], <<j, job[j].status>> \in seen[c])]

Ready(c, n) == {j \in Jobs : Matches(SweptStore(c, n)[j], c)}

\* Mutant of LeasedTo: the lease is recorded without its hash.
LeasedUnsecured(r, c) ==
    [r EXCEPT !.status = "leased", !.claimKey = ClaimKey(c)]

LeasedTo(r, c) ==
    [r EXCEPT !.status = "leased", !.leaseHash = c, !.claimKey = ClaimKey(c)]

\* The oldest matching job is leased and its envelope sent.
ClaimJob(c, n) ==
    /\ c \in claiming
    /\ OldEnough(n)
    /\ Previous(Pruned(n), c) = {}
    /\ \E j \in Ready(c, n) :
        /\ \A k \in Ready(c, n) : j <= k
        /\ job' = [SweptStore(c, n) EXCEPT ![j] = LeasedTo(@, c)]
        /\ granted' = [granted EXCEPT ![j] = @ \cup {c}]
    /\ ClaimAnswered(c)

ClaimNothing(c, n) ==
    /\ c \in claiming
    /\ OldEnough(n)
    /\ Previous(Pruned(n), c) = {}
    /\ Ready(c, n) = {}
    /\ job' = SweptStore(c, n)
    /\ UNCHANGED granted
    /\ ClaimAnswered(c)

Restart ==
    /\ claiming' = {}
    /\ seen' = [c \in Claims |-> {}]
    /\ LoseWaits(Waiting)
    /\ UNCHANGED <<created, job, passed, granted, acked, reported>>

-----------------------------------------------------------------------------
JsonNext ==
    \/ \E u \in Users, e \in JobEnvs, n \in 0..created : Enqueue(u, e, n)
    \/ \E c \in Claims : ClaimArrive(c)
    \/ \E c \in Claims, n \in 0..created : ClaimReplay(c, n)
    \/ \E c \in Claims, n \in 0..created : ClaimJob(c, n)
    \/ \E c \in Claims, n \in 0..created : ClaimNothing(c, n)
    \/ StoreNext /\ UNCHANGED <<claiming, seen>>
    \/ Restart

JsonSpec == JsonInit /\ [][JsonNext]_vars

-----------------------------------------------------------------------------
HolderOf(claims) == IF claims = {} THEN None ELSE CHOOSE c \in claims : TRUE

\* The broker on its JSON file lets every job live the abstract life: it is
\* offered once, accepted by one claim, and its record is dropped only after
\* it has ended.
Lifecycle == INSTANCE JobLifecycle WITH
    phase <- [j \in Jobs |-> PhaseOf(job[j].status)],
    holder <- [j \in Jobs |-> HolderOf(granted[j])],
    Forgettable <- {"completed", "failed", "lapsed", "abandoned"}

ImplementsLifecycle == Lifecycle!Spec
=============================================================================
