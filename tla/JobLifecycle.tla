---------------------------- MODULE JobLifecycle ----------------------------
(***************************************************************************)
(* What the desktop job broker promises, without its stores, deadlines,    *)
(* tokens or callers: a job is offered once, accepted by at most one claim *)
(* and never offered again, and every ending it reaches is final.          *)
(*                                                                         *)
(* One store update may move several jobs (a claim sweeps the deadlines of *)
(* the whole store), so a step moves any set of jobs, each along its own   *)
(* life.                                                                   *)
(***************************************************************************)

CONSTANTS
    Jobs,       \* job ids
    Claims,     \* lease tokens, one per claim id
    None,       \* no claim holds the job
    Forgettable \* phases in which a store may drop its record of a job

VARIABLES
    phase,      \* phase[j]: where job j is in its life
    holder      \* holder[j]: the claim that accepted job j

Phase == {"unborn", "offered", "accepted", "completed", "failed",
          "lapsed", "abandoned", "forgotten"}

Init ==
    /\ phase = [j \in Jobs |-> "unborn"]
    /\ holder = [j \in Jobs |-> None]

Submit(j) ==
    /\ phase[j] = "unborn"
    /\ phase'[j] = "offered"
    /\ holder'[j] = None

Accept(j) ==
    /\ phase[j] = "offered"
    /\ phase'[j] = "accepted"
    /\ holder'[j] \in Claims

\* An offer nobody accepted before its deadline.
Lapse(j) ==
    /\ phase[j] = "offered"
    /\ phase'[j] = "lapsed"
    /\ holder'[j] = None

Settle(j) ==
    /\ phase[j] = "accepted"
    /\ phase'[j] \in {"completed", "failed"}
    /\ holder'[j] = holder[j]

\* Accepted work whose outcome was never reported.
Abandon(j) ==
    /\ phase[j] = "accepted"
    /\ phase'[j] = "abandoned"
    /\ holder'[j] = holder[j]

Forget(j) ==
    /\ phase[j] \in Forgettable
    /\ phase'[j] = "forgotten"
    /\ holder'[j] = holder[j]

Rest(j) ==
    /\ phase'[j] = phase[j]
    /\ holder'[j] = holder[j]

Move(j) ==
    \/ Submit(j)
    \/ Accept(j)
    \/ Lapse(j)
    \/ Settle(j)
    \/ Abandon(j)
    \/ Forget(j)
    \/ Rest(j)

Next ==
    /\ phase' \in [Jobs -> Phase]
    /\ holder' \in [Jobs -> Claims \cup {None}]
    /\ \A j \in Jobs : Move(j)

Spec == Init /\ [][Next]_<<phase, holder>>
=============================================================================
