-------------------------- MODULE VerificationGate --------------------------
(***************************************************************************)
(* "A task is only finished when its checks have passed": the verification *)
(* state of one open project (workspace/verification.js), the tools that   *)
(* run, poll and cancel its commands, and finish_task, of                  *)
(* src/modules/ide-codewriter.                                             *)
(*                                                                         *)
(* The gate compares two readings of the millisecond clock: when a run was *)
(* asked for, and when the backend learned of the last write.  Neither is  *)
(* when the desktop did it, so the model has both: `disk` counts the       *)
(* changes on the user's machine, and a run sees the files of the moment   *)
(* the desktop starts it.                                                  *)
(***************************************************************************)
EXTENDS AgentRequests, Naturals, FiniteSets

CONSTANTS
    Commands,       \* the checks a project may declare
    Littering,      \* those that may leave files that do not belong in the repository
    Runs,           \* bound: the calls of run_command, numbered as they begin
    Changes,        \* bound: the calls of tools that change files
    MaxClock        \* bound: the milliseconds there are

RunSteps == {"plan", "run", "cancel"}

ASSUME GateAssumption ==
    /\ Commands # {}
    /\ Littering \subseteq Commands
    /\ IsFiniteSet(Changes)
    /\ Runs \subseteq Nat
    /\ \A r \in Runs, s \in RunSteps : <<r, s>> \in Requests
    /\ \A w \in Changes : <<w, "change">> \in Requests
    /\ MaxClock \in Nat \ {0}

VARIABLES
    now,            \* Date.now()
    required,       \* the required commands; enforced when there are any
    lastWriteAt,    \* Never when nothing is unverified
    lastRun,        \* lastRunByCommand
    run,            \* run[r]: the record of a run
    activeRuns,     \* ctx.activeRuns
    completedRuns,  \* ctx.completedRuns
    complete,       \* finish_task succeeded, and no change was reported since
    disk,           \* how often the desktop changed the files
    changed,        \* changed[w]: what disk was after change w, 0 before
    reported,       \* history: the last change the backend knows of
    proven,         \* history: proven[c], the latest disk that c is known to pass on
    unasked         \* history: commands that became required while nothing was unverified

gateVars == <<now, required, lastWriteAt, lastRun, run, activeRuns, completedRuns,
              complete, disk, changed, reported, proven, unasked>>

Never == 0
Times == 1..MaxClock
MaxDisk == Cardinality(Changes)

NotRun == [ok |-> FALSE, startedAt |-> Never]

Exits == {"passed", "failed", "refused"}    \* of a command, on the desktop

\* saw is the disk the desktop ran the command on, exit what came of it; detected says
\* that the command was one of the project's checks; settled is record.settled, "lost"
\* where the request failed; waiting says that run_command waits, polling that
\* get_command_result does.
Run == [cmd : Commands, detected : BOOLEAN,
        stage : {"none", "plan", "running", "over"},
        startedAt : Times, saw : 0..MaxDisk, exit : Exits \cup {"none"},
        begun : BOOLEAN, settled : Exits \cup {"none", "lost"},
        waiting : BOOLEAN, polling : BOOLEAN]

NoRun == [cmd |-> CHOOSE c \in Commands : TRUE, detected |-> FALSE, stage |-> "none",
          startedAt |-> 1, saw |-> 0, exit |-> "none", begun |-> FALSE,
          settled |-> "none", waiting |-> FALSE, polling |-> FALSE]

\* Nobody has a use for its record any more.
RunOver == [NoRun EXCEPT !.stage = "over"]

GateTypeOK ==
    /\ now \in Times
    /\ required \subseteq Commands
    /\ lastWriteAt \in Times \cup {Never}
    /\ lastRun \in [Commands -> [ok : BOOLEAN, startedAt : Times \cup {Never}]]
    /\ run \in [Runs -> Run]
    /\ activeRuns \subseteq Runs
    /\ completedRuns \subseteq Runs
    /\ complete \in BOOLEAN
    /\ disk \in 0..MaxDisk
    /\ changed \in [Changes -> 0..MaxDisk]
    /\ reported \in 0..MaxDisk
    /\ proven \in [Commands -> 0..MaxDisk]
    /\ unasked \subseteq Commands

GateInit ==
    /\ now = 1
    /\ required \in SUBSET Commands
    /\ lastWriteAt = Never
    /\ lastRun = [c \in Commands |-> NotRun]
    /\ run = [r \in Runs |-> NoRun]
    /\ activeRuns = {}
    /\ completedRuns = {}
    /\ complete = FALSE
    /\ disk = 0
    /\ changed = [w \in Changes |-> 0]
    /\ reported = 0
    /\ proven = [c \in Commands |-> 0]
    /\ unasked = {}

-----------------------------------------------------------------------------
(* VerificationState. *)

\* Mutant of Counts: a run of the very millisecond of the write counts.
CountsSameTime(res, written) ==
    res.ok /\ res.startedAt >= written

\* evaluate: the last run of a command counts when it passed and was asked for after
\* the last write was reported.
Counts(res, written) ==
    res.ok /\ res.startedAt > written

Satisfied(results) ==
    \/ required = {}
    \/ lastWriteAt = Never
    \/ \A c \in required : Counts(results[c], lastWriteAt)

\* recordRun of run r, with markClean where that satisfies the gate.
Recorded(r, passed) ==
    LET results == [lastRun EXCEPT ![run[r].cmd] =
                       [ok |-> passed, startedAt |-> run[r].startedAt]]
    IN  /\ lastRun' = results
        /\ lastWriteAt' = IF Satisfied(results) THEN Never ELSE lastWriteAt
        /\ proven' = IF passed /\ run[r].saw > proven[run[r].cmd]
                     THEN [proven EXCEPT ![run[r].cmd] = run[r].saw]
                     ELSE proven

\* What a handler that has the outcome of run r does with it.  Only the checks of the
\* project are recorded, and run_command does not remember a refusal.
Collected(r, outcome, polled) ==
    /\ activeRuns' = activeRuns \ {r}
    /\ IF outcome \in {"passed", "failed"} /\ run[r].detected
       THEN Recorded(r, outcome = "passed")
       ELSE UNCHANGED <<lastRun, lastWriteAt, proven>>
    /\ completedRuns' = IF outcome = "lost" \/ (outcome = "refused" /\ ~polled)
                        THEN completedRuns
                        ELSE completedRuns \cup {r}

\* setCommands, at the end of every indexing.
SetCommands ==
    \E cs \in SUBSET Commands :
        /\ cs # required
        /\ required' = cs
        /\ unasked' = IF lastWriteAt = Never THEN unasked \cup (cs \ required) ELSE unasked
        /\ UNCHANGED <<now, lastWriteAt, lastRun, run, activeRuns, completedRuns, complete,
                       disk, changed, reported, proven, rpc>>

-----------------------------------------------------------------------------
(* Tools that change files: only an answer marks the project as unverified. *)

BeginChange(w) ==
    /\ rpc[<<w, "change">>] = Unasked
    /\ rpc' = [rpc EXCEPT ![<<w, "change">>] = Asked]
    /\ UNCHANGED gateVars

DesktopChanges(w) ==
    /\ rpc[<<w, "change">>].work = "sent"
    /\ rpc' = [rpc EXCEPT ![<<w, "change">>] = Performed(@)]
    /\ \/ disk' = disk + 1 /\ changed' = [changed EXCEPT ![w] = disk + 1]
       \/ UNCHANGED <<disk, changed>>    \* refused, or nothing to change
    /\ UNCHANGED <<now, required, lastWriteAt, lastRun, run, activeRuns, completedRuns,
                   complete, reported, proven, unasked>>

\* markDirty
FinishChange(w) ==
    /\ Answerable(rpc[<<w, "change">>])
    /\ rpc' = [rpc EXCEPT ![<<w, "change">>] = Answered(@)]
    /\ IF changed[w] = 0
       THEN UNCHANGED <<lastWriteAt, complete, reported, unasked>>
       ELSE /\ lastWriteAt' = now
            /\ complete' = FALSE
            /\ reported' = IF changed[w] > reported THEN changed[w] ELSE reported
            /\ unasked' = {}
    /\ UNCHANGED <<now, required, lastRun, run, activeRuns, completedRuns, disk, changed,
                   proven>>

FailChange(w) ==
    /\ rpc[<<w, "change">>].waiter = "waiting"
    /\ rpc' = [rpc EXCEPT ![<<w, "change">>] = Failed(@)]
    /\ UNCHANGED gateVars

-----------------------------------------------------------------------------
(* run_command *)

Started(r, c, detected, settled) ==
    /\ run' = [run EXCEPT ![r] =
                  [NoRun EXCEPT !.cmd = c, !.detected = detected, !.stage = "running",
                                !.startedAt = now, !.waiting = TRUE]]
    /\ activeRuns' = activeRuns \cup {r}
    /\ rpc' = [settled EXCEPT ![<<r, "run">>] = Asked]

\* A check is run by its id, any command by its words.  A command that may litter the
\* project waits for a look at its .gitignore (needsGitignorePreflight).
BeginRun(r) ==
    /\ run[r].stage = "none"
    /\ \A q \in Runs : q < r => run[q].stage # "none"
    /\ \E c \in Commands, detected \in BOOLEAN :
          /\ detected => c \in required
          /\ IF c \in Littering
             THEN /\ run' = [run EXCEPT ![r] =
                        [NoRun EXCEPT !.cmd = c, !.detected = detected, !.stage = "plan"]]
                  /\ rpc' = [rpc EXCEPT ![<<r, "plan">>] = Asked]
                  /\ UNCHANGED activeRuns
             ELSE Started(r, c, detected, rpc)
    /\ UNCHANGED <<now, required, lastWriteAt, lastRun, completedRuns, complete, disk,
                   changed, reported, proven, unasked>>

PlanRun(r) ==
    /\ run[r].stage = "plan"
    /\ Answerable(rpc[<<r, "plan">>])
    /\ LET settled == [rpc EXCEPT ![<<r, "plan">>] = Answered(@)]
       IN  \/ Started(r, run[r].cmd, run[r].detected, settled)
           \/ /\ run' = [run EXCEPT ![r] = RunOver]
              /\ rpc' = settled
              /\ UNCHANGED activeRuns
    /\ UNCHANGED <<now, required, lastWriteAt, lastRun, completedRuns, complete, disk,
                   changed, reported, proven, unasked>>

FailPlan(r) ==
    /\ run[r].stage = "plan"
    /\ rpc' = [rpc EXCEPT ![<<r, "plan">>] = Failed(@)]
    /\ run' = [run EXCEPT ![r] = RunOver]
    /\ UNCHANGED <<now, required, lastWriteAt, lastRun, activeRuns, completedRuns, complete,
                   disk, changed, reported, proven, unasked>>

\* The first wait is over: the run goes on without the call.
DetachRun(r) ==
    /\ run[r].waiting
    /\ run' = [run EXCEPT ![r].waiting = FALSE]
    /\ UNCHANGED <<now, required, lastWriteAt, lastRun, activeRuns, completedRuns, complete,
                   disk, changed, reported, proven, unasked, rpc>>

\* The promise of the run is settled, and whoever waits for it has the outcome.
Settles(r, outcome) ==
    /\ IF run[r].waiting \/ run[r].polling
       THEN Collected(r, outcome, run[r].polling) /\ run' = [run EXCEPT ![r] = RunOver]
       ELSE /\ run' = [run EXCEPT ![r] = IF r \in activeRuns
                                        THEN [@ EXCEPT !.settled = outcome]
                                        ELSE RunOver]
            /\ UNCHANGED <<activeRuns, completedRuns, lastRun, lastWriteAt, proven>>
    /\ UNCHANGED <<now, required, complete, disk, changed, reported, unasked>>

FinishRun(r) ==
    /\ Answerable(rpc[<<r, "run">>])
    /\ rpc' = [rpc EXCEPT ![<<r, "run">>] = Answered(@)]
    /\ Settles(r, run[r].exit)

FailRun(r) ==
    /\ rpc[<<r, "run">>].waiter = "waiting"
    /\ rpc' = [rpc EXCEPT ![<<r, "run">>] = Failed(@)]
    /\ Settles(r, "lost")

-----------------------------------------------------------------------------
(* get_command_result and cancel_command *)

\* Mutant of PollTimeout: a poll that gives up forgets the run.
PollTimeoutForgets(r) ==
    /\ run[r].polling
    /\ run' = [run EXCEPT ![r].polling = FALSE]
    /\ activeRuns' = activeRuns \ {r}
    /\ UNCHANGED <<now, required, lastWriteAt, lastRun, completedRuns, complete,
                   disk, changed, reported, proven, unasked, rpc>>

PollTimeout(r) ==
    /\ run[r].polling
    /\ run' = [run EXCEPT ![r].polling = FALSE]
    /\ UNCHANGED <<now, required, lastWriteAt, lastRun, activeRuns, completedRuns, complete,
                   disk, changed, reported, proven, unasked, rpc>>

Poll(r) ==
    /\ r \in activeRuns
    /\ \/ /\ run[r].settled # "none"
          /\ Collected(r, run[r].settled, TRUE)
          /\ run' = [run EXCEPT ![r] = RunOver]
       \/ /\ run[r].settled = "none"
          /\ ~run[r].polling
          /\ run' = [run EXCEPT ![r].polling = TRUE]
          /\ UNCHANGED <<activeRuns, completedRuns, lastRun, lastWriteAt, proven>>
    /\ UNCHANGED <<now, required, complete, disk, changed, reported, unasked, rpc>>

BeginCancel(r) ==
    /\ r \in activeRuns
    /\ rpc[<<r, "cancel">>] = Unasked
    /\ rpc' = [rpc EXCEPT ![<<r, "cancel">>] = Asked]
    /\ UNCHANGED gateVars

FinishCancel(r) ==
    /\ Answerable(rpc[<<r, "cancel">>])
    /\ rpc' = [rpc EXCEPT ![<<r, "cancel">>] = Answered(@)]
    /\ activeRuns' = activeRuns \ {r}
    /\ run' = IF run[r].settled = "none" THEN run ELSE [run EXCEPT ![r] = RunOver]
    /\ UNCHANGED <<now, required, lastWriteAt, lastRun, completedRuns, complete, disk,
                   changed, reported, proven, unasked>>

FailCancel(r) ==
    /\ rpc[<<r, "cancel">>].waiter = "waiting"
    /\ rpc' = [rpc EXCEPT ![<<r, "cancel">>] = Failed(@)]
    /\ UNCHANGED gateVars

\* Ten minutes after it ended nobody has asked.
ExpireRun(r) ==
    /\ r \in activeRuns
    /\ run[r].settled # "none"
    /\ activeRuns' = activeRuns \ {r}
    /\ run' = [run EXCEPT ![r] = RunOver]
    /\ UNCHANGED <<now, required, lastWriteAt, lastRun, completedRuns, complete, disk,
                   changed, reported, proven, unasked, rpc>>

-----------------------------------------------------------------------------
(* finish_task *)

StillRunning == {r \in activeRuns : run[r].settled = "none"}

FinishTask ==
    /\ ~complete
    /\ StillRunning = {}
    /\ Satisfied(lastRun)
    /\ complete' = TRUE
    /\ UNCHANGED <<now, required, lastWriteAt, lastRun, run, activeRuns, completedRuns,
                   disk, changed, reported, proven, unasked, rpc>>

-----------------------------------------------------------------------------
(* The desktop and the clock. *)

\* A look or a cancellation that nobody waits for any more changes nothing here.
DesktopPlans(r) ==
    /\ run[r].stage = "plan"
    /\ rpc[<<r, "plan">>].work = "sent"
    /\ rpc' = [rpc EXCEPT ![<<r, "plan">>] = Performed(@)]
    /\ UNCHANGED gateVars

DesktopRuns(r) ==
    /\ rpc[<<r, "run">>].work = "sent"
    /\ run[r].stage = "running"
    /\ ~run[r].begun
    /\ run' = [run EXCEPT ![r].begun = TRUE, ![r].saw = disk]
    /\ UNCHANGED <<now, required, lastWriteAt, lastRun, activeRuns, completedRuns, complete,
                   disk, changed, reported, proven, unasked, rpc>>

\* The command ends; one that is not allowed is refused at once.
DesktopEnds(r) ==
    /\ rpc[<<r, "run">>].work = "sent"
    /\ run[r].stage = "running"
    /\ \E exit \in Exits :
          /\ run[r].begun <=> exit # "refused"
          /\ run' = [run EXCEPT ![r].exit = exit]
    /\ rpc' = [rpc EXCEPT ![<<r, "run">>] = Performed(@)]
    /\ UNCHANGED <<now, required, lastWriteAt, lastRun, activeRuns, completedRuns, complete,
                   disk, changed, reported, proven, unasked>>

DesktopCancels(r) ==
    /\ rpc[<<r, "cancel">>] = Asked
    /\ rpc' = [rpc EXCEPT ![<<r, "cancel">>] = Performed(@)]
    /\ UNCHANGED gateVars

Tick ==
    /\ now < MaxClock
    /\ now' = now + 1
    /\ UNCHANGED <<required, lastWriteAt, lastRun, run, activeRuns, completedRuns, complete,
                   disk, changed, reported, proven, unasked, rpc>>

GateNext ==
    \/ \E w \in Changes :
          BeginChange(w) \/ DesktopChanges(w) \/ FinishChange(w) \/ FailChange(w)
    \/ \E r \in Runs :
          \/ BeginRun(r) \/ PlanRun(r) \/ FailPlan(r) \/ DetachRun(r)
          \/ FinishRun(r) \/ FailRun(r) \/ Poll(r) \/ PollTimeout(r)
          \/ BeginCancel(r) \/ FinishCancel(r) \/ FailCancel(r)
          \/ ExpireRun(r)
          \/ DesktopPlans(r) \/ DesktopRuns(r) \/ DesktopEnds(r) \/ DesktopCancels(r)
    \/ SetCommands \/ FinishTask \/ Tick

GateSpec == RpcInit /\ GateInit /\ [][GateNext]_<<gateVars, rpc>>

-----------------------------------------------------------------------------
(* Properties. *)

Finishes == ~complete /\ complete'

\* finish_task succeeds only when every command that is required passed on files that
\* already had every change reported to the client: a run the desktop started before a
\* change does not vouch for it, in whatever order runs, changes and their answers
\* come, within one millisecond too.  A command that an indexing made required when
\* nothing was unverified is not asked for.
FinishedMeansVerified ==
    [][Finishes => \A c \in required \ unasked : proven[c] >= reported]_gateVars

\* finish_task does not succeed while a command of the project still runs that the
\* backend waits for: however its result is waited for, polled, given up or expired,
\* only a cancellation that the desktop confirmed takes a run out of the count.
NoRunLeftBehind ==
    [][Finishes => \A r \in Runs :
          rpc[<<r, "run">>].waiter = "waiting" => rpc[<<r, "cancel">>].waiter = "answered"
      ]_gateVars
=============================================================================
