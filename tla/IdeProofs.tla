------------------------------ MODULE IdeProofs ------------------------------
(***************************************************************************)
(* Safety of the IDE subsystem, for any number of connections, projects,   *)
(* calls, files, clients, commands, runs and changes: the bridge to the    *)
(* desktop apps (AgentHub), the files of a project (WorkspaceFiles) and    *)
(* its verification gate (VerificationGate), each of which keeps what      *)
(* AgentRequests promises of a request.                                    *)
(***************************************************************************)
EXTENDS MCIde, FiniteSetTheorems, TLAPS

-----------------------------------------------------------------------------
(* Requests to the desktop.                                                *)

Rpc == [waiter : Waiters, work : Works]

LEMMA MovesTyped ==
    ASSUME NEW q \in Rpc, NEW next, Moves(q, next)
    PROVE  next \in Rpc
BY DEF Rpc, Moves, Asked, Refused, Performed, Answered, Failed, Waiters, Works

LEMMA NamedRequests == {Unasked, Asked, Refused} \subseteq Rpc
BY DEF Rpc, Unasked, Asked, Refused, Waiters, Works

\* A step that moves one request.
LEMMA OneMoves ==
    ASSUME RpcTypeOK, NEW q \in Requests, NEW next, Moves(rpc[q], next),
           rpc' = [rpc EXCEPT ![q] = next]
    PROVE  RpcNext
<1>1. rpc[q] \in Rpc
  BY DEF RpcTypeOK, Rpc
<1>2. next \in Rpc
  BY <1>1, MovesTyped
<1> QED
  BY <1>2 DEF RpcNext, RpcTypeOK, Rpc, Moves

\* A step that settles one request and makes another.
LEMMA TwoMove ==
    ASSUME RpcTypeOK, NEW q \in Requests, NEW next, Moves(rpc[q], next),
           NEW p \in Requests \ {q}, NEW other, Moves(rpc[p], other),
           rpc' = [[rpc EXCEPT ![q] = next] EXCEPT ![p] = other]
    PROVE  RpcNext
<1>1. rpc[q] \in Rpc /\ rpc[p] \in Rpc
  BY DEF RpcTypeOK, Rpc
<1>2. next \in Rpc /\ other \in Rpc
  BY <1>1, MovesTyped
<1> QED
  BY <1>2 DEF RpcNext, RpcTypeOK, Rpc, Moves

LEMMA NoneMoves ==
    ASSUME RpcTypeOK, rpc' = rpc
    PROVE  RpcNext
BY DEF RpcNext, RpcTypeOK, Moves

-----------------------------------------------------------------------------
(* The verification gate.                                                  *)

\* Each change of the desktop is one of a call.
DiskCounted ==
    /\ disk = Cardinality({w \in Changes : changed[w] # 0})
    /\ \A w \in Changes : /\ changed[w] # 0 => rpc[<<w, "change">>].work = "done"
                          /\ changed[w] <= disk
    /\ reported <= disk

\* What a run asks for, and who counts it.
RunAsked(r) ==
    /\ run[r].stage = "none" => rpc[<<r, "plan">>] = Unasked
    /\ run[r].stage \in {"none", "plan"} => rpc[<<r, "run">>] = Unasked
    /\ run[r].stage = "plan" => rpc[<<r, "plan">>].waiter = "waiting"
    /\ rpc[<<r, "run">>].waiter = "waiting" =>
           \/ r \in activeRuns /\ run[r].settled = "none"
           \/ rpc[<<r, "cancel">>].waiter = "answered"

RunsAsked == \A r \in Runs : RunAsked(r)

TimesPass ==
    /\ lastWriteAt <= now
    /\ \A c \in Commands : lastRun[c].startedAt <= now
    /\ \A r \in Runs : run[r].startedAt <= now

\* A run that was asked for after the last write was reported sees what was reported.
RunSees(r) ==
    /\ run[r].exit = "passed" \/ run[r].settled = "passed" => run[r].begun
    /\ /\ run[r].begun
       /\ lastWriteAt # Never
       /\ run[r].startedAt > lastWriteAt
       => run[r].saw >= reported

RunsSee == \A r \in Runs : RunSees(r)

\* What counts vouches for what was reported, and so does a gate that is open.
Vouched ==
    /\ lastWriteAt = Never => \A c \in required \ unasked : proven[c] >= reported
    /\ lastWriteAt # Never =>
           \A c \in Commands : Counts(lastRun[c], lastWriteAt) => proven[c] >= reported

GateInv ==
    RpcTypeOK /\ GateTypeOK /\ DiskCounted /\ RunsAsked /\ TimesPass /\ RunsSee /\ Vouched

\* The facts about a request's name that the actions need.
LEMMA GateRequests ==
    /\ \A r \in Runs, s \in RunSteps : <<r, s>> \in Requests
    /\ \A w \in Changes : <<w, "change">> \in Requests
    /\ {"plan", "run", "cancel"} = RunSteps /\ "change" \notin RunSteps
BY GateAssumption DEF RunSteps

LEMMA GateNames ==
    /\ NoRun \in Run /\ RunOver \in Run
    /\ NoRun.begun = FALSE /\ NoRun.exit = "none" /\ NoRun.settled = "none"
    /\ RunOver.begun = FALSE /\ RunOver.exit = "none" /\ RunOver.settled = "none"
    /\ RunOver.stage = "over" /\ RunOver.startedAt = 1
    /\ MaxDisk \in Nat
<1>1. 1 \in Times
  BY GateAssumption DEF Times
<1>2. MaxDisk \in Nat
  BY GateAssumption, FS_CardinalityType DEF MaxDisk
<1>3. NoRun.cmd \in Commands
  BY GateAssumption DEF NoRun
<1>4. /\ NoRun \in Run /\ NoRun.begun = FALSE /\ NoRun.exit = "none"
      /\ NoRun.settled = "none" /\ NoRun.startedAt = 1
  BY <1>1, <1>2, <1>3 DEF NoRun, Run, Exits
<1> QED
  BY <1>2, <1>4 DEF RunOver, Run

LEMMA GateNumbers ==
    ASSUME GateTypeOK
    PROVE  /\ disk \in Nat /\ reported \in Nat /\ now \in Nat /\ now # Never
           /\ lastWriteAt \in Nat
           /\ \A w \in Changes : changed[w] \in Nat
           /\ \A c \in Commands : proven[c] \in Nat /\ lastRun[c].startedAt \in Nat
           /\ \A r \in Runs : run[r].saw \in Nat /\ run[r].startedAt \in Nat
<1>1. 0..MaxDisk \subseteq Nat /\ Times \cup {Never} \subseteq Nat /\ Never \notin Times
  BY GateNames, GateAssumption DEF Times, Never
<1>2. \A r \in Runs : run[r].saw \in 0..MaxDisk /\ run[r].startedAt \in Times
  BY DEF GateTypeOK, Run
<1> QED
  BY <1>1, <1>2 DEF GateTypeOK

-----------------------------------------------------------------------------
\* The desktop changed the files less often than there are calls that ask it to.
LEMMA DiskBounded ==
    ASSUME GateInv, NEW w \in Changes, changed[w] = 0
    PROVE  /\ disk + 1 \in 0..MaxDisk
           /\ Cardinality({v \in Changes : changed[v] # 0} \cup {w}) = disk + 1
<1> DEFINE S == {v \in Changes : changed[v] # 0}
<1>1. IsFiniteSet(S) /\ IsFiniteSet(Changes)
  BY GateAssumption, FS_Subset
<1>2. w \notin S /\ S \cup {w} \subseteq Changes
  OBVIOUS
<1>3. IsFiniteSet(S \cup {w}) /\ Cardinality(S \cup {w}) = Cardinality(S) + 1
  BY <1>1, <1>2, FS_AddElement
<1>4. Cardinality(S \cup {w}) <= Cardinality(Changes)
  BY <1>1, <1>2, FS_Subset
<1>5. disk = Cardinality(S) /\ disk \in Nat
  BY GateNames DEF GateInv, GateTypeOK, DiskCounted
<1> QED
  BY <1>3, <1>4, <1>5, GateNames DEF MaxDisk

\* Steps that change neither the files nor what is known of them.
LEMMA DiskKept ==
    ASSUME GateInv, RpcNext, UNCHANGED <<disk, changed, reported>>
    PROVE  DiskCounted'
<1>1. \A w \in Changes : rpc[<<w, "change">>].work = "done" => rpc'[<<w, "change">>].work = "done"
  <2> SUFFICES ASSUME NEW w \in Changes, rpc[<<w, "change">>].work = "done"
               PROVE  rpc'[<<w, "change">>].work = "done"
    OBVIOUS
  <2>1. /\ rpc[<<w, "change">>] \in Rpc
        /\ Moves(rpc[<<w, "change">>], rpc'[<<w, "change">>])
    BY GateRequests DEF GateInv, RpcTypeOK, RpcNext, Rpc
  <2> QED
    BY <2>1 DEF Moves, Rpc, Unasked, Performed, Answered, Failed
<1> QED
  BY <1>1 DEF GateInv, DiskCounted

LEMMA RpcTypeKept == RpcNext => RpcTypeOK'
BY DEF RpcNext, RpcTypeOK

\* Steps that leave the gate alone.
gate == <<required, lastWriteAt, lastRun, reported, proven, unasked>>

LEMMA GateKept ==
    ASSUME GateInv, UNCHANGED gate
    PROVE  Vouched'
BY DEF GateInv, Vouched, gate

\* The clock does not run back.
LEMMA ClockKept ==
    ASSUME GateInv, UNCHANGED <<lastWriteAt, lastRun>>, now' = now,
           \A r \in Runs : run'[r].startedAt \in {run[r].startedAt, 1, now}
    PROVE  TimesPass'
BY GateAssumption DEF GateInv, TimesPass, GateTypeOK, Times

-----------------------------------------------------------------------------
(* Each action keeps the invariant, and moves requests as it may.          *)

LEMMA ChangeKeeps ==
    ASSUME GateInv, NEW w \in Changes,
           BeginChange(w) \/ DesktopChanges(w) \/ FinishChange(w) \/ FailChange(w)
    PROVE  RpcNext /\ GateInv'
<1> DEFINE q == <<w, "change">>
<1>1. q \in Requests /\ rpc[q] \in Rpc
  BY GateRequests DEF GateInv, RpcTypeOK, Rpc
<1>2. PICK next : Moves(rpc[q], next) /\ rpc' = [rpc EXCEPT ![q] = next]
  BY DEF BeginChange, DesktopChanges, FinishChange, FailChange, Moves, Answerable
<1>3. RpcNext
  BY <1>1, <1>2, OneMoves DEF GateInv
<1>4. \A r \in Runs, s \in RunSteps : rpc'[<<r, s>>] = rpc[<<r, s>>]
  BY <1>1, <1>2, GateRequests DEF GateInv, RpcTypeOK
<1>5. run' = run /\ activeRuns' = activeRuns /\ now' = now /\ lastRun' = lastRun
  BY DEF BeginChange, DesktopChanges, FinishChange, FailChange, gateVars
<1>6. RunsAsked'
  BY <1>4, <1>5, GateRequests DEF GateInv, RunsAsked, RunAsked
<1>7. CASE BeginChange(w) \/ FailChange(w)
  <2>1. UNCHANGED gateVars
    BY <1>7 DEF BeginChange, FailChange
  <2>2. GateTypeOK' /\ TimesPass' /\ RunsSee' /\ Vouched'
    BY <2>1 DEF gateVars, GateInv, GateTypeOK, TimesPass, RunsSee, RunSees, Vouched
  <2>3. DiskCounted'
    BY <2>1, <1>3, DiskKept DEF gateVars
  <2> QED
    BY <1>3, <1>6, <2>2, <2>3, RpcTypeKept DEF GateInv
<1>8. CASE DesktopChanges(w)
  <2>1. UNCHANGED <<now, required, lastWriteAt, lastRun, run, activeRuns, completedRuns,
                    complete, reported, proven, unasked>>
    BY <1>8 DEF DesktopChanges
  <2>2. TimesPass' /\ RunsSee' /\ Vouched'
    BY <2>1 DEF GateInv, TimesPass, RunsSee, RunSees, Vouched
  <2>3. CASE UNCHANGED <<disk, changed>>
    <3>1. GateTypeOK'
      BY <2>1, <2>3 DEF GateInv, GateTypeOK
    <3>2. DiskCounted'
      BY <2>1, <2>3, <1>3, DiskKept
    <3> QED
      BY <1>3, <1>6, <2>2, <3>1, <3>2, RpcTypeKept DEF GateInv
  <2>4. CASE disk' = disk + 1 /\ changed' = [changed EXCEPT ![w] = disk + 1]
    <3>1. changed[w] = 0
      BY <1>8 DEF DesktopChanges, GateInv, DiskCounted
    <3>2. disk \in Nat /\ disk + 1 \in 0..MaxDisk
      <4>1. disk \in Nat
        BY GateNames DEF GateInv, GateTypeOK
      <4> QED
        BY <4>1, <3>1, DiskBounded
    <3>3. GateTypeOK'
      BY <2>1, <2>4, <3>2, GateNames DEF GateInv, GateTypeOK
    <3>4. {v \in Changes : changed'[v] # 0} = {v \in Changes : changed[v] # 0} \cup {w}
      BY <2>4, <3>2 DEF GateInv, GateTypeOK
    <3>5. disk' = Cardinality({v \in Changes : changed'[v] # 0})
      BY <2>4, <3>1, <3>4, DiskBounded
    <3>6. rpc'[q].work = "done" /\ \A v \in Changes \ {w} : rpc'[<<v, "change">>] = rpc[<<v, "change">>]
      BY <1>8, <1>1, GateRequests DEF DesktopChanges, Performed, GateInv, RpcTypeOK, Rpc
    <3>7. \A v \in Changes : /\ changed'[v] # 0 => rpc'[<<v, "change">>].work = "done"
                             /\ changed'[v] <= disk'
      <4>1. \A v \in Changes : changed[v] <= disk /\ changed[v] \in Nat
        BY GateNumbers DEF GateInv, DiskCounted
      <4>2. \A v \in Changes : changed'[v] = IF v = w THEN disk + 1 ELSE changed[v]
        BY <2>4 DEF GateInv, GateTypeOK
      <4>3. \A v \in Changes : changed[v] # 0 => rpc[<<v, "change">>].work = "done"
        BY DEF GateInv, DiskCounted
      <4>4. disk' = disk + 1 /\ disk \in Nat
        BY <2>4, <3>2
      <4>5. \A v \in Changes : changed'[v] <= disk'
        BY <4>1, <4>2, <4>4
      <4>6. \A v \in Changes : changed'[v] # 0 => rpc'[<<v, "change">>].work = "done"
        <5> SUFFICES ASSUME NEW v \in Changes, changed'[v] # 0
                     PROVE  rpc'[<<v, "change">>].work = "done"
          OBVIOUS
        <5>1. CASE v = w
          BY <5>1, <3>6
        <5>2. CASE v # w
          BY <5>2, <3>6, <4>2, <4>3
        <5> QED
          BY <5>1, <5>2
      <4> QED
        BY <4>5, <4>6
    <3>8. reported' <= disk'
      BY <2>1, <2>4, <3>2 DEF GateInv, GateTypeOK, DiskCounted
    <3>9. DiskCounted'
      BY <3>5, <3>7, <3>8 DEF DiskCounted
    <3> QED
      BY <1>3, <1>6, <2>2, <3>3, <3>9, RpcTypeKept DEF GateInv
  <2> QED
    BY <1>8, <2>3, <2>4 DEF DesktopChanges
<1>9. CASE FinishChange(w)
  <2>1. CASE changed[w] = 0
    <3>1. UNCHANGED gateVars
      BY <1>9, <2>1 DEF FinishChange, gateVars
    <3>2. GateTypeOK' /\ TimesPass' /\ RunsSee' /\ Vouched'
      BY <3>1 DEF gateVars, GateInv, GateTypeOK, TimesPass, RunsSee, RunSees, Vouched
    <3>3. DiskCounted'
      BY <3>1, <1>3, DiskKept DEF gateVars
    <3> QED
      BY <1>3, <1>6, <3>2, <3>3, RpcTypeKept DEF GateInv
  <2>2. CASE changed[w] # 0
    <3>1. /\ lastWriteAt' = now /\ complete' = FALSE /\ unasked' = {}
          /\ reported' = IF changed[w] > reported THEN changed[w] ELSE reported
          /\ UNCHANGED <<now, required, lastRun, run, activeRuns, completedRuns, disk,
                         changed, proven>>
      BY <1>9, <2>2 DEF FinishChange
    <3>2. reported' \in 0..MaxDisk /\ reported' <= disk
      BY <3>1 DEF GateInv, GateTypeOK, DiskCounted
    <3>3. GateTypeOK'
      BY <3>1, <3>2 DEF GateInv, GateTypeOK
    <3>4. TimesPass'
      BY <3>1 DEF GateInv, TimesPass, GateTypeOK, Times
    <3>5. now # Never /\ \A r \in Runs : ~(run[r].startedAt > now)
      <4>1. \A r \in Runs : run[r].startedAt \in Times /\ run[r].startedAt <= now
        BY DEF GateInv, TimesPass, GateTypeOK, Run
      <4> QED
        BY <4>1 DEF GateInv, GateTypeOK, Times, Never
    <3>6. \A c \in Commands : ~(lastRun[c].startedAt > now)
      <4>1. \A c \in Commands : /\ lastRun[c].startedAt \in Times \cup {Never}
                                /\ lastRun[c].startedAt <= now
        BY DEF GateInv, TimesPass, GateTypeOK
      <4> QED
        BY <4>1 DEF GateInv, GateTypeOK, Times, Never
    <3>7. RunsSee'
      BY <3>1, <3>5 DEF GateInv, RunsSee, RunSees
    <3>8. Vouched'
      BY <3>1, <3>5, <3>6 DEF Vouched, Counts
    <3>9. DiskCounted'
      <4>1. \A v \in Changes : changed[v] # 0 => rpc'[<<v, "change">>].work = "done"
        BY <1>9, <1>1, GateRequests
           DEF FinishChange, Answerable, Answered, GateInv, RpcTypeOK, Rpc, DiskCounted
      <4> QED
        BY <4>1, <3>1, <3>2 DEF GateInv, DiskCounted
    <3> QED
      BY <1>3, <1>6, <3>3, <3>4, <3>7, <3>8, <3>9, RpcTypeKept DEF GateInv
  <2> QED
    BY <2>1, <2>2
<1> QED
  BY <1>7, <1>8, <1>9

\* What the outcome of a run may do to the gate.
GateMoves ==
    /\ lastRun' \in [Commands -> [ok : BOOLEAN, startedAt : Times \cup {Never}]]
    /\ \A c \in Commands : lastRun'[c].startedAt <= now
    /\ lastWriteAt' \in {lastWriteAt, Never}
    /\ proven' \in [Commands -> 0..MaxDisk]
    /\ Vouched'

LEMMA GateStays ==
    ASSUME GateInv, UNCHANGED gate
    PROVE  GateMoves
<1>1. Vouched'
  BY GateKept
<1> QED
  BY <1>1 DEF GateMoves, GateInv, GateTypeOK, TimesPass, gate

\* The outcome of a run that passed is known of the files the run saw.
LEMMA RecordedMoves ==
    ASSUME GateInv, NEW r \in Runs, NEW passed \in BOOLEAN, passed => run[r].begun,
           Recorded(r, passed), UNCHANGED <<required, unasked, reported>>
    PROVE  GateMoves
<1> DEFINE d == run[r].cmd
           res == [ok |-> passed, startedAt |-> run[r].startedAt]
           results == [lastRun EXCEPT ![d] = res]
<1>1. /\ d \in Commands /\ run[r].saw \in 0..MaxDisk
      /\ run[r].startedAt \in Times /\ run[r].startedAt <= now
  BY DEF GateInv, GateTypeOK, Run, TimesPass
<1>2. /\ lastRun' = results
      /\ lastWriteAt' = IF Satisfied(results) THEN Never ELSE lastWriteAt
      /\ proven' = IF passed /\ run[r].saw > proven[d]
                   THEN [proven EXCEPT ![d] = run[r].saw] ELSE proven
  BY DEF Recorded
<1>3. results \in [Commands -> [ok : BOOLEAN, startedAt : Times \cup {Never}]]
  BY <1>1 DEF GateInv, GateTypeOK
<1>4. \A c \in Commands : results[c] = IF c = d THEN res ELSE lastRun[c]
  BY DEF GateInv, GateTypeOK
<1>5. \A c \in Commands : results[c].startedAt <= now
  BY <1>1, <1>4 DEF GateInv, TimesPass
<1>6. proven' \in [Commands -> 0..MaxDisk]
  BY <1>1, <1>2 DEF GateInv, GateTypeOK
<1>7. \A c \in Commands :
         proven'[c] = IF c = d /\ passed /\ run[r].saw > proven[d] THEN run[r].saw ELSE proven[c]
  BY <1>2 DEF GateInv, GateTypeOK
<1>8. \A c \in Commands : proven'[c] >= proven[c]
  BY <1>7, <1>1, GateNumbers DEF GateInv
<1>9. reported' = reported /\ reported \in Nat /\ \A c \in Commands : proven[c] \in Nat /\ proven'[c] \in Nat
  BY <1>6, GateNames, GateNumbers DEF GateInv
<1>10. ASSUME lastWriteAt # Never, NEW c \in Commands, Counts(results[c], lastWriteAt)
       PROVE  proven'[c] >= reported
  <2>1. CASE c = d
    <3>1. passed /\ run[r].startedAt > lastWriteAt
      BY <1>4, <1>10, <2>1 DEF Counts
    <3>2. run[r].saw >= reported
      BY <3>1, <1>10 DEF GateInv, RunsSee, RunSees
    <3> QED
      BY <3>1, <3>2, <2>1, <1>7, <1>9, GateNumbers DEF GateInv
  <2>2. CASE c # d
    <3>1. Counts(lastRun[c], lastWriteAt)
      BY <1>4, <1>10, <2>2
    <3>2. proven[c] >= reported
      BY <3>1, <1>10 DEF GateInv, Vouched
    <3> QED
      BY <3>2, <1>8, <1>9
  <2> QED
    BY <2>1, <2>2
<1> HIDE DEF d, res, results
<1>11. ASSUME lastWriteAt' = Never, NEW c \in required \ unasked
       PROVE  proven'[c] >= reported
  <2>1. c \in Commands
    BY <1>11 DEF GateInv, GateTypeOK
  <2>2. CASE lastWriteAt = Never
    <3>1. proven[c] >= reported
      BY <1>11, <2>2 DEF GateInv, Vouched
    <3> QED
      BY <2>1, <3>1, <1>8, <1>9
  <2>3. CASE lastWriteAt # Never
    <3>1. Satisfied(results)
      BY <1>2, <1>11, <2>3
    <3>2. Counts(results[c], lastWriteAt)
      BY <3>1, <1>11, <2>3 DEF Satisfied
    <3> QED
      BY <2>1, <2>3, <3>2, <1>10
  <2> QED
    BY <2>2, <2>3
<1>12. Vouched'
  <2>1. lastWriteAt' # Never => lastWriteAt' = lastWriteAt
    BY <1>2
  <2> QED
    BY <2>1, <1>2, <1>10, <1>11 DEF Vouched
<1> QED
  BY <1>2, <1>3, <1>5, <1>6, <1>12 DEF GateMoves

LEMMA CollectedMoves ==
    ASSUME GateInv, NEW r \in Runs, NEW outcome, NEW polled,
           outcome = "passed" => run[r].begun,
           Collected(r, outcome, polled), UNCHANGED <<required, unasked, reported>>
    PROVE  /\ GateMoves /\ activeRuns' = activeRuns \ {r}
           /\ completedRuns' \in {completedRuns, completedRuns \cup {r}}
<1>1. CASE outcome \in {"passed", "failed"} /\ run[r].detected
  <2>1. Recorded(r, outcome = "passed") /\ (outcome = "passed") \in BOOLEAN
    BY <1>1 DEF Collected
  <2>2. GateMoves
    BY <2>1, RecordedMoves
  <2> QED
    BY <2>2 DEF Collected
<1>2. CASE ~(outcome \in {"passed", "failed"} /\ run[r].detected)
  <2>1. UNCHANGED gate
    BY <1>2 DEF Collected, gate
  <2> QED
    BY <2>1, GateStays DEF Collected
<1> QED
  BY <1>1, <1>2

\* What the other invariants need of a step of run r.
LEMMA RunKeeps ==
    ASSUME GateInv, RpcNext, NEW r \in Runs, NEW new \in Run, run' = [run EXCEPT ![r] = new],
           \A q \in Runs \ {r}, s \in RunSteps : rpc'[<<q, s>>] = rpc[<<q, s>>],
           activeRuns' \in {activeRuns, activeRuns \cup {r}, activeRuns \ {r}},
           completedRuns' \in {completedRuns, completedRuns \cup {r}},
           new.startedAt \in {run[r].startedAt, 1, now},
           RunAsked(r)',
           new.exit = "passed" \/ new.settled = "passed" => new.begun,
           new.begun /\ lastWriteAt # Never /\ new.startedAt > lastWriteAt =>
               new.saw >= reported,
           GateMoves, UNCHANGED <<now, required, complete, disk, changed, reported, unasked>>
    PROVE  GateInv'
<1>1. run' \in [Runs -> Run] /\ run'[r] = new /\ \A q \in Runs \ {r} : run'[q] = run[q]
  BY DEF GateInv, GateTypeOK
<1>2. GateTypeOK'
  <2>1. activeRuns' \subseteq Runs /\ completedRuns' \subseteq Runs
    BY DEF GateInv, GateTypeOK
  <2>2. lastWriteAt' \in Times \cup {Never}
    BY DEF GateInv, GateTypeOK, GateMoves
  <2> QED
    BY <1>1, <2>1, <2>2 DEF GateInv, GateTypeOK, GateMoves
<1>3. DiskCounted'
  BY DiskKept
<1>4. RunsAsked'
  <2> SUFFICES ASSUME NEW q \in Runs, q # r PROVE RunAsked(q)'
    BY DEF RunsAsked
  <2>1. run'[q] = run[q] /\ (q \in activeRuns' <=> q \in activeRuns)
    BY <1>1
  <2>2. /\ rpc'[<<q, "plan">>] = rpc[<<q, "plan">>]
        /\ rpc'[<<q, "run">>] = rpc[<<q, "run">>]
        /\ rpc'[<<q, "cancel">>] = rpc[<<q, "cancel">>]
    BY GateRequests
  <2>3. RunAsked(q)
    BY DEF GateInv, RunsAsked
  <2> QED
    BY <2>1, <2>2, <2>3 DEF RunAsked
<1>5. TimesPass'
  <2>1. new.startedAt <= now
    <3>1. run[r].startedAt <= now
      BY DEF GateInv, TimesPass
    <3>2. now \in Nat /\ now # Never
      BY GateNumbers DEF GateInv
    <3> QED
      BY <3>1, <3>2 DEF Never
  <2>2. lastWriteAt' <= now
    BY GateNumbers DEF GateInv, TimesPass, GateMoves, Never
  <2> QED
    BY <1>1, <2>1, <2>2 DEF TimesPass, GateInv, GateMoves
<1>6. RunsSee'
  <2> SUFFICES ASSUME NEW q \in Runs PROVE RunSees(q)'
    BY DEF RunsSee
  <2>1. lastWriteAt' # Never => lastWriteAt' = lastWriteAt
    BY DEF GateMoves
  <2>2. CASE q = r
    BY <1>1, <2>1, <2>2 DEF RunSees
  <2>3. CASE q # r
    BY <1>1, <2>1, <2>3 DEF GateInv, RunsSee, RunSees
  <2> QED
    BY <2>2, <2>3
<1>7. Vouched' /\ RpcTypeOK'
  BY RpcTypeKept DEF GateMoves
<1> QED
  BY <1>2, <1>3, <1>4, <1>5, <1>6, <1>7 DEF GateInv

\* A step that moves one request of a run.
MovesTo(q, next) == Moves(rpc[q], next) /\ rpc' = [rpc EXCEPT ![q] = next]

LEMMA RunRequestMoves ==
    ASSUME GateInv, NEW r \in Runs, NEW s \in RunSteps, NEW next, MovesTo(<<r, s>>, next)
    PROVE  /\ RpcNext
           /\ rpc[<<r, s>>] \in Rpc
           /\ rpc'[<<r, s>>] = next
           /\ \A t \in RunSteps \ {s} : rpc'[<<r, t>>] = rpc[<<r, t>>]
           /\ \A q \in Runs \ {r}, t \in RunSteps : rpc'[<<q, t>>] = rpc[<<q, t>>]
<1>1. <<r, s>> \in Requests /\ rpc \in [Requests -> Rpc]
  BY GateRequests DEF GateInv, RpcTypeOK, Rpc
<1>2. RpcNext
  BY <1>1, OneMoves DEF GateInv, MovesTo
<1> QED
  BY <1>1, <1>2, GateRequests DEF MovesTo

\* Steps of a run that the gate does not see.
LEMMA QuietRunKeeps ==
    ASSUME GateInv, RpcNext, NEW r \in Runs, NEW new \in Run, run' = [run EXCEPT ![r] = new],
           \A q \in Runs \ {r}, s \in RunSteps : rpc'[<<q, s>>] = rpc[<<q, s>>],
           activeRuns' \in {activeRuns, activeRuns \cup {r}, activeRuns \ {r}},
           new.startedAt \in {run[r].startedAt, 1, now},
           RunAsked(r)',
           new.exit = "passed" \/ new.settled = "passed" => new.begun,
           new.begun => \/ new.saw = disk
                        \/ run[r].begun /\ new.saw = run[r].saw /\ new.startedAt = run[r].startedAt,
           UNCHANGED <<now, required, lastWriteAt, lastRun, completedRuns, complete, disk,
                       changed, reported, proven, unasked>>
    PROVE  GateInv'
<1>1. GateMoves
  BY GateStays DEF gate
<1>2. new.begun /\ lastWriteAt # Never /\ new.startedAt > lastWriteAt => new.saw >= reported
  <2>1. reported <= disk /\ reported \in Nat /\ disk \in Nat
    BY GateNumbers DEF GateInv, DiskCounted
  <2> QED
    BY <2>1 DEF GateInv, RunsSee, RunSees
<1> QED
  BY <1>1, <1>2, RunKeeps

LEMMA StartedKeeps ==
    ASSUME GateInv, RpcNext, NEW r \in Runs, NEW c \in Commands, NEW detected \in BOOLEAN,
           run' = [run EXCEPT ![r] =
                      [NoRun EXCEPT !.cmd = c, !.detected = detected, !.stage = "running",
                                    !.startedAt = now, !.waiting = TRUE]],
           activeRuns' = activeRuns \cup {r},
           rpc'[<<r, "run">>] = Asked,
           \A q \in Runs \ {r}, s \in RunSteps : rpc'[<<q, s>>] = rpc[<<q, s>>],
           UNCHANGED <<now, required, lastWriteAt, lastRun, completedRuns, complete, disk,
                       changed, reported, proven, unasked>>
    PROVE  GateInv'
<1> DEFINE new == [NoRun EXCEPT !.cmd = c, !.detected = detected, !.stage = "running",
                                !.startedAt = now, !.waiting = TRUE]
<1>1. /\ new \in Run /\ new.stage = "running" /\ new.startedAt = now
      /\ new.begun = FALSE /\ new.exit = "none" /\ new.settled = "none"
  <2>1. now \in Times
    BY DEF GateInv, GateTypeOK
  <2>2. /\ NoRun \in Run
        /\ NoRun.begun = FALSE /\ NoRun.exit = "none" /\ NoRun.settled = "none"
    BY GateNames
  <2> QED
    BY <2>1, <2>2 DEF Run
<1> HIDE DEF new
<1>2. run'[r] = new /\ r \in activeRuns'
  BY DEF new, GateInv, GateTypeOK
<1>3. RunAsked(r)'
  BY <1>1, <1>2 DEF RunAsked, Asked
<1> QED
  BY <1>1, <1>3, QuietRunKeeps DEF new

LEMMA RunOverKeeps ==
    ASSUME GateInv, RpcNext, NEW r \in Runs, run' = [run EXCEPT ![r] = RunOver],
           activeRuns' \in {activeRuns, activeRuns \ {r}},
           rpc'[<<r, "run">>].waiter = "waiting" =>
               r \in activeRuns' \/ rpc'[<<r, "cancel">>].waiter = "answered",
           \A q \in Runs \ {r}, s \in RunSteps : rpc'[<<q, s>>] = rpc[<<q, s>>],
           completedRuns' \in {completedRuns, completedRuns \cup {r}},
           GateMoves,
           UNCHANGED <<now, required, complete, disk, changed, reported, unasked>>
    PROVE  GateInv'
<1>1. run'[r] = RunOver
  BY DEF GateInv, GateTypeOK
<1>2. RunAsked(r)'
  BY <1>1, GateNames DEF RunAsked
<1> QED
  BY <1>2, GateNames, RunKeeps

LEMMA BeginRunKeeps ==
    ASSUME GateInv, NEW r \in Runs, BeginRun(r)
    PROVE  RpcNext /\ GateInv'
<1>1. PICK c \in Commands, detected \in BOOLEAN :
         IF c \in Littering
         THEN /\ run' = [run EXCEPT ![r] =
                    [NoRun EXCEPT !.cmd = c, !.detected = detected, !.stage = "plan"]]
              /\ rpc' = [rpc EXCEPT ![<<r, "plan">>] = Asked]
              /\ UNCHANGED activeRuns
         ELSE Started(r, c, detected, rpc)
  BY DEF BeginRun
<1>2. UNCHANGED <<now, required, lastWriteAt, lastRun, completedRuns, complete, disk,
                  changed, reported, proven, unasked>>
  BY DEF BeginRun
<1>3. rpc[<<r, "plan">>] = Unasked /\ rpc[<<r, "run">>] = Unasked
  BY DEF BeginRun, GateInv, RunsAsked, RunAsked
<1>4. Moves(rpc[<<r, "plan">>], Asked) /\ Moves(rpc[<<r, "run">>], Asked)
  BY <1>3 DEF Moves
<1>5. CASE c \in Littering
  <2> DEFINE new == [NoRun EXCEPT !.cmd = c, !.detected = detected, !.stage = "plan"]
  <2>1. /\ new \in Run /\ new.stage = "plan" /\ new.startedAt = NoRun.startedAt
        /\ new.begun = FALSE /\ new.exit = "none" /\ new.settled = "none"
    <3>1. /\ NoRun \in Run
          /\ NoRun.begun = FALSE /\ NoRun.exit = "none" /\ NoRun.settled = "none"
      BY GateNames
    <3> QED
      BY <3>1 DEF Run
  <2>2. NoRun.startedAt = 1
    BY DEF NoRun
  <2>3. run' = [run EXCEPT ![r] = new] /\ rpc' = [rpc EXCEPT ![<<r, "plan">>] = Asked]
        /\ activeRuns' = activeRuns
    BY <1>1, <1>5
  <2> HIDE DEF new
  <2>4. /\ RpcNext
        /\ rpc'[<<r, "plan">>] = Asked /\ rpc'[<<r, "run">>] = Unasked
        /\ \A q \in Runs \ {r}, t \in RunSteps : rpc'[<<q, t>>] = rpc[<<q, t>>]
    <3>1. "plan" \in RunSteps /\ "run" \in RunSteps \ {"plan"}
      BY DEF RunSteps
    <3>2. MovesTo(<<r, "plan">>, Asked)
      BY <2>3, <1>4 DEF MovesTo
    <3> QED
      BY <1>3, <3>1, <3>2, RunRequestMoves
  <2>5. run'[r] = new
    BY <2>3 DEF GateInv, GateTypeOK
  <2>6. RunAsked(r)'
    BY <2>1, <2>4, <2>5 DEF RunAsked, Asked, Unasked
  <2> QED
    BY <1>2, <2>1, <2>2, <2>3, <2>4, <2>6, QuietRunKeeps
<1>6. CASE c \notin Littering
  <2>1. Started(r, c, detected, rpc)
    BY <1>1, <1>6
  <2>2. rpc' = [rpc EXCEPT ![<<r, "run">>] = Asked]
    BY <2>1 DEF Started
  <2>3. /\ RpcNext /\ rpc'[<<r, "run">>] = Asked
        /\ \A q \in Runs \ {r}, t \in RunSteps : rpc'[<<q, t>>] = rpc[<<q, t>>]
    <3>1. "run" \in RunSteps
      BY DEF RunSteps
    <3>2. MovesTo(<<r, "run">>, Asked)
      BY <1>4, <2>2 DEF MovesTo
    <3> QED
      BY <3>1, <3>2, RunRequestMoves
  <2> QED
    BY <1>2, <2>1, <2>3, StartedKeeps DEF Started
<1> QED
  BY <1>5, <1>6

LEMMA PlanRunKeeps ==
    ASSUME GateInv, NEW r \in Runs, PlanRun(r)
    PROVE  RpcNext /\ GateInv'
<1> DEFINE p == <<r, "plan">>
           q == <<r, "run">>
           settled == [rpc EXCEPT ![p] = Answered(@)]
<1>1. UNCHANGED <<now, required, lastWriteAt, lastRun, completedRuns, complete, disk,
                  changed, reported, proven, unasked>>
  BY DEF PlanRun
<1>2. /\ p \in Requests /\ q \in Requests /\ p # q /\ rpc \in [Requests -> Rpc]
      /\ rpc[q] = Unasked /\ run[r] \in Run
  BY GateRequests
     DEF PlanRun, GateInv, RunsAsked, RunAsked, RpcTypeOK, Rpc, GateTypeOK
<1>3. Moves(rpc[p], Answered(rpc[p])) /\ Moves(rpc[q], Asked)
  BY <1>2 DEF PlanRun, Moves
<1>4. CASE Started(r, run[r].cmd, run[r].detected, settled)
  <2>1. rpc' = [[rpc EXCEPT ![p] = Answered(rpc[p])] EXCEPT ![q] = Asked]
    BY <1>4 DEF Started
  <2>2. RpcNext
    BY <1>2, <1>3, <2>1, TwoMove DEF GateInv
  <2>3. /\ rpc'[q] = Asked
        /\ \A o \in Runs \ {r}, t \in RunSteps : rpc'[<<o, t>>] = rpc[<<o, t>>]
    BY <1>2, <2>1, GateRequests
  <2>4. run[r].cmd \in Commands /\ run[r].detected \in BOOLEAN
    BY <1>2 DEF Run
  <2> QED
    BY <1>1, <1>4, <2>2, <2>3, <2>4, StartedKeeps DEF Started
<1>5. CASE run' = [run EXCEPT ![r] = RunOver] /\ rpc' = settled /\ UNCHANGED activeRuns
  <2>1. /\ RpcNext /\ rpc'[q] = Unasked
        /\ \A o \in Runs \ {r}, t \in RunSteps : rpc'[<<o, t>>] = rpc[<<o, t>>]
    <3>1. "plan" \in RunSteps /\ "run" \in RunSteps \ {"plan"}
      BY DEF RunSteps
    <3>2. PICK next : MovesTo(<<r, "plan">>, next)
      BY <1>3, <1>5 DEF MovesTo
    <3>3. rpc[<<r, "run">>] = Unasked
      BY <1>2
    <3> HIDE DEF p, q, settled
    <3>4. /\ RpcNext
          /\ \A t \in RunSteps \ {"plan"} : rpc'[<<r, t>>] = rpc[<<r, t>>]
          /\ \A o \in Runs \ {r}, t \in RunSteps : rpc'[<<o, t>>] = rpc[<<o, t>>]
      BY <3>1, <3>2, RunRequestMoves
    <3> QED
      BY <3>1, <3>3, <3>4 DEF q
  <2>2. GateMoves
    BY <1>1, GateStays DEF gate
  <2>3. rpc'[<<r, "run">>].waiter # "waiting"
    BY <2>1 DEF Unasked
  <2> HIDE DEF p, q, settled
  <2> QED
    BY <1>1, <1>5, <2>1, <2>2, <2>3, RunOverKeeps
<1> QED
  BY <1>4, <1>5 DEF PlanRun

LEMMA FailPlanKeeps ==
    ASSUME GateInv, NEW r \in Runs, FailPlan(r)
    PROVE  RpcNext /\ GateInv'
<1> DEFINE p == <<r, "plan">>
<1>1. /\ run' = [run EXCEPT ![r] = RunOver] /\ rpc' = [rpc EXCEPT ![p] = Failed(@)]
      /\ UNCHANGED <<now, required, lastWriteAt, lastRun, activeRuns, completedRuns,
                     complete, disk, changed, reported, proven, unasked>>
  BY DEF FailPlan
<1>2. rpc[<<r, "run">>] = Unasked /\ rpc[p].waiter = "waiting"
  BY DEF FailPlan, GateInv, RunsAsked, RunAsked
<1>3. Moves(rpc[p], Failed(rpc[p]))
  BY <1>2 DEF Moves
<1>4. /\ RpcNext /\ rpc'[<<r, "run">>] = Unasked
      /\ \A o \in Runs \ {r}, t \in RunSteps : rpc'[<<o, t>>] = rpc[<<o, t>>]
  <2>1. "plan" \in RunSteps /\ "run" \in RunSteps \ {"plan"}
    BY DEF RunSteps
  <2>2. PICK next : MovesTo(<<r, "plan">>, next)
    BY <1>1, <1>3 DEF MovesTo
  <2>3. /\ RpcNext
        /\ \A t \in RunSteps \ {"plan"} : rpc'[<<r, t>>] = rpc[<<r, t>>]
        /\ \A o \in Runs \ {r}, t \in RunSteps : rpc'[<<o, t>>] = rpc[<<o, t>>]
    BY <2>1, <2>2, RunRequestMoves
  <2> QED
    BY <1>2, <2>1, <2>3
<1>5. GateMoves
  BY <1>1, GateStays DEF gate
<1>6. rpc'[<<r, "run">>].waiter # "waiting"
  BY <1>4 DEF Unasked
<1> QED
  BY <1>1, <1>4, <1>5, <1>6, RunOverKeeps

\* A step that changes no more of a run than who waits for it.
LEMMA WaitersKeep ==
    ASSUME GateInv, NEW r \in Runs, DetachRun(r) \/ PollTimeout(r)
           \/ (Poll(r) /\ run[r].settled = "none")
    PROVE  RpcNext /\ GateInv'
<1>1. /\ rpc' = rpc
      /\ UNCHANGED <<now, required, lastWriteAt, lastRun, activeRuns, completedRuns,
                     complete, disk, changed, reported, proven, unasked>>
  BY DEF DetachRun, PollTimeout, Poll
<1>2. run[r] \in Run
  BY DEF GateInv, GateTypeOK
<1>3. PICK new \in {[run[r] EXCEPT !.waiting = FALSE], [run[r] EXCEPT !.polling = FALSE],
                    [run[r] EXCEPT !.polling = TRUE]} :
         run' = [run EXCEPT ![r] = new]
  BY DEF DetachRun, PollTimeout, Poll
<1>4. /\ new \in Run /\ new.stage = run[r].stage /\ new.startedAt = run[r].startedAt
      /\ new.begun = run[r].begun /\ new.exit = run[r].exit
      /\ new.settled = run[r].settled /\ new.saw = run[r].saw
  BY <1>2 DEF Run
<1>5. run'[r] = new
  BY <1>3 DEF GateInv, GateTypeOK
<1>6. RunAsked(r)'
  BY <1>1, <1>4, <1>5 DEF RunAsked, GateInv, RunsAsked
<1>7. RpcNext
  BY <1>1, NoneMoves DEF GateInv
<1>8. new.exit = "passed" \/ new.settled = "passed" => new.begun
  BY <1>4 DEF GateInv, RunsSee, RunSees
<1> QED
  BY <1>1, <1>3, <1>4, <1>6, <1>7, <1>8, QuietRunKeeps

\* A step of the backend or the desktop that moves a request, and nothing else.
LEMMA RequestKeeps ==
    ASSUME GateInv, NEW r \in Runs, NEW s \in RunSteps, NEW next, MovesTo(<<r, s>>, next),
           UNCHANGED gateVars, RunAsked(r)'
    PROVE  RpcNext /\ GateInv'
<1>1. /\ RpcNext
      /\ \A q \in Runs \ {r}, t \in RunSteps : rpc'[<<q, t>>] = rpc[<<q, t>>]
  BY RunRequestMoves
<1>2. run[r] \in Run /\ run' = [run EXCEPT ![r] = run[r]]
  BY DEF gateVars, GateInv, GateTypeOK
<1>3. run[r].exit = "passed" \/ run[r].settled = "passed" => run[r].begun
  BY DEF GateInv, RunsSee, RunSees
<1>4. UNCHANGED <<now, required, lastWriteAt, lastRun, activeRuns, completedRuns,
                  complete, disk, changed, reported, proven, unasked>>
  BY DEF gateVars
<1> QED
  BY <1>1, <1>2, <1>3, <1>4, QuietRunKeeps

LEMMA CancelRequestKeeps ==
    ASSUME GateInv, NEW r \in Runs, BeginCancel(r) \/ FailCancel(r) \/ DesktopCancels(r)
    PROVE  RpcNext /\ GateInv'
<1> DEFINE c == <<r, "cancel">>
<1>1. "cancel" \in RunSteps /\ {"plan", "run"} \subseteq RunSteps \ {"cancel"}
  BY DEF RunSteps
<1>2. c \in Requests /\ rpc[c] \in Rpc
  BY <1>1, GateRequests DEF GateInv, RpcTypeOK, Rpc
<1>3. PICK next \in {Asked, Failed(rpc[c]), Performed(rpc[c])} :
         MovesTo(c, next) /\ rpc[c].waiter # "answered"
  BY <1>2 DEF BeginCancel, FailCancel, DesktopCancels, MovesTo, Moves, Unasked, Asked
<1>4. UNCHANGED gateVars
  BY DEF BeginCancel, FailCancel, DesktopCancels
<1>5. \A t \in RunSteps \ {"cancel"} : rpc'[<<r, t>>] = rpc[<<r, t>>]
  BY <1>1, <1>3, RunRequestMoves
<1>6. rpc'[<<r, "plan">>] = rpc[<<r, "plan">>] /\ rpc'[<<r, "run">>] = rpc[<<r, "run">>]
  BY <1>1, <1>5
<1>7. RunAsked(r)
  BY DEF GateInv, RunsAsked
<1>8. RunAsked(r)'
  BY <1>3, <1>4, <1>6, <1>7 DEF RunAsked, gateVars
<1> QED
  BY <1>1, <1>3, <1>4, <1>8, RequestKeeps

LEMMA DesktopPlansKeeps ==
    ASSUME GateInv, NEW r \in Runs, DesktopPlans(r)
    PROVE  RpcNext /\ GateInv'
<1> DEFINE p == <<r, "plan">>
<1>1. "plan" \in RunSteps /\ {"cancel", "run"} \subseteq RunSteps \ {"plan"}
  BY DEF RunSteps
<1>2. p \in Requests /\ rpc[p] \in Rpc
  BY <1>1, GateRequests DEF GateInv, RpcTypeOK, Rpc
<1>3. MovesTo(p, Performed(rpc[p])) /\ Performed(rpc[p]).waiter = rpc[p].waiter
  BY <1>2 DEF DesktopPlans, MovesTo, Moves, Performed, Rpc
<1>4. UNCHANGED gateVars /\ run[r].stage = "plan"
  BY DEF DesktopPlans
<1>5. PICK next : MovesTo(p, next) /\ next.waiter = rpc[p].waiter
  BY <1>3
<1>6. rpc'[p] = next /\ \A t \in RunSteps \ {"plan"} : rpc'[<<r, t>>] = rpc[<<r, t>>]
  BY <1>1, <1>5, RunRequestMoves
<1>7. /\ rpc'[<<r, "cancel">>] = rpc[<<r, "cancel">>] /\ rpc'[<<r, "run">>] = rpc[<<r, "run">>]
  BY <1>1, <1>6
<1>8. RunAsked(r)
  BY DEF GateInv, RunsAsked
<1>9. RunAsked(r)'
  BY <1>4, <1>5, <1>6, <1>7, <1>8 DEF RunAsked, gateVars
<1> QED
  BY <1>1, <1>4, <1>5, <1>9, RequestKeeps

LEMMA FinishCancelKeeps ==
    ASSUME GateInv, NEW r \in Runs, FinishCancel(r)
    PROVE  RpcNext /\ GateInv'
<1> DEFINE c == <<r, "cancel">>
<1>1. "cancel" \in RunSteps /\ {"plan", "run"} \subseteq RunSteps \ {"cancel"}
  BY DEF RunSteps
<1>2. c \in Requests /\ rpc[c] \in Rpc /\ run[r] \in Run
  BY <1>1, GateRequests DEF GateInv, RpcTypeOK, Rpc, GateTypeOK
<1>3. PICK next : MovesTo(c, next) /\ next.waiter = "answered"
  <2>1. MovesTo(c, Answered(rpc[c]))
    BY DEF FinishCancel, MovesTo, Moves
  <2>2. Answered(rpc[c]).waiter = "answered"
    BY <1>2 DEF Answered, Rpc
  <2> QED
    BY <2>1, <2>2
<1>4. /\ RpcNext /\ rpc'[c] = next
      /\ \A t \in RunSteps \ {"cancel"} : rpc'[<<r, t>>] = rpc[<<r, t>>]
      /\ \A q \in Runs \ {r}, t \in RunSteps : rpc'[<<q, t>>] = rpc[<<q, t>>]
  BY <1>1, <1>3, RunRequestMoves
<1>5. /\ activeRuns' = activeRuns \ {r}
      /\ run' = IF run[r].settled = "none" THEN run ELSE [run EXCEPT ![r] = RunOver]
      /\ UNCHANGED <<now, required, lastWriteAt, lastRun, completedRuns, complete, disk,
                     changed, reported, proven, unasked>>
  BY DEF FinishCancel
<1>6. CASE run[r].settled = "none"
  <2>1. run' = [run EXCEPT ![r] = run[r]] /\ run' = run
    BY <1>5, <1>6 DEF GateInv, GateTypeOK
  <2>2. rpc'[<<r, "plan">>] = rpc[<<r, "plan">>] /\ rpc'[<<r, "run">>] = rpc[<<r, "run">>]
    BY <1>1, <1>4
  <2>3. RunAsked(r)
    BY DEF GateInv, RunsAsked
  <2>4. RunAsked(r)'
    BY <1>3, <1>4, <2>1, <2>2, <2>3 DEF RunAsked
  <2>5. run[r].exit = "passed" \/ run[r].settled = "passed" => run[r].begun
    BY DEF GateInv, RunsSee, RunSees
  <2> QED
    BY <1>2, <1>4, <1>5, <2>1, <2>4, <2>5, QuietRunKeeps
<1>7. CASE run[r].settled # "none"
  <2>1. GateMoves
    BY <1>5, GateStays DEF gate
  <2> QED
    BY <1>3, <1>4, <1>5, <1>7, <2>1, RunOverKeeps
<1> QED
  BY <1>6, <1>7

\* The outcome of a run is settled, and collected by whoever waits for it.
LEMMA SettlesKeeps ==
    ASSUME GateInv, RpcNext, NEW r \in Runs, NEW outcome \in Exits \cup {"none", "lost"},
           outcome = "passed" => run[r].begun,
           Settles(r, outcome),
           run[r].stage \notin {"none", "plan"},
           rpc'[<<r, "run">>].waiter # "waiting",
           \A q \in Runs \ {r}, s \in RunSteps : rpc'[<<q, s>>] = rpc[<<q, s>>]
    PROVE  GateInv'
<1>1. UNCHANGED <<now, required, complete, disk, changed, reported, unasked>>
  BY DEF Settles
<1>2. CASE run[r].waiting \/ run[r].polling
  <2>1. Collected(r, outcome, run[r].polling) /\ run' = [run EXCEPT ![r] = RunOver]
    BY <1>2 DEF Settles
  <2>2. /\ GateMoves /\ activeRuns' = activeRuns \ {r}
        /\ completedRuns' \in {completedRuns, completedRuns \cup {r}}
    BY <1>1, <2>1, CollectedMoves
  <2> QED
    BY <1>1, <2>1, <2>2, RunOverKeeps
<1>3. CASE ~(run[r].waiting \/ run[r].polling)
  <2>1. /\ run' = [run EXCEPT ![r] = IF r \in activeRuns
                                    THEN [run[r] EXCEPT !.settled = outcome] ELSE RunOver]
        /\ UNCHANGED <<activeRuns, completedRuns, lastRun, lastWriteAt, proven>>
    BY <1>3 DEF Settles
  <2>2. CASE r \in activeRuns
    <3> DEFINE new == [run[r] EXCEPT !.settled = outcome]
    <3>1. run[r] \in Run /\ run' = [run EXCEPT ![r] = new]
      BY <2>1, <2>2 DEF GateInv, GateTypeOK
    <3>2. /\ new \in Run /\ new.stage = run[r].stage /\ new.startedAt = run[r].startedAt
          /\ new.begun = run[r].begun /\ new.exit = run[r].exit
          /\ new.settled = outcome /\ new.saw = run[r].saw
      BY <3>1 DEF Run
    <3> HIDE DEF new
    <3>3. run'[r] = new
      BY <3>1 DEF GateInv, GateTypeOK
    <3>4. RunAsked(r)'
      BY <3>2, <3>3 DEF RunAsked
    <3>5. new.exit = "passed" \/ new.settled = "passed" => new.begun
      BY <3>2 DEF GateInv, RunsSee, RunSees
    <3> QED
      BY <1>1, <2>1, <3>1, <3>2, <3>4, <3>5, QuietRunKeeps
  <2>3. CASE r \notin activeRuns
    <3>1. GateMoves
      BY <1>1, <2>1, GateStays DEF gate
    <3> QED
      BY <1>1, <2>1, <2>3, <3>1, RunOverKeeps
  <2> QED
    BY <2>2, <2>3
<1> QED
  BY <1>2, <1>3

LEMMA OutcomeKeeps ==
    ASSUME GateInv, NEW r \in Runs, FinishRun(r) \/ FailRun(r)
    PROVE  RpcNext /\ GateInv'
<1> DEFINE q == <<r, "run">>
<1>1. "run" \in RunSteps
  BY DEF RunSteps
<1>2. q \in Requests /\ rpc[q] \in Rpc /\ run[r] \in Run
  BY <1>1, GateRequests DEF GateInv, RpcTypeOK, Rpc, GateTypeOK
<1>3. rpc[q].waiter = "waiting"
  BY DEF FinishRun, FailRun, Answerable
<1>4. PICK next : MovesTo(q, next) /\ next.waiter # "waiting"
  <2>1. CASE FinishRun(r)
    <3>1. MovesTo(q, Answered(rpc[q]))
      BY <2>1 DEF FinishRun, MovesTo, Moves
    <3>2. Answered(rpc[q]).waiter # "waiting"
      BY <1>2 DEF Answered, Rpc
    <3> QED
      BY <3>1, <3>2
  <2>2. CASE FailRun(r)
    <3>1. MovesTo(q, Failed(rpc[q]))
      BY <2>2 DEF FailRun, MovesTo, Moves
    <3>2. Failed(rpc[q]).waiter # "waiting"
      BY <1>2 DEF Failed, Rpc
    <3> QED
      BY <3>1, <3>2
  <2> QED
    BY <2>1, <2>2
<1>5. /\ RpcNext /\ rpc'[q] = next
      /\ \A o \in Runs \ {r}, t \in RunSteps : rpc'[<<o, t>>] = rpc[<<o, t>>]
  BY <1>1, <1>4, RunRequestMoves
<1>6. run[r].stage \notin {"none", "plan"}
  <2>1. rpc[q] # Unasked
    BY <1>3 DEF Unasked
  <2> QED
    BY <2>1 DEF GateInv, RunsAsked, RunAsked
<1>7. PICK outcome \in Exits \cup {"none", "lost"} :
         Settles(r, outcome) /\ (outcome = "passed" => run[r].begun)
  <2>1. CASE FinishRun(r)
    <3>1. run[r].exit \in Exits \cup {"none"} /\ (run[r].exit = "passed" => run[r].begun)
      BY <1>2 DEF Run, GateInv, RunsSee, RunSees
    <3> QED
      BY <2>1, <3>1 DEF FinishRun
  <2>2. CASE FailRun(r)
    BY <2>2 DEF FailRun
  <2> QED
    BY <2>1, <2>2
<1> QED
  BY <1>4, <1>5, <1>6, <1>7, SettlesKeeps

LEMMA CollectKeeps ==
    ASSUME GateInv, NEW r \in Runs,
           (Poll(r) /\ run[r].settled # "none") \/ ExpireRun(r)
    PROVE  RpcNext /\ GateInv'
<1>1. /\ rpc' = rpc /\ run[r].settled # "none"
      /\ run' = [run EXCEPT ![r] = RunOver] /\ activeRuns' = activeRuns \ {r}
      /\ UNCHANGED <<now, required, complete, disk, changed, reported, unasked>>
  BY DEF Poll, ExpireRun, Collected
<1>2. RpcNext
  BY <1>1, NoneMoves DEF GateInv
<1>3. GateMoves /\ completedRuns' \in {completedRuns, completedRuns \cup {r}}
  <2>1. CASE Poll(r) /\ run[r].settled # "none"
    <3>1. Collected(r, run[r].settled, TRUE)
      BY <2>1 DEF Poll
    <3>2. run[r].settled = "passed" => run[r].begun
      BY DEF GateInv, RunsSee, RunSees
    <3> QED
      BY <1>1, <3>1, <3>2, CollectedMoves
  <2>2. CASE ExpireRun(r)
    <3>1. UNCHANGED gate /\ completedRuns' = completedRuns
      BY <2>2 DEF ExpireRun, gate
    <3> QED
      BY <3>1, GateStays
  <2> QED
    BY <2>1, <2>2
<1>4. rpc'[<<r, "run">>].waiter = "waiting" => rpc'[<<r, "cancel">>].waiter = "answered"
  BY <1>1 DEF GateInv, RunsAsked, RunAsked
<1> QED
  BY <1>1, <1>2, <1>3, <1>4, RunOverKeeps

LEMMA DesktopRunKeeps ==
    ASSUME GateInv, NEW r \in Runs, DesktopRuns(r) \/ DesktopEnds(r)
    PROVE  RpcNext /\ GateInv'
<1> DEFINE q == <<r, "run">>
<1>1. "run" \in RunSteps /\ {"plan", "cancel"} \subseteq RunSteps \ {"run"}
  BY DEF RunSteps
<1>2. q \in Requests /\ rpc[q] \in Rpc /\ run[r] \in Run
  BY <1>1, GateRequests DEF GateInv, RpcTypeOK, Rpc, GateTypeOK
<1>3. /\ run[r].stage = "running"
      /\ UNCHANGED <<now, required, lastWriteAt, lastRun, activeRuns, completedRuns,
                     complete, disk, changed, reported, proven, unasked>>
  BY DEF DesktopRuns, DesktopEnds
<1>4. RunAsked(r)
  BY DEF GateInv, RunsAsked
<1>5. run[r].exit = "passed" \/ run[r].settled = "passed" => run[r].begun
  BY DEF GateInv, RunsSee, RunSees
<1>6. CASE DesktopRuns(r)
  <2> DEFINE new == [run[r] EXCEPT !.begun = TRUE, !.saw = disk]
  <2>1. rpc' = rpc /\ RpcNext
    BY <1>6, NoneMoves DEF DesktopRuns, GateInv
  <2>2. run' = [run EXCEPT ![r] = new]
    BY <1>6 DEF DesktopRuns, GateInv, GateTypeOK
  <2>3. disk \in 0..MaxDisk
    BY DEF GateInv, GateTypeOK
  <2>4. /\ new \in Run /\ new.stage = run[r].stage /\ new.startedAt = run[r].startedAt
        /\ new.begun = TRUE /\ new.saw = disk /\ new.settled = run[r].settled
    BY <1>2, <2>3 DEF Run
  <2> HIDE DEF new
  <2>5. run'[r] = new
    BY <2>2 DEF GateInv, GateTypeOK
  <2>6. RunAsked(r)'
    BY <1>3, <1>4, <2>1, <2>4, <2>5 DEF RunAsked
  <2> QED
    BY <1>3, <2>1, <2>2, <2>4, <2>6, QuietRunKeeps
<1>7. CASE DesktopEnds(r)
  <2>1. PICK exit \in Exits : /\ run[r].begun <=> exit # "refused"
                              /\ run' = [run EXCEPT ![r] = [run[r] EXCEPT !.exit = exit]]
    BY <1>7 DEF DesktopEnds, GateInv, GateTypeOK
  <2> DEFINE new == [run[r] EXCEPT !.exit = exit]
  <2>2. /\ new \in Run /\ new.stage = run[r].stage /\ new.startedAt = run[r].startedAt
        /\ new.begun = run[r].begun /\ new.saw = run[r].saw /\ new.settled = run[r].settled
        /\ new.exit = exit
    BY <1>2, <2>1 DEF Run
  <2>3. run' = [run EXCEPT ![r] = new]
    BY <2>1
  <2> HIDE DEF new
  <2>4. run'[r] = new
    BY <2>3 DEF GateInv, GateTypeOK
  <2>5. PICK next : MovesTo(q, next) /\ next.waiter = rpc[q].waiter
    <3>1. MovesTo(q, Performed(rpc[q]))
      BY <1>7 DEF DesktopEnds, MovesTo, Moves
    <3>2. Performed(rpc[q]).waiter = rpc[q].waiter
      BY <1>2 DEF Performed, Rpc
    <3> QED
      BY <3>1, <3>2
  <2>6. /\ RpcNext /\ rpc'[q] = next
        /\ \A t \in RunSteps \ {"run"} : rpc'[<<r, t>>] = rpc[<<r, t>>]
        /\ \A o \in Runs \ {r}, t \in RunSteps : rpc'[<<o, t>>] = rpc[<<o, t>>]
    BY <1>1, <2>5, RunRequestMoves
  <2>7. /\ rpc'[<<r, "plan">>] = rpc[<<r, "plan">>]
        /\ rpc'[<<r, "cancel">>] = rpc[<<r, "cancel">>]
    BY <1>1, <2>6
  <2>8. RunAsked(r)'
    BY <1>3, <1>4, <2>2, <2>4, <2>5, <2>6, <2>7 DEF RunAsked
  <2>9. new.exit = "passed" \/ new.settled = "passed" => new.begun
    BY <1>5, <2>1, <2>2
  <2> QED
    BY <1>3, <2>2, <2>3, <2>6, <2>8, <2>9, QuietRunKeeps
<1> QED
  BY <1>6, <1>7

LEMMA OtherGateStepsKeep ==
    ASSUME GateInv, SetCommands \/ FinishTask \/ Tick
    PROVE  RpcNext /\ GateInv'
<1>1. /\ rpc' = rpc
      /\ UNCHANGED <<lastWriteAt, lastRun, run, activeRuns, completedRuns, disk, changed,
                     reported, proven>>
  BY DEF SetCommands, FinishTask, Tick
<1>2. RpcNext
  BY <1>1, NoneMoves DEF GateInv
<1>3. DiskCounted' /\ RpcTypeOK'
  BY <1>1, <1>2, DiskKept, RpcTypeKept
<1>4. RunsAsked' /\ RunsSee'
  BY <1>1 DEF GateInv, RunsAsked, RunAsked, RunsSee, RunSees
<1>5. now' \in Times /\ now' >= now
  <2>1. now \in Times /\ now \in Nat
    BY GateNumbers DEF GateInv, GateTypeOK
  <2>2. now' = now \/ (now < MaxClock /\ now' = now + 1)
    BY DEF SetCommands, FinishTask, Tick
  <2> QED
    BY <2>1, <2>2, GateAssumption DEF Times
<1>6. GateTypeOK'
  BY <1>1, <1>5 DEF SetCommands, FinishTask, Tick, GateInv, GateTypeOK
<1>7. TimesPass'
  <2>1. /\ now \in Nat /\ lastWriteAt \in Nat
        /\ \A c \in Commands : lastRun[c].startedAt \in Nat
        /\ \A r \in Runs : run[r].startedAt \in Nat
    BY GateNumbers DEF GateInv
  <2>2. now' \in Nat /\ now' >= now
    BY <1>5 DEF Times
  <2>3. \A n \in Nat : n <= now => n <= now'
    BY <2>1, <2>2
  <2>4. TimesPass
    BY DEF GateInv
  <2> QED
    BY <1>1, <2>1, <2>3, <2>4 DEF TimesPass
<1>8. Vouched'
  <2>1. lastWriteAt = Never => required' \ unasked' \subseteq required \ unasked
    BY DEF SetCommands, FinishTask, Tick
  <2>2. Vouched
    BY DEF GateInv
  <2>3. CASE lastWriteAt = Never
    BY <1>1, <2>1, <2>2, <2>3 DEF Vouched
  <2>4. CASE lastWriteAt # Never
    BY <1>1, <2>2, <2>4 DEF Vouched, Counts
  <2> QED
    BY <2>3, <2>4
<1> QED
  BY <1>2, <1>3, <1>4, <1>6, <1>7, <1>8 DEF GateInv

-----------------------------------------------------------------------------
LEMMA InitGateInv == RpcInit /\ GateInit => GateInv
<1> SUFFICES ASSUME RpcInit, GateInit PROVE GateInv
  OBVIOUS
<1>1. RpcTypeOK
  BY NamedRequests DEF RpcInit, RpcTypeOK, Rpc
<1>2. GateTypeOK
  <2>1. 0 \in 0..MaxDisk /\ 1 \in Times /\ NoRun \in Run
    BY GateNames, GateAssumption DEF Times
  <2>2. NotRun \in [ok : BOOLEAN, startedAt : Times \cup {Never}]
    BY DEF NotRun
  <2> QED
    BY <2>1, <2>2 DEF GateInit, GateTypeOK
<1>3. DiskCounted
  <2>1. {w \in Changes : changed[w] # 0} = {}
    BY DEF GateInit
  <2> QED
    BY <2>1, FS_EmptySet DEF GateInit, DiskCounted
<1>4. RunsAsked
  BY GateRequests, GateNames DEF RpcInit, GateInit, RunsAsked, RunAsked, NoRun, Unasked
<1>5. TimesPass
  BY DEF GateInit, TimesPass, NotRun, Never, NoRun
<1>6. RunsSee
  BY DEF GateInit, RunsSee, RunSees, NoRun
<1>7. Vouched
  BY DEF GateInit, Vouched
<1> QED
  BY <1>1, <1>2, <1>3, <1>4, <1>5, <1>6, <1>7 DEF GateInv

LEMMA NextGateInv ==
    ASSUME GateInv, GateNext
    PROVE  RpcNext /\ GateInv'
<1>1. ASSUME NEW w \in Changes,
             BeginChange(w) \/ DesktopChanges(w) \/ FinishChange(w) \/ FailChange(w)
      PROVE  RpcNext /\ GateInv'
  BY <1>1, ChangeKeeps
<1>2. ASSUME NEW r \in Runs,
             \/ BeginRun(r) \/ PlanRun(r) \/ FailPlan(r) \/ DetachRun(r)
             \/ FinishRun(r) \/ FailRun(r) \/ Poll(r) \/ PollTimeout(r)
             \/ BeginCancel(r) \/ FinishCancel(r) \/ FailCancel(r)
             \/ ExpireRun(r)
             \/ DesktopPlans(r) \/ DesktopRuns(r) \/ DesktopEnds(r) \/ DesktopCancels(r)
      PROVE  RpcNext /\ GateInv'
  BY <1>2, BeginRunKeeps, PlanRunKeeps, FailPlanKeeps, WaitersKeep, OutcomeKeeps,
     CollectKeeps, CancelRequestKeeps, FinishCancelKeeps, DesktopPlansKeeps,
     DesktopRunKeeps
<1>3. ASSUME SetCommands \/ FinishTask \/ Tick PROVE RpcNext /\ GateInv'
  BY <1>3, OtherGateStepsKeep
<1> QED
  BY <1>1, <1>2, <1>3 DEF GateNext

LEMMA StutterGateInv ==
    ASSUME GateInv, UNCHANGED <<gateVars, rpc>>
    PROVE  RpcNext /\ GateInv'
<1>1. RpcNext
  BY NoneMoves DEF GateInv
<1>2. RpcTypeOK' /\ DiskCounted'
  BY <1>1, DiskKept, RpcTypeKept DEF gateVars
<1> QED
  BY <1>1, <1>2
     DEF gateVars, GateInv, GateTypeOK, RunsAsked, RunAsked, TimesPass, RunsSee, RunSees,
         Vouched

LEMMA GateInvHolds == GateSpec => []GateInv
<1>1. GateInv /\ [GateNext]_<<gateVars, rpc>> => GateInv'
  BY NextGateInv, StutterGateInv
<1> QED
  BY <1>1, InitGateInv, PTL DEF GateSpec

\* Every variable of the gate, and every request, has a value of its kind.
THEOREM GateTypeCorrect == GateSpec => [](RpcTypeOK /\ GateTypeOK)
<1>1. GateInv => RpcTypeOK /\ GateTypeOK
  BY DEF GateInv
<1> QED
  BY <1>1, GateInvHolds, PTL

\* finish_task succeeds only when every command that is required passed on files that
\* had every change reported to the client, however many runs and changes overlap.
THEOREM GateFinishesVerified == GateSpec => FinishedMeansVerified
<1>1. GateInv /\ [GateNext]_<<gateVars, rpc>>
        => [Finishes => \A c \in required \ unasked : proven[c] >= reported]_gateVars
  <2> SUFFICES ASSUME GateInv, GateNext, Finishes, NEW c \in required \ unasked
               PROVE  proven[c] >= reported
    BY DEF Finishes, gateVars
  <2>1. FinishTask
    BY DEF GateNext, Finishes, SetCommands, Tick, BeginChange, DesktopChanges,
           FinishChange, FailChange, BeginRun, PlanRun, FailPlan, DetachRun, FinishRun,
           FailRun, Settles, Poll, PollTimeout, BeginCancel, FinishCancel, FailCancel,
           ExpireRun, DesktopPlans, DesktopRuns, DesktopEnds, DesktopCancels, gateVars
  <2>2. Satisfied(lastRun) /\ c \in Commands
    BY <2>1 DEF FinishTask, GateInv, GateTypeOK
  <2>3. CASE lastWriteAt = Never
    BY <2>3 DEF GateInv, Vouched
  <2>4. CASE lastWriteAt # Never
    <3>1. Counts(lastRun[c], lastWriteAt)
      BY <2>2, <2>4 DEF Satisfied
    <3> QED
      BY <2>2, <2>4, <3>1 DEF GateInv, Vouched
  <2> QED
    BY <2>3, <2>4
<1> QED
  BY <1>1, GateInvHolds, PTL DEF GateSpec, FinishedMeansVerified

\* finish_task does not succeed while a command runs that the backend waits for, unless
\* the desktop confirmed its cancellation.
THEOREM NoRunIsLeftBehind == GateSpec => NoRunLeftBehind
<1>1. GateInv /\ [GateNext]_<<gateVars, rpc>>
        => [Finishes => \A r \in Runs :
              rpc[<<r, "run">>].waiter = "waiting" => rpc[<<r, "cancel">>].waiter = "answered"
           ]_gateVars
  <2> SUFFICES ASSUME GateInv, GateNext, Finishes, NEW r \in Runs,
                      rpc[<<r, "run">>].waiter = "waiting"
               PROVE  rpc[<<r, "cancel">>].waiter = "answered"
    BY DEF Finishes, gateVars
  <2>1. FinishTask
    BY DEF GateNext, Finishes, SetCommands, Tick, BeginChange, DesktopChanges,
           FinishChange, FailChange, BeginRun, PlanRun, FailPlan, DetachRun, FinishRun,
           FailRun, Settles, Poll, PollTimeout, BeginCancel, FinishCancel, FailCancel,
           ExpireRun, DesktopPlans, DesktopRuns, DesktopEnds, DesktopCancels, gateVars
  <2>2. ~(r \in activeRuns /\ run[r].settled = "none")
    BY <2>1 DEF FinishTask, StillRunning
  <2> QED
    BY <2>2 DEF GateInv, RunsAsked, RunAsked
<1> QED
  BY <1>1, GateInvHolds, PTL DEF GateSpec, NoRunLeftBehind

\* The requests of the gate keep what AgentRequests promises.
THEOREM GateKeepsRequests == GateSpec => RpcSpec
<1>1. GateInv /\ [GateNext]_<<gateVars, rpc>> => [RpcNext]_rpc
  BY NextGateInv
<1> QED
  BY <1>1, GateInvHolds, PTL DEF GateSpec, RpcSpec

-----------------------------------------------------------------------------
(* The bridge to the desktop apps.                                         *)

\* The requests a call makes after one of its requests.
Later(step) ==
    IF step = "ping" THEN {"prepare", "work"} ELSE IF step = "prepare" THEN {"work"} ELSE {}

\* The project a call asks about was announced, and as long as it is open it is served
\* by the connection that is asked.
FoundIn(o) ==
    /\ o.space \in Spaces
    /\ space[o.space].stage # "none"
    /\ o.space \in Open => space[o.space].agent = o.agent

UseAsked(u) ==
    /\ use[u].stage \in {"idle", "locating", "indexing"} =>
           \A s \in UseSteps : rpc[<<u, s>>] = Unasked
    /\ use[u].stage \in UseSteps =>
           /\ rpc[<<u, use[u].stage>>].waiter = "waiting"
           /\ \A s \in Later(use[u].stage) : rpc[<<u, s>>] = Unasked
           /\ InHub(use[u].agent)
           /\ FoundIn(use[u])

UsesAsked == \A u \in Uses : UseAsked(u)

HubInv == RpcTypeOK /\ HubTypeOK /\ OpenWorkspaceHasAgent /\ UsesAsked

LEMMA HubNames ==
    /\ NotUsed \in Use /\ NotUsed.stage = "idle" /\ NotUsed.space = NoSpace
    /\ NotConnected \in Agent /\ NotConnected.socket = "none"
    /\ NeverOpened \in Space /\ NeverOpened.stage = "none"
    /\ \A stage \in {"done", "failed"} : Ended(stage) \in Use /\ Ended(stage).stage = stage
    /\ UseSteps = {"ping", "prepare", "work"}
<1>1. (CHOOSE a \in Agents : TRUE) \in Agents /\ (CHOOSE p \in Projects : TRUE) \in Projects
  BY HubAssumption
<1>2. NotUsed \in Use /\ NotUsed.stage = "idle" /\ NotUsed.space = NoSpace
  BY <1>1 DEF NotUsed, Use, Needs
<1>3. ASSUME NEW stage \in {"done", "failed"}
      PROVE  Ended(stage) \in Use /\ Ended(stage).stage = stage
  BY <1>2 DEF Ended, Use
<1>4. NeverOpened \in Space /\ NeverOpened.stage = "none"
  BY <1>1 DEF NeverOpened, Space
<1>5. NotConnected \in Agent /\ NotConnected.socket = "none"
  BY DEF NotConnected, Agent
<1> QED
  BY <1>2, <1>3, <1>4, <1>5 DEF UseSteps

LEMMA UseRequests ==
    /\ \A u \in Uses, s \in UseSteps : <<u, s>> \in Requests
    /\ \A s \in UseSteps : Later(s) \subseteq UseSteps \ {s}
    /\ \A s \in UseSteps : \A t \in Later(s) : Later(t) \subseteq Later(s)
BY HubAssumption DEF UseSteps, Later

\* A step of use u that asks of its project, or ends.
LEMMA UseKeeps ==
    ASSUME HubInv, RpcNext, NEW u \in Uses, NEW new \in Use, use' = [use EXCEPT ![u] = new],
           \A v \in Uses \ {u}, s \in UseSteps : rpc'[<<v, s>>] = rpc[<<v, s>>],
           agent' \in [Agents -> Agent],
           \A a \in Agents : InHub(a) => agent'[a].socket \in {"open", "closing"},
           space' = space, UseAsked(u)'
    PROVE  HubInv'
<1>1. use'[u] = new /\ \A v \in Uses \ {u} : use'[v] = use[v]
  BY DEF HubInv, HubTypeOK
<1>2. HubTypeOK'
  BY DEF HubInv, HubTypeOK
<1>3. OpenWorkspaceHasAgent'
  BY DEF HubInv, HubTypeOK, OpenWorkspaceHasAgent, Open, InHub, Space
<1>4. UsesAsked'
  <2> SUFFICES ASSUME NEW v \in Uses, v # u PROVE UseAsked(v)'
    BY DEF UsesAsked
  <2>1. UseAsked(v) /\ use'[v] = use[v] /\ use[v] \in Use
    BY <1>1 DEF HubInv, UsesAsked, HubTypeOK
  <2>2. \A s \in UseSteps : rpc'[<<v, s>>] = rpc[<<v, s>>]
    OBVIOUS
  <2>3. use[v].stage \in UseSteps => Later(use[v].stage) \subseteq UseSteps
    BY UseRequests
  <2>4. InHub(use[v].agent) => agent'[use[v].agent].socket \in {"open", "closing"}
    BY <2>1 DEF Use
  <2>5. FoundIn(use[v]) => FoundIn(use[v])'
    BY <2>1 DEF FoundIn, Open
  <2> QED
    BY <2>1, <2>2, <2>3, <2>4, <2>5 DEF UseAsked, InHub, FoundIn, Open
<1> QED
  BY <1>2, <1>3, <1>4, RpcTypeKept DEF HubInv

\* A step of the backend that moves a request of call u.
LEMMA UseRequestMoves ==
    ASSUME HubInv, NEW u \in Uses, NEW s \in UseSteps, NEW next, MovesTo(<<u, s>>, next)
    PROVE  /\ RpcNext
           /\ rpc'[<<u, s>>] = next
           /\ \A t \in UseSteps \ {s} : rpc'[<<u, t>>] = rpc[<<u, t>>]
           /\ \A v \in Uses \ {u}, t \in UseSteps : rpc'[<<v, t>>] = rpc[<<v, t>>]
<1>1. <<u, s>> \in Requests /\ rpc \in [Requests -> Rpc]
  BY UseRequests DEF HubInv, RpcTypeOK, Rpc
<1>2. RpcNext
  BY <1>1, OneMoves DEF HubInv, MovesTo
<1> QED
  BY <1>1, <1>2, UseRequests DEF MovesTo

\* A call ends.
LEMMA EndedKeeps ==
    ASSUME HubInv, RpcNext, NEW u \in Uses, NEW stage \in {"done", "failed"},
           use' = [use EXCEPT ![u] = Ended(stage)],
           \A v \in Uses \ {u}, s \in UseSteps : rpc'[<<v, s>>] = rpc[<<v, s>>],
           agent' \in [Agents -> Agent],
           \A a \in Agents : InHub(a) => agent'[a].socket \in {"open", "closing"},
           space' = space
    PROVE  HubInv'
<1>1. use'[u] = Ended(stage)
  BY DEF HubInv, HubTypeOK
<1>2. use'[u].stage = stage /\ stage \notin UseSteps \cup {"idle", "locating", "indexing"}
  BY <1>1, HubNames
<1>3. UseAsked(u)'
  BY <1>2 DEF UseAsked
<1> QED
  BY <1>3, HubNames, UseKeeps

\* The first request of a call, or the next one once another was answered.
LEMMA AskedKeeps ==
    ASSUME HubInv, RpcNext, NEW u \in Uses, NEW o \in Use, NEW step \in UseSteps, FoundIn(o),
           IF agent[o.agent].socket = "open"
           THEN /\ rpc'[<<u, step>>] = Asked
                /\ use' = [use EXCEPT ![u] = [o EXCEPT !.stage = step]]
           ELSE use' = [use EXCEPT ![u] = Ended("failed")],
           \A s \in Later(step) : rpc'[<<u, s>>] = Unasked,
           \A v \in Uses \ {u}, s \in UseSteps : rpc'[<<v, s>>] = rpc[<<v, s>>],
           UNCHANGED <<agent, space>>
    PROVE  HubInv'
<1>1. /\ agent' \in [Agents -> Agent]
      /\ \A a \in Agents : InHub(a) => agent'[a].socket \in {"open", "closing"}
  BY DEF HubInv, HubTypeOK, InHub
<1>2. CASE agent[o.agent].socket # "open"
  BY <1>1, <1>2, EndedKeeps
<1>3. CASE agent[o.agent].socket = "open"
  <2> DEFINE new == [o EXCEPT !.stage = step]
  <2>1. /\ new \in Use /\ new.stage = step /\ new.agent = o.agent /\ new.space = o.space
    BY DEF Use
  <2>2. use' = [use EXCEPT ![u] = new] /\ rpc'[<<u, step>>] = Asked
    BY <1>3
  <2> HIDE DEF new
  <2>3. use'[u] = new
    BY <2>2 DEF HubInv, HubTypeOK
  <2>4. FoundIn(new)'
    BY <2>1 DEF FoundIn, Open
  <2>5. Asked.waiter = "waiting" /\ step \notin {"idle", "locating", "indexing"}
    BY HubNames DEF Asked
  <2>6. UseAsked(u)'
    BY <1>3, <2>1, <2>2, <2>3, <2>4, <2>5 DEF UseAsked, InHub, FoundIn, Open
  <2> QED
    BY <1>1, <2>1, <2>2, <2>6, UseKeeps
<1> QED
  BY <1>2, <1>3

-----------------------------------------------------------------------------
\* A step that concerns the connections only.
LEMMA AgentsKeep ==
    ASSUME HubInv, NEW next \in [Agents -> Agent], agent' = next,
           \A a \in Agents : InHub(a) => next[a].socket \in {"open", "closing"},
           UNCHANGED <<space, use, rpc>>
    PROVE  RpcNext /\ HubInv'
<1>1. RpcNext
  BY NoneMoves DEF HubInv
<1>2. HubTypeOK'
  BY DEF HubInv, HubTypeOK
<1>3. OpenWorkspaceHasAgent'
  BY DEF HubInv, HubTypeOK, OpenWorkspaceHasAgent, Open, InHub, Space
<1>4. UsesAsked'
  <2> SUFFICES ASSUME NEW u \in Uses PROVE UseAsked(u)'
    BY DEF UsesAsked
  <2>1. UseAsked(u) /\ use[u] \in Use
    BY DEF HubInv, UsesAsked, HubTypeOK
  <2>2. InHub(use[u].agent) => InHub(use[u].agent)'
    BY <2>1 DEF Use, InHub
  <2> QED
    BY <2>1, <2>2 DEF UseAsked, FoundIn, Open
<1> QED
  BY <1>1, <1>2, <1>3, <1>4, RpcTypeKept DEF HubInv

LEMMA ConnectionsKeep ==
    ASSUME HubInv, (\E a \in Agents : Connect(a) \/ Vanish(a) \/ Pong(a)) \/ Sweep
    PROVE  RpcNext /\ HubInv'
<1>1. agent \in [Agents -> Agent]
  BY DEF HubInv, HubTypeOK
<1>2. ASSUME NEW a \in Agents, Connect(a) PROVE RpcNext /\ HubInv'
  <2> DEFINE new == [socket |-> "open", peer |-> TRUE, alive |-> TRUE]
             next == [agent EXCEPT ![a] = new]
  <2>1. next \in [Agents -> Agent]
    BY <1>1 DEF Agent
  <2>2. \A b \in Agents : InHub(b) => next[b].socket \in {"open", "closing"}
    BY <1>1 DEF InHub
  <2> QED
    BY <1>2, <2>1, <2>2, AgentsKeep DEF Connect
<1>3. ASSUME NEW a \in Agents, Vanish(a) PROVE RpcNext /\ HubInv'
  <2> DEFINE next == [agent EXCEPT ![a].peer = FALSE]
  <2>1. next \in [Agents -> Agent]
    BY <1>1 DEF Agent
  <2>2. \A b \in Agents : InHub(b) => next[b].socket \in {"open", "closing"}
    BY <1>1 DEF InHub, Agent
  <2> QED
    BY <1>3, <2>1, <2>2, AgentsKeep DEF Vanish
<1>4. ASSUME NEW a \in Agents, Pong(a) PROVE RpcNext /\ HubInv'
  <2> DEFINE next == [agent EXCEPT ![a].alive = TRUE]
  <2>1. next \in [Agents -> Agent]
    BY <1>1 DEF Agent
  <2>2. \A b \in Agents : InHub(b) => next[b].socket \in {"open", "closing"}
    BY <1>1 DEF InHub, Agent
  <2> QED
    BY <1>4, <2>1, <2>2, AgentsKeep DEF Pong
<1>5. CASE Sweep
  <2> DEFINE next == [a \in Agents |-> Swept(agent[a])]
  <2>1. ASSUME NEW a \in Agents
        PROVE  /\ Swept(agent[a]) \in Agent
               /\ InHub(a) => Swept(agent[a]).socket \in {"open", "closing"}
    BY <1>1 DEF Swept, Terminated, Agent, InHub
  <2>2. next \in [Agents -> Agent]
    BY <2>1
  <2>3. \A b \in Agents : InHub(b) => next[b].socket \in {"open", "closing"}
    BY <2>1
  <2> QED
    BY <1>5, <2>2, <2>3, AgentsKeep DEF Sweep
<1> QED
  BY <1>2, <1>3, <1>4, <1>5

-----------------------------------------------------------------------------
\* A step that concerns the projects only: one that was announced stays so, and is
\* served by its connection as long as it is open.
LEMMA SpacesKeep ==
    ASSUME HubInv, space' \in [Spaces -> Space],
           \A w \in Spaces : space'[w].stage = "open" =>
               \/ space[w].stage = "open" /\ space'[w].agent = space[w].agent
               \/ space[w].stage = "none" /\ InHub(space'[w].agent),
           \A w \in Spaces : space[w].stage # "none" => space'[w].stage # "none",
           UNCHANGED <<agent, use, rpc>>
    PROVE  RpcNext /\ HubInv'
<1>1. RpcNext
  BY NoneMoves DEF HubInv
<1>2. HubTypeOK'
  BY DEF HubInv, HubTypeOK
<1>3. OpenWorkspaceHasAgent'
  <2> SUFFICES ASSUME NEW w \in Spaces, space'[w].stage = "open"
               PROVE  agent[space'[w].agent].socket \in {"open", "closing"}
    BY DEF OpenWorkspaceHasAgent, Open, InHub
  <2> QED
    BY DEF HubInv, OpenWorkspaceHasAgent, Open, InHub
<1>4. UsesAsked'
  <2> SUFFICES ASSUME NEW u \in Uses PROVE UseAsked(u)'
    BY DEF UsesAsked
  <2>1. UseAsked(u)
    BY DEF HubInv, UsesAsked
  <2>2. FoundIn(use[u]) => FoundIn(use[u])'
    BY DEF FoundIn, Open
  <2> QED
    BY <2>1, <2>2 DEF UseAsked, InHub
<1> QED
  BY <1>1, <1>2, <1>3, <1>4, RpcTypeKept DEF HubInv

LEMMA ProjectsKeep ==
    ASSUME HubInv, NEW a \in Agents,
           \/ \E p \in Projects : OpenProject(a, p)
           \/ \E w \in Spaces : StartIndex(a, w) \/ FinishIndex(a, w) \/ CloseProject(a, w)
    PROVE  RpcNext /\ HubInv'
<1>1. space \in [Spaces -> Space]
  BY DEF HubInv, HubTypeOK
<1>2. ASSUME NEW p \in Projects, OpenProject(a, p) PROVE RpcNext /\ HubInv'
  <2> DEFINE same == {w \in Open : space[w].agent = a /\ space[w].project = p}
             new == [stage |-> "open", agent |-> a, project |-> p, indexComplete |-> FALSE]
  <2>1. CASE space' = [w \in Spaces |->
                 IF w \in same THEN [space[w] EXCEPT !.indexComplete = FALSE] ELSE space[w]]
    <3>1. ASSUME NEW w \in Spaces
          PROVE  /\ space'[w] \in Space /\ space'[w].stage = space[w].stage
                 /\ space'[w].agent = space[w].agent
      BY <1>1, <2>1 DEF Space
    <3>2. space' \in [Spaces -> Space]
      BY <2>1, <3>1
    <3> QED
      BY <1>2, <3>1, <3>2, SpacesKeep DEF OpenProject
  <2>2. ASSUME NEW w \in Spaces, space[w].stage = "none",
               space' = [space EXCEPT ![w] = new]
        PROVE  RpcNext /\ HubInv'
    <3>1. new \in Space /\ new.stage = "open" /\ new.agent = a
      BY DEF Space
    <3> HIDE DEF new
    <3>2. /\ space' \in [Spaces -> Space] /\ space'[w] = new
          /\ \A v \in Spaces \ {w} : space'[v] = space[v]
      BY <1>1, <2>2, <3>1
    <3>3. InHub(a) /\ UNCHANGED <<agent, use, rpc>>
      BY <1>2 DEF OpenProject, Heard
    <3> QED
      BY <2>2, <3>1, <3>2, <3>3, SpacesKeep
  <2> QED
    BY <1>2, <2>1, <2>2 DEF OpenProject
<1>3. ASSUME NEW w \in Spaces, StartIndex(a, w) \/ FinishIndex(a, w) PROVE RpcNext /\ HubInv'
  <2>1. PICK whole \in BOOLEAN : space' = [space EXCEPT ![w].indexComplete = whole]
    BY <1>3 DEF StartIndex, FinishIndex
  <2>2. ASSUME NEW v \in Spaces
        PROVE  /\ space'[v] \in Space /\ space'[v].stage = space[v].stage
               /\ space'[v].agent = space[v].agent
    BY <1>1, <2>1 DEF Space
  <2>3. space' \in [Spaces -> Space]
    BY <1>1, <2>1, <2>2
  <2> QED
    BY <1>3, <2>2, <2>3, SpacesKeep DEF StartIndex, FinishIndex
<1>4. ASSUME NEW w \in Spaces, CloseProject(a, w) PROVE RpcNext /\ HubInv'
  <2>1. Closed(w) \in Space /\ Closed(w).stage = "closed"
    BY HubNames DEF Closed, Space
  <2>2. /\ space' \in [Spaces -> Space] /\ space'[w] = Closed(w)
        /\ \A v \in Spaces \ {w} : space'[v] = space[v]
    BY <1>1, <1>4, <2>1 DEF CloseProject
  <2>3. \A v \in Spaces : space'[v].stage = "open" =>
            space[v].stage = "open" /\ space'[v].agent = space[v].agent
    BY <2>1, <2>2
  <2>4. \A v \in Spaces : space[v].stage # "none" => space'[v].stage # "none"
    BY <2>1, <2>2
  <2> QED
    BY <1>4, <2>2, <2>3, <2>4, SpacesKeep DEF CloseProject
<1> QED
  BY <1>2, <1>3, <1>4

-----------------------------------------------------------------------------
\* The close event: every call that waits for the connection fails, and every project
\* it served is closed.
LEMMA CloseAgentKeeps ==
    ASSUME HubInv, NEW a \in Agents, CloseAgent(a)
    PROVE  RpcNext /\ HubInv'
<1> DEFINE gone == [NotConnected EXCEPT !.socket = "closed"]
<1>1. /\ agent \in [Agents -> Agent] /\ space \in [Spaces -> Space] /\ use \in [Uses -> Use]
      /\ rpc \in [Requests -> Rpc]
  BY DEF HubInv, HubTypeOK, RpcTypeOK, Rpc
<1>2. gone \in Agent
  BY HubNames DEF Agent
<1> HIDE DEF gone
<1>3. /\ agent' = [agent EXCEPT ![a] = gone]
      /\ agent' \in [Agents -> Agent]
      /\ \A b \in Agents \ {a} : agent'[b] = agent[b]
  BY <1>1, <1>2 DEF CloseAgent, gone
<1>4. ASSUME NEW w \in Spaces
      PROVE  /\ space'[w] \in Space
             /\ space'[w].stage = "open" =>
                    space[w].stage = "open" /\ space[w].agent # a /\ space'[w] = space[w]
             /\ space[w].stage # "none" => space'[w].stage # "none"
  <2>1. Closed(w) \in Space /\ Closed(w).stage = "closed"
    BY HubNames DEF Closed, Space
  <2> QED
    BY <1>1, <2>1 DEF CloseAgent, ClosedForAgent
<1>5. ASSUME NEW u \in Uses
      PROVE  /\ u \in Awaiting(a) => use'[u] = Ended("failed")
             /\ u \notin Awaiting(a) => use'[u] = use[u]
  BY DEF CloseAgent
<1>6. HubTypeOK'
  <2>1. space' \in [Spaces -> Space]
    BY <1>4 DEF CloseAgent, ClosedForAgent
  <2>2. use' \in [Uses -> Use]
    BY <1>1, <1>5, HubNames DEF CloseAgent
  <2> QED
    BY <1>3, <2>1, <2>2 DEF HubTypeOK
<1>7. RpcNext
  <2>1. ASSUME NEW q \in Requests
        PROVE  rpc'[q] \in Rpc /\ Moves(rpc[q], rpc'[q])
    <3>1. CASE \E u \in Awaiting(a) : q = <<u, use[u].stage>>
      <4>1. rpc[q].waiter = "waiting"
        BY <3>1 DEF HubInv, UsesAsked, UseAsked, Awaiting
      <4>2. rpc'[q] = Failed(rpc[q])
        BY <3>1 DEF CloseAgent, Aborted
      <4>3. Moves(rpc[q], rpc'[q])
        BY <4>1, <4>2 DEF Moves
      <4>4. rpc[q] \in Rpc
        BY <1>1
      <4> QED
        BY <4>3, <4>4, MovesTyped
    <3>2. CASE ~ \E u \in Awaiting(a) : q = <<u, use[u].stage>>
      BY <1>1, <3>2 DEF CloseAgent, Moves
    <3> QED
      BY <3>1, <3>2
  <2>2. rpc' \in [Requests -> Rpc]
    BY <2>1 DEF CloseAgent
  <2> QED
    BY <2>1, <2>2 DEF RpcNext, Rpc
<1>8. OpenWorkspaceHasAgent'
  <2> SUFFICES ASSUME NEW w \in Spaces, space'[w].stage = "open"
               PROVE  agent'[space'[w].agent].socket \in {"open", "closing"}
    BY DEF OpenWorkspaceHasAgent, Open, InHub
  <2>1. space[w].stage = "open" /\ space[w].agent \in Agents \ {a} /\ space'[w] = space[w]
    BY <1>1, <1>4 DEF Space
  <2> QED
    BY <1>3, <2>1 DEF HubInv, OpenWorkspaceHasAgent, Open, InHub
<1>9. UsesAsked'
  <2> SUFFICES ASSUME NEW u \in Uses PROVE UseAsked(u)'
    BY DEF UsesAsked
  <2>1. CASE u \in Awaiting(a)
    <3>1. /\ use'[u].stage = "failed"
          /\ "failed" \notin UseSteps \cup {"idle", "locating", "indexing"}
      BY <1>5, <2>1, HubNames
    <3> QED
      BY <3>1 DEF UseAsked
  <2>2. CASE u \notin Awaiting(a)
    <3>1. use'[u] = use[u] /\ use[u] \in Use /\ UseAsked(u)
      BY <1>1, <1>5, <2>2 DEF HubInv, UsesAsked
    <3>2. \A s \in UseSteps : rpc'[<<u, s>>] = rpc[<<u, s>>]
      BY <2>2, UseRequests DEF CloseAgent
    <3>3. use[u].stage \in UseSteps => InHub(use[u].agent)'
      BY <1>3, <2>2, <3>1 DEF UseAsked, InHub, Awaiting, Use
    <3>4. FoundIn(use[u]) => FoundIn(use[u])'
      BY <1>4, <3>1 DEF FoundIn, Open
    <3>5. use[u].stage \in UseSteps => Later(use[u].stage) \subseteq UseSteps
      BY UseRequests
    <3> QED
      BY <3>1, <3>2, <3>3, <3>4, <3>5 DEF UseAsked, FoundIn, Open, InHub
  <2> QED
    BY <2>1, <2>2
<1> QED
  BY <1>6, <1>7, <1>8, <1>9, RpcTypeKept DEF HubInv

-----------------------------------------------------------------------------
(* The calls of the tools.                                                 *)

\* What GoneIsNotAsked says of a step.
AsksWhereServed ==
    \A u \in Uses, s \in {"prepare", "work"} :
        Untouched(u) /\ rpc'[<<u, s>>] = Asked
            => /\ use'[u].space \in Open
               /\ space[use'[u].space].agent = use'[u].agent

\* Most steps ask nothing.
LEMMA NothingAsked ==
    ASSUME \A u \in Uses, s \in {"prepare", "work"} :
               rpc[<<u, s>>] = Unasked => rpc'[<<u, s>>] = Unasked
    PROVE  AsksWhereServed
BY DEF AsksWhereServed, Untouched, Asked, Unasked

\* The first request of a call.
LEMMA FirstAskKeeps ==
    ASSUME HubInv, NEW u \in Uses, NEW o \in Use, NEW step \in UseSteps,
           FoundIn(o), o.space \in Open,
           \A s \in UseSteps : rpc[<<u, s>>] = Unasked,
           Asks(u, o, step, rpc), UNCHANGED <<agent, space>>
    PROVE  RpcNext /\ HubInv' /\ AsksWhereServed
<1>1. PICK next : /\ next \in {Asked, Refused}
                  /\ agent[o.agent].socket = "open" => next = Asked
                  /\ rpc' = [rpc EXCEPT ![<<u, step>>] = next]
  BY DEF Asks
<1>2. MovesTo(<<u, step>>, next)
  BY <1>1 DEF MovesTo, Moves
<1>3. /\ RpcNext
      /\ rpc'[<<u, step>>] = next
      /\ \A t \in UseSteps \ {step} : rpc'[<<u, t>>] = rpc[<<u, t>>]
      /\ \A v \in Uses \ {u}, t \in UseSteps : rpc'[<<v, t>>] = rpc[<<v, t>>]
  BY <1>2, UseRequestMoves
<1>4. \A s \in Later(step) : rpc'[<<u, s>>] = Unasked
  BY <1>3, UseRequests
<1>5. HubInv'
  BY <1>1, <1>3, <1>4, AskedKeeps DEF Asks
<1>6. AsksWhereServed
  <2> SUFFICES ASSUME NEW v \in Uses, NEW s \in {"prepare", "work"},
                      Untouched(v), rpc'[<<v, s>>] = Asked
               PROVE  /\ use'[v].space \in Open
                      /\ space[use'[v].space].agent = use'[v].agent
    BY DEF AsksWhereServed
  <2>1. Asked # Unasked /\ Asked # Refused
    BY DEF Asked, Unasked, Refused
  <2>2. v = u
    BY <1>3, <2>1, HubNames DEF Untouched
  <2>3. s = step /\ next = Asked
    BY <1>3, <2>1, <2>2, HubNames
  <2>4. agent[o.agent].socket = "open"
    BY <1>1, <1>3, <2>1, <2>3, HubNames, UseRequests DEF Asks, HubInv, RpcTypeOK
  <2>5. use'[u] = [o EXCEPT !.stage = step]
    BY <2>4 DEF Asks, HubInv, HubTypeOK
  <2>6. use'[u].space = o.space /\ use'[u].agent = o.agent
    BY <2>5 DEF Use
  <2> QED
    BY <2>2, <2>6 DEF FoundIn
<1> QED
  BY <1>3, <1>5, <1>6

\* The next request of a call, once one was answered.
LEMMA NextAskKeeps ==
    ASSUME HubInv, NEW u \in Uses, use[u].stage \in UseSteps,
           Answerable(rpc[<<u, use[u].stage>>]),
           NEW step \in Later(use[u].stage),
           use[u].stage = "ping" => use[u].space \in Open,
           Asks(u, use[u], step, Settled(u)), UNCHANGED <<agent, space>>
    PROVE  RpcNext /\ HubInv' /\ AsksWhereServed
<1> DEFINE prev == use[u].stage
           q == <<u, prev>>
           p == <<u, step>>
<1>1. /\ q \in Requests /\ p \in Requests \ {q} /\ step \in UseSteps \ {prev}
      /\ Later(step) \subseteq Later(prev)
  BY UseRequests
<1>2. /\ rpc \in [Requests -> Rpc] /\ use \in [Uses -> Use]
      /\ FoundIn(use[u]) /\ rpc[p] = Unasked
      /\ \A s \in Later(prev) : rpc[<<u, s>>] = Unasked
      /\ rpc[q].waiter = "waiting"
  BY DEF HubInv, HubTypeOK, RpcTypeOK, Rpc, UsesAsked, UseAsked
<1>3. PICK other : /\ other \in {Asked, Refused}
                   /\ agent[use[u].agent].socket = "open" => other = Asked
                   /\ agent[use[u].agent].socket # "open" => other = Refused
                   /\ rpc' = [Settled(u) EXCEPT ![p] = other]
  BY DEF Asks
<1>4. PICK next : /\ next = Answered(rpc[q])
                  /\ rpc' = [[rpc EXCEPT ![q] = next] EXCEPT ![p] = other]
  BY <1>3 DEF Settled
<1>5. Moves(rpc[q], next) /\ Moves(rpc[p], other)
  BY <1>2, <1>3, <1>4 DEF Moves
<1> HIDE DEF q, p
<1>6. RpcNext
  BY <1>1, <1>4, <1>5, TwoMove DEF HubInv
<1>7. /\ rpc'[p] = other
      /\ \A r \in Requests \ {q, p} : rpc'[r] = rpc[r]
  BY <1>1, <1>2, <1>4
<1>8. /\ \A v \in Uses \ {u}, s \in UseSteps : rpc'[<<v, s>>] = rpc[<<v, s>>]
      /\ \A s \in UseSteps \ {prev, step} : rpc'[<<u, s>>] = rpc[<<u, s>>]
  BY <1>7, UseRequests DEF q, p
<1>9. \A s \in Later(step) : rpc'[<<u, s>>] = Unasked
  BY <1>1, <1>2, <1>8, UseRequests
<1>10. HubInv'
  <2>1. IF agent[use[u].agent].socket = "open"
        THEN /\ rpc'[<<u, step>>] = Asked
             /\ use' = [use EXCEPT ![u] = [use[u] EXCEPT !.stage = step]]
        ELSE use' = [use EXCEPT ![u] = Ended("failed")]
    BY <1>3, <1>7 DEF Asks, p
  <2>2. use[u] \in Use
    BY <1>2
  <2> QED
    BY <1>1, <1>2, <1>6, <1>8, <1>9, <2>1, <2>2, AskedKeeps
<1>11. AsksWhereServed
  <2> SUFFICES ASSUME NEW v \in Uses, NEW s \in {"prepare", "work"},
                      Untouched(v), rpc'[<<v, s>>] = Asked
               PROVE  /\ use'[v].space \in Open
                      /\ space[use'[v].space].agent = use'[v].agent
    BY DEF AsksWhereServed
  <2>1. Asked # Unasked /\ Asked # Refused /\ rpc[<<v, s>>] = Unasked /\ Unasked.waiter = "none"
    BY DEF Asked, Unasked, Refused, Untouched
  <2>2. v = u
    BY <1>8, <2>1, HubNames
  <2>3. prev = "ping"
    BY <1>2, <2>1, <2>2, HubNames DEF Untouched, q
  <2>4. s = step /\ other = Asked
    BY <1>7, <1>8, <2>1, <2>2, <2>3, HubNames DEF p
  <2>5. use'[u] = [use[u] EXCEPT !.stage = step]
    BY <1>2, <1>3, <2>1, <2>4 DEF Asks
  <2>6. use'[u].space = use[u].space /\ use'[u].agent = use[u].agent
    BY <1>2, <2>5 DEF Use
  <2> QED
    BY <1>2, <2>2, <2>3, <2>6 DEF FoundIn
<1> QED
  BY <1>6, <1>10, <1>11

-----------------------------------------------------------------------------
\* A call that ends without a request, or waits to be told of its project.
LEMMA UnaskedKeeps ==
    ASSUME HubInv, NEW u \in Uses, NEW new \in Use, use' = [use EXCEPT ![u] = new],
           \/ new.stage \in {"done", "failed"}
           \/ /\ new.stage \in {"locating", "indexing"}
              /\ \A s \in UseSteps : rpc[<<u, s>>] = Unasked,
           UNCHANGED <<agent, space, rpc>>
    PROVE  RpcNext /\ HubInv' /\ AsksWhereServed
<1>1. RpcNext /\ AsksWhereServed
  BY NoneMoves, NothingAsked DEF HubInv
<1>2. use'[u] = new
  BY DEF HubInv, HubTypeOK
<1>3. new.stage \notin UseSteps
  BY HubNames
<1>4. UseAsked(u)'
  BY <1>2, <1>3 DEF UseAsked
<1>5. /\ agent' \in [Agents -> Agent]
      /\ \A a \in Agents : InHub(a) => agent'[a].socket \in {"open", "closing"}
  BY DEF HubInv, HubTypeOK, InHub
<1> QED
  BY <1>1, <1>4, <1>5, UseKeeps

LEMMA ServedKeeps ==
    ASSUME HubInv, NEW u \in Uses, NEW o \in Use, NEW w \in Open,
           \A s \in UseSteps : rpc[<<u, s>>] = Unasked,
           Served(u, o, w), UNCHANGED <<agent, space>>
    PROVE  RpcNext /\ HubInv' /\ AsksWhereServed
<1> DEFINE found == [o EXCEPT !.space = w, !.agent = space[w].agent]
<1>1. w \in Spaces /\ space[w] \in Space /\ space[w].stage = "open"
  BY DEF Open, HubInv, HubTypeOK
<1>2. found \in Use /\ found.space = w /\ found.agent = space[w].agent
  BY <1>1 DEF Use, Space
<1>3. \/ Asks(u, found, "work", rpc)
      \/ Asks(u, found, "ping", rpc)
      \/ use' = [use EXCEPT ![u] = Ended("done")] /\ UNCHANGED rpc
  BY DEF Served
<1> HIDE DEF found
<1>4. FoundIn(found)
  BY <1>1, <1>2 DEF FoundIn
<1>5. CASE \E step \in UseSteps : Asks(u, found, step, rpc)
  BY <1>2, <1>4, <1>5, FirstAskKeeps
<1>6. CASE use' = [use EXCEPT ![u] = Ended("done")] /\ UNCHANGED rpc
  BY <1>6, HubNames, UnaskedKeeps
<1> QED
  BY <1>3, <1>5, <1>6, HubNames

LEMMA LocatesKeeps ==
    ASSUME HubInv, NEW u \in Uses, NEW o \in Use,
           \A s \in UseSteps : rpc[<<u, s>>] = Unasked,
           Locates(u, o), UNCHANGED <<agent, space>>
    PROVE  RpcNext /\ HubInv' /\ AsksWhereServed
<1>1. Resolved(o.space) \subseteq Open
  BY DEF Resolved
<1>2. CASE use' = [use EXCEPT ![u] = Ended("failed")] /\ UNCHANGED rpc
  BY <1>2, HubNames, UnaskedKeeps
<1>3. ASSUME NEW w \in Open, Served(u, o, w) PROVE RpcNext /\ HubInv' /\ AsksWhereServed
  BY <1>3, ServedKeeps
<1>4. ASSUME NEW w \in Open, UNCHANGED rpc,
             use' = [use EXCEPT ![u] = [o EXCEPT !.stage = "indexing", !.space = w]]
      PROVE  RpcNext /\ HubInv' /\ AsksWhereServed
  <2> DEFINE new == [o EXCEPT !.stage = "indexing", !.space = w]
  <2>1. new \in Use /\ new.stage = "indexing"
    BY DEF Use, Open
  <2> HIDE DEF new
  <2>2. use' = [use EXCEPT ![u] = new]
    BY <1>4 DEF new
  <2> QED
    BY <1>4, <2>1, <2>2, UnaskedKeeps
<1> QED
  BY <1>1, <1>2, <1>3, <1>4 DEF Locates

LEMMA BeginUseKeeps ==
    ASSUME HubInv, NEW u \in Uses, NEW needs \in Needs, BeginUse(u, needs)
    PROVE  RpcNext /\ HubInv' /\ AsksWhereServed
<1>1. PICK name \in Spaces \cup {NoSpace} :
        LET o == [NotUsed EXCEPT !.needs = needs, !.space = name]
        IN  \/ Locates(u, o)
            \/ use' = [use EXCEPT ![u] = [o EXCEPT !.stage = "locating"]] /\ UNCHANGED rpc
  BY DEF BeginUse
<1> DEFINE o == [NotUsed EXCEPT !.needs = needs, !.space = name]
           new == [o EXCEPT !.stage = "locating"]
<1>2. o \in Use /\ new \in Use /\ new.stage = "locating"
  BY HubNames DEF Use
<1>3. \A s \in UseSteps : rpc[<<u, s>>] = Unasked
  BY DEF BeginUse, MayUse, HubInv, UsesAsked, UseAsked
<1>4. UNCHANGED <<agent, space>>
  BY DEF BeginUse
<1>5. \/ Locates(u, o)
      \/ use' = [use EXCEPT ![u] = new] /\ UNCHANGED rpc
  BY <1>1
<1> HIDE DEF o, new
<1>6. CASE Locates(u, o)
  BY <1>2, <1>3, <1>4, <1>6, LocatesKeeps
<1>7. CASE use' = [use EXCEPT ![u] = new] /\ UNCHANGED rpc
  BY <1>2, <1>3, <1>4, <1>7, UnaskedKeeps
<1> QED
  BY <1>5, <1>6, <1>7

LEMMA UsesToolKeeps ==
    ASSUME HubInv, NEW u \in Uses, UsesTool(u)
    PROVE  RpcNext /\ HubInv' /\ AsksWhereServed
<1>1. CASE ListWorkspaces(u)
  BY <1>1, HubNames, UnaskedKeeps DEF ListWorkspaces
<1>2. CASE \E needs \in Needs : BeginUse(u, needs)
  BY <1>2, BeginUseKeeps
<1> QED
  BY <1>1, <1>2
     DEF UsesTool, Needs, GetWorkspaceOverview, ListFiles, ReadFiles, SearchFiles, GitStatus,
         GitDiff, GetEnvironment, InspectPluginSigning, ReindexWorkspace, ChangeOrRun,
         DiagnoseConnection

LEMMA ProceedsKeeps ==
    ASSUME HubInv, NEW u \in Uses, Locate(u) \/ AwaitIndex(u)
    PROVE  RpcNext /\ HubInv' /\ AsksWhereServed
<1>1. use[u] \in Use
  BY DEF HubInv, HubTypeOK
<1>2. \A s \in UseSteps : rpc[<<u, s>>] = Unasked
  BY DEF Locate, AwaitIndex, HubInv, UsesAsked, UseAsked
<1>3. CASE Locate(u)
  BY <1>1, <1>2, <1>3, LocatesKeeps DEF Locate
<1>4. ASSUME AwaitIndex(u), use[u].space \in Open, Served(u, use[u], use[u].space)
      PROVE  RpcNext /\ HubInv' /\ AsksWhereServed
  <2>1. UNCHANGED <<agent, space>>
    BY <1>4 DEF AwaitIndex
  <2> QED
    BY <1>1, <1>2, <1>4, <2>1, ServedKeeps
<1>5. ASSUME AwaitIndex(u), use' = [use EXCEPT ![u] = Ended("failed")], UNCHANGED rpc
      PROVE  RpcNext /\ HubInv' /\ AsksWhereServed
  BY <1>5, HubNames, UnaskedKeeps DEF AwaitIndex
<1> QED
  BY <1>3, <1>4, <1>5 DEF AwaitIndex

\* One request of a call is settled, and the call ends.
LEMMA SettledKeeps ==
    ASSUME HubInv, NEW u \in Uses, use[u].stage \in UseSteps, NEW next,
           MovesTo(<<u, use[u].stage>>, next),
           NEW stage \in {"done", "failed"}, use' = [use EXCEPT ![u] = Ended(stage)],
           agent' \in [Agents -> Agent],
           \A a \in Agents : InHub(a) => agent'[a].socket \in {"open", "closing"},
           space' = space
    PROVE  RpcNext /\ HubInv' /\ AsksWhereServed
<1> DEFINE s == use[u].stage
<1>1. /\ RpcNext
      /\ rpc'[<<u, s>>] = next
      /\ \A t \in UseSteps \ {s} : rpc'[<<u, t>>] = rpc[<<u, t>>]
      /\ \A v \in Uses \ {u}, t \in UseSteps : rpc'[<<v, t>>] = rpc[<<v, t>>]
  BY UseRequestMoves
<1>2. HubInv'
  BY <1>1, EndedKeeps
<1>3. rpc[<<u, s>>].waiter = "waiting"
  BY DEF HubInv, UsesAsked, UseAsked
<1>4. rpc[<<u, s>>] # Unasked
  BY <1>3 DEF Unasked
<1>5. \A v \in Uses, t \in UseSteps : rpc[<<v, t>>] = Unasked => rpc'[<<v, t>>] = Unasked
  <2> SUFFICES ASSUME NEW v \in Uses, NEW t \in UseSteps, rpc[<<v, t>>] = Unasked
               PROVE  rpc'[<<v, t>>] = Unasked
    OBVIOUS
  <2>1. v # u \/ t # s
    BY <1>4
  <2> QED
    BY <1>1, <2>1
<1>6. AsksWhereServed
  BY <1>5, NothingAsked, HubNames
<1> QED
  BY <1>1, <1>2, <1>6

LEMMA AnswerKeeps ==
    ASSUME HubInv, NEW u \in Uses, Answer(u)
    PROVE  RpcNext /\ HubInv' /\ AsksWhereServed
<1> DEFINE s == use[u].stage
<1>1. /\ s \in UseSteps /\ Answerable(rpc[<<u, s>>]) /\ UNCHANGED <<agent, space>>
      /\ agent \in [Agents -> Agent]
  BY DEF Answer, HubInv, HubTypeOK
<1>2. ASSUME NEW stage \in {"done", "failed"}, Ends(u, stage)
      PROVE  RpcNext /\ HubInv' /\ AsksWhereServed
  <2>1. PICK next : next = Answered(rpc[<<u, s>>]) /\ rpc' = [rpc EXCEPT ![<<u, s>>] = next]
    BY <1>2 DEF Ends, Settled
  <2>2. MovesTo(<<u, s>>, next)
    BY <1>1, <2>1 DEF MovesTo, Moves
  <2>3. \A a \in Agents : InHub(a) => agent'[a].socket \in {"open", "closing"}
    BY <1>1 DEF InHub
  <2>4. use' = [use EXCEPT ![u] = Ended(stage)] /\ agent' \in [Agents -> Agent] /\ space' = space
    BY <1>1, <1>2 DEF Ends
  <2> QED
    BY <1>1, <2>2, <2>3, <2>4, SettledKeeps
<1>3. ASSUME NEW step \in Later(s), s = "ping" => use[u].space \in Open,
             Asks(u, use[u], step, Settled(u))
      PROVE  RpcNext /\ HubInv' /\ AsksWhereServed
  BY <1>1, <1>3, NextAskKeeps
<1>4. CASE \E stage \in {"done", "failed"} : Ends(u, stage)
  BY <1>2, <1>4
<1>5. CASE /\ s = "ping" /\ StillOpen(u)
           /\ \E step \in {"prepare", "work"} : Asks(u, use[u], step, Settled(u))
  BY <1>3, <1>5 DEF StillOpen, Later
<1>6. CASE s = "prepare" /\ Asks(u, use[u], "work", Settled(u))
  BY <1>3, <1>6 DEF Later
<1> QED
  BY <1>4, <1>5, <1>6 DEF Answer

LEMMA TimeoutKeeps ==
    ASSUME HubInv, NEW u \in Uses, Timeout(u)
    PROVE  RpcNext /\ HubInv' /\ AsksWhereServed
<1> DEFINE s == use[u].stage
           a == use[u].agent
<1>1. /\ s \in UseSteps /\ a \in Agents /\ agent \in [Agents -> Agent]
      /\ rpc[<<u, s>>].waiter = "waiting" /\ InHub(a)
  BY DEF Timeout, HubInv, HubTypeOK, UsesAsked, UseAsked, Use
<1>2. PICK next : next = Failed(rpc[<<u, s>>]) /\ rpc' = [rpc EXCEPT ![<<u, s>>] = next]
  BY DEF Timeout
<1>3. MovesTo(<<u, s>>, next)
  BY <1>1, <1>2 DEF MovesTo, Moves
<1>4. /\ agent' \in [Agents -> Agent]
      /\ \A b \in Agents : InHub(b) => agent'[b].socket \in {"open", "closing"}
  <2>1. CASE agent' = agent
    BY <1>1, <2>1 DEF InHub
  <2>2. CASE agent' = [agent EXCEPT ![a] = Terminated(@)]
    <3>1. Terminated(agent[a]) \in Agent /\ Terminated(agent[a]).socket = "closing"
      BY ZenonT(60), <1>1 DEF Terminated, Agent
    <3> QED
      BY <1>1, <2>2, <3>1 DEF InHub
  <2> QED
    BY <2>1, <2>2 DEF Timeout
<1>5. use' = [use EXCEPT ![u] = Ended("failed")] /\ space' = space
  BY DEF Timeout
<1> QED
  BY <1>1, <1>3, <1>4, <1>5, SettledKeeps

LEMMA DesktopDoesKeeps ==
    ASSUME HubInv, NEW u \in Uses, NEW s \in UseSteps, DesktopDoes(<<u, s>>)
    PROVE  RpcNext /\ HubInv' /\ AsksWhereServed
<1> DEFINE q == <<u, s>>
<1>1. /\ q \in Requests /\ rpc[q] \in Rpc /\ rpc[q].work = "sent"
      /\ UNCHANGED hubVars
  BY UseRequests DEF DesktopDoes, HubInv, RpcTypeOK, Rpc
<1>2. PICK next : next = Performed(rpc[q]) /\ rpc' = [rpc EXCEPT ![q] = next]
  BY DEF DesktopDoes
<1>3. MovesTo(q, next)
  BY <1>1, <1>2 DEF MovesTo, Moves
<1>4. /\ RpcNext
      /\ rpc'[<<u, s>>] = next
      /\ \A t \in UseSteps \ {s} : rpc'[<<u, t>>] = rpc[<<u, t>>]
      /\ \A v \in Uses \ {u}, t \in UseSteps : rpc'[<<v, t>>] = rpc[<<v, t>>]
  BY <1>3, UseRequestMoves
<1>5. next.waiter = rpc[q].waiter /\ rpc[q] # Unasked
  BY <1>1, <1>2 DEF Performed, Rpc, Unasked
<1>6. \A v \in Uses, t \in UseSteps :
          /\ rpc'[<<v, t>>].waiter = rpc[<<v, t>>].waiter
          /\ rpc[<<v, t>>] = Unasked => rpc'[<<v, t>>] = Unasked
  BY <1>4, <1>5
<1>7. AsksWhereServed
  BY <1>6, NothingAsked, HubNames
<1>8. HubTypeOK' /\ OpenWorkspaceHasAgent'
  BY <1>1 DEF hubVars, HubInv, HubTypeOK, OpenWorkspaceHasAgent, Open, InHub
<1>9. UsesAsked'
  <2> SUFFICES ASSUME NEW v \in Uses PROVE UseAsked(v)'
    BY DEF UsesAsked
  <2>1. UseAsked(v)
    BY DEF HubInv, UsesAsked
  <2>2. use[v].stage \in UseSteps => Later(use[v].stage) \subseteq UseSteps
    BY UseRequests
  <2>3. use' = use /\ space' = space /\ agent' = agent
    BY <1>1 DEF hubVars
  <2> QED
    BY <1>6, <2>1, <2>2, <2>3 DEF UseAsked, InHub, FoundIn, Open
<1> QED
  BY <1>4, <1>7, <1>8, <1>9, RpcTypeKept DEF HubInv

-----------------------------------------------------------------------------
LEMMA InitHubInv == RpcInit /\ HubInit => HubInv
<1> SUFFICES ASSUME RpcInit, HubInit PROVE HubInv
  OBVIOUS
<1>1. RpcTypeOK
  BY DEF RpcInit, RpcTypeOK, Unasked, Waiters, Works
<1>2. HubTypeOK
  BY HubNames DEF HubInit, HubTypeOK
<1>3. OpenWorkspaceHasAgent
  BY HubNames DEF HubInit, OpenWorkspaceHasAgent, Open
<1>4. UsesAsked
  BY HubNames, UseRequests DEF HubInit, RpcInit, UsesAsked, UseAsked
<1> QED
  BY <1>1, <1>2, <1>3, <1>4 DEF HubInv

LEMMA ConnectionsAskNothing ==
    ASSUME HubInv, \/ UNCHANGED rpc
                   \/ \E a \in Agents : CloseAgent(a)
    PROVE  AsksWhereServed
<1>1. CASE UNCHANGED rpc
  BY <1>1, NothingAsked
<1>2. ASSUME NEW a \in Agents, CloseAgent(a) PROVE AsksWhereServed
  <2> SUFFICES ASSUME NEW u \in Uses, NEW s \in {"prepare", "work"}, rpc[<<u, s>>] = Unasked
               PROVE  rpc'[<<u, s>>] = Unasked
    BY NothingAsked
  <2>1. ~ \E v \in Awaiting(a) : <<u, s>> = <<v, use[v].stage>>
    BY DEF Awaiting, HubInv, UsesAsked, UseAsked, Unasked
  <2>2. <<u, s>> \in Requests
    BY UseRequests, HubNames
  <2> QED
    BY <1>2, <2>1, <2>2 DEF CloseAgent
<1> QED
  BY <1>1, <1>2

LEMMA NextHubInv ==
    ASSUME HubInv, HubNext
    PROVE  RpcNext /\ HubInv' /\ AsksWhereServed
<1>1. ASSUME NEW a \in Agents, Connect(a) \/ Vanish(a) \/ Pong(a)
      PROVE  RpcNext /\ HubInv' /\ AsksWhereServed
  BY <1>1, ConnectionsKeep, ConnectionsAskNothing DEF Connect, Vanish, Pong
<1>2. CASE Sweep
  BY <1>2, ConnectionsKeep, ConnectionsAskNothing DEF Sweep
<1>3. ASSUME NEW a \in Agents, CloseAgent(a)
      PROVE  RpcNext /\ HubInv' /\ AsksWhereServed
  BY <1>3, CloseAgentKeeps, ConnectionsAskNothing
<1>4. ASSUME NEW a \in Agents,
             \/ \E p \in Projects : OpenProject(a, p)
             \/ \E w \in Spaces : StartIndex(a, w) \/ FinishIndex(a, w) \/ CloseProject(a, w)
      PROVE  RpcNext /\ HubInv' /\ AsksWhereServed
  BY <1>4, ProjectsKeep, ConnectionsAskNothing
     DEF OpenProject, StartIndex, FinishIndex, CloseProject
<1>5. ASSUME NEW u \in Uses,
             UsesTool(u) \/ Locate(u) \/ AwaitIndex(u) \/ Answer(u) \/ Timeout(u)
      PROVE  RpcNext /\ HubInv' /\ AsksWhereServed
  BY <1>5, UsesToolKeeps, ProceedsKeeps, AnswerKeeps, TimeoutKeeps
<1>6. ASSUME NEW u \in Uses, NEW s \in UseSteps, DesktopDoes(<<u, s>>)
      PROVE  RpcNext /\ HubInv' /\ AsksWhereServed
  BY <1>6, DesktopDoesKeeps
<1> QED
  BY <1>1, <1>2, <1>3, <1>4, <1>5, <1>6 DEF HubNext

LEMMA StutterHubInv ==
    ASSUME HubInv, UNCHANGED <<hubVars, rpc>>
    PROVE  HubInv'
BY DEF hubVars, HubInv, HubTypeOK, RpcTypeOK, OpenWorkspaceHasAgent, Open, InHub,
       UsesAsked, UseAsked, FoundIn

LEMMA HubInvHolds == HubSpec => []HubInv
<1>1. HubInv /\ [HubNext]_<<hubVars, rpc>> => HubInv'
  BY NextHubInv, StutterHubInv
<1> QED
  BY <1>1, InitHubInv, PTL DEF HubSpec

\* Every connection, project, call and request has a value of its kind.
THEOREM HubTypeCorrect == HubSpec => [](RpcTypeOK /\ HubTypeOK)
<1>1. HubInv => RpcTypeOK /\ HubTypeOK
  BY DEF HubInv
<1> QED
  BY <1>1, HubInvHolds, PTL

\* An open project is served by a connection of the hub, however connections come, break
\* off, are terminated and close.
THEOREM ProjectsAreServed == HubSpec => []OpenWorkspaceHasAgent
<1>1. HubInv => OpenWorkspaceHasAgent
  BY DEF HubInv
<1> QED
  BY <1>1, HubInvHolds, PTL

\* What a call first asks of a project goes to the connection that serves it, while the
\* project is open, whatever closed and opened while the call waited.
THEOREM GoneProjectsAreNotAsked == HubSpec => GoneIsNotAsked
<1>1. HubInv /\ [HubNext]_<<hubVars, rpc>>
        => [\A u \in Uses, s \in {"prepare", "work"} :
              Untouched(u) /\ rpc'[<<u, s>>] = Asked
                  => /\ use'[u].space \in Open
                     /\ space[use'[u].space].agent = use'[u].agent]_rpc
  BY NextHubInv DEF AsksWhereServed
<1> QED
  BY <1>1, HubInvHolds, PTL DEF HubSpec, GoneIsNotAsked

\* The requests of the bridge keep what AgentRequests promises: a connection that closes,
\* a time-out and an answer settle each of them once.
THEOREM HubKeepsRequests == HubSpec => RpcSpec
<1>1. HubInv /\ [HubNext]_<<hubVars, rpc>> => [RpcNext]_rpc
  BY NextHubInv
<1> QED
  BY <1>1, HubInvHolds, PTL DEF HubSpec, RpcSpec

-----------------------------------------------------------------------------
(* The files of a project.                                                 *)

\* The requests a call makes after one of its requests.
Following(step) ==
    CASE step = "plan" -> {"baseline", "fetch", "main"}
      [] step = "baseline" -> {"fetch", "main"}
      [] step = "fetch" -> {"main"}
      [] OTHER -> {}

Changing == {"write", "edit", "gitignore", "delete", "move"}

\* What a call asks for, and of which kind a call that changes something is.
CallAsked(k) ==
    /\ call[k].stage = "idle" => \A s \in Steps : rpc[<<k, s>>] = Unasked
    /\ call[k].stage \in Steps =>
           /\ rpc[<<k, call[k].stage>>].waiter = "waiting"
           /\ \A s \in Following(call[k].stage) : rpc[<<k, s>>] = Unasked
    /\ call[k].stage \in {"plan", "baseline"} => call[k].kind \in Changing
    /\ rpc[<<k, "baseline">>].waiter = "waiting" => call[k].stage = "baseline"
    /\ rpc[<<k, "main">>].work = "sent" => call[k].kind \in Changing

\* The text an operation is about, and that its client was shown what it replaces.
OperationOK(o) ==
    /\ o.kind # "delete" => o.text \in Texts
    /\ o.kind = "write" => \A p \in Updates(o) : <<o.by, p, o.quoted[p]>> \in told

CallsOK ==
    /\ call \in [Calls -> Call]
    /\ \A k \in Calls : CallAsked(k) /\ OperationOK(call[k])

\* A ledger has only what its client was shown.
LedgerOK ==
    /\ ledger \in [Clients -> [Paths -> Texts \cup {NoText}]]
    /\ told \subseteq Clients \X Paths \X Texts
    /\ \A c \in Clients, p \in Paths :
           ledger[c][p] # NoText => <<c, p, ledger[c][p]>> \in told

\* Who asks for the checkpoint has claimed the project.
BaselineOK ==
    /\ baseline \in {"none", "pending", "made", "failed"}
    /\ baseline = "none" => \A k \in Calls : rpc[<<k, "baseline">>] = Unasked
    /\ \A j, k \in Calls :
           rpc[<<j, "baseline">>] # Unasked /\ rpc[<<k, "baseline">>] # Unasked => j = k

PlaceOK ==
    /\ live \in [Paths -> File]
    /\ edits \in 0..MaxEdits
    /\ index \in [Paths -> Entry]
    /\ indexed \in BOOLEAN
    /\ cached \in [Paths -> SUBSET Texts]

FilesInv == RpcTypeOK /\ PlaceOK /\ LedgerOK /\ BaselineOK /\ CallsOK

LEMMA CallRequests ==
    /\ \A k \in Calls, s \in Steps : <<k, s>> \in Requests
    /\ Steps = {"plan", "baseline", "fetch", "main"}
    /\ Following("plan") = {"baseline", "fetch", "main"}
    /\ Following("baseline") = {"fetch", "main"}
    /\ Following("fetch") = {"main"}
    /\ Following("main") = {}
BY FilesAssumption DEF Steps, Following

LEMMA FilesNames ==
    /\ NoCall \in Call /\ NoCall.kind = "read" /\ NoCall.stage = "idle" /\ NoCall.text \in Texts
    /\ NoFile \in File /\ NoFile.text = NoText
    /\ NoEntry \in Entry /\ NoEntry.revision = NoText
    /\ NoText \notin Texts /\ Initially \in Paths /\ Ignore \in Paths /\ Edited \subseteq Paths
<1>1. (CHOOSE c \in Clients : TRUE) \in Clients /\ (CHOOSE t \in Texts : TRUE) \in Texts
  BY FilesAssumption
<1>2. NoText \notin Texts /\ Initially \in Paths /\ Ignore \in Paths /\ Edited \subseteq Paths
  BY FilesAssumption
<1>3. NoFile \in File /\ NoFile.text = NoText
  BY DEF NoFile, File
<1>4. NoEntry \in Entry /\ NoEntry.revision = NoText
  BY DEF NoEntry, Entry
<1>5. NoCall \in Call /\ NoCall.kind = "read" /\ NoCall.stage = "idle" /\ NoCall.text \in Texts
  BY <1>1, <1>2, <1>3 DEF NoCall, Call, Kinds, Stages
<1> QED
  BY <1>2, <1>3, <1>4, <1>5

LEMMA EntriesTyped == \A f \in File : EntryOf(f) \in Entry /\ EntryOf(f).revision = f.text
BY DEF EntryOf, File, Entry

SameOperation(o, next) ==
    /\ next.kind = o.kind /\ next.by = o.by /\ next.paths = o.paths
    /\ next.quoted = o.quoted /\ next.text = o.text

\* A call that did not itself take a step: only its base and what it is linked to may
\* be different.
Similar(o, next) == next \in Call /\ next.stage = o.stage /\ SameOperation(o, next)

LEMMA Alike == \A o \in Call : Similar(o, o)
BY DEF Similar, SameOperation

LEMMA OperationKept ==
    ASSUME NEW o, NEW next, SameOperation(o, next), OperationOK(o), told \subseteq told'
    PROVE  OperationOK(next)'
BY DEF SameOperation, OperationOK, Updates

LEMMA OneCallChanges ==
    ASSUME CallsOK, NEW k \in Calls, NEW o \in Call, call' = [call EXCEPT ![k] = o]
    PROVE  /\ call' \in [Calls -> Call] /\ call'[k] = o
           /\ \A j \in Calls \ {k} : Similar(call[j], call'[j])
BY Alike DEF CallsOK

\* Unlinked and Rebased leave the calls as they are otherwise.
LEMMA UnlinkedAlike ==
    ASSUME call \in [Calls -> Call], NEW ps
    PROVE  /\ Unlinked(call, ps) \in [Calls -> Call]
           /\ \A k \in Calls : Similar(call[k], Unlinked(call, ps)[k])
<1>1. ASSUME NEW k \in Calls
      PROVE  Similar(call[k], Unlinked(call, ps)[k])
  <2>1. Unlinked(call, ps)[k] = [call[k] EXCEPT !.linked = @ \ ps]
    BY DEF Unlinked
  <2> QED
    BY ZenonT(60), <2>1 DEF Similar, SameOperation, Call
<1> QED
  BY <1>1 DEF Similar, Unlinked

LEMMA RebasedAlike ==
    ASSUME call \in [Calls -> Call], NEW k \in Calls
    PROVE  /\ Rebased(k) \in [Calls -> Call]
           /\ \A j \in Calls : Similar(call[j], Rebased(k)[j])
<1>1. ASSUME NEW j \in Calls
      PROVE  Similar(call[j], Rebased(k)[j])
  <2> DEFINE base == [p \in Paths |->
                 IF p \in Behind(k) \cap call[j].linked THEN call[k].result[p].text
                 ELSE call[j].base[p]]
  <2>0. call[j] \in Call /\ call[k] \in Call
    OBVIOUS
  <2>1. base \in [Paths -> Texts \cup {NoText}]
    <3>1. \A p \in Paths : call[j].base[p] \in Texts \cup {NoText}
      BY <2>0 DEF Call
    <3>2. \A p \in Paths : call[k].result[p] \in File
      BY <2>0 DEF Call
    <3>3. \A p \in Paths : call[k].result[p].text \in Texts \cup {NoText}
      BY <3>2 DEF File
    <3> QED
      BY <3>1, <3>3
  <2>2. Rebased(k)[j] = [call[j] EXCEPT !.base = base]
    BY DEF Rebased
  <2> HIDE DEF base
  <2> QED
    BY ZenonT(60), <2>1, <2>2 DEF Similar, SameOperation, Call
<1> QED
  BY <1>1 DEF Similar, Rebased

-----------------------------------------------------------------------------
\* A step in which no call takes part and nothing is asked.
LEMMA CallsKept ==
    ASSUME CallsOK, rpc' = rpc, told \subseteq told', call' \in [Calls -> Call],
           \A k \in Calls : Similar(call[k], call'[k])
    PROVE  CallsOK'
<1> SUFFICES ASSUME NEW k \in Calls PROVE CallAsked(k)' /\ OperationOK(call[k])'
  BY DEF CallsOK
<1>1. CallAsked(k) /\ OperationOK(call[k]) /\ Similar(call[k], call'[k])
  BY DEF CallsOK
<1>2. CallAsked(k)'
  BY <1>1 DEF CallAsked, Similar, SameOperation
<1>3. OperationOK(call[k])'
  BY <1>1, OperationKept DEF Similar
<1> QED
  BY <1>2, <1>3

\* A step of call k, or of the desktop for it.
LEMMA CallSteps ==
    ASSUME CallsOK, NEW k \in Calls, told \subseteq told', call' \in [Calls -> Call],
           \A j \in Calls \ {k} : Similar(call[j], call'[j]),
           \A j \in Calls \ {k}, s \in Steps : rpc'[<<j, s>>] = rpc[<<j, s>>],
           CallAsked(k)', OperationOK(call[k])'
    PROVE  CallsOK'
<1> SUFFICES ASSUME NEW j \in Calls, j # k PROVE CallAsked(j)' /\ OperationOK(call[j])'
  BY DEF CallsOK
<1>1. CallAsked(j) /\ OperationOK(call[j]) /\ Similar(call[j], call'[j])
  BY DEF CallsOK
<1>2. \A s \in Steps : rpc'[<<j, s>>] = rpc[<<j, s>>]
  OBVIOUS
<1>3. \A s \in Steps : Following(s) \subseteq Steps
  BY CallRequests
<1>4. CallAsked(j)'
  BY <1>1, <1>2, <1>3, CallRequests DEF CallAsked, Similar, SameOperation
<1>5. OperationOK(call[j])'
  BY <1>1, OperationKept DEF Similar
<1> QED
  BY <1>4, <1>5

\* Who asked for the checkpoint, when call k takes a step.
LEMMA BaselineKept ==
    ASSUME BaselineOK, NEW k \in Calls,
           baseline' \in {"none", "pending", "made", "failed"},
           baseline' = "none" => baseline = "none",
           \A j \in Calls \ {k}, s \in Steps : rpc'[<<j, s>>] = rpc[<<j, s>>],
           rpc'[<<k, "baseline">>] # Unasked =>
               \/ rpc[<<k, "baseline">>] # Unasked
               \/ baseline = "none" /\ baseline' # "none"
    PROVE  BaselineOK'
<1>1. \A j \in Calls \ {k} : rpc'[<<j, "baseline">>] = rpc[<<j, "baseline">>]
  BY CallRequests
<1> QED
  BY <1>1 DEF BaselineOK

-----------------------------------------------------------------------------
(* The requests of a call. *)

\* One request of call k moves.
LEMMA CallRequestMoves ==
    ASSUME RpcTypeOK, NEW k \in Calls, NEW s \in Steps, NEW next, MovesTo(<<k, s>>, next)
    PROVE  /\ RpcNext
           /\ rpc'[<<k, s>>] = next
           /\ \A t \in Steps \ {s} : rpc'[<<k, t>>] = rpc[<<k, t>>]
           /\ \A j \in Calls \ {k}, t \in Steps : rpc'[<<j, t>>] = rpc[<<j, t>>]
<1>1. <<k, s>> \in Requests /\ rpc \in [Requests -> Rpc]
  BY CallRequests DEF RpcTypeOK, Rpc
<1>2. RpcNext
  BY <1>1, OneMoves DEF MovesTo
<1> QED
  BY <1>1, <1>2, CallRequests DEF MovesTo

\* One request of call k is settled and another one made.
MovesAndAsks(k, s, next, t) ==
    /\ Moves(rpc[<<k, s>>], next)
    /\ rpc' = [[rpc EXCEPT ![<<k, s>>] = next] EXCEPT ![<<k, t>>] = Asked]

LEMMA CallRequestsMove ==
    ASSUME RpcTypeOK, NEW k \in Calls, NEW s \in Steps, NEW next, NEW t \in Steps \ {s},
           rpc[<<k, t>>] = Unasked, MovesAndAsks(k, s, next, t)
    PROVE  /\ RpcNext
           /\ rpc'[<<k, s>>] = next
           /\ rpc'[<<k, t>>] = Asked
           /\ \A r \in Steps \ {s, t} : rpc'[<<k, r>>] = rpc[<<k, r>>]
           /\ \A j \in Calls \ {k}, r \in Steps : rpc'[<<j, r>>] = rpc[<<j, r>>]
<1> DEFINE q == <<k, s>>
           p == <<k, t>>
<1>1. q \in Requests /\ p \in Requests \ {q} /\ rpc \in [Requests -> Rpc]
  BY CallRequests DEF RpcTypeOK, Rpc
<1>2. Moves(rpc[p], Asked)
  BY DEF Moves
<1> HIDE DEF q, p
<1>3. Moves(rpc[q], next) /\ rpc' = [[rpc EXCEPT ![q] = next] EXCEPT ![p] = Asked]
  BY DEF q, p, MovesAndAsks
<1>4. RpcNext
  BY <1>1, <1>2, <1>3, TwoMove
<1>5. rpc'[q] = next /\ rpc'[p] = Asked /\ \A r \in Requests \ {q, p} : rpc'[r] = rpc[r]
  BY <1>1, <1>3
<1> QED
  BY <1>4, <1>5, CallRequests DEF q, p

-----------------------------------------------------------------------------
\* Steps that leave the files, or the ledgers, as they are.
LEMMA PlaceKept == PlaceOK /\ UNCHANGED <<live, edits, index, indexed, cached>> => PlaceOK'
BY DEF PlaceOK

LEMMA LedgerKept == LedgerOK /\ UNCHANGED <<ledger, told>> => LedgerOK'
BY DEF LedgerOK

\* A call that is over.
Over(stage) == [NoCall EXCEPT !.stage = stage]

LEMMA EndedCall ==
    ASSUME NEW stage \in {"done", "failed"}
    PROVE  /\ Over(stage) \in Call /\ Over(stage).stage = stage /\ Over(stage).kind = "read"
           /\ OperationOK(Over(stage)) /\ OperationOK(Over(stage))'
           /\ stage \notin Steps \cup {"idle"}
BY FilesNames, CallRequests DEF Over, Call, Stages, OperationOK

LEMMA CallDone ==
    ASSUME NEW calls \in [Calls -> Call], NEW k \in Calls
    PROVE  /\ Done(calls, k) \in [Calls -> Call]
           /\ Done(calls, k)[k] = Over("done")
           /\ \A j \in Calls \ {k} : Done(calls, k)[j] = calls[j]
<1>1. Done(calls, k) = [calls EXCEPT ![k] = Over("done")]
  BY DEF Done, Over
<1> QED
  BY <1>1, EndedCall

LEMMA CallGivenUp ==
    ASSUME NEW calls \in [Calls -> Call], NEW k \in Calls
    PROVE  /\ GivenUp(calls, k, TRUE) \in [Calls -> Call]
           /\ GivenUp(calls, k, TRUE)[k] = Over("failed")
           /\ \A j \in Calls \ {k} : GivenUp(calls, k, TRUE)[j] = calls[j]
<1>1. GivenUp(calls, k, TRUE) = [calls EXCEPT ![k] = Over("failed")]
  BY DEF GivenUp, Over
<1> QED
  BY <1>1, EndedCall

\* Call k is over after the request s it waited for moved.
LEMMA EndKeeps ==
    ASSUME FilesInv, NEW k \in Calls, NEW s \in Steps, NEW next, MovesTo(<<k, s>>, next),
           s = call[k].stage, next.waiter # "waiting", next.work # "sent" \/ s # "main",
           told \subseteq told', call' \in [Calls -> Call],
           NEW stage \in {"done", "failed"}, call'[k] = Over(stage),
           \A j \in Calls \ {k} : Similar(call[j], call'[j])
    PROVE  /\ RpcNext /\ CallsOK'
           /\ \A j \in Calls \ {k}, t \in Steps : rpc'[<<j, t>>] = rpc[<<j, t>>]
           /\ rpc'[<<k, "baseline">>] # Unasked => rpc[<<k, "baseline">>] # Unasked
<1>1. /\ RpcNext
      /\ rpc'[<<k, s>>] = next
      /\ \A t \in Steps \ {s} : rpc'[<<k, t>>] = rpc[<<k, t>>]
      /\ \A j \in Calls \ {k}, t \in Steps : rpc'[<<j, t>>] = rpc[<<j, t>>]
  BY CallRequestMoves DEF FilesInv
<1>2. /\ call'[k].stage = stage /\ stage \notin Steps \cup {"idle"} /\ OperationOK(call[k])'
  <2>1. OperationOK(Over(stage))' /\ Over(stage).stage = stage
    BY EndedCall
  <2> QED
    BY <2>1, EndedCall DEF OperationOK
<1>3. CallAsked(k) /\ rpc[<<k, s>>].waiter = "waiting"
  BY DEF FilesInv, CallsOK, CallAsked
<1>4. rpc'[<<k, "baseline">>].waiter # "waiting"
  BY <1>1, <1>3, CallRequests DEF CallAsked
<1>5. rpc'[<<k, "main">>].work # "sent"
  <2>1. CASE s = "main"
    BY <1>1, <2>1
  <2>2. CASE s # "main"
    <3>1. rpc[<<k, "main">>] = Unasked
      BY <1>3, <2>2, CallRequests DEF CallAsked
    <3> QED
      BY <1>1, <2>2, <3>1, CallRequests DEF Unasked
  <2> QED
    BY <2>1, <2>2
<1>6. CallAsked(k)'
  BY <1>2, <1>4, <1>5, CallRequests DEF CallAsked
<1>7. CallsOK'
  BY <1>1, <1>2, <1>6, CallSteps DEF FilesInv
<1>8. rpc'[<<k, "baseline">>] # Unasked => rpc[<<k, "baseline">>] # Unasked
  BY <1>1, <1>3, CallRequests DEF Unasked
<1> QED
  BY <1>1, <1>7, <1>8

-----------------------------------------------------------------------------
(* A call that goes on with its operation. *)

\* s is the request that was settled before, if any.
SettledBefore(k, s, next, settled) ==
    /\ s \in {"plan", "baseline", "fetch"}
    /\ Moves(rpc[<<k, s>>], next)
    /\ settled = [rpc EXCEPT ![<<k, s>>] = next]
    /\ s = "baseline" => next.waiter # "waiting" /\ rpc[<<k, "baseline">>] # Unasked
    /\ s # "baseline" => rpc[<<k, "baseline">>].waiter # "waiting"

\* A call that has settled nothing.
LEMMA NothingSettled ==
    ASSUME RpcTypeOK, NEW k \in Calls, rpc[<<k, "baseline">>] = Unasked
    PROVE  SettledBefore(k, "plan", rpc[<<k, "plan">>], rpc)
<1>1. rpc = [rpc EXCEPT ![<<k, "plan">>] = rpc[<<k, "plan">>]]
  BY DEF RpcTypeOK
<1> QED
  BY <1>1 DEF SettledBefore, Moves, Unasked

\* Call k makes request t for operation o.
AsksNext(k, t, settled) == rpc' = [settled EXCEPT ![<<k, t>>] = Asked]

LEMMA AskKeeps ==
    ASSUME FilesInv, NEW k \in Calls, NEW s, NEW next, NEW settled,
           SettledBefore(k, s, next, settled),
           NEW t \in Following(s), rpc[<<k, t>>] = Unasked,
           \A r \in Following(t) : rpc[<<k, r>>] = Unasked,
           NEW o \in Call, o.stage = t, t # "fetch" => o.kind \in Changing, OperationOK(o),
           call' \in [Calls -> Call], call'[k] = o,
           \A j \in Calls \ {k} : Similar(call[j], call'[j]),
           AsksNext(k, t, settled), told' = told
    PROVE  /\ RpcNext /\ CallsOK'
           /\ \A j \in Calls \ {k}, r \in Steps : rpc'[<<j, r>>] = rpc[<<j, r>>]
           /\ t # "baseline" /\ rpc'[<<k, "baseline">>] # Unasked
                  => rpc[<<k, "baseline">>] # Unasked
<1>1. s \in Steps /\ t \in Steps \ {s} /\ t # "plan"
  BY CallRequests DEF SettledBefore
<1>2. MovesAndAsks(k, s, next, t)
  BY DEF SettledBefore, MovesAndAsks, AsksNext
<1>3. /\ RpcNext
      /\ rpc'[<<k, s>>] = next
      /\ rpc'[<<k, t>>] = Asked
      /\ \A r \in Steps \ {s, t} : rpc'[<<k, r>>] = rpc[<<k, r>>]
      /\ \A j \in Calls \ {k}, r \in Steps : rpc'[<<j, r>>] = rpc[<<j, r>>]
  BY <1>1, <1>2, CallRequestsMove DEF FilesInv
<1>4. rpc'[<<k, "main">>].work = "sent" => o.kind \in Changing
  <2>1. \/ rpc'[<<k, "main">>] = rpc[<<k, "main">>] /\ rpc[<<k, "main">>] = Unasked
        \/ t = "main"
    BY <1>1, <1>3, CallRequests DEF SettledBefore
  <2> QED
    BY <2>1 DEF Unasked
<1>5. /\ call'[k].stage = t /\ call'[k].kind = o.kind
  OBVIOUS
<1>6. Asked.waiter = "waiting" /\ Unasked.waiter = "none" /\ Unasked.work = "none"
  BY DEF Asked, Unasked
<1>7. \A r \in Following(t) : rpc'[<<k, r>>] = Unasked
  <2>1. Following(t) \subseteq Steps \ {s, t}
    BY CallRequests DEF SettledBefore
  <2> QED
    BY <1>3, <2>1
<1>8. rpc'[<<k, "baseline">>].waiter = "waiting" => t = "baseline"
  BY <1>1, <1>3, <1>6, CallRequests DEF SettledBefore
<1>9. CallAsked(k)'
  BY <1>1, <1>3, <1>4, <1>5, <1>6, <1>7, <1>8, CallRequests DEF CallAsked
<1>10. OperationOK(call[k])'
  BY DEF OperationOK
<1>11. CallsOK'
  BY <1>3, <1>9, <1>10, CallSteps DEF FilesInv
<1>12. t # "baseline" /\ rpc'[<<k, "baseline">>] # Unasked
           => rpc[<<k, "baseline">>] # Unasked
  BY <1>1, <1>3, CallRequests DEF SettledBefore
<1> QED
  BY <1>3, <1>11, <1>12

LEMMA ProceedKeeps ==
    ASSUME FilesInv, NEW k \in Calls, NEW s \in {"plan", "baseline"}, NEW next, NEW settled,
           SettledBefore(k, s, next, settled),
           rpc[<<k, "fetch">>] = Unasked, rpc[<<k, "main">>] = Unasked,
           NEW o \in Call, o.kind \in Changing, OperationOK(o),
           Proceed(k, o, settled), told' = told
    PROVE  /\ RpcNext /\ CallsOK'
           /\ \A j \in Calls \ {k}, r \in Steps : rpc'[<<j, r>>] = rpc[<<j, r>>]
           /\ rpc'[<<k, "baseline">>] # Unasked => rpc[<<k, "baseline">>] # Unasked
<1>1. s \in Steps /\ {"fetch", "main"} \subseteq Following(s)
  BY CallRequests
<1>2. CASE /\ call' = [call EXCEPT ![k] = [o EXCEPT !.stage = "fetch", !.asked = Unfetched(o)]]
           /\ AsksNext(k, "fetch", settled)
  <2> DEFINE n == [o EXCEPT !.stage = "fetch", !.asked = Unfetched(o)]
  <2>1. n \in Call /\ n.stage = "fetch" /\ SameOperation(o, n)
    BY DEF Call, Stages, Unfetched, Misses, Updates, SameOperation
  <2> HIDE DEF n
  <2>2. /\ call' \in [Calls -> Call] /\ call'[k] = n
        /\ \A j \in Calls \ {k} : Similar(call[j], call'[j])
    <3>1. call' = [call EXCEPT ![k] = n]
      BY <1>2 DEF n
    <3> QED
      BY <2>1, <3>1, OneCallChanges DEF FilesInv
  <2>3. n.kind \in Changing /\ OperationOK(n)
    BY <2>1 DEF SameOperation, OperationOK, Updates
  <2> QED
    <3>1. AsksNext(k, "fetch", settled) /\ \A r \in Following("fetch") : rpc[<<k, r>>] = Unasked
      BY <1>2, CallRequests
    <3> QED
      BY <1>1, <2>1, <2>2, <2>3, <3>1, AskKeeps, CallRequests
<1>3. CASE call' = GivenUp(call, k, TRUE) /\ rpc' = settled
  <2>1. MovesTo(<<k, s>>, next)
    BY <1>3 DEF SettledBefore, MovesTo
  <2>2. /\ RpcNext
        /\ rpc'[<<k, s>>] = next
        /\ \A t \in Steps \ {s} : rpc'[<<k, t>>] = rpc[<<k, t>>]
        /\ \A j \in Calls \ {k}, t \in Steps : rpc'[<<j, t>>] = rpc[<<j, t>>]
    BY <1>1, <2>1, CallRequestMoves DEF FilesInv
  <2>3. call \in [Calls -> Call]
    BY DEF FilesInv, CallsOK
  <2>4. /\ call' \in [Calls -> Call] /\ call'[k] = Over("failed")
        /\ \A j \in Calls \ {k} : Similar(call[j], call'[j])
    <3>1. /\ call' \in [Calls -> Call] /\ call'[k] = Over("failed")
          /\ \A j \in Calls \ {k} : call'[j] = call[j]
      BY <1>3, <2>3, CallGivenUp
    <3> QED
      BY <2>3, <3>1, Alike
  <2>5. call'[k].stage = "failed" /\ "failed" \notin Steps \cup {"idle"} /\ OperationOK(call[k])'
    <3>1. OperationOK(Over("failed"))' /\ Over("failed").stage = "failed"
      BY EndedCall
    <3> QED
      BY <2>4, <3>1, EndedCall DEF OperationOK
  <2>6. rpc'[<<k, "baseline">>].waiter # "waiting" /\ rpc'[<<k, "main">>].work # "sent"
    BY <1>1, <2>2, CallRequests DEF SettledBefore, Unasked
  <2>7. CallAsked(k)'
    BY <2>5, <2>6, CallRequests DEF CallAsked
  <2>8. CallsOK'
    BY <2>2, <2>4, <2>5, <2>7, CallSteps DEF FilesInv
  <2>9. rpc'[<<k, "baseline">>] # Unasked => rpc[<<k, "baseline">>] # Unasked
    BY <1>1, <2>2, CallRequests DEF SettledBefore
  <2> QED
    BY <2>2, <2>8, <2>9
<1>4. CASE /\ call' = [call EXCEPT ![k] = [o EXCEPT !.stage = "main"]]
           /\ AsksNext(k, "main", settled)
  <2> DEFINE n == [o EXCEPT !.stage = "main"]
  <2>1. n \in Call /\ n.stage = "main" /\ SameOperation(o, n)
    BY DEF Call, Stages, SameOperation
  <2> HIDE DEF n
  <2>2. /\ call' \in [Calls -> Call] /\ call'[k] = n
        /\ \A j \in Calls \ {k} : Similar(call[j], call'[j])
    <3>1. call' = [call EXCEPT ![k] = n]
      BY <1>4 DEF n
    <3> QED
      BY <2>1, <3>1, OneCallChanges DEF FilesInv
  <2>3. n.kind \in Changing /\ OperationOK(n)
    BY <2>1 DEF SameOperation, OperationOK, Updates
  <2> QED
    BY <1>1, <1>4, <2>1, <2>2, <2>3, AskKeeps, CallRequests
<1> QED
  BY <1>2, <1>3, <1>4 DEF Proceed, AsksNext

\* The first call of a project that changes something makes the checkpoint.
LEMMA CheckpointedKeeps ==
    ASSUME FilesInv, NEW k \in Calls, NEW next, NEW settled,
           SettledBefore(k, "plan", next, settled),
           \A t \in Following("plan") : rpc[<<k, t>>] = Unasked,
           NEW o \in Call, o.kind \in Changing, OperationOK(o),
           Checkpointed(k, o, settled), told' = told
    PROVE  RpcNext /\ CallsOK' /\ BaselineOK'
<1>1. rpc[<<k, "baseline">>] = Unasked /\ rpc[<<k, "fetch">>] = Unasked /\ rpc[<<k, "main">>] = Unasked
  BY CallRequests
<1>2. CASE /\ baseline = "none" /\ baseline' = "pending"
           /\ call' = [call EXCEPT ![k] = [o EXCEPT !.stage = "baseline"]]
           /\ AsksNext(k, "baseline", settled)
  <2> DEFINE n == [o EXCEPT !.stage = "baseline"]
  <2>1. n \in Call /\ n.stage = "baseline" /\ SameOperation(o, n)
    BY DEF Call, Stages, SameOperation
  <2> HIDE DEF n
  <2>2. /\ call' \in [Calls -> Call] /\ call'[k] = n
        /\ \A j \in Calls \ {k} : Similar(call[j], call'[j])
    <3>1. call' = [call EXCEPT ![k] = n]
      BY <1>2 DEF n
    <3> QED
      BY <2>1, <3>1, OneCallChanges DEF FilesInv
  <2>3. n.kind \in Changing /\ OperationOK(n)
    BY <2>1 DEF SameOperation, OperationOK, Updates
  <2>4. \A r \in Following("baseline") : rpc[<<k, r>>] = Unasked
    BY <1>1, CallRequests
  <2>5. /\ RpcNext /\ CallsOK'
        /\ \A j \in Calls \ {k}, r \in Steps : rpc'[<<j, r>>] = rpc[<<j, r>>]
    <3>1. AsksNext(k, "baseline", settled)
      BY <1>2
    <3> QED
      BY <1>1, <2>1, <2>2, <2>3, <2>4, <3>1, AskKeeps, CallRequests
  <2>6. BaselineOK'
    BY <1>2, <2>5, BaselineKept DEF FilesInv
  <2> QED
    BY <2>5, <2>6
<1>3. CASE UNCHANGED baseline /\ Proceed(k, o, settled)
  <2>1. /\ RpcNext /\ CallsOK'
        /\ \A j \in Calls \ {k}, r \in Steps : rpc'[<<j, r>>] = rpc[<<j, r>>]
        /\ rpc'[<<k, "baseline">>] # Unasked => rpc[<<k, "baseline">>] # Unasked
    BY <1>1, <1>3, ProceedKeeps
  <2>2. BaselineOK'
    BY <1>3, <2>1, BaselineKept DEF FilesInv, BaselineOK
  <2> QED
    BY <2>1, <2>2
<1> QED
  BY <1>2, <1>3 DEF Checkpointed, AsksNext

-----------------------------------------------------------------------------
\* What UnseenIsKept says of a step.
UnseenKept ==
    \A k \in Calls, p \in Paths :
        Replaces(k, p) /\ call[k].base[p] = call[k].quoted[p]
            => <<call[k].by, p, live[p].text>> \in told

LEMMA NothingReplaced == UNCHANGED live \/ UNCHANGED rpc => UnseenKept
BY DEF UnseenKept, Replaces

\* noteRead and the like: what the ledger has from now on was shown.
LEMMA NotedKeeps ==
    ASSUME LedgerOK, NEW c \in Clients, NEW notes, Noted(c, notes), told \subseteq told',
           told' \subseteq Clients \X Paths \X Texts,
           \A p \in Paths \cap DOMAIN notes :
               notes[p] # NoText => notes[p] \in Texts /\ <<c, p, notes[p]>> \in told'
    PROVE  LedgerOK'
<1> DEFINE next == [p \in Paths |-> IF p \in DOMAIN notes THEN notes[p] ELSE ledger[c][p]]
<1>1. ledger' = [ledger EXCEPT ![c] = next]
  BY DEF Noted, LedgerOK
<1>2. /\ next \in [Paths -> Texts \cup {NoText}]
      /\ \A p \in Paths : next[p] # NoText => <<c, p, next[p]>> \in told'
  BY DEF LedgerOK
<1> HIDE DEF next
<1>3. /\ ledger' \in [Clients -> [Paths -> Texts \cup {NoText}]]
      /\ ledger'[c] = next /\ \A d \in Clients \ {c} : ledger'[d] = ledger[d]
  BY <1>1, <1>2 DEF LedgerOK
<1>4. ASSUME NEW d \in Clients, NEW p \in Paths, ledger'[d][p] # NoText
      PROVE  <<d, p, ledger'[d][p]>> \in told'
  BY <1>2, <1>3, <1>4 DEF LedgerOK
<1> QED
  BY <1>3, <1>4 DEF LedgerOK

LEMMA ShownKeeps ==
    ASSUME LedgerOK, NEW c \in Clients, NEW p \in Paths, NEW text \in Texts, NEW kind,
           Shown(kind, c, p, text)
    PROVE  LedgerOK' /\ told \subseteq told'
<1>1. PICK note \in {text, NoText} :
        /\ Noted(c, [q \in {p} |-> note]) \/ UNCHANGED ledger
        /\ told' = told \cup {<<c, p, text>>} \/ (told' = told /\ note = NoText)
        /\ UNCHANGED ledger => told' = told \/ Noted(c, [q \in {p} |-> note])
  BY DEF Shown, Told
<1>2. told \subseteq told' /\ told' \subseteq Clients \X Paths \X Texts
  BY <1>1 DEF LedgerOK
<1>3. CASE Noted(c, [q \in {p} |-> note])
  <2> DEFINE notes == [q \in {p} |-> note]
  <2>1. \A q \in Paths \cap DOMAIN notes :
            notes[q] # NoText => notes[q] \in Texts /\ <<c, q, notes[q]>> \in told'
    BY <1>1
  <2>2. Noted(c, notes)
    BY <1>3
  <2> HIDE DEF notes
  <2> QED
    BY <1>2, <2>1, <2>2, NotedKeeps
<1>4. CASE UNCHANGED <<ledger, told>>
  BY <1>4, LedgerKept
<1> QED
  BY <1>1, <1>2, <1>3, <1>4

\* What was fetched is cached, and an entry that is behind is brought up to date.
LEMMA FetchedPlace ==
    ASSUME PlaceOK, CallsOK, NEW k \in Calls, index' = Refreshed(k), cached' = CachedAfter(k),
           UNCHANGED <<live, edits, indexed>>
    PROVE  PlaceOK'
<1>1. call[k].result \in [Paths -> File]
  BY DEF CallsOK, Call
<1>2. \A p \in Paths : call[k].result[p] \in File /\ EntryOf(call[k].result[p]) \in Entry
  BY <1>1, EntriesTyped
<1>3. Refreshed(k) \in [Paths -> Entry]
  BY <1>2 DEF Refreshed, PlaceOK
<1>4. CachedAfter(k) \in [Paths -> SUBSET Texts]
  <2>1. \A p \in Cacheable(k) : p \in Paths => call[k].result[p].text \in Texts
    BY <1>2 DEF Cacheable, File
  <2> QED
    BY <2>1 DEF CachedAfter, PlaceOK
<1> QED
  BY <1>3, <1>4 DEF PlaceOK

LEMMA TextOfEntry ==
    ASSUME PlaceOK, NEW p \in Paths, Exists(p)
    PROVE  index[p].revision \in Texts
BY DEF PlaceOK, Entry, Exists

\* A call that has not begun has asked nothing.
LEMMA NotBegun ==
    ASSUME FilesInv, NEW k \in Calls, call[k].stage = "idle"
    PROVE  /\ \A s \in Steps : rpc[<<k, s>>] = Unasked
           /\ \A t \in Following("plan") : rpc[<<k, t>>] = Unasked
           /\ SettledBefore(k, "plan", rpc[<<k, "plan">>], rpc)
<1>1. \A s \in Steps : rpc[<<k, s>>] = Unasked
  BY DEF FilesInv, CallsOK, CallAsked
<1>2. rpc[<<k, "baseline">>] = Unasked /\ \A t \in Following("plan") : rpc[<<k, t>>] = Unasked
  BY <1>1, CallRequests
<1> QED
  BY <1>1, <1>2, NothingSettled DEF FilesInv

LEMMA BeginReadKeeps ==
    ASSUME FilesInv, NEW k \in Calls, BeginRead(k)
    PROVE  RpcNext /\ FilesInv' /\ UnseenKept
<1>1. PICK c \in Clients, p \in Paths, kind \in ReadKinds :
        /\ MayBegin(k, kind)
        /\ \/ /\ InCache(p)
              /\ Shown(kind, c, p, index[p].revision)
              /\ call' = [call EXCEPT ![k].stage = "done"]
              /\ UNCHANGED rpc
           \/ /\ call' = [call EXCEPT ![k] =
                     [NoCall EXCEPT !.kind = kind, !.stage = "fetch", !.by = c,
                                    !.paths = {p}, !.asked = {p}]]
              /\ rpc' = [rpc EXCEPT ![<<k, "fetch">>] = Asked]
              /\ UNCHANGED <<ledger, told>>
  BY DEF BeginRead
<1>2. /\ PlaceOK' /\ UnseenKept /\ UNCHANGED baseline
  BY PlaceKept, NothingReplaced DEF BeginRead, FilesInv
<1>3. call[k].stage = "idle" /\ call \in [Calls -> Call] /\ CallAsked(k) /\ OperationOK(call[k])
  BY <1>1 DEF MayBegin, FilesInv, CallsOK
<1>4. \A s \in Steps : rpc[<<k, s>>] = Unasked
  BY <1>3, NotBegun
<1>5. CASE /\ InCache(p)
           /\ Shown(kind, c, p, index[p].revision)
           /\ call' = [call EXCEPT ![k].stage = "done"]
           /\ UNCHANGED rpc
  <2> DEFINE o == [call[k] EXCEPT !.stage = "done"]
  <2>1. o \in Call /\ o.stage = "done" /\ SameOperation(call[k], o)
    BY ZenonT(60), <1>3 DEF Call, Stages, SameOperation
  <2>2. call' = [call EXCEPT ![k] = o]
    BY <1>5
  <2> HIDE DEF o
  <2>3. /\ call' \in [Calls -> Call] /\ call'[k] = o
        /\ \A j \in Calls \ {k} : Similar(call[j], call'[j])
    BY <2>1, <2>2, OneCallChanges DEF FilesInv
  <2>4. LedgerOK' /\ told \subseteq told'
    BY <1>5, ShownKeeps, TextOfEntry DEF FilesInv, InCache
  <2>5. "done" \notin Steps \cup {"idle"} /\ rpc' = rpc /\ Unasked.waiter = "none" /\ Unasked.work = "none"
    BY <1>5, CallRequests DEF Unasked
  <2>6. CallAsked(k)'
    BY <1>4, <2>1, <2>3, <2>5, CallRequests DEF CallAsked
  <2>7. OperationOK(call[k])'
    BY <1>3, <2>1, <2>3, <2>4, OperationKept
  <2>8. CallsOK'
    BY <2>3, <2>4, <2>5, <2>6, <2>7, CallSteps DEF FilesInv
  <2>9. RpcNext /\ BaselineOK'
    BY <1>2, <1>5, NoneMoves DEF FilesInv, BaselineOK
  <2> QED
    BY <1>2, <2>4, <2>8, <2>9, RpcTypeKept DEF FilesInv
<1>6. CASE /\ call' = [call EXCEPT ![k] =
                  [NoCall EXCEPT !.kind = kind, !.stage = "fetch", !.by = c,
                                 !.paths = {p}, !.asked = {p}]]
           /\ rpc' = [rpc EXCEPT ![<<k, "fetch">>] = Asked]
           /\ UNCHANGED <<ledger, told>>
  <2> DEFINE o == [NoCall EXCEPT !.kind = kind, !.stage = "fetch", !.by = c,
                                 !.paths = {p}, !.asked = {p}]
  <2>1. o \in Call /\ o.stage = "fetch" /\ o.kind = kind /\ o.text = NoCall.text
    BY FilesNames DEF Call, Stages, Kinds, ReadKinds
  <2>2. call' = [call EXCEPT ![k] = o]
    BY <1>6
  <2> HIDE DEF o
  <2>3. OperationOK(o)
    BY <2>1, FilesNames DEF OperationOK, ReadKinds
  <2>4. /\ call' \in [Calls -> Call] /\ call'[k] = o
        /\ \A j \in Calls \ {k} : Similar(call[j], call'[j])
    BY <2>1, <2>2, OneCallChanges DEF FilesInv
  <2>5. /\ SettledBefore(k, "plan", rpc[<<k, "plan">>], rpc) /\ AsksNext(k, "fetch", rpc)
        /\ "fetch" \in Following("plan") /\ rpc[<<k, "fetch">>] = Unasked
        /\ \A r \in Following("fetch") : rpc[<<k, r>>] = Unasked
        /\ told' = told
    BY <1>3, <1>4, <1>6, NotBegun, CallRequests DEF AsksNext
  <2>6. /\ RpcNext /\ CallsOK'
        /\ \A j \in Calls \ {k}, r \in Steps : rpc'[<<j, r>>] = rpc[<<j, r>>]
        /\ rpc'[<<k, "baseline">>] # Unasked => rpc[<<k, "baseline">>] # Unasked
    BY <2>1, <2>3, <2>4, <2>5, AskKeeps, CallRequests
  <2>7. BaselineOK'
    BY <1>2, <2>6, BaselineKept DEF FilesInv, BaselineOK
  <2>8. LedgerOK'
    BY <1>6, LedgerKept DEF FilesInv
  <2> QED
    BY <1>2, <2>6, <2>7, <2>8, RpcTypeKept DEF FilesInv
<1> QED
  BY <1>1, <1>5, <1>6

LEMMA FinishReadKeeps ==
    ASSUME FilesInv, NEW k \in Calls, FinishRead(k)
    PROVE  RpcNext /\ FilesInv' /\ UnseenKept
<1>1. /\ PlaceOK' /\ UnseenKept /\ UNCHANGED baseline
  BY FetchedPlace, NothingReplaced DEF FinishRead, FilesInv
<1>2. /\ call[k].stage = "fetch" /\ call[k] \in Call /\ call \in [Calls -> Call]
      /\ Answerable(rpc[<<k, "fetch">>]) /\ rpc[<<k, "fetch">>] \in Rpc
  BY CallRequests DEF FinishRead, FilesInv, CallsOK, RpcTypeOK, Rpc
<1>3. PICK next : next = Answered(rpc[<<k, "fetch">>]) /\ rpc' = [rpc EXCEPT ![<<k, "fetch">>] = next]
  BY DEF FinishRead
<1>4. MovesTo(<<k, "fetch">>, next) /\ next.waiter = "answered" /\ next.work = "done"
  BY <1>2, <1>3 DEF MovesTo, Moves, Answered, Answerable, Rpc
<1>5. LedgerOK' /\ told \subseteq told'
  <2>1. PICK p \in call[k].paths :
          \/ UNCHANGED <<ledger, told>>
          \/ /\ call[k].result[p].text # NoText
             /\ Shown(call[k].kind, call[k].by, p, call[k].result[p].text)
    BY DEF FinishRead
  <2>2. p \in Paths /\ call[k].by \in Clients /\ call[k].result[p] \in File
    BY <1>2 DEF Call
  <2>3. CASE UNCHANGED <<ledger, told>>
    BY <2>3, LedgerKept DEF FilesInv
  <2>4. CASE /\ call[k].result[p].text # NoText
             /\ Shown(call[k].kind, call[k].by, p, call[k].result[p].text)
    <3>1. call[k].result[p].text \in Texts
      BY <2>2, <2>4 DEF File
    <3> QED
      BY <2>2, <2>4, <3>1, ShownKeeps DEF FilesInv
  <2> QED
    BY <2>1, <2>3, <2>4
<1>6. /\ call' \in [Calls -> Call] /\ call'[k] = Over("done")
      /\ \A j \in Calls \ {k} : Similar(call[j], call'[j])
  <2>1. call' = Done(Rebased(k), k)
    BY DEF FinishRead
  <2>2. Rebased(k) \in [Calls -> Call] /\ \A j \in Calls : Similar(call[j], Rebased(k)[j])
    BY <1>2, RebasedAlike
  <2>3. /\ Done(Rebased(k), k) \in [Calls -> Call] /\ Done(Rebased(k), k)[k] = Over("done")
        /\ \A j \in Calls \ {k} : Done(Rebased(k), k)[j] = Rebased(k)[j]
    BY <2>2, CallDone
  <2> QED
    BY <2>1, <2>2, <2>3
<1>7. /\ RpcNext /\ CallsOK'
      /\ \A j \in Calls \ {k}, t \in Steps : rpc'[<<j, t>>] = rpc[<<j, t>>]
      /\ rpc'[<<k, "baseline">>] # Unasked => rpc[<<k, "baseline">>] # Unasked
  <2>1. "fetch" \in Steps
    BY CallRequests
  <2> QED
    BY <1>2, <1>4, <1>5, <1>6, <2>1, EndKeeps
<1>8. BaselineOK'
  BY <1>1, <1>7, BaselineKept DEF FilesInv, BaselineOK
<1> QED
  BY <1>1, <1>5, <1>7, <1>8, RpcTypeKept DEF FilesInv

-----------------------------------------------------------------------------
\* A validated operation.  What write_files replaces was shown to its client.
LEMMA OperationBegins ==
    ASSUME FilesInv, NEW kind \in Changing, NEW c \in Clients, NEW ps \in SUBSET Paths,
           NEW text \in Texts, NEW to \in Paths,
           kind = "write" => \A p \in ps : Overwritable(c, p)
    PROVE  /\ Operation(kind, c, ps, text, to) \in Call
           /\ Operation(kind, c, ps, text, to).kind = kind
           /\ OperationOK(Operation(kind, c, ps, text, to))
<1> DEFINE quoted == [p \in Paths |-> IF p \in ps THEN index[p].revision ELSE NoText]
           linked == {p \in ps : Exists(p)}
           o == [NoCall EXCEPT !.kind = kind, !.by = c, !.paths = ps, !.quoted = quoted,
                               !.base = quoted, !.linked = linked, !.text = text, !.to = to]
<1>1. o = Operation(kind, c, ps, text, to)
  BY DEF Operation
<1>2. quoted \in [Paths -> Texts \cup {NoText}] /\ linked \in SUBSET Paths
  BY DEF FilesInv, PlaceOK, Entry
<1> HIDE DEF quoted, linked
<1>3. /\ o \in Call /\ o.kind = kind /\ o.by = c /\ o.paths = ps /\ o.quoted = quoted
      /\ o.text = text
  BY <1>2, FilesNames DEF Call, Kinds, Changing
<1> HIDE DEF o
<1>4. ASSUME kind = "write", NEW p \in Updates(o) PROVE <<c, p, quoted[p]>> \in told
  <2>1. p \in Paths /\ p \in ps /\ quoted[p] = index[p].revision /\ quoted[p] # NoText
    BY <1>3 DEF Updates, quoted
  <2>2. ledger[c][p] = quoted[p]
    BY <1>4, <2>1 DEF Overwritable, Exists, FreshRead
  <2> QED
    BY <2>1, <2>2 DEF FilesInv, LedgerOK
<1> QED
  BY <1>1, <1>3, <1>4 DEF OperationOK

LEMMA BeginCheckpointedKeeps ==
    ASSUME FilesInv, NEW k \in Calls, BeginWrite(k) \/ BeginEdit(k)
    PROVE  RpcNext /\ FilesInv' /\ UnseenKept
<1> DEFINE Begins(kind, c, ps, text, to) ==
             /\ kind = "write" => \A p \in ps : Overwritable(c, p)
             /\ Checkpointed(k, Operation(kind, c, ps, text, to), rpc)
           Begun == \E kind \in Changing, c \in Clients, ps \in SUBSET Paths, text \in Texts,
                       to \in Paths : Begins(kind, c, ps, text, to)
<1>1. Begun
  <2>1. ASSUME BeginWrite(k), NEW c \in Clients, NEW ps \in SUBSET Paths, NEW t \in Texts,
               \A p \in ps : Overwritable(c, p),
               Checkpointed(k, Operation("write", c, ps, t, Initially), rpc)
        PROVE  Begun
    BY <2>1, FilesNames DEF Changing
  <2>2. ASSUME BeginEdit(k), NEW c \in Clients, NEW p \in Paths,
               Checkpointed(k, Operation("edit", c, {p}, NoCall.text, Initially), rpc)
        PROVE  Begun
    BY <2>2, FilesNames DEF Changing
  <2> QED
    BY <2>1, <2>2 DEF BeginWrite, BeginEdit
<1>2. PICK o \in Call : o.kind \in Changing /\ OperationOK(o) /\ Checkpointed(k, o, rpc)
  BY <1>1, OperationBegins
<1>3. /\ call[k].stage = "idle" /\ PlaceOK' /\ LedgerOK' /\ UnseenKept /\ told' = told
  BY PlaceKept, LedgerKept, NothingReplaced DEF BeginWrite, BeginEdit, MayBegin, FilesInv
<1>4. RpcNext /\ CallsOK' /\ BaselineOK'
  BY <1>2, <1>3, NotBegun, CheckpointedKeeps
<1> QED
  BY <1>3, <1>4, RpcTypeKept DEF FilesInv

LEMMA BeginDirectKeeps ==
    ASSUME FilesInv, NEW k \in Calls, BeginDelete(k) \/ BeginMove(k)
    PROVE  RpcNext /\ FilesInv' /\ UnseenKept
<1> DEFINE Begun == \E kind \in {"delete", "move"}, c \in Clients, ps \in SUBSET Paths,
                       to \in Paths : Proceed(k, Operation(kind, c, ps, NoCall.text, to), rpc)
<1>1. Begun
  <2>1. ASSUME BeginDelete(k), NEW c \in Clients, NEW ps \in SUBSET Paths,
               Proceed(k, Operation("delete", c, ps, NoCall.text, Initially), rpc)
        PROVE  Begun
    BY <2>1, FilesNames
  <2>2. ASSUME BeginMove(k), NEW c \in Clients, NEW p \in Paths, NEW to \in Paths,
               Proceed(k, Operation("move", c, {p}, NoCall.text, to), rpc)
        PROVE  Begun
    BY <2>2
  <2> QED
    BY <2>1, <2>2 DEF BeginDelete, BeginMove
<1>2. PICK o \in Call : o.kind \in Changing /\ OperationOK(o) /\ Proceed(k, o, rpc)
  <2>1. PICK kind \in {"delete", "move"}, c \in Clients, ps \in SUBSET Paths, to \in Paths :
          Proceed(k, Operation(kind, c, ps, NoCall.text, to), rpc)
    BY <1>1
  <2>2. kind \in Changing /\ kind # "write"
    BY DEF Changing
  <2> QED
    BY <2>1, <2>2, FilesNames, OperationBegins
<1>3. /\ call[k].stage = "idle" /\ PlaceOK' /\ LedgerOK' /\ UnseenKept /\ told' = told
      /\ baseline' = baseline
  BY PlaceKept, LedgerKept, NothingReplaced DEF BeginDelete, BeginMove, MayBegin, FilesInv
<1>4. /\ SettledBefore(k, "plan", rpc[<<k, "plan">>], rpc)
      /\ rpc[<<k, "fetch">>] = Unasked /\ rpc[<<k, "main">>] = Unasked
  BY <1>3, NotBegun, CallRequests
<1>5. /\ RpcNext /\ CallsOK'
      /\ \A j \in Calls \ {k}, r \in Steps : rpc'[<<j, r>>] = rpc[<<j, r>>]
      /\ rpc'[<<k, "baseline">>] # Unasked => rpc[<<k, "baseline">>] # Unasked
  BY <1>2, <1>3, <1>4, ProceedKeeps
<1>6. BaselineOK'
  BY <1>3, <1>5, BaselineKept DEF FilesInv, BaselineOK
<1> QED
  BY <1>3, <1>5, <1>6, RpcTypeKept DEF FilesInv

LEMMA BeginGitignoreKeeps ==
    ASSUME FilesInv, NEW k \in Calls, BeginGitignore(k)
    PROVE  RpcNext /\ FilesInv' /\ UnseenKept
<1>1. PICK c \in Clients :
        call' = [call EXCEPT ![k] =
            [Operation("gitignore", c, {Ignore}, NoCall.text, Initially) EXCEPT !.stage = "plan"]]
  BY DEF BeginGitignore
<1>2. PICK op \in Call : /\ op.kind = "gitignore" /\ OperationOK(op)
                         /\ call' = [call EXCEPT ![k] = [op EXCEPT !.stage = "plan"]]
  <2>1. "gitignore" \in Changing /\ {Ignore} \in SUBSET Paths
    BY FilesNames DEF Changing
  <2> QED
    <3> DEFINE op == Operation("gitignore", c, {Ignore}, NoCall.text, Initially)
    <3>1. op \in Call /\ op.kind = "gitignore" /\ OperationOK(op)
      BY <2>1, FilesNames, OperationBegins
    <3>2. call' = [call EXCEPT ![k] = [op EXCEPT !.stage = "plan"]]
      BY <1>1
    <3> QED
      BY <3>1, <3>2
<1> DEFINE o == [op EXCEPT !.stage = "plan"]
<1>3. o \in Call /\ o.stage = "plan" /\ SameOperation(op, o)
  BY DEF Call, Stages, SameOperation
<1>4. call' = [call EXCEPT ![k] = o]
  BY <1>2
<1> HIDE DEF o
<1>5. /\ call' \in [Calls -> Call] /\ call'[k] = o
      /\ \A j \in Calls \ {k} : Similar(call[j], call'[j])
  BY <1>3, <1>4, OneCallChanges DEF FilesInv
<1>6. /\ call[k].stage = "idle" /\ PlaceOK' /\ LedgerOK' /\ UnseenKept /\ told' = told
      /\ baseline' = baseline
  BY PlaceKept, LedgerKept, NothingReplaced DEF BeginGitignore, MayBegin, FilesInv
<1>7. \A s \in Steps : rpc[<<k, s>>] = Unasked
  BY <1>6, NotBegun
<1>8. MovesTo(<<k, "plan">>, Asked)
  BY <1>7, CallRequests DEF BeginGitignore, MovesTo, Moves
<1>9. /\ RpcNext
      /\ rpc'[<<k, "plan">>] = Asked
      /\ \A t \in Steps \ {"plan"} : rpc'[<<k, t>>] = rpc[<<k, t>>]
      /\ \A j \in Calls \ {k}, t \in Steps : rpc'[<<j, t>>] = rpc[<<j, t>>]
  BY <1>8, CallRequests, CallRequestMoves DEF FilesInv
<1>10. \A t \in Steps \ {"plan"} : rpc'[<<k, t>>] = Unasked
  BY <1>7, <1>9
<1>11. o.kind \in Changing
  BY <1>2, <1>3 DEF SameOperation, Changing
<1>12. CallAsked(k)'
  BY <1>3, <1>5, <1>9, <1>10, <1>11, CallRequests DEF CallAsked, Asked, Unasked
<1>13. OperationOK(call[k])'
  BY <1>2, <1>3, <1>5, <1>6, OperationKept
<1>14. CallsOK'
  BY <1>5, <1>6, <1>9, <1>12, <1>13, CallSteps DEF FilesInv
<1>15. BaselineOK'
  BY <1>6, <1>7, <1>9, <1>10, CallRequests, BaselineKept DEF FilesInv, BaselineOK
<1> QED
  BY <1>6, <1>9, <1>14, <1>15, RpcTypeKept DEF FilesInv

LEMMA PlanGitignoreKeeps ==
    ASSUME FilesInv, NEW k \in Calls, PlanGitignore(k)
    PROVE  RpcNext /\ FilesInv' /\ UnseenKept
<1>1. /\ call[k].stage = "plan" /\ call \in [Calls -> Call] /\ CallAsked(k)
      /\ OperationOK(call[k]) /\ Answerable(rpc[<<k, "plan">>]) /\ rpc[<<k, "plan">>] \in Rpc
  BY CallRequests DEF PlanGitignore, FilesInv, CallsOK, RpcTypeOK, Rpc
<1>2. /\ PlaceOK' /\ LedgerOK' /\ UnseenKept /\ told' = told
  BY PlaceKept, LedgerKept, NothingReplaced DEF PlanGitignore, FilesInv
<1>3. PICK next, settled :
        /\ next = Answered(rpc[<<k, "plan">>]) /\ settled = [rpc EXCEPT ![<<k, "plan">>] = next]
        /\ \/ Checkpointed(k, call[k], settled)
           \/ call' = Done(call, k) /\ rpc' = settled /\ UNCHANGED baseline
  BY DEF PlanGitignore
<1>4. Moves(rpc[<<k, "plan">>], next) /\ next.waiter = "answered" /\ next.work = "done"
  BY <1>1, <1>3 DEF Moves, Answered, Answerable, Rpc
<1>5. /\ \A t \in Following("plan") : rpc[<<k, t>>] = Unasked
      /\ call[k].kind \in Changing /\ "plan" \in Steps
  BY <1>1, CallRequests DEF CallAsked
<1>6. rpc[<<k, "baseline">>] = Unasked
  BY <1>5, CallRequests
<1>7. CASE Checkpointed(k, call[k], settled)
  <2>1. SettledBefore(k, "plan", next, settled)
    BY <1>3, <1>4, <1>6 DEF SettledBefore, Unasked
  <2>2. RpcNext /\ CallsOK' /\ BaselineOK'
    BY <1>1, <1>2, <1>5, <1>7, <2>1, CheckpointedKeeps
  <2> QED
    BY <1>2, <2>2, RpcTypeKept DEF FilesInv
<1>8. CASE call' = Done(call, k) /\ rpc' = settled /\ UNCHANGED baseline
  <2>1. MovesTo(<<k, "plan">>, next)
    BY <1>3, <1>4, <1>8 DEF MovesTo
  <2>2. /\ call' \in [Calls -> Call] /\ call'[k] = Over("done")
        /\ \A j \in Calls \ {k} : call'[j] = call[j]
    BY <1>1, <1>8, CallDone
  <2>3. \A j \in Calls \ {k} : Similar(call[j], call'[j])
    BY <1>1, <2>2, Alike
  <2>4. /\ RpcNext /\ CallsOK'
        /\ \A j \in Calls \ {k}, t \in Steps : rpc'[<<j, t>>] = rpc[<<j, t>>]
        /\ rpc'[<<k, "baseline">>] # Unasked => rpc[<<k, "baseline">>] # Unasked
    BY <1>1, <1>2, <1>4, <1>5, <2>1, <2>2, <2>3, EndKeeps
  <2>5. BaselineOK'
    BY <1>8, <2>4, BaselineKept DEF FilesInv, BaselineOK
  <2> QED
    BY <1>2, <2>4, <2>5, RpcTypeKept DEF FilesInv
<1> QED
  BY <1>3, <1>7, <1>8

LEMMA FinishCheckpointKeeps ==
    ASSUME FilesInv, NEW k \in Calls, FinishCheckpoint(k)
    PROVE  RpcNext /\ FilesInv' /\ UnseenKept
<1>1. /\ call[k].stage = "baseline" /\ call \in [Calls -> Call] /\ CallAsked(k)
      /\ OperationOK(call[k]) /\ rpc[<<k, "baseline">>] \in Rpc
  BY CallRequests DEF FinishCheckpoint, FilesInv, CallsOK, RpcTypeOK, Rpc
<1>2. /\ PlaceOK' /\ LedgerOK' /\ UnseenKept /\ told' = told
  BY PlaceKept, LedgerKept, NothingReplaced DEF FinishCheckpoint, FilesInv
<1>3. PICK next, settled :
        /\ \/ Answerable(rpc[<<k, "baseline">>]) /\ next = Answered(rpc[<<k, "baseline">>])
           \/ next = Failed(rpc[<<k, "baseline">>])
        /\ settled = [rpc EXCEPT ![<<k, "baseline">>] = next]
        /\ Proceed(k, call[k], settled)
        /\ baseline' \in {"made", "failed"}
  BY DEF FinishCheckpoint
<1>4. /\ rpc[<<k, "baseline">>].waiter = "waiting" /\ rpc[<<k, "fetch">>] = Unasked
      /\ rpc[<<k, "main">>] = Unasked /\ call[k].kind \in Changing
  BY <1>1, CallRequests DEF CallAsked
<1>5. Moves(rpc[<<k, "baseline">>], next) /\ next.waiter # "waiting"
  BY <1>1, <1>3, <1>4 DEF Moves, Answered, Failed, Rpc
<1>6. SettledBefore(k, "baseline", next, settled)
  BY <1>3, <1>4, <1>5 DEF SettledBefore, Unasked
<1>7. /\ RpcNext /\ CallsOK'
      /\ \A j \in Calls \ {k}, r \in Steps : rpc'[<<j, r>>] = rpc[<<j, r>>]
      /\ rpc'[<<k, "baseline">>] # Unasked => rpc[<<k, "baseline">>] # Unasked
  BY <1>1, <1>2, <1>3, <1>4, <1>6, ProceedKeeps
<1>8. BaselineOK'
  BY <1>3, <1>7, BaselineKept DEF FilesInv
<1> QED
  BY <1>2, <1>7, <1>8, RpcTypeKept DEF FilesInv

LEMMA FinishFetchKeeps ==
    ASSUME FilesInv, NEW k \in Calls, FinishFetch(k)
    PROVE  RpcNext /\ FilesInv' /\ UnseenKept
<1>1. /\ call[k].stage = "fetch" /\ call[k].kind = "write" /\ call \in [Calls -> Call]
      /\ CallAsked(k) /\ OperationOK(call[k])
      /\ Answerable(rpc[<<k, "fetch">>]) /\ rpc[<<k, "fetch">>] \in Rpc
  BY CallRequests DEF FinishFetch, FilesInv, CallsOK, RpcTypeOK, Rpc
<1>2. /\ PlaceOK' /\ LedgerOK' /\ UnseenKept /\ told' = told /\ baseline' = baseline
  BY FetchedPlace, LedgerKept, NothingReplaced DEF FinishFetch, FilesInv
<1>3. PICK next, settled, held :
        /\ next = Answered(rpc[<<k, "fetch">>]) /\ settled = [rpc EXCEPT ![<<k, "fetch">>] = next]
        /\ held = Rebased(k)
        /\ \/ call' = GivenUp(held, k, TRUE) /\ rpc' = settled
           \/ /\ call' = [held EXCEPT ![k].stage = "main"]
              /\ AsksNext(k, "main", settled)
  BY ZenonT(60) DEF FinishFetch, AsksNext
<1>4. Moves(rpc[<<k, "fetch">>], next) /\ next.waiter = "answered" /\ next.work = "done"
  BY <1>1, <1>3 DEF Moves, Answered, Answerable, Rpc
<1>5. held \in [Calls -> Call] /\ \A j \in Calls : Similar(call[j], held[j])
  BY <1>1, <1>3, RebasedAlike
<1>6. "fetch" \in Steps /\ rpc[<<k, "main">>] = Unasked /\ rpc[<<k, "baseline">>].waiter # "waiting"
  BY <1>1, CallRequests DEF CallAsked
<1>7. CASE call' = GivenUp(held, k, TRUE) /\ rpc' = settled
  <2>1. MovesTo(<<k, "fetch">>, next)
    BY <1>3, <1>4, <1>7 DEF MovesTo
  <2>2. /\ GivenUp(held, k, TRUE) \in [Calls -> Call]
        /\ GivenUp(held, k, TRUE)[k] = Over("failed")
        /\ \A j \in Calls \ {k} : GivenUp(held, k, TRUE)[j] = held[j]
    BY <1>5, CallGivenUp
  <2>3. /\ call' \in [Calls -> Call] /\ call'[k] = Over("failed")
        /\ \A j \in Calls \ {k} : Similar(call[j], call'[j])
    BY <1>5, <1>7, <2>2
  <2>4. /\ RpcNext /\ CallsOK'
        /\ \A j \in Calls \ {k}, t \in Steps : rpc'[<<j, t>>] = rpc[<<j, t>>]
        /\ rpc'[<<k, "baseline">>] # Unasked => rpc[<<k, "baseline">>] # Unasked
    BY <1>1, <1>2, <1>4, <1>6, <2>1, <2>3, EndKeeps
  <2>5. BaselineOK'
    BY <1>2, <2>4, BaselineKept DEF FilesInv, BaselineOK
  <2> QED
    BY <1>2, <2>4, <2>5, RpcTypeKept DEF FilesInv
<1>8. CASE /\ call' = [held EXCEPT ![k].stage = "main"]
           /\ AsksNext(k, "main", settled)
  <2> DEFINE o == [held[k] EXCEPT !.stage = "main"]
  <2>1. o \in Call /\ o.stage = "main" /\ SameOperation(call[k], o)
    <3>1. held[k] \in Call /\ SameOperation(call[k], held[k])
      BY <1>5 DEF Similar
    <3>2. o \in Call /\ o.stage = "main" /\ SameOperation(held[k], o)
      BY <3>1 DEF SameOperation, Call, Stages
    <3> HIDE DEF o
    <3> QED
      BY <3>1, <3>2 DEF SameOperation
  <2>2. call' = [held EXCEPT ![k] = o]
    BY <1>5, <1>8
  <2> HIDE DEF o
  <2>3. /\ call' \in [Calls -> Call] /\ call'[k] = o
        /\ \A j \in Calls \ {k} : Similar(call[j], call'[j])
    BY <1>5, <2>1, <2>2
  <2>4. OperationOK(o) /\ o.kind \in Changing
    BY <1>1, <2>1 DEF SameOperation, OperationOK, Updates, Changing
  <2>5. /\ SettledBefore(k, "fetch", next, settled) /\ "main" \in Following("fetch")
        /\ \A r \in Following("main") : rpc[<<k, r>>] = Unasked
        /\ AsksNext(k, "main", settled)
    BY <1>3, <1>4, <1>6, <1>8, CallRequests DEF SettledBefore
  <2>6. /\ RpcNext /\ CallsOK'
        /\ \A j \in Calls \ {k}, r \in Steps : rpc'[<<j, r>>] = rpc[<<j, r>>]
        /\ rpc'[<<k, "baseline">>] # Unasked => rpc[<<k, "baseline">>] # Unasked
    BY <1>2, <1>6, <2>1, <2>3, <2>4, <2>5, AskKeeps, CallRequests
  <2>7. BaselineOK'
    BY <1>2, <2>6, BaselineKept DEF FilesInv, BaselineOK
  <2> QED
    BY <1>2, <2>6, <2>7, RpcTypeKept DEF FilesInv
<1> QED
  BY <1>3, <1>7, <1>8

-----------------------------------------------------------------------------
\* The desktop does what call k asked of it in its request s.
Performs(k, s) ==
    /\ rpc[<<k, s>>].work = "sent"
    /\ rpc' = [rpc EXCEPT ![<<k, s>>] = Performed(@)]

LEMMA PerformedKeeps ==
    ASSUME FilesInv, NEW k \in Calls, NEW s \in Steps, Performs(k, s),
           told' = told, baseline' = baseline, call' \in [Calls -> Call],
           \A j \in Calls \ {k} : Similar(call[j], call'[j]),
           OperationOK(call[k])', call'[k].stage = call[k].stage,
           call'[k].kind = call[k].kind \/ (s = "main" /\ call[k].stage = "failed")
    PROVE  /\ RpcNext /\ CallsOK' /\ BaselineOK'
           /\ \A j \in Calls \ {k}, t \in Steps : rpc'[<<j, t>>] = rpc[<<j, t>>]
           /\ rpc'[<<k, s>>].work = "done"
<1>1. rpc[<<k, s>>] \in Rpc /\ CallAsked(k)
  BY CallRequests DEF FilesInv, RpcTypeOK, Rpc, CallsOK
<1>2. PICK next : next = Performed(rpc[<<k, s>>]) /\ rpc' = [rpc EXCEPT ![<<k, s>>] = next]
  BY DEF Performs
<1>3. /\ MovesTo(<<k, s>>, next) /\ next.waiter = rpc[<<k, s>>].waiter /\ next.work = "done"
      /\ rpc[<<k, s>>] # Unasked
  BY <1>1, <1>2 DEF Performs, MovesTo, Moves, Performed, Rpc, Unasked
<1>4. /\ RpcNext
      /\ rpc'[<<k, s>>] = next
      /\ \A t \in Steps \ {s} : rpc'[<<k, t>>] = rpc[<<k, t>>]
      /\ \A j \in Calls \ {k}, t \in Steps : rpc'[<<j, t>>] = rpc[<<j, t>>]
  BY <1>3, CallRequestMoves DEF FilesInv
<1>5. \A t \in Steps :
          /\ rpc'[<<k, t>>].waiter = rpc[<<k, t>>].waiter
          /\ rpc[<<k, t>>] = Unasked => rpc'[<<k, t>>] = Unasked
          /\ rpc'[<<k, t>>].work = "sent" => t # s /\ rpc[<<k, t>>].work = "sent"
          /\ rpc'[<<k, t>>] # Unasked => rpc[<<k, t>>] # Unasked
  BY <1>3, <1>4
<1>6. CallAsked(k)'
  <2>1. call[k].stage \in Steps => Following(call[k].stage) \subseteq Steps
    BY CallRequests
  <2>2. call[k].stage \in {"plan", "baseline"} => call'[k].kind = call[k].kind
    OBVIOUS
  <2>3. rpc'[<<k, "main">>].work = "sent" => call'[k].kind = call[k].kind
    BY <1>5, CallRequests
  <2> QED
    BY SMTT(30), <1>1, <1>5, <2>1, <2>2, <2>3, CallRequests DEF CallAsked
<1>7. CallsOK'
  BY <1>4, <1>6, CallSteps DEF FilesInv
<1>8. BaselineOK'
  BY <1>4, <1>5, BaselineKept, CallRequests DEF FilesInv, BaselineOK
<1> QED
  BY <1>3, <1>4, <1>7, <1>8

LEMMA DesktopReadsKeeps ==
    ASSUME FilesInv, NEW k \in Calls, DesktopReads(k)
    PROVE  RpcNext /\ FilesInv' /\ UnseenKept
<1>1. /\ PlaceOK' /\ LedgerOK' /\ UnseenKept /\ told' = told /\ baseline' = baseline
  BY PlaceKept, LedgerKept, NothingReplaced DEF DesktopReads, FilesInv
<1>2. call[k] \in Call /\ OperationOK(call[k]) /\ live \in [Paths -> File]
  BY DEF FilesInv, CallsOK, PlaceOK
<1> DEFINE result == [p \in Paths |-> IF p \in call[k].asked THEN live[p] ELSE NoFile]
           o == [call[k] EXCEPT !.result = result]
<1>3. result \in [Paths -> File]
  BY <1>2, FilesNames
<1>4. call' = [call EXCEPT ![k] = o]
  BY DEF DesktopReads
<1> HIDE DEF result
<1>5. o \in Call /\ o.stage = call[k].stage /\ SameOperation(call[k], o)
  BY <1>2, <1>3 DEF Call, SameOperation
<1> HIDE DEF o
<1>6. /\ call' \in [Calls -> Call] /\ call'[k] = o
      /\ \A j \in Calls \ {k} : Similar(call[j], call'[j])
  BY <1>4, <1>5, OneCallChanges DEF FilesInv
<1>7. OperationOK(call[k])' /\ call'[k].kind = call[k].kind
  BY <1>1, <1>2, <1>5, <1>6, OperationKept DEF SameOperation
<1>8. "fetch" \in Steps /\ Performs(k, "fetch")
  BY CallRequests DEF DesktopReads, Asked, Performs
<1>9. RpcNext /\ CallsOK' /\ BaselineOK'
  <2>1. call'[k].stage = call[k].stage
    BY <1>5, <1>6
  <2> QED
    BY <1>1, <1>6, <1>7, <1>8, <2>1, PerformedKeeps, CallRequests
<1> QED
  BY <1>1, <1>9, RpcTypeKept DEF FilesInv

LEMMA DesktopPreparesKeeps ==
    ASSUME FilesInv, NEW k \in Calls, NEW step \in {"plan", "baseline"}, DesktopPrepares(k, step)
    PROVE  RpcNext /\ FilesInv' /\ UnseenKept
<1>1. /\ PlaceOK' /\ LedgerOK' /\ UnseenKept /\ told' = told /\ baseline' = baseline /\ call' = call
  BY PlaceKept, LedgerKept, NothingReplaced DEF DesktopPrepares, FilesInv, fileVars
<1>2. call \in [Calls -> Call] /\ OperationOK(call[k]) /\ SameOperation(call[k], call[k])
  BY DEF FilesInv, CallsOK, SameOperation
<1>3. /\ call' \in [Calls -> Call] /\ OperationOK(call[k])'
      /\ \A j \in Calls \ {k} : Similar(call[j], call'[j])
  BY <1>1, <1>2, Alike, OperationKept
<1>4. step \in Steps /\ Performs(k, step)
  BY CallRequests DEF DesktopPrepares, Asked, Performs
<1>5. RpcNext /\ CallsOK' /\ BaselineOK'
  BY <1>1, <1>3, <1>4, PerformedKeeps, CallRequests
<1> QED
  BY <1>1, <1>5, RpcTypeKept DEF FilesInv

\* The desktop changes files for call k: what is said of it is what its request asked.
LEMMA DesktopChangeKeeps ==
    ASSUME FilesInv, NEW k \in Calls, Performs(k, "main"), PlaceOK',
           told' = told, ledger' = ledger, baseline' = baseline,
           NEW o \in Call, o.stage = call[k].stage, o.kind = call[k].kind,
           o.kind # "delete" => o.text \in Texts,
           o.by = call[k].by, o.paths = call[k].paths, o.quoted = call[k].quoted,
           \/ call' = [call EXCEPT ![k] = o]
           \/ call[k].stage = "failed" /\ call' = GivenUp(call, k, TRUE)
    PROVE  /\ RpcNext /\ FilesInv'
           /\ \A j \in Calls \ {k} : rpc'[<<j, "main">>] = rpc[<<j, "main">>]
<1>1. call \in [Calls -> Call] /\ OperationOK(call[k]) /\ LedgerOK'
  BY LedgerKept DEF FilesInv, CallsOK
<1>2. /\ call' \in [Calls -> Call]
      /\ \A j \in Calls \ {k} : Similar(call[j], call'[j])
      /\ OperationOK(call[k])' /\ call'[k].stage = call[k].stage
      /\ call'[k].kind = call[k].kind \/ call[k].stage = "failed"
  <2>1. CASE call' = [call EXCEPT ![k] = o]
    <3>1. /\ call' \in [Calls -> Call] /\ call'[k] = o
          /\ \A j \in Calls \ {k} : Similar(call[j], call'[j])
      BY <2>1, OneCallChanges DEF FilesInv
    <3>2. OperationOK(call[k])'
      BY <1>1, <3>1 DEF OperationOK, Updates
    <3> QED
      BY <3>1, <3>2
  <2>2. CASE call[k].stage = "failed" /\ call' = GivenUp(call, k, TRUE)
    <3>1. /\ call' \in [Calls -> Call] /\ call'[k] = Over("failed")
          /\ \A j \in Calls \ {k} : call'[j] = call[j]
      BY <1>1, <2>2, CallGivenUp
    <3>2. OperationOK(Over("failed"))' /\ Over("failed").stage = "failed"
      BY EndedCall
    <3>3. OperationOK(call[k])'
      BY <3>1, <3>2 DEF OperationOK
    <3> QED
      BY <1>1, <2>2, <3>1, <3>2, <3>3, Alike
  <2> QED
    BY <2>1, <2>2
<1>3. /\ RpcNext /\ CallsOK' /\ BaselineOK'
      /\ \A j \in Calls \ {k}, t \in Steps : rpc'[<<j, t>>] = rpc[<<j, t>>]
  <2>1. "main" \in Steps
    BY CallRequests
  <2> QED
    BY <1>2, <2>1, PerformedKeeps
<1>4. \A j \in Calls \ {k} : rpc'[<<j, "main">>] = rpc[<<j, "main">>]
  BY <1>3, CallRequests
<1> QED
  BY <1>1, <1>3, <1>4, RpcTypeKept DEF FilesInv

LEMMA DesktopWritesKeeps ==
    ASSUME FilesInv, NEW k \in Calls, DesktopWrites(k)
    PROVE  RpcNext /\ FilesInv' /\ UnseenKept
<1>1. /\ call[k] \in Call /\ OperationOK(call[k]) /\ CallAsked(k)
      /\ live \in [Paths -> File] /\ Performs(k, "main")
      /\ told' = told /\ ledger' = ledger /\ baseline' = baseline
  BY DEF DesktopWrites, Performs, FilesInv, CallsOK, PlaceOK
<1>2. call[k].kind \in {"write", "edit", "gitignore", "delete"}
  BY <1>1 DEF DesktopWrites, Performs, CallAsked, Changing
<1>3. PICK ps, text :
        /\ [ps |-> ps, text |-> text] \in Outcomes(call[k])
        /\ live' = [p \in Paths |-> IF p \in ps THEN [text |-> text, unsaved |-> FALSE]
                                    ELSE live[p]]
        /\ \/ call[k].stage = "failed" /\ call' = GivenUp(call, k, TRUE)
           \/ call' = [call EXCEPT ![k].applied = ps,
                                   ![k].text = IF ps = {} THEN NoCall.text ELSE text]
  <2>1. PICK done \in Outcomes(call[k]) :
          /\ live' = [p \in Paths |->
                         IF p \in done.ps THEN [text |-> done.text, unsaved |-> FALSE]
                         ELSE live[p]]
          /\ call' = IF call[k].stage = "failed"
                     THEN GivenUp(call, k, TRUE)
                     ELSE [call EXCEPT ![k].applied = done.ps,
                                       ![k].text = IF done.ps = {} THEN NoCall.text
                                                   ELSE done.text]
    BY DEF DesktopWrites
  <2>2. done = [ps |-> done.ps, text |-> done.text]
    BY <1>2, <2>1 DEF Outcomes
  <2> QED
    BY <2>1, <2>2
<1>4. /\ ps \subseteq Paths /\ text \in Texts \cup {NoText}
      /\ call[k].kind # "delete" => text \in Texts
      /\ call[k].kind = "write" => ps \subseteq Writable(call[k])
  <2>1. call[k].paths \subseteq Paths
    BY <1>1 DEF Call
  <2>2. CASE call[k].kind = "write"
    BY <1>1, <1>3, <2>1, <2>2 DEF Outcomes, Writable, OperationOK
  <2>3. CASE call[k].kind = "edit"
    BY <1>3, <2>1, <2>3 DEF Outcomes
  <2>4. CASE call[k].kind = "gitignore"
    BY <1>3, <2>1, <2>4 DEF Outcomes
  <2>5. CASE call[k].kind = "delete"
    BY <1>3, <2>1, <2>5 DEF Outcomes
  <2> QED
    BY <1>2, <2>2, <2>3, <2>4, <2>5
<1>5. PlaceOK'
  <2>1. [text |-> text, unsaved |-> FALSE] \in File
    BY <1>4 DEF File
  <2>2. live' \in [Paths -> File]
    BY <1>1, <1>3, <2>1
  <2> QED
    BY <2>2 DEF DesktopWrites, FilesInv, PlaceOK
<1> DEFINE new == IF ps = {} THEN NoCall.text ELSE text
           o == [call[k] EXCEPT !.applied = ps, !.text = new]
<1>6. new \in Texts \cup {NoText} /\ (call[k].kind # "delete" => new \in Texts)
  BY <1>4, FilesNames
<1>7. \/ call' = [call EXCEPT ![k] = o]
      \/ call[k].stage = "failed" /\ call' = GivenUp(call, k, TRUE)
  BY <1>3
<1> HIDE DEF new
<1>8. /\ o \in Call /\ o.stage = call[k].stage /\ o.kind = call[k].kind /\ o.by = call[k].by
      /\ o.paths = call[k].paths /\ o.quoted = call[k].quoted
      /\ o.kind # "delete" => o.text \in Texts
  BY <1>1, <1>4, <1>6 DEF Call
<1> HIDE DEF o
<1>9. /\ RpcNext /\ FilesInv'
      /\ \A j \in Calls \ {k} : rpc'[<<j, "main">>] = rpc[<<j, "main">>]
  BY <1>1, <1>5, <1>7, <1>8, DesktopChangeKeeps
<1>10. UnseenKept
  <2> SUFFICES ASSUME NEW j \in Calls, NEW p \in Paths, Replaces(j, p),
                      call[j].base[p] = call[j].quoted[p]
               PROVE  <<call[j].by, p, live[p].text>> \in told
    BY DEF UnseenKept
  <2>1. j = k
    BY <1>9 DEF Replaces
  <2>2. p \in ps
    BY <1>3 DEF Replaces
  <2>3. live[p].text = call[k].quoted[p] /\ call[k].kind = "write" /\ p \in Updates(call[k])
    BY <1>4, <2>1, <2>2 DEF Replaces, Writable
  <2> QED
    BY <1>1, <2>1, <2>3 DEF OperationOK
<1> QED
  BY <1>9, <1>10

LEMMA DesktopMovesKeeps ==
    ASSUME FilesInv, NEW k \in Calls, DesktopMoves(k)
    PROVE  RpcNext /\ FilesInv' /\ UnseenKept
<1>1. /\ call[k] \in Call /\ OperationOK(call[k]) /\ call[k].kind = "move"
      /\ live \in [Paths -> File] /\ Performs(k, "main")
      /\ told' = told /\ ledger' = ledger /\ baseline' = baseline
  BY DEF DesktopMoves, Performs, FilesInv, CallsOK, PlaceOK
<1>2. PICK p \in call[k].paths :
        /\ live[p].text # NoText
        /\ live' = [live EXCEPT ![call[k].to] = live[p], ![p] = NoFile]
        /\ call' = IF call[k].stage = "failed"
                   THEN GivenUp(call, k, TRUE)
                   ELSE [call EXCEPT ![k].text = live[p].text]
  BY DEF DesktopMoves
<1>3. p \in Paths /\ live[p] \in File /\ live[p].text \in Texts
  BY <1>1, <1>2 DEF Call, File
<1>4. PlaceOK'
  <2>1. live' \in [Paths -> File]
    BY <1>1, <1>2, <1>3, FilesNames
  <2> QED
    BY <2>1 DEF DesktopMoves, FilesInv, PlaceOK
<1> DEFINE text == live[p].text
           o == [call[k] EXCEPT !.text = text]
<1>5. \/ call' = [call EXCEPT ![k] = o]
      \/ call[k].stage = "failed" /\ call' = GivenUp(call, k, TRUE)
  BY <1>2
<1>6. text \in Texts
  BY <1>3
<1> HIDE DEF text
<1>7. /\ o \in Call /\ o.stage = call[k].stage /\ o.kind = call[k].kind /\ o.by = call[k].by
      /\ o.paths = call[k].paths /\ o.quoted = call[k].quoted /\ o.text \in Texts
  BY <1>1, <1>6 DEF Call
<1> HIDE DEF o
<1>8. /\ RpcNext /\ FilesInv'
      /\ \A j \in Calls \ {k} : rpc'[<<j, "main">>] = rpc[<<j, "main">>]
  BY <1>1, <1>4, <1>5, <1>7, DesktopChangeKeeps
<1>9. UnseenKept
  BY <1>1, <1>8 DEF UnseenKept, Replaces
<1> QED
  BY <1>8, <1>9

-----------------------------------------------------------------------------
(* The answers. *)

\* Call k is over once its last request was answered; the entries of these paths are new.
LEMMA AnsweredKeeps ==
    ASSUME FilesInv, NEW k \in Calls, call[k].stage = "main",
           Answerable(rpc[<<k, "main">>]),
           rpc' = [rpc EXCEPT ![<<k, "main">>] = Answered(@)],
           NEW ps, call' = Done(Unlinked(call, ps), k),
           PlaceOK', LedgerOK', told \subseteq told', UNCHANGED <<live, baseline>>
    PROVE  RpcNext /\ FilesInv' /\ UnseenKept
<1>1. call \in [Calls -> Call] /\ rpc[<<k, "main">>] \in Rpc /\ "main" \in Steps
  BY CallRequests DEF FilesInv, CallsOK, RpcTypeOK, Rpc
<1>2. PICK next : next = Answered(rpc[<<k, "main">>]) /\ rpc' = [rpc EXCEPT ![<<k, "main">>] = next]
  OBVIOUS
<1>3. MovesTo(<<k, "main">>, next) /\ next.waiter = "answered" /\ next.work = "done"
  BY <1>1, <1>2 DEF MovesTo, Moves, Answered, Answerable, Rpc
<1>4. /\ Unlinked(call, ps) \in [Calls -> Call]
      /\ \A j \in Calls : Similar(call[j], Unlinked(call, ps)[j])
  BY <1>1, UnlinkedAlike
<1>5. /\ call' \in [Calls -> Call] /\ call'[k] = Over("done")
      /\ \A j \in Calls \ {k} : call'[j] = Unlinked(call, ps)[j]
  BY <1>4, CallDone
<1>6. \A j \in Calls \ {k} : Similar(call[j], call'[j])
  BY <1>4, <1>5
<1>7. /\ RpcNext /\ CallsOK'
      /\ \A j \in Calls \ {k}, t \in Steps : rpc'[<<j, t>>] = rpc[<<j, t>>]
      /\ rpc'[<<k, "baseline">>] # Unasked => rpc[<<k, "baseline">>] # Unasked
  BY <1>1, <1>3, <1>5, <1>6, EndKeeps
<1>8. BaselineOK' /\ UnseenKept
  BY <1>7, BaselineKept, NothingReplaced DEF FilesInv, BaselineOK
<1> QED
  BY <1>7, <1>8, RpcTypeKept DEF FilesInv

LEMMA AppliedKeeps ==
    ASSUME FilesInv, NEW k \in Calls, call[k].kind # "delete",
           NEW contents \in [Paths -> SUBSET Texts], Applied(k, contents)
    PROVE  RpcNext /\ FilesInv' /\ UnseenKept
<1>1. /\ call[k] \in Call /\ call[k].text \in Texts
  BY DEF FilesInv, CallsOK, OperationOK
<1> DEFINE o == call[k]
           entry == [revision |-> o.text, dirty |-> FALSE]
           notes == [p \in o.applied |-> o.text]
<1>2. /\ index' = [p \in Paths |-> IF p \in o.applied THEN entry ELSE index[p]]
      /\ Noted(o.by, notes)
      /\ told' = told \cup {<<o.by, p, o.text>> : p \in o.applied}
      /\ call' = Done(Unlinked(call, o.applied), k)
      /\ rpc' = [rpc EXCEPT ![<<k, "main">>] = Answered(@)]
      /\ cached' = contents
      /\ UNCHANGED <<live, edits, indexed, baseline>>
      /\ call[k].stage = "main" /\ Answerable(rpc[<<k, "main">>])
  BY DEF Applied
<1>3. o.applied \subseteq Paths /\ o.by \in Clients
  BY <1>1 DEF Call
<1>4. PlaceOK'
  <2>1. entry \in Entry
    BY <1>1 DEF Entry
  <2> HIDE DEF entry
  <2>2. index' \in [Paths -> Entry]
    BY <1>2, <2>1 DEF FilesInv, PlaceOK
  <2> QED
    BY <1>2, <2>2 DEF FilesInv, PlaceOK
<1>5. told \subseteq told' /\ told' \subseteq Clients \X Paths \X Texts
  BY <1>1, <1>2, <1>3 DEF FilesInv, LedgerOK
<1>6. LedgerOK'
  <2>1. \A p \in Paths \cap DOMAIN notes :
            notes[p] # NoText => notes[p] \in Texts /\ <<o.by, p, notes[p]>> \in told'
    BY <1>1, <1>2
  <2> HIDE DEF notes
  <2> QED
    BY <1>2, <1>3, <1>5, <2>1, NotedKeeps DEF FilesInv
<1> HIDE DEF notes, entry
<1> QED
  BY <1>2, <1>4, <1>5, <1>6, AnsweredKeeps

LEMMA WithoutFilesTyped ==
    ASSUME PlaceOK, NEW ps
    PROVE  WithoutFiles(ps) \in [Paths -> SUBSET Texts]
BY DEF PlaceOK, WithoutFiles

LEMMA FinishAppliedKeeps ==
    ASSUME FilesInv, NEW k \in Calls, FinishWrite(k) \/ FinishEdit(k) \/ FinishGitignore(k)
    PROVE  RpcNext /\ FilesInv' /\ UnseenKept
<1>1. CASE FinishWrite(k)
  <2> DEFINE contents == [p \in Paths |->
                 IF p \in call[k].applied THEN cached[p] \cup {call[k].text} ELSE cached[p]]
  <2>1. call[k].text \in Texts /\ call[k].kind # "delete"
    BY <1>1 DEF FinishWrite, FilesInv, CallsOK, OperationOK
  <2>2. contents \in [Paths -> SUBSET Texts]
    BY <2>1 DEF FilesInv, PlaceOK
  <2>3. Applied(k, contents)
    BY <1>1 DEF FinishWrite
  <2> HIDE DEF contents
  <2> QED
    BY <2>1, <2>2, <2>3, AppliedKeeps
<1>2. CASE FinishEdit(k)
  BY <1>2, AppliedKeeps, WithoutFilesTyped DEF FinishEdit, FilesInv
<1>3. CASE FinishGitignore(k)
  BY <1>3, AppliedKeeps, WithoutFilesTyped DEF FinishGitignore, FilesInv
<1> QED
  BY <1>1, <1>2, <1>3

LEMMA FinishDeleteKeeps ==
    ASSUME FilesInv, NEW k \in Calls, FinishDelete(k)
    PROVE  RpcNext /\ FilesInv' /\ UnseenKept
<1> DEFINE o == call[k]
           notes == [p \in o.applied |-> NoText]
<1>1. o.by \in Clients
  BY DEF FilesInv, CallsOK, Call
<1>2. /\ index' = [p \in Paths |-> IF p \in o.applied THEN NoEntry ELSE index[p]]
      /\ Noted(o.by, notes) /\ told' = told
      /\ call' = Done(Unlinked(call, o.applied), k)
      /\ rpc' = [rpc EXCEPT ![<<k, "main">>] = Answered(@)]
      /\ cached' = WithoutFiles(o.applied)
      /\ UNCHANGED <<live, edits, indexed, baseline>>
      /\ call[k].stage = "main" /\ Answerable(rpc[<<k, "main">>])
  BY DEF FinishDelete
<1>3. PlaceOK'
  <2>1. index' \in [Paths -> Entry]
    BY <1>2, FilesNames DEF FilesInv, PlaceOK
  <2> QED
    BY <1>2, <2>1, WithoutFilesTyped DEF FilesInv, PlaceOK
<1>4. LedgerOK'
  <2>1. \A p \in Paths \cap DOMAIN notes :
            notes[p] # NoText => notes[p] \in Texts /\ <<o.by, p, notes[p]>> \in told'
    OBVIOUS
  <2>2. told \subseteq told' /\ told' \subseteq Clients \X Paths \X Texts
    BY <1>2 DEF FilesInv, LedgerOK
  <2> HIDE DEF notes
  <2> QED
    BY <1>1, <1>2, <2>1, <2>2, NotedKeeps DEF FilesInv
<1> HIDE DEF notes
<1> QED
  BY <1>2, <1>3, <1>4, AnsweredKeeps

LEMMA FinishMoveKeeps ==
    ASSUME FilesInv, NEW k \in Calls, FinishMove(k)
    PROVE  RpcNext /\ FilesInv' /\ UnseenKept
<1> DEFINE o == call[k]
<1>1. o \in Call /\ o.by \in Clients /\ o.to \in Paths /\ o.paths \subseteq Paths
  BY DEF FilesInv, CallsOK, Call
<1>2. o.text \in Texts /\ call[k].stage = "main" /\ Answerable(rpc[<<k, "main">>])
  BY DEF FinishMove, FilesInv, CallsOK, OperationOK
<1>3. PICK p \in o.paths :
        /\ index' = IF Exists(p) THEN [index EXCEPT ![o.to] = index[p], ![p] = NoEntry]
                    ELSE index
        /\ cached' = WithoutFiles({p})
        /\ Noted(o.by, [q \in {p, o.to} |-> IF q = p THEN NoText ELSE o.text])
        /\ Told(o.by, o.to, o.text)
        /\ call' = Done(Unlinked(call, {p, o.to}), k)
  BY DEF FinishMove
<1>4. /\ rpc' = [rpc EXCEPT ![<<k, "main">>] = Answered(@)]
      /\ UNCHANGED <<live, edits, indexed, baseline>>
  BY DEF FinishMove
<1>5. PlaceOK'
  <2>1. index' \in [Paths -> Entry]
    BY <1>1, <1>3, FilesNames DEF FilesInv, PlaceOK
  <2> QED
    BY <1>3, <1>4, <2>1, WithoutFilesTyped DEF FilesInv, PlaceOK
<1>6. told \subseteq told' /\ told' \subseteq Clients \X Paths \X Texts /\ <<o.by, o.to, o.text>> \in told'
  BY <1>1, <1>2, <1>3 DEF Told, FilesInv, LedgerOK
<1>7. LedgerOK'
  <2> DEFINE notes == [q \in {p, o.to} |-> IF q = p THEN NoText ELSE o.text]
  <2>1. \A q \in Paths \cap DOMAIN notes :
            notes[q] # NoText => notes[q] \in Texts /\ <<o.by, q, notes[q]>> \in told'
    BY <1>2, <1>6
  <2>2. Noted(o.by, notes)
    BY <1>3
  <2> HIDE DEF notes
  <2> QED
    BY <1>1, <1>6, <2>1, <2>2, NotedKeeps DEF FilesInv
<1>8. PICK ps : call' = Done(Unlinked(call, ps), k)
  BY <1>3
<1> QED
  BY <1>2, <1>4, <1>5, <1>6, <1>7, <1>8, AnsweredKeeps

\* Of a call that failed only what the desktop may still do is kept.
LEMMA FailCallKeeps ==
    ASSUME FilesInv, NEW k \in Calls, FailCall(k)
    PROVE  RpcNext /\ FilesInv' /\ UnseenKept
<1> DEFINE s == call[k].stage
<1>1. /\ s \in {"plan", "fetch", "main"} /\ call \in [Calls -> Call] /\ CallAsked(k)
      /\ OperationOK(call[k]) /\ rpc[<<k, s>>] \in Rpc /\ s \in Steps
  BY CallRequests DEF FailCall, FilesInv, CallsOK, RpcTypeOK, Rpc
<1>2. /\ PlaceOK' /\ LedgerOK' /\ UnseenKept /\ told' = told /\ baseline' = baseline
  BY PlaceKept, LedgerKept, NothingReplaced DEF FailCall, FilesInv
<1>3. PICK next : next = Failed(rpc[<<k, s>>]) /\ rpc' = [rpc EXCEPT ![<<k, s>>] = next]
  BY DEF FailCall
<1>4. /\ MovesTo(<<k, s>>, next) /\ next.waiter = "failed" /\ next.work = rpc[<<k, s>>].work
      /\ rpc[<<k, s>>].waiter = "waiting"
  BY <1>1, <1>3 DEF CallAsked, MovesTo, Moves, Failed, Rpc
<1>5. CASE s # "main" \/ rpc[<<k, "main">>].work = "done"
  <2>1. call' = GivenUp(call, k, TRUE)
    BY <1>5 DEF FailCall, GivenUp
  <2>2. /\ call' \in [Calls -> Call] /\ call'[k] = Over("failed")
        /\ \A j \in Calls \ {k} : call'[j] = call[j]
    BY <1>1, <2>1, CallGivenUp
  <2>3. \A j \in Calls \ {k} : Similar(call[j], call'[j])
    BY <1>1, <2>2, Alike
  <2>4. next.work # "sent" \/ s # "main"
    BY <1>4, <1>5
  <2>5. /\ RpcNext /\ CallsOK'
        /\ \A j \in Calls \ {k}, t \in Steps : rpc'[<<j, t>>] = rpc[<<j, t>>]
        /\ rpc'[<<k, "baseline">>] # Unasked => rpc[<<k, "baseline">>] # Unasked
    BY <1>1, <1>2, <1>4, <2>2, <2>3, <2>4, EndKeeps
  <2>6. BaselineOK'
    BY <1>2, <2>5, BaselineKept DEF FilesInv, BaselineOK
  <2> QED
    BY <1>2, <2>5, <2>6, RpcTypeKept DEF FilesInv
<1>6. CASE s = "main" /\ rpc[<<k, "main">>].work # "done"
  <2> DEFINE o == [call[k] EXCEPT !.stage = "failed"]
  <2>1. call' = [call EXCEPT ![k] = o]
    BY <1>6 DEF FailCall, GivenUp
  <2>2. o \in Call /\ o.stage = "failed" /\ SameOperation(call[k], o)
    BY ZenonT(60), <1>1 DEF Call, Stages, SameOperation
  <2> HIDE DEF o
  <2>3. /\ call' \in [Calls -> Call] /\ call'[k] = o
        /\ \A j \in Calls \ {k} : Similar(call[j], call'[j])
    BY <2>1, <2>2, OneCallChanges DEF FilesInv
  <2>4. OperationOK(call[k])'
    BY <1>1, <1>2, <2>2, <2>3, OperationKept
  <2>5. /\ RpcNext
        /\ rpc'[<<k, s>>] = next
        /\ \A t \in Steps \ {s} : rpc'[<<k, t>>] = rpc[<<k, t>>]
        /\ \A j \in Calls \ {k}, t \in Steps : rpc'[<<j, t>>] = rpc[<<j, t>>]
    BY <1>1, <1>4, CallRequestMoves DEF FilesInv
  <2>6. rpc'[<<k, "baseline">>] = rpc[<<k, "baseline">>] /\ rpc[<<k, "baseline">>].waiter # "waiting"
    BY <1>1, <1>6, <2>5, CallRequests DEF CallAsked
  <2>7. rpc'[<<k, "main">>].work = "sent" => o.kind \in Changing
    BY <1>1, <1>4, <1>6, <2>2, <2>5 DEF CallAsked, SameOperation
  <2>8. CallAsked(k)'
    BY <2>2, <2>3, <2>6, <2>7, CallRequests DEF CallAsked
  <2>9. CallsOK' /\ BaselineOK'
    BY <1>2, <2>3, <2>4, <2>5, <2>6, <2>8, CallSteps, BaselineKept DEF FilesInv, BaselineOK
  <2> QED
    BY <1>2, <2>5, <2>9, RpcTypeKept DEF FilesInv
<1> QED
  BY <1>5, <1>6

-----------------------------------------------------------------------------
\* Steps of the user, the desktop's events, the cache and the sweep of the ledgers.
LEMMA SurroundingsKeep ==
    ASSUME FilesInv, rpc' = rpc, baseline' = baseline, told' = told, PlaceOK', LedgerOK',
           \/ call' = call
           \/ \E ps : call' = Unlinked(call, ps)
    PROVE  RpcNext /\ FilesInv' /\ UnseenKept
<1>1. call \in [Calls -> Call]
  BY DEF FilesInv, CallsOK
<1>2. call' \in [Calls -> Call] /\ \A k \in Calls : Similar(call[k], call'[k])
  BY <1>1, Alike, UnlinkedAlike
<1>3. CallsOK'
  BY <1>2, CallsKept DEF FilesInv
<1>4. RpcNext /\ UnseenKept /\ BaselineOK'
  BY NoneMoves, NothingReplaced DEF FilesInv, BaselineOK
<1> QED
  BY <1>3, <1>4, RpcTypeKept DEF FilesInv

LEMMA PlaceChangesKeep ==
    ASSUME FilesInv,
           Evict \/ UserChanges \/ FileChanged \/ EditorState \/ ResetIndex \/ CompleteIndex
    PROVE  RpcNext /\ FilesInv' /\ UnseenKept
<1>1. PlaceOK /\ LedgerOK /\ \A p \in Paths : EntryOf(live[p]) \in Entry
  BY EntriesTyped DEF FilesInv, PlaceOK
<1>2. rpc' = rpc /\ baseline' = baseline /\ told' = told /\ LedgerOK'
  BY <1>1, LedgerKept DEF Evict, UserChanges, FileChanged, EditorState, ResetIndex, CompleteIndex
<1>3. \/ call' = call
      \/ \E ps : call' = Unlinked(call, ps)
  BY DEF Evict, UserChanges, FileChanged, EditorState, ResetIndex, CompleteIndex
<1>4. CASE Evict
  <2>1. PlaceOK'
    BY <1>1, <1>4 DEF Evict, PlaceOK
  <2> QED
    BY <1>2, <1>3, <2>1, SurroundingsKeep
<1>5. CASE UserChanges
  <2>1. live' \in [Paths -> File]
    BY <1>1, <1>5, FilesNames DEF UserChanges, PlaceOK
  <2>2. edits' \in 0..MaxEdits
    BY <1>1, <1>5, FilesAssumption DEF UserChanges, PlaceOK
  <2>3. PlaceOK'
    BY <1>1, <1>5, <2>1, <2>2 DEF UserChanges, PlaceOK
  <2> QED
    BY <1>2, <1>3, <2>3, SurroundingsKeep
<1>6. CASE FileChanged
  <2>1. index' \in [Paths -> Entry] /\ cached' \in [Paths -> SUBSET Texts]
    BY <1>1, <1>6, WithoutFilesTyped DEF FileChanged, PlaceOK
  <2>2. PlaceOK'
    BY <1>1, <1>6, <2>1 DEF FileChanged, PlaceOK
  <2> QED
    BY <1>2, <1>3, <2>2, SurroundingsKeep
<1>7. CASE EditorState
  <2>1. \A p \in Paths : [index[p] EXCEPT !.dirty = live[p].unsaved] \in Entry
    BY <1>1 DEF PlaceOK, Entry, File
  <2>2. index' \in [Paths -> Entry]
    BY <1>1, <1>7, <2>1 DEF EditorState, PlaceOK
  <2>3. PlaceOK'
    BY <1>1, <1>7, <2>2 DEF EditorState, PlaceOK
  <2> QED
    BY <1>2, <1>3, <2>3, SurroundingsKeep
<1>8. CASE ResetIndex
  <2>1. index' \in [Paths -> Entry] /\ cached' \in [Paths -> SUBSET Texts] /\ indexed' \in BOOLEAN
    BY <1>1, <1>8, FilesNames DEF ResetIndex, PlaceOK
  <2>2. edits' \in 0..MaxEdits
    BY <1>1, <1>8, FilesAssumption DEF ResetIndex, PlaceOK
  <2>3. PlaceOK'
    BY <1>1, <1>8, <2>1, <2>2 DEF ResetIndex, PlaceOK
  <2> QED
    BY <1>2, <1>3, <2>3, SurroundingsKeep
<1>9. CASE CompleteIndex
  <2>1. PlaceOK'
    BY <1>1, <1>9 DEF CompleteIndex, PlaceOK
  <2> QED
    BY <1>2, <1>3, <2>1, SurroundingsKeep
<1> QED
  BY <1>4, <1>5, <1>6, <1>7, <1>8, <1>9

LEMMA SweepLedgerKeeps ==
    ASSUME FilesInv, SweepLedger
    PROVE  RpcNext /\ FilesInv' /\ UnseenKept
<1> DEFINE notes == [p \in Paths |-> NoText]
<1>1. PICK c \in Clients : Noted(c, notes)
  BY DEF SweepLedger
<1>2. /\ PlaceOK' /\ rpc' = rpc /\ baseline' = baseline /\ told' = told /\ call' = call
  BY PlaceKept DEF SweepLedger, FilesInv
<1>3. \A p \in Paths \cap DOMAIN notes :
          notes[p] # NoText => notes[p] \in Texts /\ <<c, p, notes[p]>> \in told'
  OBVIOUS
<1>4. told \subseteq told' /\ told' \subseteq Clients \X Paths \X Texts
  BY <1>2 DEF FilesInv, LedgerOK
<1> HIDE DEF notes
<1>5. LedgerOK'
  BY <1>1, <1>3, <1>4, NotedKeeps DEF FilesInv
<1> QED
  BY <1>2, <1>5, SurroundingsKeep

-----------------------------------------------------------------------------
LEMMA InitFilesInv == RpcInit /\ FilesInit => FilesInv
<1> SUFFICES ASSUME RpcInit, FilesInit PROVE FilesInv
  OBVIOUS
<1>1. RpcTypeOK
  BY DEF RpcInit, RpcTypeOK, Unasked, Waiters, Works
<1>2. \A k \in Calls, s \in Steps : rpc[<<k, s>>] = Unasked
  BY CallRequests DEF RpcInit
<1>3. PlaceOK
  <2>1. [text |-> NoCall.text, unsaved |-> FALSE] \in File
    BY FilesNames DEF File
  <2>2. live \in [Paths -> File]
    BY <2>1, FilesNames DEF FilesInit
  <2>3. \A p \in Paths : EntryOf(live[p]) \in Entry
    BY <2>2, EntriesTyped
  <2>4. edits \in 0..MaxEdits
    BY FilesAssumption DEF FilesInit
  <2> QED
    BY <2>2, <2>3, <2>4 DEF FilesInit, PlaceOK
<1>4. LedgerOK
  BY DEF FilesInit, LedgerOK
<1>5. BaselineOK
  BY <1>2, CallRequests DEF FilesInit, BaselineOK
<1>6. CallsOK
  <2>1. call \in [Calls -> Call]
    BY FilesNames DEF FilesInit
  <2>2. ASSUME NEW k \in Calls PROVE CallAsked(k) /\ OperationOK(call[k])
    <3>1. call[k].stage = "idle" /\ call[k].kind = "read" /\ call[k].text \in Texts
      BY FilesNames DEF FilesInit
    <3> QED
      BY <1>2, <3>1, CallRequests DEF CallAsked, OperationOK, Unasked
  <2> QED
    BY <2>1, <2>2 DEF CallsOK
<1> QED
  BY <1>1, <1>3, <1>4, <1>5, <1>6 DEF FilesInv

LEMMA NextFilesInv ==
    ASSUME FilesInv, FilesNext
    PROVE  RpcNext /\ FilesInv' /\ UnseenKept
<1>1. ASSUME NEW k \in Calls, BeginRead(k) \/ FinishRead(k)
      PROVE  RpcNext /\ FilesInv' /\ UnseenKept
  BY <1>1, BeginReadKeeps, FinishReadKeeps
<1>2. ASSUME NEW k \in Calls,
             \/ BeginWrite(k) \/ BeginEdit(k) \/ BeginGitignore(k) \/ PlanGitignore(k)
             \/ BeginDelete(k) \/ BeginMove(k) \/ FinishCheckpoint(k) \/ FinishFetch(k)
      PROVE  RpcNext /\ FilesInv' /\ UnseenKept
  BY <1>2, BeginCheckpointedKeeps, BeginDirectKeeps, BeginGitignoreKeeps, PlanGitignoreKeeps,
     FinishCheckpointKeeps, FinishFetchKeeps
<1>3. ASSUME NEW k \in Calls,
             \/ DesktopReads(k) \/ DesktopWrites(k) \/ DesktopMoves(k)
             \/ \E step \in {"plan", "baseline"} : DesktopPrepares(k, step)
      PROVE  RpcNext /\ FilesInv' /\ UnseenKept
  BY <1>3, DesktopReadsKeeps, DesktopWritesKeeps, DesktopMovesKeeps, DesktopPreparesKeeps
<1>4. ASSUME NEW k \in Calls,
             \/ FinishWrite(k) \/ FinishEdit(k) \/ FinishGitignore(k)
             \/ FinishDelete(k) \/ FinishMove(k) \/ FailCall(k)
      PROVE  RpcNext /\ FilesInv' /\ UnseenKept
  BY <1>4, FinishAppliedKeeps, FinishDeleteKeeps, FinishMoveKeeps, FailCallKeeps
<1>5. CASE \/ Evict \/ UserChanges \/ FileChanged \/ EditorState
           \/ ResetIndex \/ CompleteIndex \/ SweepLedger
  BY <1>5, PlaceChangesKeep, SweepLedgerKeeps
<1> QED
  BY <1>1, <1>2, <1>3, <1>4, <1>5 DEF FilesNext

LEMMA StutterFilesInv ==
    ASSUME FilesInv, UNCHANGED filesVars
    PROVE  FilesInv'
<1>1. /\ rpc' = rpc /\ baseline' = baseline /\ told' = told /\ call' = call
      /\ PlaceOK' /\ LedgerOK'
  BY PlaceKept, LedgerKept DEF filesVars, fileVars, FilesInv
<1> QED
  BY <1>1, SurroundingsKeep

LEMMA FilesInvHolds == FilesSpec => []FilesInv
<1>1. FilesInv /\ [FilesNext]_filesVars => FilesInv'
  BY NextFilesInv, StutterFilesInv
<1> QED
  BY <1>1, InitFilesInv, PTL DEF FilesSpec

\* Every file, entry, ledger, call and request has a value of its kind.
THEOREM FilesTypeCorrect == FilesSpec => [](RpcTypeOK /\ FilesTypeOK)
<1>1. FilesInv => RpcTypeOK /\ FilesTypeOK
  BY DEF FilesInv, FilesTypeOK, PlaceOK, LedgerOK, BaselineOK, CallsOK
<1> QED
  BY <1>1, FilesInvHolds, PTL

\* One call of a project makes the safety checkpoint, and changes nothing before it is
\* made or given up.
THEOREM OneCallMakesTheCheckpoint == FilesSpec => []OneBaseline
<1>1. FilesInv => OneBaseline
  <2> SUFFICES ASSUME FilesInv PROVE OneBaseline
    OBVIOUS
  <2>1. \A j, k \in Calls :
            rpc[<<j, "baseline">>] # Unasked /\ rpc[<<k, "baseline">>] # Unasked => j = k
    BY DEF FilesInv, BaselineOK
  <2>2. \A k \in Calls :
            rpc[<<k, "baseline">>].waiter = "waiting" => rpc[<<k, "main">>] = Unasked
    BY CallRequests DEF FilesInv, CallsOK, CallAsked
  <2> QED
    BY <2>1, <2>2 DEF OneBaseline
<1> QED
  BY <1>1, FilesInvHolds, PTL

\* What write_files replaces at the revision its client quoted was shown to that client,
\* whatever the user, other calls and the index did meanwhile.
THEOREM WritesReplaceWhatWasShown == FilesSpec => UnseenIsKept
<1>1. FilesInv /\ [FilesNext]_filesVars
        => [\A k \in Calls, p \in Paths :
              Replaces(k, p) /\ call[k].base[p] = call[k].quoted[p]
                  => <<call[k].by, p, live[p].text>> \in told]_filesVars
  BY NextFilesInv DEF UnseenKept
<1> QED
  BY <1>1, FilesInvHolds, PTL DEF FilesSpec, UnseenIsKept

\* The requests of the file tools keep what AgentRequests promises.
THEOREM FilesKeepRequests == FilesSpec => RpcSpec
<1>1. FilesInv /\ [FilesNext]_filesVars => [RpcNext]_rpc
  BY NextFilesInv DEF filesVars
<1> QED
  BY <1>1, FilesInvHolds, PTL DEF FilesSpec, RpcSpec

-----------------------------------------------------------------------------
(* The three side by side, as MCIde runs them.                             *)

SideInv ==
    /\ TypeOK
    /\ focus = "hub" => HubInv
    /\ focus = "files" => FilesInv
    /\ focus = "gate" => GateInv

LEMMA InvTypes ==
    /\ HubInv => RpcTypeOK /\ HubTypeOK
    /\ FilesInv => RpcTypeOK /\ FilesTypeOK
    /\ GateInv => RpcTypeOK /\ GateTypeOK
BY DEF HubInv, GateInv, FilesInv, FilesTypeOK, PlaceOK, LedgerOK, BaselineOK, CallsOK

LEMMA InitSideInv == MCInit => SideInv
BY InitHubInv, InitFilesInv, InitGateInv, InvTypes DEF MCInit, SideInv, TypeOK

\* Types of a part that another part's step leaves alone.
LEMMA IdleTypes ==
    /\ HubTypeOK /\ UNCHANGED hubVars => HubTypeOK'
    /\ FilesTypeOK /\ UNCHANGED fileVars => FilesTypeOK'
    /\ GateTypeOK /\ UNCHANGED gateVars => GateTypeOK'
<1>1. HubTypeOK /\ UNCHANGED hubVars => HubTypeOK'
  BY DEF HubTypeOK, hubVars
<1>2. FilesTypeOK /\ UNCHANGED fileVars => FilesTypeOK'
  BY DEF FilesTypeOK, fileVars
<1>3. GateTypeOK /\ UNCHANGED gateVars => GateTypeOK'
  BY DEF GateTypeOK, gateVars
<1> QED
  BY <1>1, <1>2, <1>3

LEMMA NextSideInv == SideInv /\ [MCNext]_MCVars => SideInv' /\ [RpcNext]_rpc
<1> SUFFICES ASSUME SideInv, [MCNext]_MCVars PROVE SideInv' /\ [RpcNext]_rpc
  OBVIOUS
<1>1. CASE Hub(HubNext)
  <2>1. /\ focus = "hub" /\ focus' = "hub" /\ HubInv /\ HubNext
        /\ UNCHANGED fileVars /\ UNCHANGED gateVars
    BY <1>1 DEF Hub, SideInv
  <2>2. RpcNext /\ HubInv'
    BY <2>1, NextHubInv
  <2>3. HubInv' => RpcTypeOK' /\ HubTypeOK'
    BY DEF HubInv
  <2>4. FilesTypeOK' /\ GateTypeOK'
    BY <2>1, IdleTypes DEF SideInv, TypeOK
  <2> QED
    BY <2>1, <2>2, <2>3, <2>4 DEF SideInv, TypeOK
<1>2. CASE Files(FilesNext)
  <2>1. /\ focus = "files" /\ focus' = "files" /\ FilesInv /\ FilesNext
        /\ UNCHANGED hubVars /\ UNCHANGED gateVars
    BY <1>2 DEF Files, SideInv
  <2>2. RpcNext /\ FilesInv'
    BY <2>1, NextFilesInv
  <2>3. FilesInv' => RpcTypeOK' /\ FilesTypeOK'
    BY DEF FilesInv, FilesTypeOK, PlaceOK, LedgerOK, BaselineOK, CallsOK
  <2>4. HubTypeOK' /\ GateTypeOK'
    BY <2>1, IdleTypes DEF SideInv, TypeOK
  <2> QED
    BY <2>1, <2>2, <2>3, <2>4 DEF SideInv, TypeOK
<1>3. CASE Gate(GateNext)
  <2>1. /\ focus = "gate" /\ focus' = "gate" /\ GateInv /\ GateNext
        /\ UNCHANGED hubVars /\ UNCHANGED fileVars
    BY <1>3 DEF Gate, SideInv
  <2>2. RpcNext /\ GateInv'
    BY <2>1, NextGateInv
  <2>3. GateInv' => RpcTypeOK' /\ GateTypeOK'
    BY DEF GateInv
  <2>4. HubTypeOK' /\ FilesTypeOK'
    BY <2>1, IdleTypes DEF SideInv, TypeOK
  <2> QED
    BY <2>1, <2>2, <2>3, <2>4 DEF SideInv, TypeOK
<1>4. CASE UNCHANGED MCVars
  <2>1. /\ focus' = focus /\ rpc' = rpc
        /\ UNCHANGED hubVars /\ UNCHANGED fileVars /\ UNCHANGED gateVars
    BY <1>4 DEF MCVars
  <2>2. /\ HubInv => HubInv'
        /\ FilesInv => FilesInv'
        /\ GateInv => GateInv'
    BY <2>1, StutterHubInv, StutterFilesInv, StutterGateInv DEF filesVars
  <2>3. HubTypeOK' /\ FilesTypeOK' /\ GateTypeOK'
    BY <2>1, IdleTypes DEF SideInv, TypeOK
  <2>4. RpcTypeOK'
    BY <2>1 DEF SideInv, TypeOK, RpcTypeOK
  <2> QED
    BY <2>1, <2>2, <2>3, <2>4 DEF SideInv, TypeOK
<1> QED
  BY <1>1, <1>2, <1>3, <1>4 DEF MCNext

LEMMA SideInvHolds == MCSpec => []SideInv
BY InitSideInv, NextSideInv, PTL DEF MCSpec

\* The three parts stay well typed side by side.
THEOREM IdeTypeCorrect == MCSpec => []TypeOK
<1>1. SideInv => TypeOK
  BY DEF SideInv
<1> QED
  BY <1>1, SideInvHolds, PTL

\* Whichever part asks the desktop, AgentRequests describes every request.
THEOREM IdeKeepsRequests == MCSpec => RpcSpec
<1>1. MCInit => RpcInit
  BY DEF MCInit
<1> QED
  BY <1>1, SideInvHolds, NextSideInv, PTL DEF MCSpec, RpcSpec
=============================================================================
