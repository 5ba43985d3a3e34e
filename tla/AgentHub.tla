------------------------------- MODULE AgentHub -------------------------------
(***************************************************************************)
(* The bridge between the tools and the desktop apps of one user:          *)
(* src/modules/ide-codewriter, the connections and their heartbeat         *)
(* (bridge/hub.js), the open workspaces (workspace/registry.js) and how a  *)
(* tool finds its workspace and asks the desktop app that serves it        *)
(* (mcp/tools/shared.js).                                                  *)
(*                                                                         *)
(* A connection may be half-open: the far side is gone and nobody said so. *)
(* What is sent then may or may not arrive, and nothing comes back.        *)
(*                                                                         *)
(* rpc is that of AgentRequests, whose RpcSpec this module implements.     *)
(***************************************************************************)
EXTENDS AgentRequests, Naturals, FiniteSets

CONSTANTS
    Agents,     \* bound: the connections of desktop apps, numbered as they come
    Spaces,     \* bound: the workspace ids, numbered as they are given out
    Projects,   \* what a desktop app may open
    Uses,       \* bound: the calls of tools, numbered as they begin
    MaxParties  \* bound: connections and calls together

\* The requests of a call: the liveness check, one that prepares, one that does the work.
UseSteps == {"ping", "prepare", "work"}

ASSUME HubAssumption ==
    /\ Agents # {} /\ Projects # {}
    /\ Agents \subseteq Nat
    /\ Spaces \subseteq Nat \ {0}
    /\ Uses \subseteq Nat
    /\ MaxParties \in Nat
    /\ \A u \in Uses, s \in UseSteps : <<u, s>> \in Requests

VARIABLES
    agent,      \* agent[a]: an AgentConnection
    space,      \* space[w]: a Workspace
    use         \* use[u]: the call of a tool

hubVars == <<agent, space, use>>

NoSpace == 0

\* socket is its readyState; peer says that the desktop is still there; alive that a
\* pong came since the last sweep.
Agent == [socket : {"none", "open", "closing", "closed"}, peer : BOOLEAN, alive : BOOLEAN]
Space == [stage : {"none", "open", "closed"}, agent : Agents, project : Projects,
          indexComplete : BOOLEAN]

\* What a tool needs of its project: its index, the desktop app, an app that is known
\* to answer (requireLiveAgent), or nothing but to know whether it does.
Needs == {"index", "desktop", "live", "diagnosis"}

Use == [needs : Needs, stage : {"idle", "locating", "indexing", "done", "failed"} \cup UseSteps,
        space : Spaces \cup {NoSpace}, agent : Agents]

NotConnected == [socket |-> "none", peer |-> FALSE, alive |-> FALSE]
NeverOpened == [stage |-> "none", agent |-> CHOOSE a \in Agents : TRUE,
                project |-> CHOOSE p \in Projects : TRUE, indexComplete |-> FALSE]
NotUsed == [needs |-> "index", stage |-> "idle", space |-> NoSpace,
            agent |-> CHOOSE a \in Agents : TRUE]

HubTypeOK ==
    /\ agent \in [Agents -> Agent]
    /\ space \in [Spaces -> Space]
    /\ use \in [Uses -> Use]

HubInit ==
    /\ agent = [a \in Agents |-> NotConnected]
    /\ space = [w \in Spaces |-> NeverOpened]
    /\ use = [u \in Uses |-> NotUsed]

-----------------------------------------------------------------------------
(* The connections. *)

InHub(a) == agent[a].socket \in {"open", "closing"}

\* A frame of the desktop is read until the socket is closed.
Heard(a) == InHub(a) /\ agent[a].peer

More ==
    Cardinality({a \in Agents : agent[a].socket # "none"})
        + Cardinality({u \in Uses : use[u].stage # "idle"}) < MaxParties

Connect(a) ==
    /\ More
    /\ agent[a].socket = "none"
    /\ \A b \in Agents : b < a => agent[b].socket # "none"
    /\ agent' = [agent EXCEPT ![a] = [socket |-> "open", peer |-> TRUE, alive |-> TRUE]]
    /\ UNCHANGED <<space, use, rpc>>

\* The far side is gone, without a word.
Vanish(a) ==
    /\ Heard(a)
    /\ agent' = [agent EXCEPT ![a].peer = FALSE]
    /\ UNCHANGED <<space, use, rpc>>

Pong(a) ==
    /\ Heard(a)
    /\ agent[a].socket = "open"
    /\ ~agent[a].alive
    /\ agent' = [agent EXCEPT ![a].alive = TRUE]
    /\ UNCHANGED <<space, use, rpc>>

\* socket.terminate(): nothing is sent any more, the close event comes later.
Terminated(connection) == [connection EXCEPT !.socket = "closing", !.alive = FALSE]

\* Mutant of Swept: a connection that missed a heartbeat is pinged once more.
SweptForgiving(connection) ==
    IF connection.socket \in {"open", "closing"}
    THEN [connection EXCEPT !.alive = ~connection.alive]
    ELSE connection

Swept(connection) ==
    IF connection.socket \notin {"open", "closing"} THEN connection
    ELSE IF connection.alive THEN [connection EXCEPT !.alive = FALSE]
    ELSE Terminated(connection)

\* The heartbeat of all connections.
Sweep ==
    /\ agent' = [a \in Agents |-> Swept(agent[a])]
    /\ agent' # agent
    /\ UNCHANGED <<space, use, rpc>>

\* The uses that wait for an answer of connection a.
Awaiting(a) == {u \in Uses : use[u].stage \in UseSteps /\ use[u].agent = a}

\* Of a call that ended nothing is remembered.
Ended(stage) == [NotUsed EXCEPT !.stage = stage]

\* registry.close
Closed(w) == [NeverOpened EXCEPT !.stage = "closed"]

\* Mutant of Aborted: who waits is told that there is nothing.
AbortedEmpty(q) == Answered(q)

\* abortAll
Aborted(q) == Failed(q)

\* Mutant of ClosedForAgent: the project outlives its connection.
ClosedForAgentNot(a) == space

\* closeForAgent
ClosedForAgent(a) ==
    [w \in Spaces |->
        IF space[w].stage = "open" /\ space[w].agent = a THEN Closed(w) ELSE space[w]]

\* The close event: whoever waits is told, and the projects are closed.
CloseAgent(a) ==
    /\ InHub(a)
    /\ agent' = [agent EXCEPT ![a] = [NotConnected EXCEPT !.socket = "closed"]]
    /\ space' = ClosedForAgent(a)
    /\ use' = [u \in Uses |-> IF u \in Awaiting(a) THEN Ended("failed") ELSE use[u]]
    /\ rpc' = [q \in Requests |->
                  IF \E u \in Awaiting(a) : q = <<u, use[u].stage>>
                  THEN Aborted(rpc[q]) ELSE rpc[q]]

-----------------------------------------------------------------------------
(* The projects the desktop app announces. *)

Open == {w \in Spaces : space[w].stage = "open"}

\* register: the same project of the same connection keeps its id and is indexed anew.
OpenProject(a, p) ==
    /\ Heard(a)
    /\ LET same == {w \in Open : space[w].agent = a /\ space[w].project = p}
           free == {w \in Spaces : space[w].stage = "none"}
       IN  \/ /\ same # {}
              /\ space' = [w \in Spaces |->
                     IF w \in same THEN [space[w] EXCEPT !.indexComplete = FALSE] ELSE space[w]]
           \/ /\ same = {}
              /\ \E w \in free :
                    /\ \A v \in free : w <= v
                    /\ space' = [space EXCEPT ![w] =
                           [stage |-> "open", agent |-> a, project |-> p, indexComplete |-> FALSE]]
    /\ UNCHANGED <<agent, use, rpc>>

\* workspaceFor: what a connection says of a project of its own.
Names(a, w) == Heard(a) /\ w \in Open /\ space[w].agent = a

\* A manifest that starts anew.
StartIndex(a, w) ==
    /\ Names(a, w)
    /\ space[w].indexComplete
    /\ space' = [space EXCEPT ![w].indexComplete = FALSE]
    /\ UNCHANGED <<agent, use, rpc>>

FinishIndex(a, w) ==
    /\ Names(a, w)
    /\ ~space[w].indexComplete
    /\ space' = [space EXCEPT ![w].indexComplete = TRUE]
    /\ UNCHANGED <<agent, use, rpc>>

CloseProject(a, w) ==
    /\ Names(a, w)
    /\ space' = [space EXCEPT ![w] = Closed(w)]
    /\ UNCHANGED <<agent, use, rpc>>

-----------------------------------------------------------------------------
(* A tool asks the desktop app. *)

\* request: refused at once unless the socket is open.
Asks(u, o, step, settled) ==
    IF agent[o.agent].socket = "open"
    THEN /\ rpc' = [settled EXCEPT ![<<u, step>>] = Asked]
         /\ use' = [use EXCEPT ![u] = [o EXCEPT !.stage = step]]
    ELSE /\ rpc' = [settled EXCEPT ![<<u, step>>] = Refused]
         /\ use' = [use EXCEPT ![u] = Ended("failed")]

\* What a tool does with the project it found.
Served(u, o, w) ==
    LET found == [o EXCEPT !.space = w, !.agent = space[w].agent]
    IN  \/ o.needs = "desktop" /\ Asks(u, found, "work", rpc)
        \/ o.needs \in {"live", "diagnosis"} /\ Asks(u, found, "ping", rpc)
        \* The cache may have the files, a search no candidates, the project no repository,
        \* the app not the capability.
        \/ /\ o.needs \in {"index", "desktop"}
           /\ use' = [use EXCEPT ![u] = Ended("done")]
           /\ UNCHANGED rpc

\* registry.resolve: without a name, only if there is nothing to choose.
Resolved(name) ==
    IF name # NoSpace THEN Open \cap {name}
    ELSE IF Cardinality(Open) = 1 THEN Open ELSE {}

\* resolveWorkspace, once the project may be looked up.  A diagnosis does not wait for
\* the index.
Locates(u, o) ==
    IF Resolved(o.space) = {}
    THEN use' = [use EXCEPT ![u] = Ended("failed")] /\ UNCHANGED rpc
    ELSE \E w \in Resolved(o.space) :
            IF space[w].indexComplete \/ o.needs = "diagnosis"
            THEN Served(u, o, w)
            ELSE /\ use' = [use EXCEPT ![u] = [o EXCEPT !.stage = "indexing", !.space = w]]
                 /\ UNCHANGED rpc

MayUse(u) ==
    /\ More
    /\ use[u].stage = "idle"
    /\ \A v \in Uses : v < u => use[v].stage # "idle"

\* A client names a project it was told of, or none: the tool then waits for one to be
\* announced.
BeginUse(u, needs) ==
    /\ MayUse(u)
    /\ \E name \in {w \in Spaces : space[w].stage # "none"} \cup {NoSpace} :
       LET o == [NotUsed EXCEPT !.needs = needs, !.space = name]
       IN  \/ /\ name # NoSpace \/ needs = "diagnosis"
              /\ Locates(u, o)
           \/ /\ name = NoSpace /\ needs # "diagnosis"
              /\ use' = [use EXCEPT ![u] = [o EXCEPT !.stage = "locating"]]
              /\ UNCHANGED rpc
    /\ UNCHANGED <<agent, space>>

\* waitForWorkspaces ends when there is one, or no connection, or after eight seconds.
Locate(u) ==
    /\ use[u].stage = "locating"
    /\ Locates(u, use[u])
    /\ UNCHANGED <<agent, space>>

\* Mutant of AwaitIndex: the eight seconds are forgotten.
AwaitIndexForever(u) ==
    /\ use[u].stage = "indexing"
    /\ LET w == use[u].space
       IN  \/ w \notin Open /\ use' = [use EXCEPT ![u] = Ended("failed")] /\ UNCHANGED rpc
           \/ w \in Open /\ space[w].indexComplete /\ Served(u, use[u], w)
    /\ UNCHANGED <<agent, space>>

\* The wait for the index ends with it, with the project, or after eight seconds.
AwaitIndex(u) ==
    /\ use[u].stage = "indexing"
    /\ LET w == use[u].space
       IN  IF w \in Open /\ space[w].indexComplete
           THEN Served(u, use[u], w)
           ELSE use' = [use EXCEPT ![u] = Ended("failed")] /\ UNCHANGED rpc
    /\ UNCHANGED <<agent, space>>

-----------------------------------------------------------------------------
(* The tools.  Those that change files or run commands are modelled in         *)
(* WorkspaceFiles and VerificationGate; here they are calls that need a live   *)
(* app, with a request that prepares (a plan, a checkpoint) or without.        *)

\* It has no project to find, and waits for one to be announced like the others.
ListWorkspaces(u) ==
    /\ MayUse(u)
    /\ use' = [use EXCEPT ![u] = Ended("done")]
    /\ UNCHANGED <<agent, space, rpc>>

GetWorkspaceOverview(u) == BeginUse(u, "index")
ListFiles(u) == BeginUse(u, "index")
ReadFiles(u) == BeginUse(u, "desktop")
SearchFiles(u) == BeginUse(u, "desktop")
GitStatus(u) == BeginUse(u, "desktop")
GitDiff(u) == BeginUse(u, "desktop")
GetEnvironment(u) == BeginUse(u, "desktop")
InspectPluginSigning(u) == BeginUse(u, "live")
ReindexWorkspace(u) == BeginUse(u, "live")
ChangeOrRun(u) == BeginUse(u, "live")
DiagnoseConnection(u) == BeginUse(u, "diagnosis")

UsesTool(u) ==
    \/ ListWorkspaces(u) \/ GetWorkspaceOverview(u) \/ ListFiles(u) \/ ReadFiles(u)
    \/ SearchFiles(u) \/ GitStatus(u) \/ GitDiff(u) \/ GetEnvironment(u)
    \/ InspectPluginSigning(u) \/ ReindexWorkspace(u) \/ ChangeOrRun(u)
    \/ DiagnoseConnection(u)

-----------------------------------------------------------------------------
(* The answers. *)

\* Mutant of StillOpen: the project is not looked at again after the ping.
StillOpenAlways(u) == TRUE

\* The connection answered; the project may be closed meanwhile.
StillOpen(u) == use[u].space \in Open

Settled(u) == [rpc EXCEPT ![<<u, use[u].stage>>] = Answered(@)]

Ends(u, stage) ==
    /\ rpc' = Settled(u)
    /\ use' = [use EXCEPT ![u] = Ended(stage)]

\* settle, and what the tool makes of it.  Any answer may be an error, or say that
\* sharing is paused.
Answer(u) ==
    /\ use[u].stage \in UseSteps
    /\ Answerable(rpc[<<u, use[u].stage>>])
    /\ Heard(use[u].agent)
    /\ \/ Ends(u, "failed")
       \/ /\ use[u].stage = "ping"
          /\ IF use[u].needs = "diagnosis" THEN Ends(u, "done")
             ELSE IF ~StillOpen(u) THEN Ends(u, "failed")
             ELSE \E step \in {"prepare", "work"} : Asks(u, use[u], step, Settled(u))
       \/ use[u].stage = "prepare" /\ Asks(u, use[u], "work", Settled(u))
       \/ use[u].stage \in {"prepare", "work"} /\ Ends(u, "done")
    /\ UNCHANGED <<agent, space>>

\* Nobody answered in time.  A ping that was not answered drops the connection.
Timeout(u) ==
    /\ use[u].stage \in UseSteps
    /\ rpc' = [rpc EXCEPT ![<<u, use[u].stage>>] = Failed(@)]
    /\ use' = [use EXCEPT ![u] = Ended("failed")]
    /\ agent' = IF use[u].stage = "ping"
                THEN [agent EXCEPT ![use[u].agent] = Terminated(@)]
                ELSE agent
    /\ UNCHANGED space

\* The desktop does what it was sent, whether or not the backend hears of it.
DesktopDoes(q) ==
    /\ rpc[q].work = "sent"
    /\ rpc' = [rpc EXCEPT ![q] = Performed(@)]
    /\ UNCHANGED hubVars

-----------------------------------------------------------------------------
Proceeds(u) == Locate(u) \/ AwaitIndex(u) \/ Timeout(u)

Closing(a) == agent[a].socket = "closing" /\ CloseAgent(a)

HubNext ==
    \/ \E a \in Agents :
          \/ Connect(a) \/ Vanish(a) \/ Pong(a) \/ CloseAgent(a)
          \/ \E p \in Projects : OpenProject(a, p)
          \/ \E w \in Spaces : StartIndex(a, w) \/ FinishIndex(a, w) \/ CloseProject(a, w)
    \/ Sweep
    \/ \E u \in Uses :
          UsesTool(u) \/ Locate(u) \/ AwaitIndex(u) \/ Answer(u) \/ Timeout(u)
    \/ \E u \in Uses, s \in UseSteps : DesktopDoes(<<u, s>>)

\* A socket that was terminated closes, and the timers of the calls fire.
Due == (\E u \in Uses : Proceeds(u)) \/ (\E a \in Agents : Closing(a))

\* Each of them happens a bounded number of times, so that it is enough that some are
\* taken; the heartbeat goes on for ever.  Nothing is expected of the desktop.
HubFairness == WF_<<hubVars, rpc>>(Due) /\ WF_<<hubVars, rpc>>(Sweep)

HubSpec == RpcInit /\ HubInit /\ [][HubNext]_<<hubVars, rpc>> /\ HubFairness

-----------------------------------------------------------------------------
(* Properties. *)

\* Every open project is served by a connection of the hub, however connections come,
\* break off silently, are terminated and close: agentForWorkspace finds it.
OpenWorkspaceHasAgent == \A w \in Open : InHub(space[w].agent)

\* Nothing was asked on behalf of call u yet but whether the desktop is there.
Untouched(u) == \A s \in {"prepare", "work"} : rpc[<<u, s>>] = Unasked

\* The first thing a call asks of a project goes to the connection that serves it, and
\* only while the project is open: one that was closed while the call waited for its
\* index or for the liveness check is not touched, nor is another in its place.
GoneIsNotAsked ==
    [][\A u \in Uses, s \in {"prepare", "work"} :
          Untouched(u) /\ rpc'[<<u, s>>] = Asked
              => /\ use'[u].space \in Open
                 /\ space[use'[u].space].agent = use'[u].agent]_rpc

\* Every call of a tool ends, whatever becomes of the desktop: time and again none is
\* under way, and each is made once.
CallsEnd == []<>(\A u \in Uses : use[u].stage \in {"idle", "done", "failed"})

\* A half-open connection leaves the hub, and its projects with it: time and again there
\* is none, and none comes back.
ZombiesGo == []<>(\A a \in Agents : InHub(a) => agent[a].peer)
=============================================================================
