-------------------------------- MODULE MCIde --------------------------------
(***************************************************************************)
(* The three parts of the IDE subsystem side by side.  They meet only in   *)
(* what AgentRequests promises of a request, so a behaviour follows one of *)
(* them and leaves the others where they begin.                            *)
(***************************************************************************)
EXTENDS AgentHub, WorkspaceFiles, VerificationGate

CONSTANTS c1, k1

VARIABLE focus

MCRequests ==
    (Calls \X Steps) \cup (Uses \X UseSteps)
        \cup (Runs \X RunSteps) \cup (Changes \X {"change"})

\* Of two calls that overlap it matters little which of them begins first.
MCOffered == [k \in Calls |-> IF k = 1 THEN Kinds \ {"gitignore"} ELSE Kinds \ {"range", "resource"}]

MCInit ==
    /\ focus \in {"hub", "files", "gate"}
    /\ RpcInit /\ HubInit /\ FilesInit /\ GateInit
    /\ focus # "gate" => required = {}

Hub(step) == focus = "hub" /\ step /\ UNCHANGED <<focus, fileVars, gateVars>>
Files(step) == focus = "files" /\ step /\ UNCHANGED <<focus, hubVars, gateVars>>
Gate(step) == focus = "gate" /\ step /\ UNCHANGED <<focus, hubVars, fileVars>>

MCNext == Hub(HubNext) \/ Files(FilesNext) \/ Gate(GateNext)

MCVars == <<focus, hubVars, fileVars, gateVars, rpc>>

MCSpec ==
    /\ MCInit
    /\ [][MCNext]_MCVars
    /\ WF_MCVars(Hub(Due))
    /\ WF_MCVars(Hub(Sweep))

\* Every variable has a value of its kind.
TypeOK == RpcTypeOK /\ HubTypeOK /\ FilesTypeOK /\ GateTypeOK
=============================================================================
