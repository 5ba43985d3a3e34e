SPECIFICATION MCSpec
CONSTANTS
    c1 = c1
    k1 = k1
    Requests <- MCRequests
    Agents = {1, 2}
    Spaces = {1, 2}
    Projects = {"p"}
    Uses = {1, 2}
    MaxParties = 3
    Paths = {"f", "g"}
    Texts = {"a", "b"}
    NoText = "-"
    Initially = "f"
    Ignore = "g"
    Edited = {"f"}
    Clients = {c1}
    Calls = {1, 2}
    MaxEdits = 1
    Offered <- MCOffered
    Commands = {k1}
    Littering = {k1}
    Runs = {1}
    Changes = {1}
    MaxClock = 2
INVARIANT TypeOK
INVARIANT OpenWorkspaceHasAgent
INVARIANT OneBaseline
PROPERTY GoneIsNotAsked
PROPERTY CallsEnd
PROPERTY ZombiesGo
PROPERTY RpcSpec
PROPERTY UnseenIsKept
PROPERTY FinishedMeansVerified
PROPERTY NoRunLeftBehind
CHECK_DEADLOCK FALSE
