SPECIFICATION JsonSpec
CONSTANTS
    u1 = u1
    e1 = e1
    c1 = c1
    c2 = c2
    None = None
    NoEnv = NoEnv
    NumJobs = 2
    MaxPending = 2
    KeepTerminal = 1
    Users = {u1}
    JobEnvs = {e1}
    Claims = {c1, c2}
    Keyed = {c1}
    ClaimUser <- MCClaimUser
    ClaimEnv <- MCClaimEnv
INVARIANT AtMostOneClaim
INVARIANT DeliveredLeaseIsHonoured
INVARIANT LapsedNeverDelivered
INVARIANT OneOutcome
INVARIANT ResultAvailable
INVARIANT ClaimIdIsSpent
PROPERTY ImplementsLifecycle
