SPECIFICATION MongoSpec
CONSTANTS
    u1 = u1
    e1 = e1
    e2 = e2
    c1 = c1
    c2 = c2
    c3 = c3
    s1 = s1
    s2 = s2
    None = None
    NoEnv = NoEnv
    NumJobs = 1
    MaxPending = 1
    MaxCounted = 1
    Users = {u1}
    JobEnvs = {e1}
    Claims = {c1, c2, c3}
    Keyed = {c1}
    Polling = {c2}
    Servers = {s1}
    ClaimUser <- MCClaimUser
    Routes <- MCRoutes
    ClaimEnv <- MCClaimEnv
INVARIANT DeliveredLeaseIsHonoured
