SPECIFICATION Spec
CONSTANTS
    c1 = c1
    a1 = a1
    k1 = k1
    k2 = k2
    g1 = g1
    g2 = g2
    u1 = u1
    r1 = r1
    r2 = r2
    Connections = {c1}
    MaxActive = 1
    Authorizations = {a1}
    Codes = {k1, k2}
    Grants = {g1, g2}
    Callers = {u1}
    Requests = {r1, r2}
    MaxTokens = 4
    MaxLapsed = 1
    KeepPrevious = 2
    KeepAccess = 1
    None = None
SYMMETRY MCSymmetry
INVARIANT TypeOK
INVARIANT OneGrantPerAuthorization
INVARIANT OneSuccessor
INVARIANT SentTokensHonoured
PROPERTY DuplicateKeepsGrant
PROPERTY RevocationIsFinal
PROPERTY ImplementsTokenChain
CHECK_DEADLOCK FALSE
