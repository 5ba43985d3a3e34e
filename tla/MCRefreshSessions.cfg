SPECIFICATION Spec
CONSTANTS
    s1 = s1
    s2 = s2
    a = a
    b = b
    r1 = r1
    r2 = r2
    Sessions = {s1, s2}
    Clients = {a, b}
    Requests = {r1, r2}
    MaxTokens = 4
    KeepPrevious = 2
    None = None
SYMMETRY MCSymmetry
INVARIANT OneSuccessor
INVARIANT ReuseEndsSession
PROPERTY DuplicateKeepsSession
PROPERTY ImplementsTokenChain
