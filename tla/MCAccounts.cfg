CONSTANTS
    r1 = r1
    r2 = r2
    s1 = s1
    s2 = s2
    f1 = f1
    f2 = f2
    p1 = p1
    p2 = p2
    d1 = d1
    d2 = d2
    g1 = g1
    g2 = g2
    Requests <- MCRequests
    Sessions <- MCSessions
    MaxPassword = 2
    MaxFailures = 2
    None = None
    Signups <- MCSignups
    Forms <- MCForms
    EmailOf <- MCEmailOf
    NameOf <- MCNameOf
    MaxResends = 1
    MaxAttempts = 1
    Updates <- MCUpdates
    Readers <- MCReaders
SYMMETRY MCSymmetry
SPECIFICATION MCSpec
INVARIANTS
    LockoutCountsEveryFailure
    PasswordStands
    OnlyLateLoginsSurvive
    GuessesBounded
    UniqueIdentity
    AnswersStand
PROPERTIES
    SpentByLatestCode
    ChangedPlanStands
    ImplementsDocument
