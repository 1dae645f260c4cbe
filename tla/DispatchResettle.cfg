SPECIFICATION FairSpec
CONSTANTS
    o1 = o1
    o2 = o2
    a1 = a1
    a2 = a2
    c1 = c1
    c2 = c2
    r1 = r1
    r2 = r2
    r3 = r3
    g1 = g1
    k1 = k1
    k2 = k2
    s1 = s1
    s2 = s2
    Query = Query
    NoCall = NoCall
    NoGrant = NoGrant
    Ops = {o1}
    Attempts = {a1, a2}
    Calls = {c1}
    OpOf <- TwoAttempts
    AttemptOf <- FirstOfAttempt
    Requests = {r1}
    CallOf <- OneForFirst
    Grants = {}
    GrantOf <- FirstIsModel
    Replaces <- FirstReplacesNone
    Exposure <- FirstExposure
    Price <- FirstPrice
    Usages <- NoneOrOne
    ReconcileLimit = 1
    Scale = 1
    Caps = {}
    CapOps <- NoCapOps
    CapCounted <- NoCapKinds
    CapsRequired = FALSE
    Periods = 2
    Amount = 2
    Limits = {2}
    MayLapse = {}
    RecoveryRuns = FALSE
    Sources = {s1}
    MaxSeq = 1
    MaxUsage = 1
PROPERTIES
    TerminalIsSettled
CHECK_DEADLOCK FALSE
