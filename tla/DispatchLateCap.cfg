SPECIFICATION Spec
CONSTANTS
    o1 = o1
    o2 = o2
    a1 = a1
    a2 = a2
    c1 = c1
    c2 = c2
    r1 = r1
    r2 = r2
    r3 = r3
    g1 = g1
    k1 = k1
    k2 = k2
    s1 = s1
    s2 = s2
    Query = Query
    NoCall = NoCall
    NoGrant = NoGrant
    Ops = {o1}
    Attempts = {a1}
    Calls = {c1, c2}
    OpOf <- OneAttempt
    AttemptOf <- BothOfAttempt
    Requests = {r1, r2}
    CallOf <- OneEach
    Grants = {g1}
    GrantOf <- SecondIsTool
    Replaces <- NoReplacement
    Exposure <- UnitExposure
    Price <- SecondFree
    Usages <- NoneOrOne
    ReconcileLimit = 1
    Scale = 1
    Caps = {k1}
    CapOps <- TenantCap
    CapCounted <- TenantCapKind
    CapsRequired = TRUE
    Periods = 1
    Amount = 2
    Limits = {2}
    MayLapse = {}
    RecoveryRuns = FALSE
    Sources = {s1}
    MaxSeq = 1
    MaxUsage = 1
INVARIANTS
    CapExact
CHECK_DEADLOCK FALSE
