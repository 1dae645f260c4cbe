SPECIFICATION Spec
CONSTANTS
    a1 = a1
    a2 = a2
    x1 = x1
    x2 = x2
    k1 = k1
    k2 = k2
    k3 = k3
    p1 = p1
    p2 = p2
    Attempts = {a1}
    Obligations = {x1, x2}
    Paid = {x1}
    AttemptOf <- BothOfFirst
    NoAttempt = NoAttempt
    Commands = {k1}
    Kind <- OneCancel
    Replicas = {p1}
    MultiStep = TRUE
    Queued = FALSE
    SupportsControl = FALSE
    MaxRounds = 0
    VerdictReports = {"certified"}
    OutcomeReports = {"completed", "canceled", "unknown"}
    CleanupReports = {"complete", "unknown"}
PROPERTIES
    NeverStartCanceled
CHECK_DEADLOCK FALSE
