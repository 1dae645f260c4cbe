SPECIFICATION Spec
CONSTANTS
    a1 = a1
    a2 = a2
    x1 = x1
    x2 = x2
    k1 = k1
    k2 = k2
    k3 = k3
    p1 = p1
    p2 = p2
    Attempts = {a1}
    Obligations = {}
    Paid = {}
    AttemptOf <- NoObligations
    NoAttempt = NoAttempt
    Commands = {k1}
    Kind <- OneCancel
    Replicas = {p1}
    MultiStep = TRUE
    Queued = FALSE
    SupportsControl = FALSE
    MaxRounds = 1
    VerdictReports = {"certified"}
    OutcomeReports = {"completed", "canceled", "unknown"}
    CleanupReports = {"complete", "unknown"}
INVARIANTS
    EndIsQuiescent
CHECK_DEADLOCK FALSE
