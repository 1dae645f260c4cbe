SPECIFICATION FairSpec
CONSTANTS
    a1 = a1
    a2 = a2
    x1 = x1
    x2 = x2
    k1 = k1
    k2 = k2
    k3 = k3
    p1 = p1
    p2 = p2
    Attempts = {a1}
    Obligations = {x1}
    Paid = {}
    AttemptOf <- OneOfFirst
    NoAttempt = NoAttempt
    Commands = {k1, k2}
    Kind <- CancelHold
    Replicas = {p1}
    MultiStep = TRUE
    Queued = TRUE
    SupportsControl = TRUE
    MaxRounds = 0
    VerdictReports = {}
    OutcomeReports = {"unknown"}
    CleanupReports = {"complete"}
INVARIANTS
    PermitCoversWork
PROPERTIES
    AcceptedIsStarted
    RelayedIsSettled
CHECK_DEADLOCK FALSE
