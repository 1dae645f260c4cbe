SPECIFICATION Spec
CONSTANTS
    a1 = a1
    a2 = a2
    x1 = x1
    x2 = x2
    k1 = k1
    k2 = k2
    k3 = k3
    p1 = p1
    p2 = p2
    Attempts = {a1}
    Obligations = {x1, x2}
    Paid = {x1}
    AttemptOf <- BothOfFirst
    NoAttempt = NoAttempt
    Commands = {k1, k2}
    Kind <- TwoCancels
    Replicas = {p1, p2}
    MultiStep = FALSE
    Queued = FALSE
    SupportsControl = FALSE
    MaxRounds = 0
    VerdictReports = {"certified", "invalid"}
    OutcomeReports = {"completed", "failed", "canceled", "unknown"}
    CleanupReports = {"not_required", "pending", "complete", "unknown"}
INVARIANTS
    ReceiptIsTrue
    InventoryFirst
    CancelDominates
    OutcomeIsStated
PROPERTIES
    TerminalIsFinal
CHECK_DEADLOCK FALSE
