SPECIFICATION Spec
CONSTANTS
    Classes <- OneWrite
    Corrupt = {}
    Runs = {"r1"}
    Workers = {"p1"}
    PageSize = 1
    MaxAdmitted = 2
    BackupsPrepared = FALSE
INVARIANTS
    DecisionIsFinal
CHECK_DEADLOCK FALSE
