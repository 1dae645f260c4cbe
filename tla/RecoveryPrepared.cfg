SPECIFICATION Spec
CONSTANTS
    Classes <- TwoDispatches
    Corrupt = {}
    Runs = {"r1"}
    Workers = {"p1"}
    PageSize = 1
    MaxAdmitted = 2
    BackupsPrepared = TRUE
INVARIANTS NothingForgotten
CHECK_DEADLOCK FALSE
