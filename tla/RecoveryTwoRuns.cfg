SPECIFICATION Spec
CONSTANTS
    Classes <- OneWrite
    Corrupt = {}
    Runs = {"r1", "r2"}
    Workers = {"p1"}
    PageSize = 1
    MaxAdmitted = 2
    BackupsPrepared = FALSE
INVARIANTS OneRunPerScope
CHECK_DEADLOCK FALSE
