SPECIFICATION Spec
CONSTANTS
    Classes <- OneWrite
    Corrupt = {}
    Runs = {"r1"}
    Workers = {"p1", "p2"}
    PageSize = 1
    MaxAdmitted = 2
    BackupsPrepared = FALSE
INVARIANTS ReopenedIsSettled
CHECK_DEADLOCK FALSE
