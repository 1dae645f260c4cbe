SPECIFICATION Spec
CONSTANTS
    Classes <- OneLaunch
    Corrupt = {}
    Runs = {"r1"}
    Workers = {"p1"}
    PageSize = 1
    MaxAdmitted = 2
    BackupsPrepared = FALSE
INVARIANTS
    StoppedIsClean
CHECK_DEADLOCK FALSE
