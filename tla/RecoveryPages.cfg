SPECIFICATION Spec
CONSTANTS
    Classes <- WriteAndLaunch
    Corrupt <- CorruptWrite
    Runs = {"r1"}
    Workers = {p1}
    PageSize = 1
    MaxAdmitted = 2
    BackupsPrepared = FALSE
INVARIANTS
    NothingForgotten
    EstablishedIsTrue
CHECK_DEADLOCK FALSE
