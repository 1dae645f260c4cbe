SPECIFICATION Spec
CONSTANTS
    Classes <- OneOfEach
    Corrupt <- CorruptLaunch
    Runs = {"r1"}
    Workers = {p1, p2}
    PageSize = 1
    MaxAdmitted = 2
    BackupsPrepared = FALSE
SYMMETRY WorkerSymmetry
INVARIANTS
    NothingForgotten
    EstablishedIsTrue
CHECK_DEADLOCK FALSE
