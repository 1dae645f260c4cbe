SPECIFICATION Spec
CONSTANTS
    Txs = {"t1", "t2"}
    Ops = {"o1"}
    OpOf <- MCOpOf
    EventsOf <- MCEventsOf
    Final = {"t2"}
    Streams = {"s1"}
    StreamOp <- MCStreamOp
    PageLimit = 1
    BatchSize = 2
    MaxFailures = 1
    MaxOpens = 2
INVARIANTS
    PassedIsPublished
    StreamIsExact
    NoLostWake
PROPERTIES
    EventsArrive
CHECK_DEADLOCK FALSE
