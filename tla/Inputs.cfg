SPECIFICATION MCSpec
CONSTANTS
    Transfers = {"source", "prompt"}
    Binding <- MCBinding
    Checked = {"source"}
    Bytes <- MCBytes
    Instances = {"i1"}
    Finalizers = {"f1", "f2", "f3"}
    TransferOf <- MCTransferOf
    VersionOf <- MCVersionOf
    CommandOf <- MCCommandOf
    InstanceOf <- MCInstanceOf
    Bodies <- MCBodies
    MaxUploads <- MCMaxUploads
    Slots = 1
    MaxEpoch = 2
    Rounds = {1}
    Answerers = {"c1", "c2"}
    Briefs = {"b1", "b2"}
    Generations = {"g1", "g2"}
    Replicas = {"r1", "r2"}
    Capacity = 1
INVARIANTS
    ServedIsVerified
    SlotsAreHeld
    ExecutesOnFinalBrief
    AnswerReceiptIsTrue
PROPERTIES
    CommitsInScope
CHECK_DEADLOCK FALSE
