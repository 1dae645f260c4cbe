SPECIFICATION Spec
CONSTANTS
    Requests = {"c1"}
    EffectOf <- MCEffectOf
    Identity <- MCIdentity
    Subjects = {"s1", "s2"}
    IdentityOf <- MCIdentityOf
    Faulty = {"candidate"}
    MayFence = {"release"}
PROPERTIES
    LateReportChangesNothing
CHECK_DEADLOCK FALSE
