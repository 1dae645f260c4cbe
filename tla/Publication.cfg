SPECIFICATION Spec
CONSTANTS
    Requests = {"c1", "o1", "r1", "n1", "n2", "b1", "a1"}
    EffectOf <- MCEffectOf
    Identity <- MCIdentity
    Subjects = {"s1", "s2"}
    IdentityOf <- MCIdentityOf
    Faulty = {"npm"}
    MayFence = {"release"}
INVARIANTS
    UpstreamInOrder
    ReleaseIsBacked
PROPERTIES
    ImplementsGuardedWrite
CHECK_DEADLOCK FALSE
