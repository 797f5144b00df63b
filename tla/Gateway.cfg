SPECIFICATION FairSpec
CONSTANTS
    Calls = {c1, c2, c3}
    k1 = k1  k2 = k2
    Keys = {k1, k2}
    Kinds <- MCKinds
    PoolSize = 2
    None = None
INVARIANTS
    NeverOvercounted
    UsageExact
PROPERTIES
    EveryCallEnds
CHECK_DEADLOCK FALSE
