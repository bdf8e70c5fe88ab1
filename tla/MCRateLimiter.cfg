SPECIFICATION LimiterSpec
CONSTANTS
    t1 = t1
    t2 = t2
    k1 = k1
    k2 = k2
    Threads <- MCThreads
    Keys <- MCKeys
    Loads <- MCLoads
    Limit = 1
    Window = 1
    SweepThreshold = 2
    TicksPerSecond = 2
    MaxRequests = 5
INVARIANTS
    LimiterTypeOK
    AdmittedPerWindow
    AtMostTwiceTheLimit
    SweepReclaims
PROPERTIES
    ImplementsAtomicLimiter
CHECK_DEADLOCK FALSE
