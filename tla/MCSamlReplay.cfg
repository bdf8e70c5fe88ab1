SPECIFICATION Spec
CONSTANTS
    Ids = {a1, a2}
    Requests = {q1}
    Processes = {p1}
    Configs <- MCConfigs
    Calls = {c1, c2}
    None = None
    Lifetimes = {1}
    ReplaySkew = 3
    ReplayMaxTtl = 5
    ValidationSkew = 1
    PruneThreshold = 1
    MaxPause = 1
    MaxTime = 5
SYMMETRY Symmetry
INVARIANT TypeOK
INVARIANT OncePerProcess
INVARIANT RememberedUntilExpiry
PROPERTY ImplementsOneTime
CHECK_DEADLOCK FALSE
