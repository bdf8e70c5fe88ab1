SPECIFICATION FairSpec
CONSTANTS
    Keys = {k1, k2}
    Calls = {c1, c2}
    None = None
    Lifetime = None
    Limits = {}
    LooseLookup = FALSE
    MaxCount = 2
    MaxTime = 0
    Window = 1
    SweepThreshold = 2
    TicksPerSecond = 1
PROPERTY RevocationDrains
