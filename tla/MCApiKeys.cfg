SPECIFICATION Spec
CONSTANTS
    Keys = {k1, k2}
    Calls = {c1, c2}
    None = None
    Lifetime = 0
    Limits = {1}
    LooseLookup = TRUE
    MaxCount = 2
    MaxTime = 1
    Window = 0
    SweepThreshold = 2
    TicksPerSecond = 1
SYMMETRY Symmetry
INVARIANTS
    TypeOK
    ReplacedKeyIsRevoked
    HandedKeysAreStored
PROPERTIES
    AcceptedWasLive
    RevocationIsFinal
