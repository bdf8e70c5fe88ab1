SPECIFICATION JwksSpec
CONSTANTS
    c1 = c1
    c2 = c2
    k1 = k1
    k2 = k2
    Nil = Nil
    Kids <- MCKids
    Verifiers <- MCPair
    Ttl = 3
    MinRefetch = 2
    RequestTimeout = 1
    Failing = FALSE
    MaxTicks = 5
PROPERTIES
    RefetchesSpaced
CHECK_DEADLOCK FALSE
