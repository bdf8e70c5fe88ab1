SPECIFICATION Spec
CONSTANTS
    f1 = f1
    f2 = f2
    s1 = s1
   
    u1 = u1
    u2 = u2
    c1 = c1
    c2 = c2
    None = None
    Flows = {f1, f2}
    Sessions = {s1}
    Users = {u1, u2}
    Calls = {c1, c2}
    Us = "us"
    Issuer = "tenant"
    Forms <- MCForms
    Ahead = {0, 1}
    Worlds <- MCWorlds
    MaxAge = 1
    Timeout = 1
    Lifetime = 1
    Leeway = 0
    MaxCodes = 2
    MaxTime = 3
SYMMETRY Symmetric
INVARIANTS TypeOK FlowsDoNotMix
PROPERTIES OidcTokensHaveClaims FlowsEnd
CHECK_DEADLOCK FALSE
