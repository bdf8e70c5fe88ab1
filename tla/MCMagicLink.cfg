SPECIFICATION Spec
CONSTANTS
    Tokens = {t1, t2}
    Calls = {c1, c2, c3}
    None = None
    Ttl = 1
    MaxTime = 2
SYMMETRY Symmetry
INVARIANT TypeOK
INVARIANT ValidLinksSurvive
PROPERTY ImplementsOneTime
