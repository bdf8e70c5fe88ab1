SPECIFICATION Spec
CONSTANTS
    Sessions = {s1, s2}
    Requests = {q1, q2, q3}
    Assertions = {a1}
    Attributes = {"email"}
    Processes = {p1, p2}
    Calls = {c1, c2}
    Deployments <- MCDeployments
    Forms <- MCForms
    None = None
    MaxRestarts = 1
SYMMETRY Symmetry
INVARIANTS
    TypeOK
    SessionsDoNotMix
    AssertionsLogInOnce
PROPERTY RightfulLoginsSucceed
CHECK_DEADLOCK FALSE
