SPECIFICATION Spec
CONSTANTS
    Managers = {"m1", "m2"}
    Subjects = {"u", "v"}
    Names = {"a", "b"}
    NotAString = NotAString
    Absent = Absent
    Repeated = Repeated
    Unusable = Unusable
    None = None
    Tokens <- MCTokens
    Chains <- MCChains
    MaxTime = 1
INVARIANTS TypeOK ServedIsEntitled
PROPERTY RejectedStaysRejected
CHECK_DEADLOCK FALSE
