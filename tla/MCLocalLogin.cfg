SPECIFICATION Spec
CONSTANTS
    c1 = c1
    c2 = c2
    s1 = s1
    s2 = s2
    u1 = u1
    long = long
    cut = cut
    None = None
    MaxChanges = 1
    Empty = Empty
    Calls <- MCCalls
    Strategies <- MCStrategies
    Users <- MCUsers
    Passwords <- MCPasswords
    Long <- MCLong
    First72 <- MCFirst72
    Hashers <- MCHashers
    Legacy <- MCLegacy
INVARIANTS
    TypeOK
PROPERTIES
    AcceptedHadPassword
    LoginKeepsPasswords
    RefusalCost
SYMMETRY Symmetry
