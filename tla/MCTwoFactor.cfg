SPECIFICATION Spec
CONSTANTS
    l1 = l1
    l2 = l2
    x0 = x0
    x1 = x1
    x2 = x2
    b1 = b1
    b2 = b2
    b3 = b3
    None = None
    Logins <- MCLogins
    Codes <- MCCodes
    CodeOf <- MCCodeOf
    BackupCodes <- MCBackupCodes
    Count = 2
    TimeStep = 2
    Settings <- MCSettings
    MaxTime = 6
INVARIANTS
    TypeOK
    NotLockedOut
    PrintedCodesWork
PROPERTIES
    ImplementsOneTime
CHECK_DEADLOCK FALSE
