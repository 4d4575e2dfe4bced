SPECIFICATION Spec
CONSTANTS
    Threads = {t1, t2}
    Names = {n1, n2}
    Objects = {p1, p2, p3}
    NULL = NULL
    MaxPlayerCount = 4
    MaxLeaked = 2
    AllocFails = TRUE
SYMMETRY Symmetric
INVARIANTS
    OnePlayerPerName
    CountIsExact
    FiniFreesPlayers
PROPERTIES
    ImplementsAccounts
CHECK_DEADLOCK FALSE
