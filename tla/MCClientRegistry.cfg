SPECIFICATION FairSpec
CONSTANTS
    Conns = {c1, c2, c3}
    NULL = NULL
    MAX_CLIENTS = 2
    FdLimit = 4
    FirstFd = 1
    Waiters = {main}
    Main = main
INVARIANTS
    RecordsAgree
    ClientInUseIsAlive
PROPERTIES
    WaitReturns
CHECK_DEADLOCK FALSE
