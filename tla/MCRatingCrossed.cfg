SPECIFICATION Spec
CONSTANTS
    Threads = {t1, t2}
    Players = {"a", "b"}
    NULL = NULL
    Results <- CrossedGames
INVARIANTS
    NoCircularWait
CHECK_DEADLOCK FALSE
