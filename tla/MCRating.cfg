SPECIFICATION Spec
CONSTANTS
    Threads = {t1, t2, t3}
    Players = {"a", "b", "c"}
    NULL = NULL
    Results <- OrderedGames
INVARIANTS
    RatingsConserved
    PostsSerialize
PROPERTIES
    PostsComplete
CHECK_DEADLOCK FALSE
