SPECIFICATION FairSpec
CONSTANT
    NULL = NULL
INVARIANTS
    ReferencesExact
    PostedIsVerdict
    NothingLeftBehind
PROPERTIES
    GameOverSettles
    LogoutCompletes
CHECK_DEADLOCK FALSE
