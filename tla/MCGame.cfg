SPECIFICATION Spec
CONSTANTS
    Threads = {t1, t2}
    MoveRoles <- MCPlayers
SYMMETRY ThreadSymmetry
INVARIANTS
    TypeOK
    TurnsAlternate
    VerdictMatchesBoard
PROPERTIES
    ImplementsGameSpec
    FinishedIsFinal
CHECK_DEADLOCK FALSE
