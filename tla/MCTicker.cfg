SPECIFICATION FairSpec
CONSTANTS
    Children = {c1, c2}
    Channels = {"btcusd"}
    NULL = NULL
    TableSize = 1
    MaxLines = 1
INVARIANTS
    EveryChildListed
    StoreHasWatcher
    ReapedAtEnd
PROPERTIES
    ClosingEnds
CHECK_DEADLOCK FALSE
