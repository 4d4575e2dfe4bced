SPECIFICATION FairSpec
CONSTANTS
    Children = {}
    Channels = {"btcusd"}
    NULL = NULL
    TableSize = 1
    MaxLines = 0
PROPERTIES
    EndOfInputEnds
CHECK_DEADLOCK FALSE
