SPECIFICATION Spec
CONSTANTS
    PAGE = 14
    MaxPages = 2
    NUM_FREE_LISTS = 3
    NUM_QUICK_LISTS = 1
    QUICK_LIST_MAX = 1
    Sizes = {1, 144}
    Resizes = {1, 56}
    AlignedSizes = {8, 29}
    Alignments = {16}
INVARIANTS
    EveryRowAccounted
    ListsMatchTags
    OwnedAreValid
    FullyCoalesced
PROPERTIES
    ImplementsAllocator
CHECK_DEADLOCK FALSE
