SPECIFICATION Spec
CONSTANTS
    PAGE = 14
    MaxPages = 2
    NUM_FREE_LISTS = 2
    NUM_QUICK_LISTS = 1
    QUICK_LIST_MAX = 2
    Sizes = {1, 40}
    Resizes = {}
    AlignedSizes = {}
    Alignments = {}
INVARIANTS
    SearchEnds
CHECK_DEADLOCK FALSE
