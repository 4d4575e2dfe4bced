SPECIFICATION FairSpec
CONSTANTS
    Cases <- MCCases
    Diffs <- MCDiffs
    HUNK_MAX = 48
    MaxOut = 16
INVARIANTS
    AcceptedIsApplied
    CountersAgree
    
PROPERTIES
    PatchEnds
CHECK_DEADLOCK FALSE
