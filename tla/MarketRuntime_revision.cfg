SPECIFICATION FairSpec
CONSTANTS
    Threshold = 1
    TooOld = 3
    CacheTtl = 2
    Modes <- MCEveryMode
PROPERTIES
    VisibilityAdvancesRevision
