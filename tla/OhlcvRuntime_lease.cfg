SPECIFICATION Spec
CONSTANTS
    NoTime = NoTime
    NoTarget = NoTarget
    NoToken = NoToken
    t1 = t1
    t2 = t2
    w1 = w1
    w2 = w2
    Worker = {w1, w2}
    Target = {t1}
    Ranked = {1}
    Seeds <- MCDeepTarget
    LeaseTtl = 1
    Day = 2
    MinuteFresh = 1
    Minute = 2
    BootstrapMinutes = 1
    BootstrapDays = 1
    Chunk = 4
    RetryBase = 1
    Start = 2
    MaxTime = 4
    MaxLeases = 3
    MaxFailures = 1
SYMMETRY WorkerSymmetry
PROPERTIES
    LatestNeverRegresses
    LeasesFenced
