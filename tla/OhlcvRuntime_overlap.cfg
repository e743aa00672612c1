SPECIFICATION Spec
CONSTANTS
    NoTime = NoTime
    NoTarget = NoTarget
    NoToken = NoToken
    t1 = t1
    t2 = t2
    w1 = w1
    w2 = w2
    Worker = {w1, w2}
    Target = {t1}
    Ranked = {}
    Seeds <- MCOneTarget
    LeaseTtl = 2
    Day = 2
    MinuteFresh = 1
    Minute = 2
    BootstrapMinutes = 1
    BootstrapDays = 1
    Chunk = 2
    RetryBase = 1
    Start = 2
    MaxTime = 5
    MaxLeases = 3
    MaxFailures = 1
SYMMETRY WorkerSymmetry
INVARIANTS
    OneLiveHolder
