SPECIFICATION RecoverySpec
CONSTANTS
    charts = charts
    history = history
    api = api
    cli = cli
    nobody = nobody
    absent = absent
    NoTime = NoTime
    NoTarget = NoTarget
    NoToken = NoToken
    t1 = t1
    t2 = t2
    w1 = w1
    w2 = w2
    Worker = {w1}
    Target = {t1}
    Ranked = {}
    Seeds <- MCOneTarget
    LeaseTtl = 2
    Day = 4
    MinuteFresh = 1
    Minute = 1
    BootstrapMinutes = 1
    BootstrapDays = 1
    Chunk = 2
    RetryBase = 1
    Start = 3
    MaxTime = 5
    MaxLeases = 3
    MaxFailures = 1
INVARIANTS
    CursorsBackedByCandles
PROPERTIES
    AbandonedLeaseRecovered
    RecordsSettle
