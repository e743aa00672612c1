SPECIFICATION Spec
CONSTANTS
    kraken = kraken
    gate = gate
    lbank = lbank
    Order <- MCOrder
    Rescuers <- MCRescuers
    Concurrency = 2
    BaseBackoff = 1
    MaxBackoff = 1
    MaxFailures = 1
INVARIANTS
    LiveMeansFresh
PROPERTIES
    AnswersKept
    RescueReachesProvider
    SyncEnds
CHECK_DEADLOCK FALSE
