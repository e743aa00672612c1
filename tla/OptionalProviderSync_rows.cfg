SPECIFICATION Spec
CONSTANTS
    charts = charts
    api = api
    cli = cli
    nobody = nobody
    absent = absent
    Job = {charts}
    Order <- MCOneJob
    Targets <- MCTwoTargets
    RowsOf <- MCRowEach
    Tolerant = {charts}
    Command = {cli}
    Api = api
    Retention = 3
    LongestRun = 1
    Absent = absent
    Nobody = nobody
INVARIANTS
    SuccessIsBacked
    ShownIsRecorded
PROPERTIES
    KeptWhileYoung
