SPECIFICATION FairSpec
CONSTANTS
    fast = fast
    late = late
    off = off
    NoTimer = NoTimer
    Interval <- MCInterval
    Second = 1
    HalfMinute = 2
    FiveMinutes = 5
    StopTimeout = 2
    MaxErrors = 3
    Job = {fast, late, off}
    Late = {late}
    Disabled = {off}
    RunImmediately = {fast, off}
INVARIANTS
    DrainedMeansQuiet
PROPERTIES
    KeepsContract
    BackoffKept
    StopIsBounded
    EveryJobRunsAgain
