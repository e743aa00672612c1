------------------------------ MODULE JobScheduler ------------------------------
(***************************************************************************)
(* services/job-scheduler.ts: the in-memory scheduler every background job *)
(* of the process runs under.  An action is a callback of the event loop:  *)
(* a timer, the settling of a run, or a call of one of the four methods.   *)
(* Instants are kept as the ticks that remain until them.                  *)
(***************************************************************************)
EXTENDS Naturals, FiniteSets

CONSTANTS
    Job,
    Late,           \* jobs a request registers after start() (modules/diagnostics.ts)
    Disabled,       \* definition.disabled
    RunImmediately, \* definition.runImmediately
    Interval,       \* intervalSeconds, per job, in ticks
    Second, HalfMinute, FiveMinutes,    \* the bounds of computeBackoffMs
    StopTimeout,    \* inFlightTimeoutMs
    NoTimer,        \* timer = null
    MaxErrors       \* bound: the error count stays here; the back-off has saturated

ASSUME SchedulerAssumption ==
    /\ Late \subseteq Job /\ Disabled \subseteq Job /\ RunImmediately \subseteq Job
    /\ Interval \in [Job -> Nat \ {0}]
    /\ {Second, HalfMinute, FiveMinutes} \subseteq Nat \ {0}
    /\ StopTimeout \in Nat
    /\ NoTimer \notin Nat
    /\ MaxErrors \in Nat \ {0}

VARIABLES
    jobs,       \* SchedulerJobState, per job
    started,
    stop        \* progress of the last stop(): its wait, the runs it waits for

vars == <<jobs, started, stop>>

-----------------------------------------------------------------------------
Least(a, b) == IF a <= b THEN a ELSE b
Most(a, b) == IF a >= b THEN a ELSE b

\* computeBackoffMs without its jitter.
ExponentialBackoff(j, errors) ==
    Least(Most(Second, Least(Interval[j], HalfMinute)) * 2^(errors - 1), FiveMinutes)

\* Jitter of 0.8 to 1.2.
Backoffs(j, errors) ==
    LET e == ExponentialBackoff(j, errors)
    IN  {b \in 0..2 * e : 4 * e <= 5 * b /\ 5 * b <= 6 * e}

LongestBackoff == 2 * FiveMinutes

\* Mutant: the in-flight promise of a new job is not initialised.
RegisteredUninitialised ==
    [registered |-> TRUE, timer |-> NoTimer, inFlight |-> NoTimer, runs |-> 0,
     errorCount |-> 0, wait |-> 0, sinceFailure |-> 0, stopped |-> FALSE]

\* A job that has never run.
Registered ==
    [registered |-> TRUE, timer |-> NoTimer, inFlight |-> FALSE, runs |-> 0,
     errorCount |-> 0, wait |-> 0, sinceFailure |-> 0, stopped |-> FALSE]

Unregistered == [Registered EXCEPT !.registered = FALSE]

\* Mutant: a second run is not kept out by the first.
RunJobOverlapping(j, s) ==
    IF j \in Disabled \/ s.stopped \/ s.wait > 0 THEN s
    ELSE [s EXCEPT !.inFlight = TRUE, !.runs = @ + 1]

\* Mutant: a run is not kept out by the back-off.
RunJobEager(j, s) ==
    IF j \in Disabled \/ s.stopped \/ s.inFlight THEN s
    ELSE [s EXCEPT !.inFlight = TRUE, !.runs = @ + 1]

\* Mutant: a tick skipped for the back-off begins the back-off again.
RunJobRearming(j, s) ==
    IF j \in Disabled \/ s.stopped \/ s.inFlight THEN s
    ELSE IF s.wait > 0 THEN [s EXCEPT !.wait = ExponentialBackoff(j, s.errorCount)]
    ELSE [s EXCEPT !.inFlight = TRUE, !.runs = @ + 1]

\* runJob: skipped when disabled, stopped, running or backing off.  The skip
\* counters, like every other diagnostic, are left out.
RunJob(j, s) ==
    IF j \in Disabled \/ s.stopped \/ s.inFlight \/ s.wait > 0 THEN s
    ELSE [s EXCEPT !.inFlight = TRUE, !.runs = @ + 1]

Init ==
    /\ jobs = [j \in Job |-> IF j \in Late THEN Unregistered ELSE Registered]
    /\ started = FALSE
    /\ stop = [pc |-> "none", left |-> 0, waits |-> {}]

-----------------------------------------------------------------------------
register(j) ==
    /\ ~jobs[j].registered
    /\ stop.pc = "none"     \* requests are served until onClose calls stop()
    /\ jobs' = [jobs EXCEPT ![j] = Registered]
    /\ UNCHANGED <<started, stop>>

\* A job of start(): runnable again, with a timer, and perhaps a first run.
Start(j) ==
    LET s == [jobs[j] EXCEPT !.stopped = FALSE]
        first == IF j \in RunImmediately THEN RunJob(j, s) ELSE s
    IN  IF ~s.registered THEN jobs[j]
        ELSE IF j \in Disabled THEN s
        ELSE [first EXCEPT !.timer = Interval[j]]

\* Callers await a stop() before they start() again.
start ==
    /\ ~started
    /\ stop.pc # "waiting"
    /\ started' = TRUE
    /\ jobs' = [j \in Job |-> Start(j)]
    /\ stop' = [stop EXCEPT !.pc = "none", !.waits = {}]

runNow(j) ==
    /\ jobs[j].registered
    /\ jobs' = [jobs EXCEPT ![j] = RunJob(j, @)]
    /\ UNCHANGED <<started, stop>>

TimerFires(j) ==
    /\ jobs[j].timer = 0
    /\ jobs' = [jobs EXCEPT ![j] = RunJob(j, [@ EXCEPT !.timer = Interval[j]])]
    /\ UNCHANGED <<started, stop>>

\* The finally of a run, with the error count and back-off it leaves.
Settled(s, errors, wait) ==
    [s EXCEPT !.inFlight = FALSE, !.runs = @ - 1, !.errorCount = errors, !.wait = wait,
              !.sinceFailure = 0]

\* The run settles, and a waiting stop() sees it.
RunSucceeds(j) ==
    /\ jobs[j].runs > 0
    /\ jobs' = [jobs EXCEPT ![j] = Settled(jobs[j], 0, 0)]
    /\ stop' = [stop EXCEPT !.waits = @ \ {j}]
    /\ UNCHANGED started

RunFails(j) ==
    LET errors == Least(jobs[j].errorCount + 1, MaxErrors)
    IN  /\ jobs[j].runs > 0
        /\ \E b \in Backoffs(j, errors) :
              jobs' = [jobs EXCEPT ![j] = Settled(jobs[j], errors, b)]
        /\ stop' = [stop EXCEPT !.waits = @ \ {j}]
        /\ UNCHANGED started

Stop(j) ==
    IF jobs[j].registered THEN [jobs[j] EXCEPT !.stopped = TRUE, !.timer = NoTimer] ELSE jobs[j]

InFlight == {j \in Job : jobs[j].inFlight}

\* Mutant: the wait looks at one job only.
WaitsForOne == IF InFlight = {} THEN {} ELSE {CHOOSE j \in InFlight : TRUE}

\* waitForInFlightJobsDuringShutdown: the runs in flight at this instant.
WaitsFor == InFlight

\* stop() up to its await.
stopJobs ==
    /\ stop.pc = "none"
    /\ jobs' = [j \in Job |-> Stop(j)]
    /\ stop' = [pc |-> "waiting", left |-> StopTimeout, waits |-> WaitsFor]
    /\ UNCHANGED started

\* Mutant: stop() waits for every run, however long it takes.
StopMayReturnWhenDrained == stop.waits = {}

StopMayReturn == stop.waits = {} \/ stop.left = 0

\* The race of allSettled and the timeout is over.
StopReturns ==
    /\ stop.pc = "waiting"
    /\ StopMayReturn
    /\ stop' = [stop EXCEPT !.pc = IF stop.waits = {} THEN "drained" ELSE "timedout"]
    /\ started' = FALSE
    /\ UNCHANGED jobs

\* A timer that is due stays due until the event loop gets to it.
Elapsed(n) == IF n = 0 THEN 0 ELSE n - 1

Tick ==
    /\ jobs' = [j \in Job |->
          [jobs[j] EXCEPT !.timer = IF @ = NoTimer THEN @ ELSE Elapsed(@),
                          !.wait = Elapsed(@),
                          !.sinceFailure = IF jobs[j].errorCount > 0
                                              THEN Least(@ + 1, LongestBackoff) ELSE @]]
    /\ stop' = [stop EXCEPT !.left = Elapsed(@)]
    /\ UNCHANGED started

Next ==
    \/ \E j \in Job :
          register(j) \/ runNow(j) \/ TimerFires(j) \/ RunSucceeds(j) \/ RunFails(j)
    \/ start \/ stopJobs \/ StopReturns
    \/ Tick

Spec == Init /\ [][Next]_vars

\* Time passes and the event loop runs due callbacks; a run may hang for ever.
LoopFair ==
    /\ WF_vars(Tick) /\ WF_vars(StopReturns)
    /\ \A j \in Job : WF_vars(TimerFires(j))

FairSpec == Spec /\ LoopFair

-----------------------------------------------------------------------------
JobState == [registered : BOOLEAN, timer : Nat \cup {NoTimer}, inFlight : BOOLEAN,
             runs : Nat, errorCount : 0..MaxErrors, wait : Nat, sinceFailure : Nat,
             stopped : BOOLEAN]

TypeOK ==
    /\ jobs \in [Job -> JobState]
    /\ started \in BOOLEAN
    /\ stop \in [pc : {"none", "waiting", "drained", "timedout"}, left : Nat, waits : SUBSET Job]

Contract == INSTANCE SchedulerContract
    WITH serving <- stop.pc = "none", runs <- [j \in Job |-> jobs[j].runs]

\* At most one run of a job at a time, whatever fires while it runs, and none
\* begins between stop() and the next start(), whoever asks for it.
KeepsContract == Contract!Spec

\* A stop() that did not time out leaves nothing running, until start().
DrainedMeansQuiet == stop.pc = "drained" => \A j \in Job : jobs[j].runs = 0

\* A job that failed does not run again before the shortest back-off of its
\* error count has passed, through ticks, runNow() and restarts alike.
BackoffKept ==
    [][\A j \in Job :
          jobs'[j].runs > jobs[j].runs /\ jobs[j].errorCount > 0
          => 5 * jobs[j].sinceFailure >= 4 * ExponentialBackoff(j, jobs[j].errorCount)]_vars

\* stop() returns, although a run hangs.
StopIsBounded == stop.pc = "waiting" ~> stop.pc # "waiting"

\* A scheduled job, failing or not, is run again and again.
EveryJobRunsAgain ==
    \A j \in Job \ (Late \cup Disabled) :
        (started /\ ~jobs[j].inFlight) ~> (jobs[j].inFlight \/ stop.pc # "none")
=============================================================================
