--------------------------- MODULE JobSchedulerProofs ---------------------------
(***************************************************************************)
(* Proofs about JobScheduler for any set of jobs: it keeps the contract of *)
(* SchedulerContract, a drained stop() leaves nothing running, and a job   *)
(* that failed is not run again before its back-off is over.               *)
(***************************************************************************)
EXTENDS JobScheduler, FiniteSetTheorems, TLAPS

\* The in-flight promise stands for exactly one run; a stopped scheduler has
\* stopped every job; a waiting stop() waits for every run in flight.
\* A timer is armed only while the scheduler serves.
TrackedAs(j, s, pc, waits) ==
    /\ s.runs = IF s.inFlight THEN 1 ELSE 0
    /\ s.inFlight => s.registered
    /\ s.timer # NoTimer => s.registered /\ pc = "none"
    /\ pc # "none" /\ s.registered => s.stopped
    /\ pc = "waiting" /\ s.inFlight => j \in waits
    /\ pc = "drained" => ~s.inFlight

Tracked(j) == TrackedAs(j, jobs[j], stop.pc, stop.waits)

Inv == TypeOK /\ \A j \in Job : Tracked(j)

LEMMA RegisteredType == Registered \in JobState /\ Unregistered \in JobState
<1>1. 0 \in Nat /\ 0 \in 0..MaxErrors /\ NoTimer \in Nat \cup {NoTimer}
    BY SchedulerAssumption
<1>2. Registered \in JobState
    BY <1>1, Zenon DEF Registered, JobState
<1>3. [Registered EXCEPT !.registered = FALSE] \in JobState
    BY <1>2, Zenon DEF JobState
<1> QED
    BY <1>2, <1>3 DEF Unregistered

\* runJob leaves a record alone or begins one run of a job that has none.
LEMMA RunJobEffect ==
    ASSUME NEW j \in Job, NEW s \in JobState
    PROVE  \/ RunJob(j, s) = s
           \/ /\ ~s.inFlight /\ ~s.stopped
              /\ RunJob(j, s) = [s EXCEPT !.inFlight = TRUE, !.runs = @ + 1]
BY DEF RunJob

LEMMA BegunType ==
    ASSUME NEW s \in JobState
    PROVE  /\ [s EXCEPT !.inFlight = TRUE, !.runs = @ + 1] \in JobState
           /\ [s EXCEPT !.inFlight = TRUE, !.runs = @ + 1].inFlight = TRUE
           /\ [s EXCEPT !.inFlight = TRUE, !.runs = @ + 1].runs = s.runs + 1
           /\ [s EXCEPT !.inFlight = TRUE, !.runs = @ + 1].registered = s.registered
           /\ [s EXCEPT !.inFlight = TRUE, !.runs = @ + 1].stopped = s.stopped
           /\ [s EXCEPT !.inFlight = TRUE, !.runs = @ + 1].timer = s.timer
<1>1. s.runs + 1 \in Nat
    BY DEF JobState
<1>2. [s EXCEPT !.inFlight = TRUE, !.runs = s.runs + 1] \in JobState
    BY <1>1, Zenon DEF JobState
<1>3. /\ [s EXCEPT !.inFlight = TRUE, !.runs = s.runs + 1].inFlight = TRUE
      /\ [s EXCEPT !.inFlight = TRUE, !.runs = s.runs + 1].runs = s.runs + 1
      /\ [s EXCEPT !.inFlight = TRUE, !.runs = s.runs + 1].registered = s.registered
      /\ [s EXCEPT !.inFlight = TRUE, !.runs = s.runs + 1].stopped = s.stopped
      /\ [s EXCEPT !.inFlight = TRUE, !.runs = s.runs + 1].timer = s.timer
    BY Zenon DEF JobState
<1> QED
    BY <1>2, <1>3, Zenon

\* The same, field by field: r is s, or s with its one run begun.
Ran(s, r) ==
    /\ r \in JobState
    /\ r.registered = s.registered
    /\ r.stopped = s.stopped
    /\ r.timer = s.timer
    /\ \/ r.inFlight = s.inFlight /\ r.runs = s.runs
       \/ ~s.inFlight /\ ~s.stopped /\ r.inFlight = TRUE /\ r.runs = s.runs + 1

LEMMA RunJobFields ==
    ASSUME NEW j \in Job, NEW s \in JobState
    PROVE  Ran(s, RunJob(j, s))
<1>1. CASE RunJob(j, s) = s
    BY <1>1 DEF Ran
<1>2. CASE /\ ~s.inFlight /\ ~s.stopped
           /\ RunJob(j, s) = [s EXCEPT !.inFlight = TRUE, !.runs = @ + 1]
    BY <1>2, BegunType DEF Ran
<1> QED
    BY <1>1, <1>2, RunJobEffect

LEMMA TimerType ==
    ASSUME NEW s \in JobState, NEW n \in Nat \cup {NoTimer}
    PROVE  LET r == [s EXCEPT !.timer = n]
           IN  /\ r \in JobState
               /\ r.registered = s.registered /\ r.stopped = s.stopped
               /\ r.inFlight = s.inFlight /\ r.runs = s.runs
BY DEF JobState

\* start() on one job: r is what becomes of s.
StartedAs(s, r) ==
    /\ r \in JobState
    /\ r.registered = s.registered
    /\ ~s.registered => r = s
    /\ \/ r.inFlight = s.inFlight /\ r.runs = s.runs
       \/ ~s.inFlight /\ s.registered /\ r.inFlight = TRUE /\ r.runs = s.runs + 1

LEMMA StartFields ==
    ASSUME NEW j \in Job, jobs[j] \in JobState
    PROVE  StartedAs(jobs[j], Start(j))
<1> DEFINE s == [jobs[j] EXCEPT !.stopped = FALSE]
           first == IF j \in RunImmediately THEN RunJob(j, s) ELSE s
<1>1. /\ s \in JobState /\ s.registered = jobs[j].registered
      /\ s.inFlight = jobs[j].inFlight /\ s.runs = jobs[j].runs
    <2>1. s \in JobState
        BY Zenon DEF JobState
    <2> QED
        BY <2>1, Zenon DEF JobState
<1>2. Start(j) = IF ~s.registered THEN jobs[j]
                 ELSE IF j \in Disabled THEN s ELSE [first EXCEPT !.timer = Interval[j]]
    BY Zenon DEF Start
<1> HIDE DEF s
<1>3. first = s \/ first = RunJob(j, s)
    OBVIOUS
<1> HIDE DEF first
<1>4. Interval[j] \in Nat \cup {NoTimer}
    BY SchedulerAssumption
<1>5. Ran(s, RunJob(j, s))
    BY <1>1, RunJobFields
<1>6. /\ first \in JobState /\ first.registered = s.registered
      /\ \/ first.inFlight = s.inFlight /\ first.runs = s.runs
         \/ ~s.inFlight /\ first.inFlight = TRUE /\ first.runs = s.runs + 1
    BY <1>1, <1>3, <1>5 DEF Ran
<1>7. /\ [first EXCEPT !.timer = Interval[j]] \in JobState
      /\ [first EXCEPT !.timer = Interval[j]].registered = first.registered
      /\ [first EXCEPT !.timer = Interval[j]].inFlight = first.inFlight
      /\ [first EXCEPT !.timer = Interval[j]].runs = first.runs
    BY <1>4, <1>6, TimerType
<1> QED
    BY <1>1, <1>2, <1>6, <1>7 DEF StartedAs

LEMMA InitInv == Init => Inv
<1> SUFFICES ASSUME Init PROVE Inv
    OBVIOUS
<1>1. TypeOK
    BY RegisteredType DEF Init, TypeOK
<1>2. ASSUME NEW j \in Job
      PROVE  ~jobs[j].inFlight /\ jobs[j].runs = 0 /\ jobs[j].timer = NoTimer
    BY DEF Init, Registered, Unregistered
<1>3. stop.pc = "none"
    BY DEF Init
<1> QED
    BY <1>1, <1>2, <1>3 DEF Inv, Tracked, TrackedAs

-----------------------------------------------------------------------------
StopType ==
    [pc : {"none", "waiting", "drained", "timedout"}, left : Nat, waits : SUBSET Job]

\* A run of j begins, ends, or neither.
RunsMove(j, r) ==
    \/ r.runs = jobs[j].runs
    \/ jobs[j].runs = 0 /\ r.runs = 1 /\ stop.pc = "none"
    \/ jobs[j].runs = 1 /\ r.runs = 0

\* The shape of every step that concerns one job.
OneJob(j, r) ==
    /\ r \in JobState
    /\ jobs' = [jobs EXCEPT ![j] = r]
    /\ started' = started
    /\ stop'.pc = stop.pc /\ stop' \in StopType
    /\ \A k \in Job \ {j} : k \in stop.waits => k \in stop'.waits
    /\ TrackedAs(j, r, stop'.pc, stop'.waits)
    /\ RunsMove(j, r)

LEMMA OneJobInv ==
    ASSUME Inv, NEW j \in Job, NEW r, OneJob(j, r)
    PROVE  Inv'
<1>1. TypeOK'
    BY DEF Inv, TypeOK, OneJob, StopType
<1>2. ASSUME NEW k \in Job
      PROVE  Tracked(k)'
    <2>1. CASE k = j
        BY <2>1 DEF Inv, TypeOK, OneJob, Tracked, TrackedAs
    <2>2. CASE k # j
        BY <2>2 DEF Inv, TypeOK, OneJob, Tracked, TrackedAs
    <2> QED
        BY <2>1, <2>2
<1> QED
    BY <1>1, <1>2 DEF Inv

LEMMA OneJobContract ==
    ASSUME Inv, NEW j \in Job, NEW r, OneJob(j, r)
    PROVE  [Contract!Next]_(Contract!vars)
<1> DEFINE runsOf == [k \in Job |-> jobs[k].runs]
<1>1. runsOf' = [runsOf EXCEPT ![j] = r.runs]
    BY DEF Inv, TypeOK, OneJob
<1>2. (stop.pc = "none")' = (stop.pc = "none")
    BY DEF OneJob
<1>3. CASE r.runs = jobs[j].runs
    <2>1. runsOf' = runsOf
        BY <1>1, <1>3
    <2> QED
        BY <1>2, <2>1, Zenon DEF Contract!vars
<1>4. CASE jobs[j].runs = 0 /\ r.runs = 1 /\ stop.pc = "none"
    <2>1. Contract!Begin({j})
        BY <1>1, <1>4 DEF Contract!Begin
    <2> QED
        BY <1>2, <1>4, <2>1 DEF Contract!Next, Contract!BeginRuns
<1>5. CASE jobs[j].runs = 1 /\ r.runs = 0
    <2>1. Contract!EndRun(j)
        BY <1>1, <1>2, <1>5 DEF Contract!EndRun
    <2> QED
        BY <2>1 DEF Contract!Next
<1> QED
    BY <1>3, <1>4, <1>5 DEF OneJob, RunsMove

\* A run of a job that has none, asked for while the scheduler serves, keeps
\* the job tracked; s is its state, perhaps with a re-armed timer.
LEMMA RunJobTracked ==
    ASSUME NEW j \in Job, NEW s \in JobState, NEW pc, NEW waits,
           TrackedAs(j, s, pc, waits), s.registered
    PROVE  /\ RunJob(j, s) \in JobState
           /\ TrackedAs(j, RunJob(j, s), pc, waits)
           /\ \/ RunJob(j, s).runs = s.runs
              \/ s.runs = 0 /\ RunJob(j, s).runs = 1 /\ pc = "none"
<1>1. s.inFlight \in BOOLEAN /\ s.stopped \in BOOLEAN
    BY DEF JobState
<1>2. Ran(s, RunJob(j, s))
    BY RunJobFields
<1> QED
    BY <1>1, <1>2 DEF Ran, TrackedAs

-----------------------------------------------------------------------------
\* The actions that concern one job.
LEMMA RegisterStep ==
    ASSUME Inv, NEW j \in Job, register(j)
    PROVE  OneJob(j, Registered)
<1>1. jobs[j].runs = 0 /\ Registered.runs = 0
    BY DEF Inv, Tracked, TrackedAs, register, Registered
<1>2. TrackedAs(j, Registered, stop.pc, stop.waits)
    BY DEF register, Registered, TrackedAs
<1> QED
    BY <1>1, <1>2, RegisteredType DEF OneJob, RunsMove, Inv, TypeOK, StopType, register

LEMMA RunNowStep ==
    ASSUME Inv, NEW j \in Job, runNow(j)
    PROVE  OneJob(j, RunJob(j, jobs[j]))
<1>1. jobs[j] \in JobState /\ jobs[j].registered
      /\ TrackedAs(j, jobs[j], stop.pc, stop.waits)
    BY DEF Inv, TypeOK, Tracked, runNow
<1>2. jobs' = [jobs EXCEPT ![j] = RunJob(j, jobs[j])] /\ UNCHANGED <<started, stop>>
    BY Zenon DEF runNow
<1> QED
    BY <1>1, <1>2, RunJobTracked DEF OneJob, RunsMove, Inv, TypeOK, StopType

LEMMA TimerStep ==
    ASSUME Inv, NEW j \in Job, TimerFires(j)
    PROVE  OneJob(j, RunJob(j, [jobs[j] EXCEPT !.timer = Interval[j]]))
<1> DEFINE s == [jobs[j] EXCEPT !.timer = Interval[j]]
<1>1. /\ jobs[j] \in JobState /\ TrackedAs(j, jobs[j], stop.pc, stop.waits)
      /\ jobs[j].timer = 0 /\ NoTimer \notin Nat /\ Interval[j] \in Nat \cup {NoTimer}
    BY SchedulerAssumption DEF Inv, TypeOK, Tracked, TimerFires
<1>2. jobs[j].registered /\ stop.pc = "none"
    BY <1>1 DEF TrackedAs
<1>3. /\ s \in JobState /\ s.registered = jobs[j].registered
      /\ s.stopped = jobs[j].stopped /\ s.inFlight = jobs[j].inFlight
      /\ s.runs = jobs[j].runs
    BY <1>1, TimerType
<1>4. jobs' = [jobs EXCEPT ![j] = RunJob(j, s)] /\ UNCHANGED <<started, stop>>
    BY Zenon DEF TimerFires
<1> HIDE DEF s
<1>5. TrackedAs(j, s, stop.pc, stop.waits)
    BY <1>1, <1>2, <1>3 DEF TrackedAs
<1>6. /\ RunJob(j, s) \in JobState
      /\ TrackedAs(j, RunJob(j, s), stop.pc, stop.waits)
      /\ RunsMove(j, RunJob(j, s))
    BY <1>2, <1>3, <1>5, RunJobTracked DEF RunsMove
<1>7. OneJob(j, RunJob(j, s))
    BY <1>4, <1>6 DEF OneJob, Inv, TypeOK, StopType
<1> QED
    BY <1>7 DEF s

LEMMA SettledFields ==
    ASSUME NEW s \in JobState, s.runs > 0, NEW e \in 0..MaxErrors, NEW b \in Nat
    PROVE  /\ Settled(s, e, b) \in JobState
           /\ Settled(s, e, b).inFlight = FALSE
           /\ Settled(s, e, b).runs = s.runs - 1
           /\ Settled(s, e, b).registered = s.registered
           /\ Settled(s, e, b).stopped = s.stopped
           /\ Settled(s, e, b).timer = s.timer
<1> DEFINE n == s.runs - 1
           r == [s EXCEPT !.inFlight = FALSE, !.runs = n, !.errorCount = e, !.wait = b,
                          !.sinceFailure = 0]
<1>1. n \in Nat /\ 0 \in Nat
    BY DEF JobState
<1>2. Settled(s, e, b) = r
    BY Zenon DEF Settled
<1> HIDE DEF n
<1>3. r \in JobState
    BY <1>1, Zenon DEF JobState
<1>4. /\ r.inFlight = FALSE /\ r.runs = n /\ r.registered = s.registered
      /\ r.stopped = s.stopped /\ r.timer = s.timer
    BY Zenon DEF JobState
<1> QED
    BY <1>2, <1>3, <1>4, Zenon DEF n

LEMMA SettlesStep ==
    ASSUME Inv, NEW j \in Job, NEW e \in 0..MaxErrors, NEW b \in Nat, jobs[j].runs > 0,
           jobs' = [jobs EXCEPT ![j] = Settled(jobs[j], e, b)],
           stop' = [stop EXCEPT !.waits = @ \ {j}], started' = started
    PROVE  OneJob(j, Settled(jobs[j], e, b))
<1> DEFINE r == Settled(jobs[j], e, b)
<1>1. jobs[j] \in JobState /\ TrackedAs(j, jobs[j], stop.pc, stop.waits) /\ stop \in StopType
    BY DEF Inv, TypeOK, Tracked, StopType
<1>2. /\ r \in JobState /\ r.inFlight = FALSE /\ r.runs = jobs[j].runs - 1
      /\ r.registered = jobs[j].registered /\ r.stopped = jobs[j].stopped
      /\ r.timer = jobs[j].timer
    BY <1>1, SettledFields
<1> HIDE DEF r
<1>3. jobs[j].runs = 1 /\ r.runs = 0
    BY <1>1, <1>2 DEF TrackedAs
<1>4. stop'.pc = stop.pc /\ stop' \in StopType /\ stop'.waits = stop.waits \ {j}
    BY <1>1 DEF StopType
<1>5. TrackedAs(j, r, stop'.pc, stop'.waits)
    BY <1>1, <1>2, <1>3, <1>4 DEF TrackedAs
<1>6. jobs' = [jobs EXCEPT ![j] = r]
    BY DEF r
<1>7. OneJob(j, r)
    BY <1>2, <1>3, <1>4, <1>5, <1>6 DEF OneJob, RunsMove
<1> QED
    BY <1>7 DEF r

LEMMA SucceedsStep ==
    ASSUME Inv, NEW j \in Job, RunSucceeds(j)
    PROVE  OneJob(j, Settled(jobs[j], 0, 0))
<1>1. /\ jobs[j].runs > 0 /\ stop' = [stop EXCEPT !.waits = @ \ {j}] /\ started' = started
      /\ jobs' = [jobs EXCEPT ![j] = Settled(jobs[j], 0, 0)]
    BY Zenon DEF RunSucceeds
<1>2. 0 \in 0..MaxErrors /\ 0 \in Nat
    BY SchedulerAssumption
<1> QED
    BY <1>1, <1>2, SettlesStep

LEMMA FailsStep ==
    ASSUME Inv, NEW j \in Job, RunFails(j)
    PROVE  \E r : OneJob(j, r)
<1> DEFINE e == Least(jobs[j].errorCount + 1, MaxErrors)
<1>1. /\ jobs[j].runs > 0 /\ stop' = [stop EXCEPT !.waits = @ \ {j}] /\ started' = started
      /\ \E b \in Backoffs(j, e) : jobs' = [jobs EXCEPT ![j] = Settled(jobs[j], e, b)]
    BY Zenon DEF RunFails
<1>2. e \in 0..MaxErrors
    <2>1. jobs[j] \in JobState
        BY DEF Inv, TypeOK
    <2>2. jobs[j].errorCount \in 0..MaxErrors /\ MaxErrors \in Nat
        BY <2>1, SchedulerAssumption DEF JobState
    <2> QED
        BY <2>2 DEF Least
<1> HIDE DEF e
<1>3. PICK b \in Backoffs(j, e) : jobs' = [jobs EXCEPT ![j] = Settled(jobs[j], e, b)]
    BY <1>1
<1>4. b \in Nat
    BY <1>3 DEF Backoffs
<1>5. OneJob(j, Settled(jobs[j], e, b))
    BY <1>1, <1>2, <1>3, <1>4, SettlesStep
<1> QED
    BY <1>5

-----------------------------------------------------------------------------
\* The actions that concern every job.
LEMMA StartStep ==
    ASSUME Inv, start
    PROVE  Inv' /\ [Contract!Next]_(Contract!vars)
<1>1. ASSUME NEW j \in Job
      PROVE  /\ jobs'[j] \in JobState
             /\ TrackedAs(j, jobs'[j], "none", {})
             /\ \/ jobs'[j].runs = jobs[j].runs
                \/ jobs[j].runs = 0 /\ jobs'[j].runs = 1
    <2>1. jobs[j] \in JobState /\ TrackedAs(j, jobs[j], stop.pc, stop.waits)
        BY DEF Inv, TypeOK, Tracked
    <2>2. jobs'[j] = Start(j)
        BY DEF start
    <2>3. jobs[j].inFlight \in BOOLEAN
        BY <2>1 DEF JobState
    <2>4. StartedAs(jobs[j], jobs'[j])
        BY <2>1, <2>2, StartFields
    <2> QED
        BY <2>1, <2>3, <2>4 DEF StartedAs, TrackedAs
<1>2. stop' \in StopType /\ stop'.pc = "none" /\ stop'.waits = {}
    BY DEF Inv, TypeOK, start, StopType
<1>3. TypeOK'
    BY <1>1, <1>2 DEF start, TypeOK, StopType
<1>4. Inv'
    BY <1>1, <1>2, <1>3 DEF Inv, Tracked, TrackedAs
<1> DEFINE runsOf == [k \in Job |-> jobs[k].runs]
           begun == {k \in Job : jobs'[k].runs # jobs[k].runs}
<1>5. runsOf' = [k \in Job |-> IF k \in begun THEN 1 ELSE runsOf[k]]
    BY <1>1
<1>6. \A k \in begun : runsOf[k] = 0
    BY <1>1
<1>7. \E S \in SUBSET Job :
         /\ \A k \in S : runsOf[k] = 0
         /\ runsOf' = [k \in Job |-> IF k \in S THEN 1 ELSE runsOf[k]]
    <2>1. begun \in SUBSET Job
        OBVIOUS
    <2> HIDE DEF begun
    <2> QED
        BY <1>5, <1>6, <2>1
<1>8. (stop.pc = "none")' = TRUE
    BY <1>2
<1>9. Contract!Open
    BY <1>7, <1>8, Zenon DEF Contract!Open, Contract!Begin
<1> QED
    BY <1>4, <1>9 DEF Contract!Next

LEMMA StopStep ==
    ASSUME Inv, stopJobs
    PROVE  Inv' /\ [Contract!Next]_(Contract!vars)
<1>1. /\ stop.pc = "none" /\ stop'.pc = "waiting" /\ stop' \in StopType
      /\ stop'.waits = {j \in Job : jobs[j].inFlight}
      /\ started' \in BOOLEAN
    BY SchedulerAssumption DEF Inv, TypeOK, stopJobs, WaitsFor, InFlight, StopType
<1>2. ASSUME NEW j \in Job
      PROVE  /\ jobs'[j] \in JobState
             /\ TrackedAs(j, jobs'[j], stop'.pc, stop'.waits)
             /\ jobs'[j].runs = jobs[j].runs
    <2> DEFINE s == [jobs[j] EXCEPT !.stopped = TRUE, !.timer = NoTimer]
    <2>1. jobs[j] \in JobState /\ TrackedAs(j, jobs[j], stop.pc, stop.waits)
        BY DEF Inv, TypeOK, Tracked
    <2>2. s \in JobState
        <3>1. NoTimer \in Nat \cup {NoTimer}
            OBVIOUS
        <3> QED
            BY <2>1, <3>1, Zenon DEF JobState
    <2>3. /\ s.registered = jobs[j].registered /\ s.inFlight = jobs[j].inFlight
          /\ s.runs = jobs[j].runs /\ s.stopped = TRUE /\ s.timer = NoTimer
        BY <2>1, Zenon DEF JobState
    <2>4. jobs'[j] = IF jobs[j].registered THEN s ELSE jobs[j]
        BY Zenon DEF stopJobs, Stop
    <2> HIDE DEF s
    <2> QED
        BY <1>1, <2>1, <2>2, <2>3, <2>4 DEF TrackedAs
<1>3. TypeOK'
    BY <1>1, <1>2 DEF stopJobs, TypeOK, StopType
<1>4. Inv'
    BY <1>2, <1>3 DEF Inv, Tracked
<1> DEFINE runsOf == [k \in Job |-> jobs[k].runs]
<1>5. runsOf' = runsOf
    BY <1>2
<1>6. (stop.pc = "none")' = FALSE
    BY <1>1
<1>7. Contract!Close
    BY <1>5, <1>6, Zenon DEF Contract!Close
<1> QED
    BY <1>4, <1>7 DEF Contract!Next

LEMMA ReturnsStep ==
    ASSUME Inv, StopReturns
    PROVE  Inv' /\ [Contract!Next]_(Contract!vars)
<1>1. /\ stop.pc = "waiting" /\ stop'.pc \in {"drained", "timedout"} /\ stop' \in StopType
      /\ stop'.pc = "drained" => stop.waits = {}
      /\ started' \in BOOLEAN /\ jobs' = jobs
    BY DEF Inv, TypeOK, StopReturns, StopType
<1>2. Inv'
    BY <1>1 DEF Inv, TypeOK, StopType, Tracked, TrackedAs
<1>3. (stop.pc = "none")' = (stop.pc = "none")
    BY <1>1
<1> QED
    BY <1>1, <1>2, <1>3, Zenon DEF Contract!vars

LEMMA TickStep ==
    ASSUME Inv, Tick
    PROVE  Inv' /\ [Contract!Next]_(Contract!vars)
<1>1. \A n \in Nat : Elapsed(n) \in Nat
    BY DEF Elapsed
<1>2. stop' \in StopType /\ stop'.pc = stop.pc /\ stop'.waits = stop.waits
    BY <1>1 DEF Inv, TypeOK, Tick, StopType
<1>3. ASSUME NEW j \in Job
      PROVE  /\ jobs'[j] \in JobState
             /\ TrackedAs(j, jobs'[j], stop'.pc, stop'.waits)
             /\ jobs'[j].runs = jobs[j].runs
    <2> DEFINE t == IF jobs[j].timer = NoTimer THEN jobs[j].timer ELSE Elapsed(jobs[j].timer)
               w == Elapsed(jobs[j].wait)
               f == IF jobs[j].errorCount > 0 THEN Least(jobs[j].sinceFailure + 1, LongestBackoff)
                    ELSE jobs[j].sinceFailure
               s == [jobs[j] EXCEPT !.timer = t, !.wait = w, !.sinceFailure = f]
    <2>1. jobs[j] \in JobState /\ TrackedAs(j, jobs[j], stop.pc, stop.waits)
        BY DEF Inv, TypeOK, Tracked
    <2>2. t \in Nat \cup {NoTimer} /\ (t # NoTimer => jobs[j].timer # NoTimer)
        BY <1>1, <2>1 DEF JobState
    <2>3. w \in Nat
        BY <1>1, <2>1 DEF JobState
    <2>4. f \in Nat
        <3>1. LongestBackoff \in Nat
            BY SchedulerAssumption DEF LongestBackoff
        <3> QED
            BY <2>1, <3>1 DEF JobState, Least
    <2>5. jobs'[j] = s
        BY Zenon DEF Tick
    <2> HIDE DEF t, w, f
    <2>6. s \in JobState
        BY <2>1, <2>2, <2>3, <2>4, Zenon DEF JobState
    <2>7. /\ s.registered = jobs[j].registered /\ s.inFlight = jobs[j].inFlight
          /\ s.runs = jobs[j].runs /\ s.stopped = jobs[j].stopped /\ s.timer = t
        BY <2>1, Zenon DEF JobState
    <2> HIDE DEF s
    <2> QED
        BY <1>2, <2>1, <2>2, <2>5, <2>6, <2>7 DEF TrackedAs
<1>4. TypeOK'
    BY <1>2, <1>3 DEF Tick, Inv, TypeOK, StopType
<1>5. Inv'
    BY <1>3, <1>4 DEF Inv, Tracked
<1> DEFINE runsOf == [k \in Job |-> jobs[k].runs]
<1>6. runsOf' = runsOf
    BY <1>3
<1>7. (stop.pc = "none")' = (stop.pc = "none")
    BY <1>2
<1> QED
    BY <1>5, <1>6, <1>7, Zenon DEF Contract!vars

-----------------------------------------------------------------------------
LEMMA NextStep ==
    ASSUME Inv, [Next]_vars
    PROVE  Inv' /\ [Contract!Next]_(Contract!vars)
<1>1. ASSUME NEW j \in Job, register(j) \/ runNow(j) \/ TimerFires(j) \/ RunSucceeds(j)
                            \/ RunFails(j)
      PROVE  Inv' /\ [Contract!Next]_(Contract!vars)
    <2>1. \E r : OneJob(j, r)
        BY <1>1, RegisterStep, RunNowStep, TimerStep, SucceedsStep, FailsStep
    <2> QED
        BY <2>1, OneJobInv, OneJobContract
<1>2. CASE start \/ stopJobs \/ StopReturns \/ Tick
    BY <1>2, StartStep, StopStep, ReturnsStep, TickStep
<1>3. CASE UNCHANGED vars
    <2>1. Inv'
        BY <1>3 DEF vars, Inv, TypeOK, Tracked, TrackedAs
    <2> QED
        BY <1>3, <2>1, Zenon DEF vars, Contract!vars
<1> QED
    BY <1>1, <1>2, <1>3 DEF Next

LEMMA InvHolds == Spec => []Inv
<1>1. Inv /\ [Next]_vars => Inv'
    BY NextStep
<1> QED
    BY InitInv, <1>1, PTL DEF Spec

\* Every variable of the scheduler keeps its type.
THEOREM TypeCorrect == Spec => []TypeOK
<1>1. Inv => TypeOK
    BY DEF Inv
<1> QED
    BY InvHolds, <1>1, PTL

\* A stop() that returns before its timeout leaves no run behind: nothing
\* runs until the next start().
THEOREM DrainedStaysQuiet == Spec => []DrainedMeansQuiet
<1>1. Inv => DrainedMeansQuiet
    BY DEF Inv, Tracked, TrackedAs, DrainedMeansQuiet
<1> QED
    BY InvHolds, <1>1, PTL

\* The scheduler implements SchedulerContract: no job ever has two runs at
\* once, and no run begins between stop() and the next start().
THEOREM ContractKept == Spec => KeepsContract
<1>1. Init => Contract!Init
    <2> SUFFICES ASSUME Init PROVE Contract!Init
        OBVIOUS
    <2>1. \A j \in Job : jobs[j].runs = 0
        BY DEF Init, Registered, Unregistered
    <2>2. (stop.pc = "none") = TRUE
        BY DEF Init
    <2> QED
        BY <2>1, <2>2, Zenon DEF Contract!Init
<1>2. Inv /\ [Next]_vars => [Contract!Next]_(Contract!vars)
    BY NextStep
<1> QED
    BY <1>1, <1>2, InvHolds, PTL DEF Spec, KeepsContract, Contract!Spec
-----------------------------------------------------------------------------
(***************************************************************************)
(* The back-off.  What is left of the wait and the time since the failure  *)
(* add up to the back-off that was drawn, and that is at least four fifths *)
(* of the exponential one; a run begins only when nothing is left.         *)
(***************************************************************************)

\* A power of two counts the subsets of a set.
LEMMA PowerIsNat == \A n \in Nat : 2^n \in Nat
<1> SUFFICES ASSUME NEW n \in Nat PROVE 2^n \in Nat
    OBVIOUS
<1>1. IsFiniteSet(1..n) /\ Cardinality(1..n) = n
    BY FS_Interval
<1>2. IsFiniteSet(SUBSET (1..n)) /\ Cardinality(SUBSET (1..n)) = 2^n
    BY <1>1, FS_SUBSET
<1> QED
    BY <1>2, FS_CardinalityType

LEMMA BackoffBound ==
    ASSUME NEW j \in Job, NEW e \in 1..MaxErrors
    PROVE  ExponentialBackoff(j, e) \in 0..FiveMinutes
<1> DEFINE base == Most(Second, Least(Interval[j], HalfMinute))
           p == 2^(e - 1)
<1>1. base \in Nat
    BY SchedulerAssumption DEF Most, Least
<1>2. p \in Nat
    BY PowerIsNat
<1>3. ExponentialBackoff(j, e) = Least(base * p, FiveMinutes)
    BY DEF ExponentialBackoff
<1> HIDE DEF base, p
<1>4. base * p \in Nat
    BY <1>1, <1>2
<1> QED
    BY <1>3, <1>4, SchedulerAssumption DEF Least

\* The record s of job j owes the rest of its back-off.
OwedAs(j, s) ==
    s.errorCount > 0
    => 5 * (s.wait + s.sinceFailure) >= 4 * ExponentialBackoff(j, s.errorCount)

Owed == \A j \in Job : OwedAs(j, jobs[j])

BackoffInv == Inv /\ Owed

\* A call that leaves the back-off alone, and begins a run only when it is over.
SameBackoff(s, r) ==
    /\ r.errorCount = s.errorCount /\ r.wait = s.wait /\ r.sinceFailure = s.sinceFailure
    /\ r.runs > s.runs => s.wait = 0

LEMMA RunJobWaits ==
    ASSUME NEW j \in Job, NEW s \in JobState
    PROVE  SameBackoff(s, RunJob(j, s))
<1>1. s.runs \in Nat /\ s.wait \in Nat
    BY DEF JobState
<1>2. CASE RunJob(j, s) = s
    BY <1>1, <1>2 DEF SameBackoff
<1>3. CASE RunJob(j, s) # s
    <2>1. s.wait = 0 /\ RunJob(j, s) = [s EXCEPT !.inFlight = TRUE, !.runs = @ + 1]
        BY <1>1, <1>3 DEF RunJob
    <2>2. /\ RunJob(j, s).errorCount = s.errorCount /\ RunJob(j, s).wait = s.wait
          /\ RunJob(j, s).sinceFailure = s.sinceFailure
        BY <2>1, Zenon DEF JobState
    <2> QED
        BY <2>1, <2>2 DEF SameBackoff
<1> QED
    BY <1>2, <1>3

LEMMA StartWaits ==
    ASSUME NEW j \in Job, jobs[j] \in JobState
    PROVE  SameBackoff(jobs[j], Start(j))
<1> DEFINE s == [jobs[j] EXCEPT !.stopped = FALSE]
           first == IF j \in RunImmediately THEN RunJob(j, s) ELSE s
<1>1. /\ s \in JobState /\ s.runs = jobs[j].runs /\ s.errorCount = jobs[j].errorCount
      /\ s.wait = jobs[j].wait /\ s.sinceFailure = jobs[j].sinceFailure
    <2>1. s \in JobState
        BY Zenon DEF JobState
    <2> QED
        BY <2>1, Zenon DEF JobState
<1>2. Start(j) = IF ~s.registered THEN jobs[j]
                 ELSE IF j \in Disabled THEN s ELSE [first EXCEPT !.timer = Interval[j]]
    BY Zenon DEF Start
<1> HIDE DEF s
<1>3. first \in JobState /\ SameBackoff(s, first)
    <2>1. CASE first = s
        <3>1. s.runs \in Nat
            BY <1>1 DEF JobState
        <3> QED
            BY <1>1, <2>1, <3>1 DEF SameBackoff
    <2>2. CASE first = RunJob(j, s)
        <3>1. RunJob(j, s) \in JobState /\ SameBackoff(s, RunJob(j, s))
            BY <1>1, RunJobWaits, RunJobFields DEF Ran
        <3> HIDE DEF first
        <3> QED
            BY <2>2, <3>1
    <2> QED
        BY <2>1, <2>2
<1> HIDE DEF first
<1>4. /\ [first EXCEPT !.timer = Interval[j]].runs = first.runs
      /\ [first EXCEPT !.timer = Interval[j]].errorCount = first.errorCount
      /\ [first EXCEPT !.timer = Interval[j]].wait = first.wait
      /\ [first EXCEPT !.timer = Interval[j]].sinceFailure = first.sinceFailure
    BY <1>3, Zenon DEF JobState
<1>5. jobs[j].runs \in Nat
    BY DEF JobState
<1> QED
    BY <1>1, <1>2, <1>3, <1>4, <1>5 DEF SameBackoff

\* The other things a step does to a record: the job is fresh or has
\* succeeded, has failed, or a tick has passed.
Cleared(r, s) == r.errorCount = 0 /\ ~(r.runs > s.runs)

Failed(j, r, s) ==
    /\ r.errorCount \in 1..MaxErrors /\ r.wait \in Backoffs(j, r.errorCount)
    /\ r.sinceFailure = 0 /\ ~(r.runs > s.runs)

Ticked(r, s) ==
    /\ r.errorCount = s.errorCount /\ r.runs = s.runs
    /\ r.wait = Elapsed(s.wait)
    /\ s.errorCount > 0 => r.sinceFailure = Least(s.sinceFailure + 1, LongestBackoff)

LEMMA SettledBackoff ==
    ASSUME NEW s \in JobState, NEW e, NEW b
    PROVE  /\ Settled(s, e, b).errorCount = e /\ Settled(s, e, b).wait = b
           /\ Settled(s, e, b).sinceFailure = 0 /\ ~(Settled(s, e, b).runs > s.runs)
<1>1. /\ Settled(s, e, b).errorCount = e /\ Settled(s, e, b).wait = b
      /\ Settled(s, e, b).sinceFailure = 0 /\ Settled(s, e, b).runs = s.runs - 1
    BY Zenon DEF Settled, JobState
<1>2. s.runs \in Nat
    BY DEF JobState
<1> QED
    BY <1>1, <1>2

LEMMA OneBackoffMoves ==
    ASSUME Inv, NEW i \in Job, NEW j \in Job,
           register(i) \/ runNow(i) \/ TimerFires(i) \/ RunSucceeds(i) \/ RunFails(i)
    PROVE  \/ SameBackoff(jobs[j], jobs'[j])
           \/ Cleared(jobs'[j], jobs[j])
           \/ Failed(j, jobs'[j], jobs[j])
<1>t. jobs[j] \in JobState /\ jobs \in [Job -> JobState]
    BY DEF Inv, TypeOK
<1>n. jobs[j].runs \in Nat
    BY <1>t DEF JobState
<1>1. CASE i # j
    <2>1. jobs'[j] = jobs[j]
        BY <1>1, <1>t DEF register, runNow, TimerFires, RunSucceeds, RunFails
    <2> QED
        BY <2>1, <1>n DEF SameBackoff
<1>2. CASE i = j /\ register(j)
    <2>1. jobs'[j] = Registered
        BY <1>2, <1>t DEF register
    <2> QED
        BY <2>1, <1>n DEF Registered, Cleared
<1>3. CASE i = j /\ runNow(j)
    <2>1. jobs'[j] = RunJob(j, jobs[j])
        BY <1>3, <1>t, Zenon DEF runNow
    <2> QED
        BY <2>1, <1>t, RunJobWaits
<1>4. CASE i = j /\ TimerFires(j)
    <2> DEFINE s == [jobs[j] EXCEPT !.timer = Interval[j]]
    <2>1. jobs'[j] = RunJob(j, s)
        BY <1>4, <1>t, Zenon DEF TimerFires
    <2>2. s \in JobState /\ s.runs = jobs[j].runs
        BY <1>t, TimerType, SchedulerAssumption
    <2>3. /\ s.errorCount = jobs[j].errorCount /\ s.wait = jobs[j].wait
          /\ s.sinceFailure = jobs[j].sinceFailure
        BY <1>t, Zenon DEF JobState
    <2> HIDE DEF s
    <2> QED
        BY <2>1, <2>2, <2>3, RunJobWaits DEF SameBackoff
<1>5. CASE i = j /\ RunSucceeds(j)
    <2>1. jobs'[j] = Settled(jobs[j], 0, 0)
        BY <1>5, <1>t, Zenon DEF RunSucceeds
    <2> QED
        BY <2>1, <1>t, SettledBackoff DEF Cleared
<1>6. CASE i = j /\ RunFails(j)
    <2> DEFINE e == Least(jobs[j].errorCount + 1, MaxErrors)
    <2>1. \E b \in Backoffs(j, e) : jobs' = [jobs EXCEPT ![j] = Settled(jobs[j], e, b)]
        BY <1>6, Zenon DEF RunFails
    <2>2. e \in 1..MaxErrors
        <3>1. jobs[j].errorCount \in 0..MaxErrors /\ MaxErrors \in Nat \ {0}
            BY <1>t, SchedulerAssumption DEF JobState
        <3> QED
            BY <3>1 DEF Least
    <2> HIDE DEF e
    <2>3. PICK b \in Backoffs(j, e) : jobs'[j] = Settled(jobs[j], e, b)
        BY <2>1, <1>t
    <2> QED
        BY <2>2, <2>3, <1>t, SettledBackoff DEF Failed
<1> QED
    BY <1>1, <1>2, <1>3, <1>4, <1>5, <1>6

LEMMA BackoffMoves ==
    ASSUME Inv, [Next]_vars, NEW j \in Job
    PROVE  \/ SameBackoff(jobs[j], jobs'[j])
           \/ Cleared(jobs'[j], jobs[j])
           \/ Failed(j, jobs'[j], jobs[j])
           \/ Ticked(jobs'[j], jobs[j])
<1>t. jobs[j] \in JobState /\ jobs \in [Job -> JobState]
    BY DEF Inv, TypeOK
<1>n. jobs[j].runs \in Nat
    BY <1>t DEF JobState
<1>1. CASE start
    BY <1>1, <1>t, StartWaits DEF start
<1>2. CASE stopJobs
    <2>1. jobs'[j] = IF jobs[j].registered
                     THEN [jobs[j] EXCEPT !.stopped = TRUE, !.timer = NoTimer] ELSE jobs[j]
        BY <1>2, Zenon DEF stopJobs, Stop
    <2>2. /\ jobs'[j].runs = jobs[j].runs /\ jobs'[j].errorCount = jobs[j].errorCount
          /\ jobs'[j].wait = jobs[j].wait /\ jobs'[j].sinceFailure = jobs[j].sinceFailure
        BY <2>1, <1>t, Zenon DEF JobState
    <2> QED
        BY <2>2, <1>n DEF SameBackoff
<1>3. CASE StopReturns \/ UNCHANGED vars
    BY <1>3, <1>n DEF StopReturns, vars, SameBackoff
<1>4. CASE Tick
    <2> DEFINE t == IF jobs[j].timer = NoTimer THEN jobs[j].timer ELSE Elapsed(jobs[j].timer)
               f == IF jobs[j].errorCount > 0 THEN Least(jobs[j].sinceFailure + 1, LongestBackoff)
                    ELSE jobs[j].sinceFailure
               w == Elapsed(jobs[j].wait)
    <2>1. jobs'[j] = [jobs[j] EXCEPT !.timer = t, !.wait = w, !.sinceFailure = f]
        BY <1>4, Zenon DEF Tick
    <2> HIDE DEF t, f, w
    <2>2. /\ jobs'[j].errorCount = jobs[j].errorCount /\ jobs'[j].runs = jobs[j].runs
          /\ jobs'[j].wait = w /\ jobs'[j].sinceFailure = f
        BY <2>1, <1>t, Zenon DEF JobState
    <2> QED
        BY <2>2 DEF Ticked, f, w
<1> QED
    BY <1>1, <1>2, <1>3, <1>4, OneBackoffMoves DEF Next

LEMMA OwedStep ==
    ASSUME BackoffInv, [Next]_vars
    PROVE  Owed'
<1> SUFFICES ASSUME NEW j \in Job PROVE OwedAs(j, jobs'[j])
    BY DEF Owed, OwedAs, ExponentialBackoff
<1>1. Inv /\ OwedAs(j, jobs[j]) /\ jobs[j] \in JobState
    BY DEF BackoffInv, Owed, Inv, TypeOK
<1>2. /\ jobs[j].errorCount \in 0..MaxErrors /\ MaxErrors \in Nat
      /\ jobs[j].wait \in Nat /\ jobs[j].sinceFailure \in Nat
    BY <1>1, SchedulerAssumption DEF JobState
<1>3. CASE SameBackoff(jobs[j], jobs'[j])
    BY <1>1, <1>3 DEF SameBackoff, OwedAs
<1>4. CASE Cleared(jobs'[j], jobs[j])
    BY <1>4 DEF Cleared, OwedAs
<1>5. CASE Failed(j, jobs'[j], jobs[j])
    <2> DEFINE E == ExponentialBackoff(j, jobs'[j].errorCount)
    <2>1. /\ E \in Nat /\ jobs'[j].sinceFailure = 0
          /\ jobs'[j].wait \in Nat /\ 4 * E <= 5 * jobs'[j].wait
        BY <1>5, BackoffBound DEF Failed, Backoffs
    <2> HIDE DEF E
    <2>2. 5 * (jobs'[j].wait + jobs'[j].sinceFailure) >= 4 * E
        BY <2>1
    <2> QED
        BY <2>2 DEF OwedAs, E
<1>6. CASE Ticked(jobs'[j], jobs[j]) /\ jobs[j].errorCount > 0
    <2> DEFINE E == ExponentialBackoff(j, jobs[j].errorCount)
    <2>1. /\ E \in Nat /\ E <= FiveMinutes /\ FiveMinutes \in Nat
          /\ LongestBackoff = 2 * FiveMinutes
        BY <1>2, <1>6, BackoffBound, SchedulerAssumption DEF LongestBackoff
    <2>2. 5 * (jobs[j].wait + jobs[j].sinceFailure) >= 4 * E
        BY <1>1, <1>6 DEF OwedAs
    <2>3. /\ jobs'[j].errorCount = jobs[j].errorCount
          /\ jobs'[j].wait = IF jobs[j].wait = 0 THEN 0 ELSE jobs[j].wait - 1
          /\ jobs'[j].sinceFailure = Least(jobs[j].sinceFailure + 1, LongestBackoff)
        BY <1>6 DEF Ticked, Elapsed
    <2> HIDE DEF E
    <2>4. 5 * (jobs'[j].wait + jobs'[j].sinceFailure) >= 4 * E
        <3>1. CASE jobs[j].sinceFailure + 1 <= LongestBackoff
            BY <1>2, <2>1, <2>2, <2>3, <3>1 DEF Least
        <3>2. CASE ~(jobs[j].sinceFailure + 1 <= LongestBackoff)
            <4>1. jobs'[j].sinceFailure = LongestBackoff /\ jobs'[j].wait \in Nat
                BY <1>2, <2>3, <3>2 DEF Least
            <4> QED
                BY <2>1, <4>1
        <3> QED
            BY <3>1, <3>2
    <2> QED
        BY <2>3, <2>4 DEF OwedAs, E
<1>7. CASE Ticked(jobs'[j], jobs[j]) /\ ~(jobs[j].errorCount > 0)
    BY <1>7 DEF Ticked, OwedAs
<1> QED
    BY <1>1, <1>3, <1>4, <1>5, <1>6, <1>7, BackoffMoves

\* The step that begins a run of a job that has failed.
LEMMA RunIsDue ==
    ASSUME BackoffInv, [Next]_vars, NEW j \in Job,
           jobs'[j].runs > jobs[j].runs, jobs[j].errorCount > 0
    PROVE  5 * jobs[j].sinceFailure >= 4 * ExponentialBackoff(j, jobs[j].errorCount)
<1>1. Inv /\ OwedAs(j, jobs[j]) /\ jobs[j] \in JobState
    BY DEF BackoffInv, Owed, Inv, TypeOK
<1>2. jobs[j].runs \in Nat /\ jobs[j].sinceFailure \in Nat
    BY <1>1 DEF JobState
<1>3. SameBackoff(jobs[j], jobs'[j])
    BY <1>1, <1>2, BackoffMoves DEF Cleared, Failed, Ticked
<1>4. jobs[j].wait = 0
    BY <1>3 DEF SameBackoff
<1> QED
    BY <1>1, <1>2, <1>4 DEF OwedAs

\* However a run is asked for, a job that failed does not run again before
\* the shortest back-off of its error count has passed.
THEOREM BackoffIsKept == Spec => BackoffKept
<1>1. Init => BackoffInv
    <2>1. Init => \A j \in Job : jobs[j].errorCount = 0
        BY DEF Init, Registered, Unregistered
    <2> QED
        BY <2>1, InitInv DEF BackoffInv, Owed, OwedAs
<1>2. BackoffInv /\ [Next]_vars => BackoffInv'
    BY NextStep, OwedStep DEF BackoffInv
<1>3. BackoffInv /\ [Next]_vars =>
        [\A j \in Job :
            jobs'[j].runs > jobs[j].runs /\ jobs[j].errorCount > 0
            => 5 * jobs[j].sinceFailure >= 4 * ExponentialBackoff(j, jobs[j].errorCount)]_vars
    BY RunIsDue
<1> QED
    BY <1>1, <1>2, <1>3, PTL DEF Spec, BackoffKept
=============================================================================
