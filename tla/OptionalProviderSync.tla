-------------------------- MODULE OptionalProviderSync --------------------------
(***************************************************************************)
(* The source-backed sync jobs, as the interval scheduler of an API process*)
(* (services/optional-provider-scheduler.ts) and the commands jobs/sync-*  *)
(* run them on one SQLite file: target by target, each row an upsert of its*)
(* own, then the sweep of services/snapshot-retention.ts, and the outcome  *)
(* in optional_provider_job_runs and in the registry of the API process.   *)
(* Instants are kept as the ticks that have passed since.                  *)
(***************************************************************************)
EXTENDS Naturals, Sequences

CONSTANTS
    Job, Order,     \* the jobs, and their order in a pass of the scheduler
    Targets,        \* configured targets, per job
    RowsOf,         \* keys of the rows an answer may hold, per target
    Tolerant,       \* jobs that go on after a failed fetch: market_charts
    Command,        \* processes that run a command
    Api,            \* the API process
    Retention,      \* DEFAULT_SNAPSHOT_RETENTION_DAYS
    LongestRun,     \* bound: a run lasts no longer, by the timeout of each fetch
    Absent, Nobody

Process == Command \cup {Api}
AnyTarget == UNION {Targets[j] : j \in Job}
Rows(j) == UNION {RowsOf[t] : t \in Targets[j]}
Row == UNION {Rows(j) : j \in Job}

ASSUME SyncAssumption ==
    /\ Order \in Seq(Job) /\ Order # <<>>
    /\ Tolerant \subseteq Job
    /\ Api \notin Command /\ Nobody \notin Process
    /\ Retention \in Nat \ {0} /\ LongestRun \in Nat
    /\ Absent \notin Nat

VARIABLES
    rows,       \* source rows: the age of sourceFetchedAt
    records,    \* optional_provider_job_runs
    registry,   \* createOptionalProviderJobRegistry, of the API process
    run,        \* the run in progress, per process
    mode        \* the life of the API process

vars == <<rows, records, registry, run, mode>>

-----------------------------------------------------------------------------
Oldest == Retention + LongestRun
Older(n) == IF n = Absent \/ n = Oldest THEN n ELSE n + 1

NoRecord == [status |-> "none", by |-> Nobody, stored |-> {}, age |-> 0]

Idle ==
    [pc |-> "idle", jobs |-> <<>>, plan |-> {}, todo |-> {}, left |-> {}, stored |-> {},
     failed |-> {}, age |-> 0]

Init ==
    /\ rows \in [Row -> {Absent, Oldest}]
    /\ records = [j \in Job |-> NoRecord]
    /\ registry = [j \in Job |-> "none"]
    /\ run = [p \in Process |-> Idle]
    /\ mode = "up"

Goes(p, r) == run' = [run EXCEPT ![p] = r]
JobOf(p) == Head(run[p].jobs)

Records(p, status) ==
    records' = [records EXCEPT ![JobOf(p)] =
        IF status = "succeeded"
        THEN [status |-> status, by |-> p, stored |-> run[p].stored, age |-> run[p].age]
        ELSE [NoRecord EXCEPT !.status = status, !.by = p]]

Registers(p, status) ==
    registry' = IF p = Api THEN [registry EXCEPT ![JobOf(p)] = status] ELSE registry

-----------------------------------------------------------------------------
\* runOnce, from the timer; skipped while a pass is in flight.
PassBegins ==
    /\ mode = "up" /\ run[Api].pc = "idle"
    /\ Goes(Api, [Idle EXCEPT !.pc = "begin", !.jobs = Order])
    /\ UNCHANGED <<rows, records, registry, mode>>

CommandStarts(p, j) ==
    /\ p # Api /\ run[p].pc = "idle"
    /\ Goes(p, [Idle EXCEPT !.pc = "begin", !.jobs = <<j>>])
    /\ UNCHANGED <<rows, records, registry, mode>>

\* A sync throws when every one of its targets failed, and sweeps only when it
\* has written.
Outcome(r) ==
    IF r.plan # {} /\ r.failed = r.plan THEN "fail"
    ELSE IF r.stored # {} THEN "prune" ELSE "success"

\* The code after a target: the next one, or the end of the sync.
Proceed(r) == IF r.todo = {} /\ r.left = {} THEN [r EXCEPT !.pc = Outcome(r)] ELSE r

\* The command of a tolerant job may work on the tasks of the coverage plan.
Plans(p, j) == {Targets[j]} \cup IF p # Api /\ j \in Tolerant THEN SUBSET Targets[j] ELSE {}

RecordRunning(p) ==
    /\ run[p].pc = "begin"
    /\ \E plan \in Plans(p, JobOf(p)) :
          Goes(p, Proceed([Idle EXCEPT !.pc = "sync", !.jobs = run[p].jobs, !.plan = plan,
                                       !.todo = plan]))
    /\ Records(p, "running")
    /\ Registers(p, "running")
    /\ UNCHANGED <<rows, mode>>

\* The database stays locked: this ends the pass of the scheduler, which the
\* process survives; a command goes on to record the failure.
RecordRunningFails(p) ==
    /\ run[p].pc = "begin"
    /\ Registers(p, "running")
    /\ Goes(p, IF p = Api THEN Idle ELSE [run[p] EXCEPT !.pc = "fail"])
    /\ UNCHANGED <<rows, records, mode>>

-----------------------------------------------------------------------------
\* The fetch of one of the targets; their order is the configuration's.
Awaits(p, t) == run[p].pc = "sync" /\ run[p].left = {} /\ t \in run[p].todo

\* Rows that may be none, or a 404.
TargetAnswers(p, t) ==
    /\ Awaits(p, t)
    /\ \E answer \in SUBSET RowsOf[t] :
          Goes(p, Proceed([run[p] EXCEPT !.todo = @ \ {t}, !.left = answer]))
    /\ UNCHANGED <<rows, records, registry, mode>>

TargetFails(p, t) ==
    /\ Awaits(p, t)
    /\ Goes(p, IF JobOf(p) \in Tolerant
               THEN Proceed([run[p] EXCEPT !.todo = @ \ {t}, !.failed = @ \cup {t}])
               ELSE [run[p] EXCEPT !.pc = "fail"])
    /\ UNCHANGED <<rows, records, registry, mode>>

\* The answer does not parse: no job tolerates that.
TargetMalformed(p, t) ==
    /\ Awaits(p, t)
    /\ Goes(p, [run[p] EXCEPT !.pc = "fail"])
    /\ UNCHANGED <<rows, records, registry, mode>>

\* Mutant: the row is not dated.
WriteRowUndated(p, x) ==
    /\ run[p].pc = "sync" /\ x \in run[p].left
    /\ rows' = [rows EXCEPT ![x] = Nobody]
    /\ Goes(p, Proceed([run[p] EXCEPT !.left = @ \ {x}, !.stored = @ \cup {x}]))
    /\ UNCHANGED <<records, registry, mode>>

\* One upsert; it overwrites whatever is there.
WriteRow(p, x) ==
    /\ run[p].pc = "sync" /\ x \in run[p].left
    /\ rows' = [rows EXCEPT ![x] = run[p].age]
    /\ Goes(p, Proceed([run[p] EXCEPT !.left = @ \ {x}, !.stored = @ \cup {x}]))
    /\ UNCHANGED <<records, registry, mode>>

\* Mutant: a row that could not be written is counted all the same.
WriteFailureCounted(p) ==
    /\ run[p].pc = "sync"
    /\ \E x \in run[p].left :
          Goes(p, Proceed([run[p] EXCEPT !.left = @ \ {x}, !.stored = @ \cup {x}]))
    /\ UNCHANGED <<rows, records, registry, mode>>

WriteFails(p) ==
    /\ run[p].pc = "sync" /\ run[p].left # {}
    /\ Goes(p, [run[p] EXCEPT !.pc = "fail"])
    /\ UNCHANGED <<rows, records, registry, mode>>

-----------------------------------------------------------------------------
\* Mutant: the cutoff is a day late.
ExpiredEarly(p, x) == rows[x] # Absent /\ rows[x] + 1 >= Retention + run[p].age

\* lte(sourceFetchedAt, cutoff), with the cutoff of the instant the sync began.
Expired(p, x) == rows[x] # Absent /\ rows[x] >= Retention + run[p].age

Swept(p, tables) ==
    [x \in Row |-> IF Expired(p, x) /\ \E j \in tables : x \in Rows(j) THEN Absent ELSE rows[x]]

\* enforceSnapshotRetention sweeps the tables of all jobs.
Prune(p) ==
    /\ run[p].pc = "prune"
    /\ rows' = Swept(p, Job)
    /\ Goes(p, [run[p] EXCEPT !.pc = "success"])
    /\ UNCHANGED <<records, registry, mode>>

\* One of its statements throws.
PruneFails(p) ==
    /\ run[p].pc = "prune"
    /\ \E tables \in SUBSET Job : rows' = Swept(p, tables)
    /\ Goes(p, [run[p] EXCEPT !.pc = "fail"])
    /\ UNCHANGED <<records, registry, mode>>

-----------------------------------------------------------------------------
\* The next job of the pass, or its end; a command exits.
Advanced(r) ==
    IF Len(r.jobs) > 1 THEN [Idle EXCEPT !.pc = "begin", !.jobs = Tail(r.jobs)] ELSE Idle

RecordSuccess(p) ==
    /\ run[p].pc = "success"
    /\ Records(p, "succeeded")
    /\ Registers(p, "succeeded")
    /\ Goes(p, Advanced(run[p]))
    /\ UNCHANGED <<rows, mode>>

\* Mutant: a success that could not be written stays one in the registry.
RecordSuccessFailsUnseen(p) ==
    /\ run[p].pc = "success"
    /\ Registers(p, "succeeded")
    /\ Goes(p, Advanced(run[p]))
    /\ UNCHANGED <<rows, records, mode>>

\* The outcome could not be written: caught, and recorded as a failure.  The
\* registry, told of the success just before, is told of the failure before
\* anything else in the process can read it.
RecordSuccessFails(p) ==
    /\ run[p].pc = "success"
    /\ Goes(p, [run[p] EXCEPT !.pc = "fail"])
    /\ UNCHANGED <<rows, records, registry, mode>>

\* Mutant: a job that fails ends the pass.
RecordFailureEndsPass(p) ==
    /\ run[p].pc = "fail"
    /\ Records(p, "failed")
    /\ Registers(p, "failed")
    /\ Goes(p, Idle)
    /\ UNCHANGED <<rows, mode>>

RecordFailure(p) ==
    /\ run[p].pc = "fail"
    /\ Records(p, "failed")
    /\ Registers(p, "failed")
    /\ Goes(p, Advanced(run[p]))
    /\ UNCHANGED <<rows, mode>>

\* Nothing catches this one.
RecordFailureFails(p) ==
    /\ run[p].pc = "fail"
    /\ Registers(p, "failed")
    /\ Goes(p, Idle)
    /\ UNCHANGED <<rows, records, mode>>

-----------------------------------------------------------------------------
\* The timer is cleared; the pass in flight goes on until the process exits.
stop ==
    /\ mode = "up"
    /\ mode' = "stopping"
    /\ UNCHANGED <<rows, records, registry, run>>

\* The process exits, for which its database is closed under the pass that
\* stop() no longer waits for, or it crashes.  The registry goes with it.
ApiEnds ==
    /\ mode # "down"
    /\ mode' = "down"
    /\ registry' = [j \in Job |-> "none"]
    /\ Goes(Api, Idle)
    /\ UNCHANGED <<rows, records>>

ApiStarts ==
    /\ mode = "down"
    /\ mode' = "up"
    /\ UNCHANGED <<rows, records, registry, run>>

CommandCrashes(p) ==
    /\ p # Api /\ run[p].pc # "idle"
    /\ Goes(p, Idle)
    /\ UNCHANGED <<rows, records, registry, mode>>

Tick ==
    /\ \A p \in Process : run[p].pc # "idle" => run[p].age < LongestRun
    /\ rows' = [x \in Row |-> Older(rows[x])]
    /\ records' = [j \in Job |-> IF records[j].status = "succeeded"
                                 THEN [records[j] EXCEPT !.age = Older(@)] ELSE records[j]]
    /\ run' = [p \in Process |-> IF run[p].pc = "idle" THEN run[p]
                                 ELSE [run[p] EXCEPT !.age = @ + 1]]
    /\ UNCHANGED <<registry, mode>>

\* What ends the await or the statement a run is at.
Progress(p) ==
    \/ \E t \in AnyTarget : TargetAnswers(p, t) \/ TargetFails(p, t) \/ TargetMalformed(p, t)
    \/ \E x \in Row : WriteRow(p, x)
    \/ WriteFails(p) \/ Prune(p) \/ PruneFails(p)
    \/ RecordRunning(p) \/ RecordRunningFails(p)
    \/ RecordSuccess(p) \/ RecordSuccessFails(p)
    \/ RecordFailure(p) \/ RecordFailureFails(p)

Next ==
    \/ PassBegins \/ \E p \in Command, j \in Job : CommandStarts(p, j)
    \/ \E p \in Process : Progress(p)
    \/ stop \/ ApiEnds \/ ApiStarts
    \/ \E p \in Command : CommandCrashes(p)
    \/ Tick

Spec == Init /\ [][Next]_vars

\* The timer fires again and again, an await ends, and the database is not
\* locked at every attempt to record a job.
FairSpec ==
    /\ Spec
    /\ WF_vars(PassBegins) /\ \A p \in Process : WF_vars(Progress(p))
    /\ \A j \in Job :
          /\ SF_vars(RecordRunning(Api) /\ JobOf(Api) = j)
          /\ SF_vars(RecordFailure(Api) /\ JobOf(Api) = j)

-----------------------------------------------------------------------------
Ages == 0..Oldest

Record ==
    [status : {"none", "running", "succeeded", "failed"}, by : Process \cup {Nobody},
     stored : SUBSET Row, age : Ages]

RunState ==
    [pc : {"idle", "begin", "sync", "prune", "success", "fail"}, jobs : Seq(Job),
     plan : SUBSET AnyTarget, todo : SUBSET AnyTarget, left : SUBSET Row, stored : SUBSET Row,
     failed : SUBSET AnyTarget, age : 0..LongestRun]

TypeOK ==
    /\ rows \in [Row -> Ages \cup {Absent}]
    /\ records \in [Job -> Record]
    /\ registry \in [Job -> {"none", "running", "succeeded", "failed"}]
    /\ run \in [Process -> RunState]
    /\ mode \in {"up", "stopping", "down"}

\* Every row a recorded success counts as written is in the database, whatever
\* runs, crashes and sweeps came after it, until the retention horizon less the
\* length of a run: a slower run may have dated the row earlier than this one.
SuccessIsBacked ==
    \A j \in Job :
        records[j].status = "succeeded" /\ records[j].age + LongestRun < Retention
        => \A x \in records[j].stored : rows[x] # Absent

\* /diagnostics/jobs prefers the registry to the stored record: of a run of
\* this process the two never disagree on how it ended, although either write
\* may be the one that fails.
ShownIsRecorded ==
    \A j \in Job : records[j].by = Api =>
        /\ registry[j] = "succeeded" => records[j].status = "succeeded"
        /\ registry[j] = "failed" => records[j].status \in {"failed", "running"}

\* No row is deleted before it is as old as the retention horizon, although
\* every job sweeps the rows of all of them.
KeptWhileYoung ==
    [][\A x \in Row : rows[x] # Absent /\ rows'[x] = Absent => rows[x] >= Retention]_vars

\* A record left running, by a crash or a locked database, is settled by a
\* later pass, however often the jobs fail, as long as the process stays up.
RecordsSettle ==
    \A j \in Job : records[j].status = "running" ~> records[j].status # "running" \/ mode # "up"
=============================================================================
