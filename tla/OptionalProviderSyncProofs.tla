----------------------- MODULE OptionalProviderSyncProofs -----------------------
(***************************************************************************)
(* Proofs about OptionalProviderSync for any jobs, targets, commands,      *)
(* retention and length of a run.                                          *)
(***************************************************************************)
EXTENDS OptionalProviderSync, TLAPS

Running(r) == r.pc \in {"sync", "prune", "success", "fail"}

\* A run that is not idle has a job, and one that is idle has stored nothing.
RunOK(r) ==
    /\ r \in RunState
    /\ r.pc # "idle" => r.jobs # <<>>
    /\ r.pc = "idle" => r.stored = {}

\* A row written in a run that began n ticks ago is still there, and was dated
\* no more than the length of a run earlier, by this run or by a later write.
Backs(x, n) ==
    n + LongestRun < Retention => rows[x] # Absent /\ rows[x] <= n + LongestRun

StoredBacked == \A p \in Process : \A x \in run[p].stored : Backs(x, run[p].age)

RecordedBacked ==
    \A j \in Job : records[j].status = "succeeded" =>
        \A x \in records[j].stored : Backs(x, records[j].age)

\* While a run of the API process goes on, its record says so, unless a command
\* has overwritten it.
RunIsRecorded ==
    Running(run[Api]) /\ records[JobOf(Api)].by = Api => records[JobOf(Api)].status = "running"

Inv ==
    /\ TypeOK
    /\ \A p \in Process : RunOK(run[p])
    /\ StoredBacked /\ RecordedBacked
    /\ RunIsRecorded /\ ShownIsRecorded

-----------------------------------------------------------------------------
LEMMA Constant ==
    /\ Order \in Seq(Job) /\ Order # <<>>
    /\ Api \in Process /\ Nobody \notin Process
    /\ Retention \in Nat /\ Retention > 0 /\ LongestRun \in Nat /\ Oldest \in Nat
    /\ Oldest = Retention + LongestRun
    /\ Absent \notin Nat
BY SyncAssumption DEF Process, Oldest

LEMMA Numbers ==
    /\ Retention \in Nat /\ LongestRun \in Nat /\ Oldest \in Nat
    /\ Oldest = Retention + LongestRun
    /\ Absent \notin Nat
BY Constant

LEMMA AgesAreNumbers == \A n \in Ages : n \in Nat
BY Numbers DEF Ages

LEMMA RowsOfTargets ==
    ASSUME NEW t \in AnyTarget
    PROVE  RowsOf[t] \subseteq Row
<1>1. PICK j \in Job : t \in Targets[j]
    BY Zenon DEF AnyTarget
<1>2. RowsOf[t] \subseteq Rows(j)
    BY <1>1, Zenon DEF Rows
<1>3. Rows(j) \subseteq Row
    BY Zenon DEF Row
<1> QED
    BY <1>2, <1>3

LEMMA PlansAreTargets ==
    ASSUME NEW j \in Job, NEW p, NEW plan \in Plans(p, j)
    PROVE  plan \subseteq AnyTarget
BY Zenon DEF Plans, AnyTarget

LEMMA IdleOK == RunOK(Idle) /\ ~Running(Idle)
<1>1. <<>> \in Seq(Job)
    OBVIOUS
<1>2. 0 \in 0..LongestRun
    BY Constant
<1> QED
    BY <1>1, <1>2, Zenon DEF RunOK, Idle, RunState, Running

\* The state in which a process starts on the jobs s.
LEMMA BeginOK ==
    ASSUME NEW s \in Seq(Job), s # <<>>
    PROVE  LET r == [Idle EXCEPT !.pc = "begin", !.jobs = s]
           IN  RunOK(r) /\ ~Running(r) /\ r.stored = {} /\ r.jobs = s /\ r.age = 0
<1>1. 0 \in 0..LongestRun
    BY Constant
<1> QED
    BY <1>1, Zenon DEF RunOK, Idle, RunState, Running

LEMMA TailIsSequence ==
    ASSUME NEW q \in Seq(Job), Len(q) > 1
    PROVE  Tail(q) \in Seq(Job) /\ Tail(q) # <<>>
<1>1. q # <<>> /\ Len(q) \in Nat
    OBVIOUS
<1>2. Tail(q) \in Seq(Job) /\ Len(Tail(q)) = Len(q) - 1
    BY <1>1
<1>3. Len(Tail(q)) # 0
    BY <1>1, <1>2
<1>4. Len(<<>>) = 0
    OBVIOUS
<1>5. Tail(q) # <<>>
    BY <1>3, <1>4, Zenon
<1> QED
    BY <1>2, <1>5

LEMMA AdvancedOK ==
    ASSUME NEW r \in RunState
    PROVE  RunOK(Advanced(r)) /\ ~Running(Advanced(r)) /\ Advanced(r).stored = {}
<1>1. CASE Len(r.jobs) > 1
    <2>1. r.jobs \in Seq(Job)
        BY Zenon DEF RunState
    <2> DEFINE s == Tail(r.jobs)
    <2>2. s \in Seq(Job) /\ s # <<>>
        BY <1>1, <2>1, TailIsSequence, Zenon
    <2>3. Advanced(r) = [Idle EXCEPT !.pc = "begin", !.jobs = s]
        BY <1>1, Zenon DEF Advanced
    <2> HIDE DEF s
    <2> QED
        BY <2>2, <2>3, BeginOK, Zenon
<1>2. CASE ~(Len(r.jobs) > 1)
    BY <1>2, IdleOK, Zenon DEF Advanced, Idle
<1> QED
    BY <1>1, <1>2

\* Proceed moves only the program counter.
LEMMA ProceedOK ==
    ASSUME NEW r \in RunState, Running(r), r.jobs # <<>>
    PROVE  /\ RunOK(Proceed(r)) /\ Running(Proceed(r))
           /\ Proceed(r).jobs = r.jobs /\ Proceed(r).age = r.age
           /\ Proceed(r).stored = r.stored
<1>1. Outcome(r) \in {"fail", "prune", "success"}
    BY Zenon DEF Outcome
<1> DEFINE o == Outcome(r)
           s == [r EXCEPT !.pc = o]
<1> HIDE DEF o
<1>2. o \in {"fail", "prune", "success"}
    BY <1>1 DEF o
<1>3. s \in RunState /\ s.pc = o /\ s.jobs = r.jobs /\ s.age = r.age /\ s.stored = r.stored
    BY <1>2, Zenon DEF RunState
<1>4. RunOK(s) /\ Running(s)
    BY <1>2, <1>3 DEF RunOK, Running
<1>5. Proceed(r) = r \/ Proceed(r) = s
    BY Zenon DEF Proceed, o
<1>6. RunOK(r)
    BY DEF RunOK, Running
<1> QED
    BY <1>3, <1>4, <1>5, <1>6

-----------------------------------------------------------------------------
\* What the rows keep, whoever writes or sweeps.
RowsKept == \A x \in Row, n \in Nat : Backs(x, n) => Backs(x, n)'

RowsTyped == rows' \in [Row -> Ages \cup {Absent}]

\* A step of p that moves its run to r, with the conditions on r under which no
\* part of the invariant is lost.
MovesTo(p, r) ==
    /\ Goes(p, r) /\ RunOK(r)
    /\ \A x \in r.stored : Backs(x, r.age)'

LEMMA RunsAfter ==
    ASSUME Inv, NEW p \in Process, NEW r, MovesTo(p, r)
    PROVE  /\ run' \in [Process -> RunState] /\ \A q \in Process : RunOK(run'[q])
           /\ run'[p] = r /\ \A q \in Process : q # p => run'[q] = run[q]
<1>1. run \in [Process -> RunState] /\ \A q \in Process : RunOK(run[q])
    BY DEF Inv, TypeOK
<1>2. RunOK(r) /\ r \in RunState /\ run' = [run EXCEPT ![p] = r]
    BY DEF MovesTo, Goes, RunOK
<1> QED
    BY <1>1, <1>2, Zenon

LEMMA StoredAfter ==
    ASSUME Inv, NEW p \in Process, NEW r, MovesTo(p, r), RowsKept
    PROVE  StoredBacked'
<1> SUFFICES ASSUME NEW q \in Process, NEW x \in run'[q].stored
             PROVE  Backs(x, run[q].age)'
    BY DEF StoredBacked
<1>1. /\ run'[p] = r /\ \A u \in Process : u # p => run'[u] = run[u]
    BY RunsAfter, Zenon
<1>2. CASE q = p
    BY <1>1, <1>2 DEF MovesTo, Backs
<1>3. CASE q # p
    <2>1. run'[q] = run[q] /\ run[q] \in RunState
        BY <1>1, <1>3 DEF Inv, TypeOK
    <2>2. x \in Row /\ run[q].age \in 0..LongestRun /\ x \in run[q].stored
        BY <2>1, Zenon DEF RunState
    <2>3. run[q].age \in Nat
        BY <2>2, Constant
    <2>4. Backs(x, run[q].age)
        BY <2>2, Zenon DEF Inv, StoredBacked
    <2> QED
        BY <2>1, <2>2, <2>3, <2>4 DEF RowsKept, Backs
<1> QED
    BY <1>2, <1>3

\* Steps that leave the records alone.
LEMMA RecordsStay ==
    ASSUME Inv, NEW p \in Process, NEW r, MovesTo(p, r), RowsKept, RowsTyped,
           records' = records,
           p = Api /\ Running(r) => Running(run[p]) /\ r.jobs = run[p].jobs,
           registry' \in [Job -> {"none", "running", "succeeded", "failed"}],
           mode' \in {"up", "stopping", "down"}, ShownIsRecorded'
    PROVE  Inv'
<1>1. /\ run' \in [Process -> RunState] /\ \A q \in Process : RunOK(run'[q])
      /\ run'[p] = r /\ \A q \in Process : q # p => run'[q] = run[q]
    BY RunsAfter, Zenon
<1>2. TypeOK'
    BY <1>1, Zenon DEF Inv, TypeOK, RowsTyped
<1>3. StoredBacked'
    BY StoredAfter, Zenon
<1>4. RecordedBacked'
    <2> SUFFICES ASSUME NEW j \in Job, records[j].status = "succeeded", NEW x \in records[j].stored
                 PROVE  Backs(x, records[j].age)'
        BY Zenon DEF RecordedBacked, Backs
    <2>1. records[j] \in Record
        BY DEF Inv, TypeOK
    <2>2. x \in Row /\ records[j].age \in 0..Oldest
        BY <2>1, Zenon DEF Record, Ages
    <2>3. records[j].age \in Nat
        BY <2>2, Constant
    <2>4. Backs(x, records[j].age)
        BY Zenon DEF Inv, RecordedBacked
    <2>5. records'[j].age = records[j].age
        OBVIOUS
    <2> QED
        BY <2>2, <2>3, <2>4, <2>5, Zenon DEF RowsKept, Backs
<1>5. RunIsRecorded'
    <2>1. Running(run'[Api]) => Running(run[Api]) /\ run'[Api].jobs = run[Api].jobs
        BY <1>1, Constant, Zenon
    <2> QED
        BY <2>1 DEF Inv, RunIsRecorded, JobOf
<1> QED
    BY <1>1, <1>2, <1>3, <1>4, <1>5 DEF Inv

\* Steps that leave the rows alone as well.
LEMMA RegistryStep ==
    ASSUME Inv, NEW p \in Process, NEW r, Goes(p, r), RunOK(r),
           r.stored = {} \/ (r.stored = run[p].stored /\ r.age = run[p].age),
           p = Api /\ Running(r) => Running(run[p]) /\ r.jobs = run[p].jobs,
           rows' = rows, records' = records,
           registry' \in [Job -> {"none", "running", "succeeded", "failed"}],
           mode' \in {"up", "stopping", "down"}, ShownIsRecorded'
    PROVE  Inv'
<1>1. RowsKept /\ RowsTyped
    BY DEF RowsKept, RowsTyped, Backs, Inv, TypeOK
<1>2. \A x \in run[p].stored : Backs(x, run[p].age)
    BY Zenon DEF Inv, StoredBacked
<1>3. MovesTo(p, r)
    BY <1>2 DEF MovesTo, Backs
<1> QED
    BY <1>1, <1>3, RecordsStay

\* Steps that change nothing but the run of p.
LEMMA RunStep ==
    ASSUME Inv, NEW p \in Process, NEW r, Goes(p, r), RunOK(r),
           r.stored = {} \/ (r.stored = run[p].stored /\ r.age = run[p].age),
           p = Api /\ Running(r) => Running(run[p]) /\ r.jobs = run[p].jobs,
           UNCHANGED <<rows, records, registry, mode>>
    PROVE  Inv'
<1>1. ShownIsRecorded'
    BY DEF Inv, ShownIsRecorded
<1>2. /\ registry' \in [Job -> {"none", "running", "succeeded", "failed"}]
      /\ mode' \in {"up", "stopping", "down"} /\ rows' = rows /\ records' = records
    BY DEF Inv, TypeOK
<1> QED
    BY <1>1, <1>2, RegistryStep

-----------------------------------------------------------------------------
LEMMA RunHasJob ==
    ASSUME Inv, NEW p \in Process, run[p].pc # "idle"
    PROVE  run[p] \in RunState /\ run[p].jobs # <<>> /\ JobOf(p) \in Job
<1>1. run[p] \in RunState /\ run[p].jobs # <<>>
    BY DEF Inv, RunOK
<1>2. run[p].jobs \in Seq(Job)
    BY <1>1, Zenon DEF RunState
<1>3. \A q \in Seq(Job) : q # <<>> => Head(q) \in Job
    OBVIOUS
<1> QED
    BY <1>1, <1>2, <1>3, Zenon DEF JobOf

LEMMA StartsKeepInv ==
    ASSUME Inv, PassBegins \/ \E p \in Command, j \in Job : CommandStarts(p, j)
    PROVE  Inv'
<1>1. CASE PassBegins
    BY <1>1, RunStep, BeginOK, Constant, Zenon DEF PassBegins
<1>2. ASSUME NEW p \in Command, NEW j \in Job, CommandStarts(p, j)
      PROVE  Inv'
    <2>1. <<j>> \in Seq(Job) /\ <<j>> # <<>>
        OBVIOUS
    <2> DEFINE s == <<j>>
               r == [Idle EXCEPT !.pc = "begin", !.jobs = s]
    <2>2. s \in Seq(Job) /\ s # <<>>
        BY <2>1
    <2>3. Goes(p, r) /\ p \in Process /\ UNCHANGED <<rows, records, registry, mode>>
        BY <1>2, Zenon DEF CommandStarts, Process
    <2> HIDE DEF s
    <2>4. RunOK(r) /\ ~Running(r) /\ r.stored = {}
        BY <2>2, BeginOK, Zenon
    <2> HIDE DEF r
    <2> QED
        BY <2>3, <2>4, RunStep
<1> QED
    BY <1>1, <1>2

\* The run of p fails without having stored anything more.
LEMMA FailingOK ==
    ASSUME Inv, NEW p \in Process, Running(run[p])
    PROVE  LET r == [run[p] EXCEPT !.pc = "fail"]
           IN  /\ RunOK(r) /\ Running(r) /\ r.jobs = run[p].jobs
               /\ r.stored = run[p].stored /\ r.age = run[p].age
<1>1. run[p] \in RunState /\ run[p].jobs # <<>>
    BY RunHasJob DEF Running
<1> QED
    BY <1>1, Zenon DEF RunState, RunOK, Running

LEMMA FailuresKeepInv ==
    ASSUME Inv, NEW p \in Process,
           \/ \E t \in AnyTarget : TargetMalformed(p, t)
           \/ WriteFails(p) \/ RecordSuccessFails(p)
    PROVE  Inv'
<1>1. Running(run[p])
    BY DEF TargetMalformed, Awaits, WriteFails, RecordSuccessFails, Running
<1>2. Goes(p, [run[p] EXCEPT !.pc = "fail"])
    BY Zenon DEF TargetMalformed, WriteFails, RecordSuccessFails
<1>3. UNCHANGED <<rows, records, registry, mode>>
    BY DEF TargetMalformed, WriteFails, RecordSuccessFails
<1> QED
    BY <1>1, <1>2, <1>3, FailingOK, RunStep, Zenon

LEMMA TargetAnswersKeepsInv ==
    ASSUME Inv, NEW p \in Process, NEW t \in AnyTarget, TargetAnswers(p, t)
    PROVE  Inv'
<1>1. run[p].pc = "sync" /\ Running(run[p])
    BY DEF TargetAnswers, Awaits, Running
<1>2. run[p] \in RunState /\ run[p].jobs # <<>>
    BY <1>1, RunHasJob
<1>3. PICK answer \in SUBSET RowsOf[t] :
          Goes(p, Proceed([run[p] EXCEPT !.todo = @ \ {t}, !.left = answer]))
    BY Zenon DEF TargetAnswers
<1> DEFINE s == [run[p] EXCEPT !.todo = @ \ {t}, !.left = answer]
<1>4. answer \in SUBSET Row
    BY RowsOfTargets
<1>5. /\ s \in RunState /\ s.pc = "sync" /\ s.jobs = run[p].jobs
      /\ s.stored = run[p].stored /\ s.age = run[p].age
    BY <1>1, <1>2, <1>4, Zenon DEF RunState
<1> HIDE DEF s
<1>6. Running(s)
    BY <1>5 DEF Running
<1>7. /\ RunOK(Proceed(s)) /\ Proceed(s).jobs = run[p].jobs /\ Proceed(s).age = run[p].age
      /\ Proceed(s).stored = run[p].stored
    BY <1>2, <1>5, <1>6, ProceedOK, Zenon
<1>8. UNCHANGED <<rows, records, registry, mode>> /\ Goes(p, Proceed(s))
    BY <1>3 DEF TargetAnswers, s
<1> QED
    BY <1>1, <1>7, <1>8, RunStep, Zenon

LEMMA TargetFailsKeepsInv ==
    ASSUME Inv, NEW p \in Process, NEW t \in AnyTarget, TargetFails(p, t)
    PROVE  Inv'
<1>1. run[p].pc = "sync" /\ Running(run[p])
    BY DEF TargetFails, Awaits, Running
<1>2. run[p] \in RunState /\ run[p].jobs # <<>>
    BY <1>1, RunHasJob
<1>3. UNCHANGED <<rows, records, registry, mode>>
    BY DEF TargetFails
<1>4. CASE JobOf(p) \in Tolerant
    <2> DEFINE s == [run[p] EXCEPT !.todo = @ \ {t}, !.failed = @ \cup {t}]
    <2>1. /\ s \in RunState /\ s.pc = "sync" /\ s.jobs = run[p].jobs
          /\ s.stored = run[p].stored /\ s.age = run[p].age
        BY <1>1, <1>2, Zenon DEF RunState
    <2>2. Goes(p, Proceed(s))
        BY <1>4, Zenon DEF TargetFails
    <2> HIDE DEF s
    <2>3. Running(s)
        BY <2>1 DEF Running
    <2>4. /\ RunOK(Proceed(s)) /\ Proceed(s).jobs = run[p].jobs /\ Proceed(s).age = run[p].age
          /\ Proceed(s).stored = run[p].stored
        BY <1>2, <2>1, <2>3, ProceedOK, Zenon
    <2> QED
        BY <1>1, <1>3, <2>2, <2>4, RunStep, Zenon
<1>5. CASE JobOf(p) \notin Tolerant
    <2>1. Goes(p, [run[p] EXCEPT !.pc = "fail"])
        BY <1>5, Zenon DEF TargetFails
    <2> QED
        BY <1>1, <1>3, <2>1, FailingOK, RunStep, Zenon
<1> QED
    BY <1>4, <1>5

LEMMA CommandCrashesKeepsInv ==
    ASSUME Inv, NEW p \in Command, CommandCrashes(p)
    PROVE  Inv'
<1>1. p \in Process /\ Goes(p, Idle) /\ Idle.stored = {}
    BY Zenon DEF CommandCrashes, Process, Idle
<1>2. UNCHANGED <<rows, records, registry, mode>>
    BY DEF CommandCrashes
<1> QED
    BY <1>1, <1>2, IdleOK, RunStep, Zenon

-----------------------------------------------------------------------------
\* A row dated by a run is younger than any run of the present could date it.
LEMMA WriteRowKeepsInv ==
    ASSUME Inv, NEW p \in Process, NEW x \in Row, WriteRow(p, x)
    PROVE  Inv'
<1>1. run[p].pc = "sync" /\ Running(run[p])
    BY DEF WriteRow, Running
<1>2. run[p] \in RunState /\ run[p].jobs # <<>>
    BY <1>1, RunHasJob
<1> DEFINE s == [run[p] EXCEPT !.left = @ \ {x}, !.stored = @ \cup {x}]
<1>3. /\ s \in RunState /\ s.pc = "sync" /\ s.jobs = run[p].jobs
      /\ s.stored = run[p].stored \cup {x} /\ s.age = run[p].age
    BY <1>1, <1>2, Zenon DEF RunState
<1>4. Goes(p, Proceed(s)) /\ rows' = [rows EXCEPT ![x] = run[p].age]
    BY DEF WriteRow
<1> HIDE DEF s
<1>5. Running(s)
    BY <1>3 DEF Running
<1>0. PICK r : r = Proceed(s)
    OBVIOUS
<1>6. /\ RunOK(r) /\ r.jobs = run[p].jobs /\ r.age = run[p].age
      /\ r.stored = run[p].stored \cup {x}
    BY <1>0, <1>2, <1>3, <1>5, ProceedOK, Zenon
<1>7. Goes(p, r)
    BY <1>0, <1>4, Zenon
<1>8. run[p].age \in 0..LongestRun
    BY <1>2, Zenon DEF RunState
<1>9. rows \in [Row -> Ages \cup {Absent}]
    BY DEF Inv, TypeOK
<1>10. run[p].age \in Ages /\ run[p].age \in Nat /\ run[p].age # Absent
    BY <1>8, Constant DEF Ages
<1>11. RowsTyped
    BY <1>4, <1>9, <1>10, Zenon DEF RowsTyped
<1>12. \A n \in Nat : Backs(x, n)'
    BY <1>4, <1>8, <1>9, <1>10, Constant DEF Backs
<1>13. \A y \in Row : y # x => rows'[y] = rows[y]
    BY <1>4, <1>9
<1>14. RowsKept
    BY <1>12, <1>13 DEF RowsKept, Backs
<1>15. \A y \in run[p].stored : y \in Row /\ Backs(y, run[p].age)
    BY <1>2, Zenon DEF Inv, StoredBacked, RunState
<1>16. ASSUME NEW y \in r.stored
       PROVE  Backs(y, r.age)'
    <2>1. CASE y = x
        BY <2>1, <1>6, <1>10, <1>12 DEF Backs
    <2>2. CASE y \in run[p].stored
        BY <2>2, <1>6, <1>10, <1>14, <1>15 DEF RowsKept, Backs
    <2> QED
        BY <2>1, <2>2, <1>6, <1>16
<1>17. MovesTo(p, r)
    BY <1>6, <1>7, <1>16, Zenon DEF MovesTo
<1>18. ShownIsRecorded' /\ records' = records
    BY DEF Inv, ShownIsRecorded, WriteRow
<1>19. /\ registry' \in [Job -> {"none", "running", "succeeded", "failed"}]
       /\ mode' \in {"up", "stopping", "down"}
    BY DEF Inv, TypeOK, WriteRow
<1> QED
    BY <1>1, <1>6, <1>11, <1>14, <1>17, <1>18, <1>19, RecordsStay, Zenon

\* A sweep takes only rows past the horizon, which nothing vouches for any more.
LEMMA SweptRows ==
    ASSUME Inv, NEW p \in Process, NEW tables, rows' = Swept(p, tables)
    PROVE  RowsTyped /\ RowsKept
<1>1. rows \in [Row -> Ages \cup {Absent}]
    BY DEF Inv, TypeOK
<1>2. \A x \in Row : rows'[x] = rows[x] \/ (rows'[x] = Absent /\ Expired(p, x))
    BY Zenon DEF Swept
<1>3. RowsTyped
    <2> DEFINE gone(x) == Expired(p, x) /\ \E j \in tables : x \in Rows(j)
    <2>1. rows' = [x \in Row |-> IF gone(x) THEN Absent ELSE rows[x]]
        BY Zenon DEF Swept
    <2> HIDE DEF gone
    <2> QED
        BY <1>1, <2>1 DEF RowsTyped
<1>4. run[p].age \in Nat
    <2>1. run[p] \in RunState
        BY DEF Inv, TypeOK
    <2>2. run[p].age \in 0..LongestRun
        BY <2>1, Zenon DEF RunState
    <2> QED
        BY <2>2, Constant
<1>5. RowsKept
    <2> SUFFICES ASSUME NEW x \in Row, NEW n \in Nat, Backs(x, n)
                 PROVE  Backs(x, n)'
        BY DEF RowsKept
    <2>1. CASE rows'[x] = rows[x]
        BY <2>1 DEF Backs
    <2>2. CASE Expired(p, x)
        <3>1. rows[x] \in Nat /\ rows[x] >= Retention + run[p].age
            BY <2>2, <1>1, Constant DEF Expired, Ages
        <3>2. ~(n + LongestRun < Retention)
            BY <3>1, <1>4, Constant DEF Backs
        <3> QED
            BY <3>2 DEF Backs
    <2> QED
        BY <1>2, <2>1, <2>2
<1> QED
    BY <1>3, <1>5

LEMMA SweepsKeepInv ==
    ASSUME Inv, NEW p \in Process, Prune(p) \/ PruneFails(p)
    PROVE  Inv'
<1>1. run[p].pc = "prune" /\ Running(run[p])
    BY DEF Prune, PruneFails, Running
<1>2. run[p] \in RunState /\ run[p].jobs # <<>>
    BY <1>1, RunHasJob
<1>3. \E tables : rows' = Swept(p, tables)
    BY Zenon DEF Prune, PruneFails
<1>4. RowsTyped /\ RowsKept
    BY <1>3, SweptRows, Zenon
<1>5. PICK pc \in {"success", "fail"} : Goes(p, [run[p] EXCEPT !.pc = pc])
    BY Zenon DEF Prune, PruneFails
<1>0. PICK r : r = [run[p] EXCEPT !.pc = pc]
    OBVIOUS
<1>6. /\ r \in RunState /\ r.pc = pc /\ r.jobs = run[p].jobs /\ r.age = run[p].age
      /\ r.stored = run[p].stored
    BY <1>0, <1>2, <1>5, Zenon DEF RunState
<1>7. Goes(p, r)
    BY <1>0, <1>5, Zenon
<1>8. RunOK(r)
    BY <1>2, <1>6 DEF RunOK
<1>9. \A y \in run[p].stored : y \in Row /\ Backs(y, run[p].age)
    BY <1>2, Zenon DEF Inv, StoredBacked, RunState
<1>10. run[p].age \in Nat
    <2>1. run[p].age \in 0..LongestRun
        BY <1>2, Zenon DEF RunState
    <2> QED
        BY <2>1, Constant
<1>11. MovesTo(p, r)
    <2>1. ASSUME NEW y \in r.stored
          PROVE  Backs(y, r.age)'
        <3>1. y \in Row /\ Backs(y, run[p].age)
            BY <1>6, <1>9
        <3> QED
            BY <1>4, <1>6, <1>10, <3>1 DEF RowsKept, Backs
    <2> QED
        BY <1>7, <1>8, <2>1, Zenon DEF MovesTo
<1>12. ShownIsRecorded' /\ records' = records
    BY DEF Inv, ShownIsRecorded, Prune, PruneFails
<1>13. /\ registry' \in [Job -> {"none", "running", "succeeded", "failed"}]
       /\ mode' \in {"up", "stopping", "down"}
    BY DEF Inv, TypeOK, Prune, PruneFails
<1> QED
    BY <1>1, <1>4, <1>6, <1>11, <1>12, <1>13, RecordsStay, Zenon

-----------------------------------------------------------------------------
LEMMA RegisteredType ==
    ASSUME Inv, NEW p \in Process, NEW status \in {"running", "succeeded", "failed"},
           JobOf(p) \in Job, Registers(p, status)
    PROVE  registry' \in [Job -> {"none", "running", "succeeded", "failed"}]
BY DEF Registers, Inv, TypeOK

LEMMA RecordRunningFailsKeepsInv ==
    ASSUME Inv, NEW p \in Process, RecordRunningFails(p)
    PROVE  Inv'
<1>1. run[p].pc = "begin" /\ rows' = rows /\ records' = records /\ mode' = mode
    BY DEF RecordRunningFails
<1>2. run[p] \in RunState /\ run[p].jobs # <<>> /\ JobOf(p) \in Job
    BY <1>1, RunHasJob
<1>3. Registers(p, "running")
    BY DEF RecordRunningFails
<1>4. PICK r : Goes(p, r) /\ r = IF p = Api THEN Idle ELSE [run[p] EXCEPT !.pc = "fail"]
    BY Zenon DEF RecordRunningFails
<1>5. /\ RunOK(r)
      /\ r.stored = {} \/ (r.stored = run[p].stored /\ r.age = run[p].age)
      /\ p = Api => ~Running(r)
    <2>1. CASE p = Api
        BY <2>1, <1>4, IdleOK, Zenon DEF Idle
    <2>2. CASE p # Api
        BY <2>2, <1>2, <1>4, Zenon DEF RunOK, RunState
    <2> QED
        BY <2>1, <2>2
<1>6. registry' \in [Job -> {"none", "running", "succeeded", "failed"}]
    BY <1>2, <1>3, RegisteredType
<1>7. ShownIsRecorded'
    BY <1>1, <1>2, <1>3 DEF Registers, Inv, TypeOK, ShownIsRecorded
<1>8. mode' \in {"up", "stopping", "down"}
    BY <1>1 DEF Inv, TypeOK
<1> QED
    BY <1>1, <1>4, <1>5, <1>6, <1>7, <1>8, RegistryStep, Zenon

LEMMA RecordFailureFailsKeepsInv ==
    ASSUME Inv, NEW p \in Process, RecordFailureFails(p)
    PROVE  Inv'
<1>1. run[p].pc = "fail" /\ rows' = rows /\ records' = records /\ mode' = mode
    BY DEF RecordFailureFails
<1>2. run[p] \in RunState /\ run[p].jobs # <<>> /\ JobOf(p) \in Job
    BY <1>1, RunHasJob
<1>3. Registers(p, "failed") /\ Goes(p, Idle)
    BY DEF RecordFailureFails
<1>4. registry' \in [Job -> {"none", "running", "succeeded", "failed"}]
    BY <1>2, <1>3, RegisteredType
<1>5. ShownIsRecorded'
    <2>1. CASE p = Api
        <3>1. Running(run[Api])
            BY <2>1, <1>1 DEF Running
        <3> QED
            BY <2>1, <3>1, <1>1, <1>2, <1>3
               DEF Registers, Inv, TypeOK, ShownIsRecorded, RunIsRecorded
    <2>2. CASE p # Api
        BY <2>2, <1>1, <1>3 DEF Registers, Inv, ShownIsRecorded
    <2> QED
        BY <2>1, <2>2
<1>6. mode' \in {"up", "stopping", "down"}
    BY <1>1 DEF Inv, TypeOK
<1>7. Idle.stored = {}
    BY DEF Idle
<1> QED
    BY <1>1, <1>3, <1>4, <1>5, <1>6, <1>7, IdleOK, RegistryStep, Zenon

LEMMA ApiEndsKeepsInv ==
    ASSUME Inv, ApiEnds
    PROVE  Inv'
<1>1. Goes(Api, Idle) /\ rows' = rows /\ records' = records /\ mode' = "down"
    BY DEF ApiEnds
<1>2. registry' = [j \in Job |-> "none"]
    BY DEF ApiEnds
<1>3. registry' \in [Job -> {"none", "running", "succeeded", "failed"}] /\ ShownIsRecorded'
    BY <1>2 DEF ShownIsRecorded
<1>4. Idle.stored = {} /\ mode' \in {"up", "stopping", "down"}
    BY <1>1 DEF Idle
<1> QED
    BY <1>1, <1>3, <1>4, Constant, IdleOK, RegistryStep, Zenon

LEMMA ModeKeepsInv ==
    ASSUME Inv, stop \/ ApiStarts
    PROVE  Inv'
<1>1. UNCHANGED <<rows, records, registry, run>> /\ mode' \in {"up", "stopping", "down"}
    BY DEF stop, ApiStarts
<1> QED
    BY <1>1 DEF Inv, TypeOK, StoredBacked, RecordedBacked, RunIsRecorded, ShownIsRecorded,
                Backs, JobOf

-----------------------------------------------------------------------------
\* The record of p's job that a step writes.
Written(p, status) ==
    IF status = "succeeded"
    THEN [status |-> status, by |-> p, stored |-> run[p].stored, age |-> run[p].age]
    ELSE [NoRecord EXCEPT !.status = status, !.by = p]

LEMMA WrittenOK ==
    ASSUME NEW p \in Process, run[p] \in RunState,
           NEW status \in {"running", "succeeded", "failed"}
    PROVE  /\ Written(p, status) \in Record
           /\ Written(p, status).by = p /\ Written(p, status).status = status
           /\ status = "succeeded" => /\ Written(p, status).stored = run[p].stored
                                      /\ Written(p, status).age = run[p].age
<1>1. run[p].stored \in SUBSET Row /\ run[p].age \in 0..LongestRun
    BY Zenon DEF RunState
<1>2. run[p].age \in Ages /\ 0 \in Ages
    BY <1>1, Constant DEF Ages
<1>3. CASE status = "succeeded"
    BY <1>1, <1>2, <1>3, Zenon DEF Written, Record
<1>4. CASE status # "succeeded"
    BY <1>2, <1>4, Zenon DEF Written, Record, NoRecord
<1> QED
    BY <1>3, <1>4

\* Steps that record the status of a job, in the table and in the registry.
LEMMA RecordStep ==
    ASSUME Inv, NEW p \in Process, run[p].pc # "idle",
           NEW status \in {"running", "succeeded", "failed"},
           Records(p, status), Registers(p, status), rows' = rows, mode' = mode,
           NEW r, Goes(p, r), RunOK(r), r.stored = {},
           p = Api /\ Running(r) => status = "running" /\ r.jobs = run[p].jobs
    PROVE  Inv'
<1>1. run[p] \in RunState /\ run[p].jobs # <<>> /\ JobOf(p) \in Job
    BY RunHasJob
<1>2. PICK job : job = JobOf(p)
    OBVIOUS
<1>3. PICK v : v = Written(p, status)
    OBVIOUS
<1>4. /\ v \in Record /\ v.by = p /\ v.status = status
      /\ status = "succeeded" => v.stored = run[p].stored /\ v.age = run[p].age
    BY <1>1, <1>3, WrittenOK, Zenon
<1>5. records' = [records EXCEPT ![job] = v]
    BY <1>2, <1>3, Zenon DEF Records, Written
<1>6. records \in [Job -> Record]
    BY DEF Inv, TypeOK
<1>7. records' \in [Job -> Record] /\ records'[job] = v
      /\ \A j \in Job : j # job => records'[j] = records[j]
    BY <1>1, <1>2, <1>4, <1>5, <1>6, Zenon
<1>8. RowsKept /\ MovesTo(p, r)
    BY DEF RowsKept, MovesTo, Backs
<1>9. /\ run' \in [Process -> RunState] /\ \A q \in Process : RunOK(run'[q])
      /\ run'[p] = r /\ \A q \in Process : q # p => run'[q] = run[q]
    BY <1>8, RunsAfter, Zenon
<1>10. TypeOK'
    <2>1. registry' \in [Job -> {"none", "running", "succeeded", "failed"}]
        BY <1>1, RegisteredType
    <2> QED
        BY <2>1, <1>7, <1>9 DEF Inv, TypeOK
<1>11. StoredBacked'
    BY <1>8, StoredAfter, Zenon
<1>12. RecordedBacked'
    <2> SUFFICES ASSUME NEW j \in Job, records'[j].status = "succeeded",
                        NEW x \in records'[j].stored
                 PROVE  Backs(x, records[j].age)'
        BY DEF RecordedBacked
    <2>1. CASE j = job
        <3>1. x \in run[p].stored /\ records'[j].age = run[p].age
            BY <2>1, <1>4, <1>7
        <3>2. Backs(x, run[p].age)
            BY <3>1, Zenon DEF Inv, StoredBacked
        <3> QED
            BY <3>1, <3>2 DEF Backs
    <2>2. CASE j # job
        <3>1. records'[j] = records[j]
            BY <2>2, <1>7
        <3>2. Backs(x, records[j].age)
            BY <3>1, Zenon DEF Inv, RecordedBacked
        <3> QED
            BY <3>1, <3>2 DEF Backs
    <2> QED
        BY <2>1, <2>2
<1>13. RunIsRecorded'
    <2> SUFFICES ASSUME Running(run'[Api]), records'[JobOf(Api)'].by = Api
                 PROVE  records'[JobOf(Api)'].status = "running"
        BY DEF RunIsRecorded
    <2>1. CASE p = Api
        <3>1. JobOf(Api)' = job /\ status = "running"
            BY <2>1, <1>2, <1>9 DEF JobOf
        <3> QED
            BY <3>1, <1>4, <1>7
    <2>2. CASE p # Api
        <3>1. run'[Api] = run[Api]
            BY <2>2, <1>9, Constant
        <3>2. JobOf(Api)' = JobOf(Api) /\ Running(run[Api])
            BY <3>1 DEF JobOf
        <3>3. JobOf(Api) \in Job
            BY <3>2, Constant, RunHasJob DEF Running
        <3>4. JobOf(Api) # job
            BY <2>2, <3>2, <1>4, <1>7
        <3>5. records'[JobOf(Api)] = records[JobOf(Api)]
            BY <3>3, <3>4, <1>7
        <3> QED
            BY <3>2, <3>5 DEF Inv, RunIsRecorded
    <2> QED
        BY <2>1, <2>2
<1>14. ShownIsRecorded'
    <2> SUFFICES ASSUME NEW j \in Job, records'[j].by = Api
                 PROVE  /\ registry'[j] = "succeeded" => records'[j].status = "succeeded"
                        /\ registry'[j] = "failed" => records'[j].status \in {"failed", "running"}
        BY DEF ShownIsRecorded
    <2>1. CASE j = job
        <3>1. p = Api /\ records'[j].status = status
            BY <2>1, <1>4, <1>7
        <3>2. registry'[j] = status
            BY <2>1, <3>1, <1>1, <1>2 DEF Registers, Inv, TypeOK
        <3> QED
            BY <3>1, <3>2
    <2>2. CASE j # job
        <3>1. records'[j] = records[j] /\ registry'[j] = registry[j]
            BY <2>2, <1>1, <1>2, <1>7 DEF Registers, Inv, TypeOK
        <3> QED
            BY <3>1 DEF Inv, ShownIsRecorded
    <2> QED
        BY <2>1, <2>2
<1> QED
    BY <1>9, <1>10, <1>11, <1>12, <1>13, <1>14 DEF Inv

LEMMA RecordRunningKeepsInv ==
    ASSUME Inv, NEW p \in Process, RecordRunning(p)
    PROVE  Inv'
<1>1. run[p].pc = "begin" /\ rows' = rows /\ mode' = mode
    BY DEF RecordRunning
<1>2. run[p] \in RunState /\ run[p].jobs # <<>> /\ JobOf(p) \in Job
    BY <1>1, RunHasJob
<1>3. PICK plan \in Plans(p, JobOf(p)) :
          Goes(p, Proceed([Idle EXCEPT !.pc = "sync", !.jobs = run[p].jobs, !.plan = plan,
                                       !.todo = plan]))
    BY Zenon DEF RecordRunning
<1>4. PICK s : s = [Idle EXCEPT !.pc = "sync", !.jobs = run[p].jobs, !.plan = plan, !.todo = plan]
    OBVIOUS
<1>5. plan \subseteq AnyTarget /\ 0 \in 0..LongestRun
    BY <1>2, <1>3, PlansAreTargets, Constant
<1>6. s \in RunState /\ s.pc = "sync" /\ s.jobs = run[p].jobs /\ s.stored = {}
    BY <1>2, <1>4, <1>5, Zenon DEF Idle, RunState
<1>7. Running(s)
    BY <1>6 DEF Running
<1>8. RunOK(Proceed(s)) /\ Proceed(s).jobs = run[p].jobs /\ Proceed(s).stored = {}
    BY <1>2, <1>6, <1>7, ProceedOK, Zenon
<1>9. Goes(p, Proceed(s))
    BY <1>3, <1>4, Zenon
<1>10. Records(p, "running") /\ Registers(p, "running")
    BY DEF RecordRunning
<1> QED
    BY <1>1, <1>8, <1>9, <1>10, RecordStep, Zenon

LEMMA OutcomesKeepInv ==
    ASSUME Inv, NEW p \in Process, RecordSuccess(p) \/ RecordFailure(p)
    PROVE  Inv'
<1>1. /\ run[p].pc # "idle" /\ rows' = rows /\ mode' = mode
      /\ Goes(p, Advanced(run[p]))
    BY DEF RecordSuccess, RecordFailure
<1>2. PICK status \in {"succeeded", "failed"} : Records(p, status) /\ Registers(p, status)
    BY Zenon DEF RecordSuccess, RecordFailure
<1>3. run[p] \in RunState
    BY <1>1, RunHasJob
<1>4. RunOK(Advanced(run[p])) /\ ~Running(Advanced(run[p])) /\ Advanced(run[p]).stored = {}
    BY <1>3, AdvancedOK
<1> QED
    BY <1>1, <1>2, <1>4, RecordStep, Zenon

-----------------------------------------------------------------------------
\* Time ages a row no faster than the runs and records that vouch for it.
LEMMA OlderOK ==
    ASSUME NEW n \in Ages
    PROVE  /\ Older(n) \in Ages /\ Older(n) <= n + 1
           /\ Older(n) = n + 1 \/ Older(n) = Oldest
<1>1. n \in Nat /\ n <= Oldest
    BY Constant DEF Ages
<1> QED
    BY <1>1, Constant DEF Older, Ages

LEMMA TickKeepsBacking ==
    ASSUME Inv, Tick, NEW x \in Row, NEW n \in Nat, NEW m \in Nat, Backs(x, n),
           m = n + 1 \/ m >= Retention
    PROVE  Backs(x, m)'
<1>1. rows \in [Row -> Ages \cup {Absent}]
    BY DEF Inv, TypeOK
<1>2. rows'[x] = Older(rows[x])
    BY DEF Tick
<1>3. CASE m >= Retention
    BY <1>3, Constant DEF Backs
<1>4. CASE m = n + 1 /\ rows[x] \in Ages
    <2>1. Older(rows[x]) \in Ages /\ Older(rows[x]) <= rows[x] + 1
        BY <1>4, OlderOK, Zenon
    <2>2. rows[x] \in Nat /\ Older(rows[x]) \in Nat
        BY <1>4, <2>1, AgesAreNumbers, Zenon
    <2>3. Older(rows[x]) # Absent
        BY <2>2, Numbers, Zenon
    <2> QED
        BY <1>2, <1>4, <2>1, <2>2, <2>3, Numbers DEF Backs
<1>5. CASE m = n + 1 /\ rows[x] = Absent
    BY <1>5, Constant DEF Backs
<1> QED
    BY <1>1, <1>3, <1>4, <1>5

LEMMA TickKeepsInv ==
    ASSUME Inv, Tick
    PROVE  Inv'
<1>1. /\ rows \in [Row -> Ages \cup {Absent}] /\ records \in [Job -> Record]
      /\ run \in [Process -> RunState] /\ \A p \in Process : RunOK(run[p])
    BY DEF Inv, TypeOK
<1>2. rows' \in [Row -> Ages \cup {Absent}]
    <2>1. \A x \in Row : Older(rows[x]) \in Ages \cup {Absent}
        BY <1>1, OlderOK DEF Older
    <2>2. rows' = [x \in Row |-> Older(rows[x])]
        BY DEF Tick
    <2> QED
        BY <2>1, <2>2, Zenon
<1>3. ASSUME NEW p \in Process
      PROVE  /\ RunOK(run'[p]) /\ run'[p].jobs = run[p].jobs /\ run'[p].pc = run[p].pc
             /\ run'[p].stored = run[p].stored
             /\ run[p].pc # "idle" => run'[p].age = run[p].age + 1
    <2>1. run'[p] = IF run[p].pc = "idle" THEN run[p] ELSE [run[p] EXCEPT !.age = @ + 1]
        BY Zenon DEF Tick
    <2>2. CASE run[p].pc = "idle"
        BY <2>1, <2>2, <1>1
    <2>3. CASE run[p].pc # "idle"
        <3>1. run[p].age \in 0..LongestRun
            BY <1>1, Zenon DEF RunState
        <3>2. run[p].age < LongestRun
            BY <2>3 DEF Tick
        <3> DEFINE n == run[p].age + 1
        <3>3. n \in 0..LongestRun
            BY <3>1, <3>2, Constant
        <3>4. run'[p] = [run[p] EXCEPT !.age = n]
            BY <2>1, <2>3, Zenon
        <3> HIDE DEF n
        <3>5. /\ run'[p] \in RunState /\ run'[p].jobs = run[p].jobs /\ run'[p].pc = run[p].pc
              /\ run'[p].stored = run[p].stored /\ run'[p].age = n
            BY <3>3, <3>4, <1>1, Zenon DEF RunState
        <3>6. RunOK(run'[p])
            BY <1>1, <3>5 DEF RunOK
        <3> QED
            BY <3>5, <3>6 DEF n
    <2> QED
        BY <2>2, <2>3
<1>4. run' \in [Process -> RunState]
    <2>1. run' = [p \in Process |-> run'[p]]
        BY Zenon DEF Tick
    <2> QED
        BY <2>1, <1>3, Zenon DEF RunOK
<1>5. ASSUME NEW j \in Job
      PROVE  /\ records'[j] \in Record /\ records'[j].status = records[j].status
             /\ records'[j].by = records[j].by /\ records'[j].stored = records[j].stored
             /\ records[j].status = "succeeded" => records'[j].age = Older(records[j].age)
    <2>1. records'[j] = IF records[j].status = "succeeded"
                        THEN [records[j] EXCEPT !.age = Older(@)] ELSE records[j]
        BY Zenon DEF Tick
    <2>2. records[j] \in Record
        BY <1>1
    <2>3. records[j].age \in Ages
        BY <2>2, Zenon DEF Record
    <2> DEFINE n == Older(records[j].age)
    <2>4. n \in Ages
        BY <2>3, OlderOK
    <2>5. records'[j] = IF records[j].status = "succeeded"
                        THEN [records[j] EXCEPT !.age = n] ELSE records[j]
        BY <2>1, Zenon
    <2> HIDE DEF n
    <2>6. /\ records'[j] \in Record /\ records'[j].status = records[j].status
          /\ records'[j].by = records[j].by /\ records'[j].stored = records[j].stored
          /\ records[j].status = "succeeded" => records'[j].age = n
        BY <2>2, <2>4, <2>5, Zenon DEF Record
    <2> QED
        BY <2>6 DEF n
<1>6. records' \in [Job -> Record]
    <2>1. records' = [j \in Job |-> records'[j]]
        BY Zenon DEF Tick
    <2> QED
        BY <2>1, <1>5, Zenon
<1>7. TypeOK'
    BY <1>2, <1>4, <1>6 DEF Tick, Inv, TypeOK
<1>8. StoredBacked'
    <2> SUFFICES ASSUME NEW p \in Process, NEW x \in run'[p].stored
                 PROVE  Backs(x, run[p].age)'
        BY DEF StoredBacked
    <2>1. x \in run[p].stored /\ run[p].pc # "idle"
        BY <1>1, <1>3 DEF RunOK
    <2>2. x \in Row /\ run[p].age \in 0..LongestRun
        BY <2>1, <1>1, Zenon DEF RunState
    <2>3. Backs(x, run[p].age)
        BY <2>1, Zenon DEF Inv, StoredBacked
    <2>4. PICK n \in Nat : n = run[p].age
        BY <2>2, Constant
    <2>5. Backs(x, n + 1)'
        BY <2>2, <2>3, <2>4, TickKeepsBacking DEF Backs
    <2>6. run'[p].age = n + 1
        BY <2>1, <2>4, <1>3
    <2> QED
        BY <2>5, <2>6 DEF Backs
<1>9. RecordedBacked'
    <2> SUFFICES ASSUME NEW j \in Job, records'[j].status = "succeeded",
                        NEW x \in records'[j].stored
                 PROVE  Backs(x, records[j].age)'
        BY DEF RecordedBacked
    <2>1. /\ records[j].status = "succeeded" /\ x \in records[j].stored
          /\ records'[j].age = Older(records[j].age)
        BY <1>5
    <2>2. x \in Row /\ records[j].age \in Ages
        BY <2>1, <1>1, Zenon DEF Record
    <2>3. Backs(x, records[j].age)
        BY <2>1, Zenon DEF Inv, RecordedBacked
    <2>4. PICK n \in Nat, m \in Nat : n = records[j].age /\ m = Older(records[j].age)
        BY <2>2, OlderOK, AgesAreNumbers, Zenon
    <2>5. m = n + 1 \/ m >= Retention
        <3>1. m = n + 1 \/ m = Oldest
            BY <2>2, <2>4, OlderOK, Zenon
        <3> QED
            BY <3>1, Numbers
    <2>6. Backs(x, m)'
        BY <2>2, <2>3, <2>4, <2>5, TickKeepsBacking DEF Backs
    <2> QED
        BY <2>1, <2>4, <2>6 DEF Backs
<1>10. RunIsRecorded'
    <2> SUFFICES ASSUME Running(run'[Api]), records'[JobOf(Api)'].by = Api
                 PROVE  records'[JobOf(Api)'].status = "running"
        BY DEF RunIsRecorded
    <2>1. Running(run[Api]) /\ JobOf(Api)' = JobOf(Api)
        BY <1>3, Constant DEF Running, JobOf
    <2>2. JobOf(Api) \in Job
        BY <2>1, Constant, RunHasJob DEF Running
    <2> QED
        BY <2>1, <2>2, <1>5 DEF Inv, RunIsRecorded
<1>11. ShownIsRecorded'
    BY <1>5 DEF Tick, Inv, ShownIsRecorded
<1> QED
    BY <1>3, <1>7, <1>8, <1>9, <1>10, <1>11 DEF Inv

-----------------------------------------------------------------------------
LEMMA InitInv == Init => Inv
<1> SUFFICES ASSUME Init PROVE Inv
    OBVIOUS
<1>1. rows \in [Row -> Ages \cup {Absent}]
    <2>1. Oldest \in Ages
        BY Constant DEF Ages
    <2> QED
        BY <2>1 DEF Init
<1>2. NoRecord \in Record /\ NoRecord.status = "none"
    <2>1. 0 \in Ages
        BY Constant DEF Ages
    <2> QED
        BY <2>1, Zenon DEF NoRecord, Record
<1>3. records \in [Job -> Record] /\ \A j \in Job : records[j].status = "none"
    BY <1>2, Zenon DEF Init
<1>4. run \in [Process -> RunState]
      /\ \A p \in Process : run[p] = Idle
    BY IdleOK, Zenon DEF Init, RunOK
<1>5. Idle.stored = {}
    BY DEF Idle
<1>6. registry = [j \in Job |-> "none"] /\ mode = "up"
    BY DEF Init
<1>7. TypeOK
    BY <1>1, <1>3, <1>4, <1>6 DEF TypeOK
<1>8. (\A p \in Process : RunOK(run[p])) /\ StoredBacked
    BY <1>4, <1>5, IdleOK, Zenon DEF StoredBacked
<1>9. RecordedBacked
    BY <1>3 DEF RecordedBacked
<1>10. RunIsRecorded
    BY <1>4, IdleOK, Constant, Zenon DEF RunIsRecorded
<1>11. ShownIsRecorded
    BY <1>6 DEF ShownIsRecorded
<1> QED
    BY <1>7, <1>8, <1>9, <1>10, <1>11 DEF Inv

LEMMA StepInv == Inv /\ [Next]_vars => Inv'
<1> SUFFICES ASSUME Inv, [Next]_vars PROVE Inv'
    OBVIOUS
<1>1. ASSUME NEW p \in Process, Progress(p)
      PROVE  Inv'
    <2>1. ASSUME NEW t \in AnyTarget, TargetAnswers(p, t) \/ TargetFails(p, t) \/ TargetMalformed(p, t)
          PROVE  Inv'
        BY <2>1, TargetAnswersKeepsInv, TargetFailsKeepsInv, FailuresKeepInv
    <2>2. ASSUME NEW x \in Row, WriteRow(p, x)
          PROVE  Inv'
        BY <2>2, WriteRowKeepsInv
    <2>3. CASE WriteFails(p) \/ RecordSuccessFails(p)
        BY <2>3, FailuresKeepInv
    <2>4. CASE Prune(p) \/ PruneFails(p)
        BY <2>4, SweepsKeepInv
    <2>5. CASE RecordRunning(p)
        BY <2>5, RecordRunningKeepsInv
    <2>6. CASE RecordRunningFails(p)
        BY <2>6, RecordRunningFailsKeepsInv
    <2>7. CASE RecordSuccess(p) \/ RecordFailure(p)
        BY <2>7, OutcomesKeepInv
    <2>8. CASE RecordFailureFails(p)
        BY <2>8, RecordFailureFailsKeepsInv
    <2> QED
        BY <1>1, <2>1, <2>2, <2>3, <2>4, <2>5, <2>6, <2>7, <2>8, Zenon DEF Progress
<1>2. CASE PassBegins \/ \E p \in Command, j \in Job : CommandStarts(p, j)
    BY <1>2, StartsKeepInv
<1>3. CASE stop \/ ApiStarts
    BY <1>3, ModeKeepsInv
<1>4. CASE ApiEnds
    BY <1>4, ApiEndsKeepsInv
<1>5. ASSUME NEW p \in Command, CommandCrashes(p)
      PROVE  Inv'
    BY <1>5, CommandCrashesKeepsInv
<1>6. CASE Tick
    BY <1>6, TickKeepsInv
<1>7. CASE UNCHANGED vars
    BY <1>7 DEF vars, Inv, TypeOK, StoredBacked, RecordedBacked, RunIsRecorded,
                ShownIsRecorded, Backs, JobOf
<1> QED
    BY <1>1, <1>2, <1>3, <1>4, <1>5, <1>6, <1>7, Zenon DEF Next

LEMMA Invariant == Spec => []Inv
BY InitInv, StepInv, PTL DEF Spec

\* Every variable keeps its type.
THEOREM TypeCorrect == Spec => []TypeOK
<1>1. Inv => TypeOK
    BY DEF Inv
<1> QED
    BY <1>1, Invariant, PTL

\* The registry of the API process and the record of one of its runs never
\* disagree on how it ended, whichever of the writes of runOnce fails.
THEOREM ShownRecorded == Spec => []ShownIsRecorded
<1>1. Inv => ShownIsRecorded
    BY DEF Inv
<1> QED
    BY <1>1, Invariant, PTL

\* The rows a recorded success counts are in the database for as long as the
\* retention horizon, less a run, promises them.
THEOREM SuccessBacked == Spec => []SuccessIsBacked
<1>1. Inv => SuccessIsBacked
    BY DEF Inv, RecordedBacked, Backs, SuccessIsBacked
<1> QED
    BY <1>1, Invariant, PTL

\* No step, of whichever job, deletes a row that is not past the horizon.
THEOREM YoungAreKept == Spec => KeptWhileYoung
<1> DEFINE Kept == \A x \in Row : rows[x] # Absent /\ rows'[x] = Absent => rows[x] >= Retention
<1>1. ASSUME Inv, Next
      PROVE  Kept
    <2> SUFFICES ASSUME NEW x \in Row, rows[x] # Absent, rows'[x] = Absent
                 PROVE  rows[x] >= Retention
        OBVIOUS
    <2>1. rows \in [Row -> Ages \cup {Absent}]
        BY <1>1 DEF Inv, TypeOK
    <2>2. rows[x] \in Ages /\ rows[x] \in Nat
        BY <2>1, Constant DEF Ages
    <2>3. ASSUME NEW p \in Process
          PROVE  run[p].age \in Nat
        <3>1. run[p] \in RunState
            BY <1>1 DEF Inv, TypeOK
        <3>2. run[p].age \in 0..LongestRun
            BY <3>1, Zenon DEF RunState
        <3> QED
            BY <3>2, Constant
    <2>4. ASSUME NEW p \in Process, Prune(p) \/ PruneFails(p)
          PROVE  rows[x] >= Retention
        <3>1. \E tables : rows' = Swept(p, tables)
            BY <2>4, Zenon DEF Prune, PruneFails
        <3>2. Expired(p, x)
            BY <3>1, Zenon DEF Swept
        <3> QED
            BY <3>2, <2>2, <2>3, Constant DEF Expired
    <2>5. ASSUME NEW p \in Process, NEW y \in Row, WriteRow(p, y)
          PROVE  FALSE
        <3>1. rows'[x] = rows[x] \/ rows'[x] = run[p].age
            BY <2>1, <2>5 DEF WriteRow
        <3> QED
            BY <3>1, <2>3, Numbers, Zenon
    <2>6. ~Tick
        <3>1. ASSUME Tick PROVE FALSE
            <4>1. rows'[x] = Older(rows[x])
                BY <3>1 DEF Tick
            <4>2. Older(rows[x]) \in Ages
                BY <2>2, OlderOK, Zenon
            <4> QED
                BY <4>1, <4>2, AgesAreNumbers, Numbers, Zenon
        <3> QED
            BY <3>1
    <2>7. rows' # rows
        OBVIOUS
    <2>8. ASSUME NEW p \in Process, Progress(p)
          PROVE  rows[x] >= Retention
        <3>1. ASSUME NEW t \in AnyTarget
              PROVE  ~(TargetAnswers(p, t) \/ TargetFails(p, t) \/ TargetMalformed(p, t))
            BY <2>7 DEF TargetAnswers, TargetFails, TargetMalformed
        <3>2. /\ ~WriteFails(p) /\ ~RecordSuccessFails(p) /\ ~RecordRunning(p)
              /\ ~RecordRunningFails(p) /\ ~RecordSuccess(p) /\ ~RecordFailure(p)
              /\ ~RecordFailureFails(p)
            BY <2>7 DEF WriteFails, RecordSuccessFails, RecordRunning, RecordRunningFails,
                        RecordSuccess, RecordFailure, RecordFailureFails
        <3> QED
            BY <2>8, <3>1, <3>2, <2>4, <2>5, Zenon DEF Progress
    <2>9. ~PassBegins /\ ~stop /\ ~ApiEnds /\ ~ApiStarts
        BY <2>7 DEF PassBegins, stop, ApiEnds, ApiStarts
    <2>10. ASSUME NEW p \in Command
           PROVE  ~CommandCrashes(p) /\ \A j \in Job : ~CommandStarts(p, j)
        BY <2>7 DEF CommandCrashes, CommandStarts
    <2> QED
        BY <1>1, <2>6, <2>8, <2>9, <2>10, Zenon DEF Next
<1>2. Inv /\ [Next]_vars => [Kept]_vars
    BY <1>1
<1> QED
    BY <1>2, Invariant, PTL DEF Spec, KeptWhileYoung
=============================================================================
