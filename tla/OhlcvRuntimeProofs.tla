-------------------------- MODULE OhlcvRuntimeProofs --------------------------
(***************************************************************************)
(* Proofs about OhlcvRuntime, for every set of processes and targets.      *)
(***************************************************************************)
EXTENDS OhlcvRuntime, WellFoundedInduction, FiniteSetTheorems, TLAPS

(***************************************************************************)
(* Extrema.  A candle set is a set of instants, and the pipeline takes its *)
(* least and its greatest member.                                          *)
(***************************************************************************)

\* A non-empty set of naturals has a least member.
LEMMA MinExists ==
    ASSUME NEW S \in SUBSET Nat, S # {}
    PROVE  \E c \in S : \A d \in S : c <= d
<1>1. PICK c \in S : \A d \in S : ~(<<d, c>> \in OpToRel(<, Nat))
    BY NatLessThanWellFounded, WFMin, Zenon
<1>2. \A d \in S : ~(d < c)
    BY <1>1 DEF OpToRel
<1> QED
    BY <1>2

\* A non-empty set of naturals with an upper bound has a greatest member.
LEMMA MaxExists ==
    ASSUME NEW N \in Nat, NEW S \in SUBSET (0..N), S # {}
    PROVE  \E c \in S : \A d \in S : d <= c
<1> DEFINE T == {n \in Nat : N - n \in S}
<1>1. T \in SUBSET Nat
    OBVIOUS
<1>2. \A d \in S : N - d \in T
    <2> SUFFICES ASSUME NEW d \in S PROVE N - d \in T
        OBVIOUS
    <2>1. d \in 0..N
        OBVIOUS
    <2>2. N - d \in Nat /\ N - (N - d) = d
        BY <2>1
    <2> QED
        BY <2>2
<1>3. T # {}
    BY <1>2
<1> HIDE DEF T
<1>4. PICK m \in T : \A d \in T : m <= d
    BY <1>1, <1>3, MinExists
<1>5. m \in Nat /\ N - m \in S
    BY <1>4 DEF T
<1>6. ASSUME NEW d \in S PROVE d <= N - m
    <2>1. d \in 0..N
        OBVIOUS
    <2>2. m <= N - d
        BY <1>2, <1>4
    <2> QED
        BY <1>5, <2>1, <2>2
<1> QED
    BY <1>5, <1>6

\* deriveOhlcvLatestSyncedAt returns the old cursor or the newest stored candle.
LEMMA LatestIsStored ==
    ASSUME NEW row, NEW S \in SUBSET Instants, S # {}
    PROVE  /\ deriveOhlcvLatestSyncedAt(row, S) \in S
           /\ \A d \in S : d <= deriveOhlcvLatestSyncedAt(row, S)
<1>1. MaxTime \in Nat
    BY RuntimeAssumption
<1>2. \E c \in S : \A d \in S : d <= c
    BY <1>1, MaxExists DEF Instants
<1> QED
    BY <1>2 DEF deriveOhlcvLatestSyncedAt

\* deriveOhlcvOldestSyncedAt returns the old cursor or the oldest stored candle.
LEMMA OldestIsStored ==
    ASSUME NEW row, NEW S \in SUBSET Instants, S # {}
    PROVE  deriveOhlcvOldestSyncedAt(row, S) \in S
<1>1. S \in SUBSET Nat
    BY RuntimeAssumption DEF Instants
<1>2. \E c \in S : \A d \in S : c <= d
    BY <1>1, MinExists
<1> QED
    BY <1>2 DEF deriveOhlcvOldestSyncedAt

\* A power of two counts the subsets of a set; the back-off doubles.
LEMMA PowerIsNat == \A n \in Nat : 2^n \in Nat
<1> SUFFICES ASSUME NEW n \in Nat PROVE 2^n \in Nat
    OBVIOUS
<1>1. IsFiniteSet(1..n) /\ Cardinality(1..n) = n
    BY FS_Interval
<1>2. IsFiniteSet(SUBSET (1..n)) /\ Cardinality(SUBSET (1..n)) = 2^n
    BY <1>1, FS_SUBSET
<1> QED
    BY <1>2, FS_CardinalityType

-----------------------------------------------------------------------------
(***************************************************************************)
(* The inductive invariant.                                                *)
(***************************************************************************)

Working == Syncing \cup {"reading"}

\* A tick past its lease has a target, and a write a candle to write.
WorkOK ==
    \A w \in Worker :
        /\ job[w].pc \in Working => job[w].target \in Target
        /\ job[w].pc \in {"write", "fillwrite"} => job[w].batch # {}

(***************************************************************************)
(* Types are preserved by every action.                                    *)
(***************************************************************************)

LEMMA NoRowType == NoRow \in Row
BY DEF NoRow, Row, Interval, Tier, Status, TimeOrNull, Token

LEMMA FreshRowType == \A t \in Target : FreshRow(t) \in Row
BY RuntimeAssumption DEF FreshRow, Row, Status, TimeOrNull, Token

LEMMA IdleJobType == IdleJob \in Job
BY NoRowType, RuntimeAssumption DEF IdleJob, Job, TimeOrNull, Instants

LEMMA TypeInit == Init => TypeOK
<1> SUFFICES ASSUME Init PROVE TypeOK
    OBVIOUS
<1>1. \A t \in Target : LegacyRunningRow(t) \in Row
    <2> SUFFICES ASSUME NEW t \in Target PROVE LegacyRunningRow(t) \in Row
        OBVIOUS
    <2>1. FreshRow(t) \in Row
        BY FreshRowType
    <2>2. Start \in TimeOrNull /\ "running" \in Status
        BY RuntimeAssumption DEF TimeOrNull, Status
    <2> QED
        BY <2>1, <2>2 DEF LegacyRunningRow, Row
<1>2. targets \in [Target -> Row]
    BY <1>1, NoRowType DEF Init
<1>3. job \in [Worker -> Job]
    BY IdleJobType DEF Init
<1>4. candles \in [{Series(t) : t \in Target} -> SUBSET Instants]
    BY DEF Init
<1>5. topCoins \in SUBSET Int
    BY RuntimeAssumption DEF Init
<1> QED
    BY <1>2, <1>3, <1>4, <1>5, RuntimeAssumption DEF Init, TypeOK

\* The stored sets of a tick stay within Instants.
LEMMA AnswersType ==
    ASSUME NEW w \in Worker, NEW B \in Answers(w) PROVE B \in SUBSET Instants
BY DEF Answers, Slots, Instants

LEMMA GapsType ==
    ASSUME NEW t \in Target, NEW gap \in Gaps(t) PROVE gap \in SUBSET Instants
BY DEF Gaps, GapAround, Missing, Slots, Instants

\* The cursors a phase hands over are instants or NULL.
LEMMA CursorType ==
    ASSUME NEW row \in Row, NEW S \in SUBSET Instants
    PROVE  /\ deriveOhlcvLatestSyncedAt(row, S) \in TimeOrNull
           /\ deriveOhlcvOldestSyncedAt(row, S) \in TimeOrNull
<1>1. CASE S = {}
    BY <1>1 DEF deriveOhlcvLatestSyncedAt, deriveOhlcvOldestSyncedAt, Row
<1>2. CASE S # {}
    <2>1. /\ deriveOhlcvLatestSyncedAt(row, S) \in Instants
          /\ deriveOhlcvOldestSyncedAt(row, S) \in Instants
        BY <1>2, LatestIsStored, OldestIsStored
    <2> QED
        BY <2>1 DEF TimeOrNull, Instants
<1> QED
    BY <1>1, <1>2

\* One process moves on to a record of the right type.
LEMMA BecomesType ==
    ASSUME TypeOK, NEW w \in Worker, NEW r \in Job, Becomes(w, r)
    PROVE  job' \in [Worker -> Job]
BY DEF TypeOK, Becomes

LEMMA FinishType ==
    ASSUME TypeOK, NEW w \in Worker, Finish(w)
    PROVE  job' \in [Worker -> Job]
BY BecomesType, IdleJobType DEF Finish

\* Every field of a Job may be replaced by a value of its type, and likewise
\* the columns of a Row that some statement sets.
LEMMA JobType ==
    ASSUME NEW r \in Job
    PROVE  /\ r.now \in Nat /\ r.row \in Row /\ r.rows \in [Target -> Row]
           /\ r.batch \in SUBSET Instants /\ r.stored \in SUBSET Instants
           /\ r.exhausted \in SUBSET Instants
           /\ r.latest \in TimeOrNull /\ r.oldest \in TimeOrNull
BY DEF Job

LEMMA RowType ==
    ASSUME NEW r \in Row
    PROVE  /\ r.latestSyncedAt \in TimeOrNull /\ r.oldestSyncedAt \in TimeOrNull
           /\ r.failureCount \in Nat
BY DEF Row

LEMMA TypeStep == TypeOK /\ WorkOK /\ [Next]_vars => TypeOK'
<1> SUFFICES ASSUME TypeOK, WorkOK, [Next]_vars PROVE TypeOK'
    OBVIOUS
<1>j. \A w \in Worker : job[w] \in Job
    BY DEF TypeOK
<1>t. \A t \in Target : targets[t] \in Row
    BY DEF TypeOK
<1>1. ASSUME NEW w \in Worker, StartTick(w) PROVE TypeOK'
    <2>1. now \in Nat
        BY DEF TypeOK
    <2>2. [job[w] EXCEPT !.pc = "refreshing", !.now = now] \in Job
        BY <1>j, <2>1, Zenon DEF Job
    <2> QED
        BY <1>1, <2>2, BecomesType DEF StartTick, TypeOK
<1>2. ASSUME NEW w \in Worker, RefreshTargetsFails(w) PROVE TypeOK'
    BY <1>2, FinishType DEF RefreshTargetsFails, TypeOK
<1>3. ASSUME NEW w \in Worker, upsertOhlcvSyncTargets(w) PROVE TypeOK'
    <2>1. \A t \in Target : Upserted(t) \in Row
        <3> SUFFICES ASSUME NEW t \in Target, targets[t].status # "absent"
                     PROVE  Upserted(t) \in Row
            BY FreshRowType DEF Upserted
        <3>1. targets[t] \in Row /\ Seeds[t].targetHistory \in Nat /\ Seeds[t].priorityTier \in Tier
            BY <1>t, RuntimeAssumption
        <3> QED
            BY <3>1 DEF Upserted, Row
    <2>2. [job[w] EXCEPT !.pc = "retiering"] \in Job
        BY <1>j, Zenon DEF Job
    <2> QED
        BY <1>3, <2>1, <2>2, BecomesType DEF upsertOhlcvSyncTargets, Step, TypeOK
<1>4. ASSUME NEW w \in Worker, refreshOhlcvPriorityTiers(w) PROVE TypeOK'
    <2>1. ASSUME NEW t \in Target, NEW tier \in Tier
          PROVE  [targets[t] EXCEPT !.priorityTier = tier] \in Row
        BY <1>t, Zenon DEF Row
    <2>2. \A t \in Target :
             (IF targets[t].coin \in topCoins THEN "top100" ELSE "long_tail") \in Tier
        BY DEF Tier
    <2>3. targets' \in [Target -> Row]
        BY <1>4, <2>1, <2>2 DEF refreshOhlcvPriorityTiers
    <2>4. [job[w] EXCEPT !.pc = "selecting"] \in Job
        BY <1>j, Zenon DEF Job
    <2> QED
        BY <1>4, <2>3, <2>4, BecomesType DEF refreshOhlcvPriorityTiers, Step, TypeOK
<1>5. ASSUME NEW w \in Worker, SelectCandidates(w) PROVE TypeOK'
    <2> DEFINE found == [t \in Target |-> IF t \in Candidates(job[w].now) THEN targets[t] ELSE NoRow]
    <2>1. found \in [Target -> Row]
        BY <1>t, NoRowType
    <2> HIDE DEF found
    <2>2. [job[w] EXCEPT !.pc = "leasing", !.rows = found] \in Job
        BY <1>j, <2>1, Zenon DEF Job
    <2> QED
        BY <1>5, <2>2, BecomesType DEF SelectCandidates, TypeOK, found
<1>6. ASSUME NEW w \in Worker, NothingToLease(w) PROVE TypeOK'
    BY <1>6, FinishType DEF NothingToLease, TypeOK
<1>7. ASSUME NEW w \in Worker, NEW t \in Target, LeaseTarget(w, t) PROVE TypeOK'
    <2>1. job[w].now + LeaseTtl \in TimeOrNull /\ job[w].now \in TimeOrNull
        BY <1>j, JobType, PolicyAssumption DEF TimeOrNull
    <2>2. tokens + 1 \in Token /\ tokens + 1 \in Nat /\ "running" \in Status
        BY DEF Token, Status, TypeOK
    <2>3. [targets[t] EXCEPT !.status = "running", !.leaseToken = tokens + 1,
                             !.leaseExpiresAt = job[w].now + LeaseTtl,
                             !.lastAttemptAt = job[w].now] \in Row
        BY <1>t, <2>1, <2>2, Zenon DEF Row
    <2>4. targets' \in [Target -> Row]
        BY <1>7, <2>3 DEF LeaseTarget, TypeOK
    <2>5. IdleJob.rows \in [Target -> Row]
        BY IdleJobType, JobType
    <2>6. [job[w] EXCEPT !.pc = "reading", !.target = t, !.rows = IdleJob.rows] \in Job
        BY <1>j, <2>5, Zenon DEF Job
    <2> QED
        BY <1>7, <2>2, <2>4, <2>6, BecomesType DEF LeaseTarget, TypeOK
<1>8. ASSUME NEW w \in Worker, NEW t \in Target, LeaseRaceLost(w, t) PROVE TypeOK'
    <2>1. [job[w].rows EXCEPT ![t] = NoRow] \in [Target -> Row]
        BY <1>j, JobType, NoRowType
    <2>2. [job[w] EXCEPT !.rows = [job[w].rows EXCEPT ![t] = NoRow]] \in Job
        BY <1>j, <2>1, Zenon DEF Job
    <2> QED
        BY <1>8, <2>2, BecomesType DEF LeaseRaceLost, TypeOK
<1>9. ASSUME NEW w \in Worker, ReadLease(w) PROVE TypeOK'
    <2>1. targets[job[w].target] \in Row
        BY <1>9, <1>t DEF ReadLease, WorkOK, Working
    <2>2. [job[w] EXCEPT !.pc = "fetch", !.row = targets[job[w].target]] \in Job
        BY <1>j, <2>1, Zenon DEF Job, Syncing
    <2> QED
        BY <1>9, <2>2, BecomesType DEF ReadLease, TypeOK
<1>10. ASSUME NEW w \in Worker, FetchCandles(w) PROVE TypeOK'
    <2>1. PICK B \in Answers(w) :
             Becomes(w, [job[w] EXCEPT !.pc = "persist", !.batch = B, !.stored = {}])
        BY <1>10 DEF FetchCandles
    <2>2. B \in SUBSET Instants /\ {} \in SUBSET Instants
        BY <2>1, AnswersType
    <2>3. [job[w] EXCEPT !.pc = "persist", !.batch = B, !.stored = {}] \in Job
        BY <1>j, <2>2, Zenon DEF Job, Syncing
    <2> QED
        BY <1>10, <2>1, <2>3, BecomesType DEF FetchCandles, TypeOK
<1>11. ASSUME NEW w \in Worker, SkipDeepen(w) PROVE TypeOK'
    <2>1. job[w].row.oldestSyncedAt \in TimeOrNull
        BY <1>j, JobType, RowType
    <2>2. [job[w] EXCEPT !.pc = "completing", !.oldest = job[w].row.oldestSyncedAt] \in Job
        BY <1>j, <2>1, Zenon DEF Job, Syncing
    <2> QED
        BY <1>11, <2>2, BecomesType DEF SkipDeepen, TypeOK
<1>12. ASSUME NEW w \in Worker, CheckLease(w) PROVE TypeOK'
    <2>1. ASSUME NEW pc \in Syncing PROVE [job[w] EXCEPT !.pc = pc] \in Job
        BY <1>j, Zenon DEF Job
    <2>2. (IF job[w].batch = {} \/ ~LeaseActiveForWrite(w) THEN "repair"
           ELSE IF job[w].pc = "persist" THEN "write" ELSE "fillwrite") \in Syncing
        BY DEF Syncing
    <2> QED
        BY <1>12, <2>1, <2>2, BecomesType DEF CheckLease, TypeOK
<1>13. ASSUME NEW w \in Worker, WriteCandle(w) PROVE TypeOK'
    <2> DEFINE c == CHOOSE c \in job[w].batch : \A d \in job[w].batch : c <= d
               pc == IF job[w].pc = "write" THEN "persist" ELSE "fill"
               kept == IF job[w].pc = "write" THEN job[w].stored \cup {c} ELSE job[w].stored
    <2>1. job[w].batch # {} /\ job[w].batch \in SUBSET Instants
        BY <1>13, <1>j, JobType DEF WriteCandle, WorkOK
    <2>2. \E d \in job[w].batch : \A e \in job[w].batch : d <= e
        BY <2>1, MinExists, RuntimeAssumption DEF Instants
    <2>3. c \in job[w].batch /\ c \in Instants
        BY <2>1, <2>2
    <2>4. job[w].batch \ {c} \in SUBSET Instants /\ kept \in SUBSET Instants /\ pc \in Syncing
        BY <2>1, <2>3, <1>j, JobType DEF Syncing
    <2>5. candles' = [candles EXCEPT ![Series(job[w].target)] = @ \cup {c}]
        BY <1>13, Zenon DEF WriteCandle
    <2>6. Becomes(w, [job[w] EXCEPT !.pc = pc, !.batch = @ \ {c}, !.stored = kept])
        BY <1>13, Zenon DEF WriteCandle
    <2> HIDE DEF c, pc, kept
    <2>7. [job[w] EXCEPT !.pc = pc, !.batch = @ \ {c}, !.stored = kept] \in Job
        BY <1>j, <2>4, Zenon DEF Job
    <2>8. candles' \in [{Series(t) : t \in Target} -> SUBSET Instants]
        BY <2>3, <2>5 DEF TypeOK
    <2> QED
        BY <1>13, <2>6, <2>7, <2>8, BecomesType DEF WriteCandle, TypeOK
<1>14. ASSUME NEW w \in Worker, FetchGap(w) PROVE TypeOK'
    <2>1. job[w].target \in Target
        BY <1>14 DEF FetchGap, WorkOK, Working, Syncing
    <2>2. PICK gap \in Gaps(job[w].target) : \E F \in SUBSET gap :
             Becomes(w, [job[w] EXCEPT
                !.pc = "fill", !.batch = F,
                !.exhausted = IF F = {} THEN @ \cup GapStart(gap) ELSE @])
        BY <1>14 DEF FetchGap
    <2>3. PICK F \in SUBSET gap :
             Becomes(w, [job[w] EXCEPT
                !.pc = "fill", !.batch = F,
                !.exhausted = IF F = {} THEN @ \cup GapStart(gap) ELSE @])
        BY <2>2
    <2> DEFINE done == IF F = {} THEN job[w].exhausted \cup GapStart(gap) ELSE job[w].exhausted
    <2>4. F \in SUBSET Instants /\ done \in SUBSET Instants
        BY <2>1, <2>2, <1>j, JobType, GapsType DEF GapStart
    <2> HIDE DEF done
    <2>5. [job[w] EXCEPT !.pc = "fill", !.batch = F, !.exhausted = done] \in Job
        BY <1>j, <2>4, ZenonT(60) DEF Job, Syncing
    <2>6. job' \in [Worker -> Job]
        BY <2>3, <2>5, BecomesType, Zenon DEF done
    <2> QED
        BY <1>14, <2>6 DEF FetchGap, TypeOK
<1>15. ASSUME NEW w \in Worker, FinishRecent(w) PROVE TypeOK'
    <2> DEFINE next == deriveOhlcvLatestSyncedAt(job[w].row, job[w].stored)
               pc == IF shouldDeepenOhlcvHistory(job[w].row, next, job[w].now)
                     THEN "fetch" ELSE "completing"
    <2>1. next \in TimeOrNull /\ job[w].row.oldestSyncedAt \in TimeOrNull
        BY <1>j, JobType, RowType, CursorType
    <2>2. pc \in Syncing /\ {} \in SUBSET Instants
        BY DEF Syncing
    <2>3. Becomes(w, [job[w] EXCEPT
              !.latest = next, !.oldest = job[w].row.oldestSyncedAt,
              !.batch = {}, !.stored = {}, !.exhausted = {}, !.phase = "deepen", !.pc = pc])
        BY <1>15, Zenon DEF FinishRecent
    <2> HIDE DEF next, pc
    <2>4. [job[w] EXCEPT
              !.latest = next, !.oldest = job[w].row.oldestSyncedAt,
              !.batch = {}, !.stored = {}, !.exhausted = {}, !.phase = "deepen", !.pc = pc] \in Job
        BY <1>j, <2>1, <2>2, Zenon DEF Job
    <2> QED
        BY <1>15, <2>3, <2>4, BecomesType DEF FinishRecent, TypeOK
<1>16. ASSUME NEW w \in Worker, FinishDeepen(w) PROVE TypeOK'
    <2> DEFINE first == deriveOhlcvOldestSyncedAt(job[w].row, job[w].stored)
    <2>1. first \in TimeOrNull /\ {} \in SUBSET Instants
        BY <1>j, JobType, CursorType
    <2>2. Becomes(w, [job[w] EXCEPT
              !.oldest = first, !.batch = {}, !.stored = {}, !.exhausted = {}, !.pc = "completing"])
        BY <1>16, Zenon DEF FinishDeepen
    <2> HIDE DEF first
    <2>3. [job[w] EXCEPT
              !.oldest = first, !.batch = {}, !.stored = {}, !.exhausted = {}, !.pc = "completing"]
          \in Job
        BY <1>j, <2>1, Zenon DEF Job, Syncing
    <2> QED
        BY <1>16, <2>2, <2>3, BecomesType DEF FinishDeepen, TypeOK
<1>17. ASSUME NEW w \in Worker, SyncFails(w) PROVE TypeOK'
    <2>1. [job[w] EXCEPT !.pc = "failing"] \in Job
        BY <1>j, Zenon DEF Job, Syncing
    <2> QED
        BY <1>17, <2>1, BecomesType DEF SyncFails, TypeOK
<1>18. ASSUME NEW w \in Worker, markOhlcvTargetSuccess(w) PROVE TypeOK'
    <2>1. job[w].target \in Target
        BY <1>18 DEF markOhlcvTargetSuccess, WorkOK, Working, Syncing
    <2>2. /\ job[w].latest \in TimeOrNull /\ job[w].oldest \in TimeOrNull
          /\ now \in TimeOrNull /\ NoTime \in TimeOrNull /\ NoToken \in Token
          /\ "idle" \in Status /\ 0 \in Nat
        BY <1>j, JobType DEF TypeOK, TimeOrNull, Token, Status
    <2>3. [targets[job[w].target] EXCEPT
              !.status = "idle", !.latestSyncedAt = job[w].latest, !.oldestSyncedAt = job[w].oldest,
              !.lastSuccessAt = now, !.failureCount = 0, !.nextRetryAt = NoTime,
              !.leaseToken = NoToken, !.leaseExpiresAt = NoTime] \in Row
        BY <1>t, <2>1, <2>2, Zenon DEF Row
    <2>4. targets' \in [Target -> Row]
        BY <1>18, <2>3 DEF markOhlcvTargetSuccess, TypeOK
    <2> QED
        BY <1>18, <2>4, FinishType DEF markOhlcvTargetSuccess, TypeOK
<1>19. ASSUME NEW w \in Worker, markOhlcvTargetFailure(w) PROVE TypeOK'
    <2> DEFINE failures == targets[job[w].target].failureCount
    <2>1. job[w].target \in Target
        BY <1>19 DEF markOhlcvTargetFailure, WorkOK, Working, Syncing
    <2>2. failures \in Nat
        BY <2>1, <1>t, RowType
    <2>4. 2^failures \in Nat
        BY <2>2, PowerIsNat
    <2>5. /\ now + RetryBase * 2^failures \in TimeOrNull /\ NoTime \in TimeOrNull
          /\ failures + 1 \in Nat /\ NoToken \in Token /\ "failed" \in Status
        BY <2>2, <2>4, RuntimeAssumption DEF TimeOrNull, TypeOK, Token, Status
    <2> HIDE DEF failures
    <2>6. [targets[job[w].target] EXCEPT
              !.status = "failed", !.failureCount = failures + 1,
              !.nextRetryAt = now + RetryBase * 2^failures,
              !.leaseToken = NoToken, !.leaseExpiresAt = NoTime] \in Row
        BY <1>t, <2>1, <2>5, Zenon DEF Row
    <2>7. targets' \in [Target -> Row]
        BY <1>19, <2>6 DEF markOhlcvTargetFailure, TypeOK, failures
    <2> QED
        BY <1>19, <2>7, FinishType DEF markOhlcvTargetFailure, TypeOK
<1>20. CASE Advance
    BY <1>20 DEF Advance, TypeOK
<1>21. ASSUME NEW w \in Worker, Crash(w) PROVE TypeOK'
    BY <1>21, FinishType DEF Crash, TypeOK
<1>22. CASE RanksChange
    BY <1>22, RuntimeAssumption DEF RanksChange, TypeOK
<1>23. CASE UNCHANGED vars
    BY <1>23 DEF vars, TypeOK
<1> QED
    BY <1>1, <1>2, <1>3, <1>4, <1>5, <1>6, <1>7, <1>8, <1>9, <1>10, <1>11, <1>12, <1>13,
       <1>14, <1>15, <1>16, <1>17, <1>18, <1>19, <1>20, <1>21, <1>22, <1>23
    DEF Next, Progress, HistoryEnds

(***************************************************************************)
(* WorkOK is preserved: only the record of the process that moves changes. *)
(***************************************************************************)

LEMMA WorkFinish ==
    ASSUME TypeOK, WorkOK, NEW w \in Worker, Finish(w)
    PROVE  WorkOK'
BY DEF TypeOK, WorkOK, Finish, Becomes, IdleJob, Working, Syncing

LEMMA WorkStep == TypeOK /\ WorkOK /\ [Next]_vars => WorkOK'
<1> SUFFICES ASSUME TypeOK, WorkOK, [Next]_vars PROVE WorkOK'
    OBVIOUS
<1>j. \A w \in Worker : job[w] \in Job
    BY DEF TypeOK
<1>1. ASSUME NEW w \in Worker, StartTick(w) PROVE WorkOK'
    BY <1>1, <1>j DEF StartTick, WorkOK, Becomes, Job, Working, Syncing, TypeOK
<1>2. ASSUME NEW w \in Worker, Finish(w) PROVE WorkOK'
    BY <1>2, WorkFinish
<1>3. ASSUME NEW w \in Worker, upsertOhlcvSyncTargets(w) \/ refreshOhlcvPriorityTiers(w) PROVE WorkOK'
    BY <1>3, <1>j DEF upsertOhlcvSyncTargets, refreshOhlcvPriorityTiers, Step, WorkOK, Becomes, Job, Working, Syncing, TypeOK
<1>5. ASSUME NEW w \in Worker, SelectCandidates(w) PROVE WorkOK'
    BY <1>5, <1>j DEF SelectCandidates, WorkOK, Becomes, Job, Working, Syncing, TypeOK
<1>7. ASSUME NEW w \in Worker, NEW t \in Target, LeaseTarget(w, t) PROVE WorkOK'
    BY <1>7, <1>j DEF LeaseTarget, WorkOK, Becomes, Job, Working, Syncing, TypeOK
<1>8. ASSUME NEW w \in Worker, NEW t \in Target, LeaseRaceLost(w, t) PROVE WorkOK'
    BY <1>8, <1>j DEF LeaseRaceLost, WorkOK, Becomes, Job, Working, Syncing, TypeOK
<1>9. ASSUME NEW w \in Worker, ReadLease(w) PROVE WorkOK'
    BY <1>9, <1>j DEF ReadLease, WorkOK, Becomes, Job, Working, Syncing, TypeOK
<1>10. ASSUME NEW w \in Worker, FetchCandles(w) PROVE WorkOK'
    BY <1>10, <1>j DEF FetchCandles, WorkOK, Becomes, Job, Working, Syncing, TypeOK
<1>11. ASSUME NEW w \in Worker, SkipDeepen(w) PROVE WorkOK'
    BY <1>11, <1>j DEF SkipDeepen, WorkOK, Becomes, Job, Working, Syncing, TypeOK
<1>12. ASSUME NEW w \in Worker, CheckLease(w) PROVE WorkOK'
    BY <1>12, <1>j DEF CheckLease, WorkOK, Becomes, Job, Working, Syncing, TypeOK
<1>13. ASSUME NEW w \in Worker, WriteCandle(w) PROVE WorkOK'
    BY <1>13, <1>j DEF WriteCandle, WorkOK, Becomes, Job, Working, Syncing, TypeOK
<1>14. ASSUME NEW w \in Worker, FetchGap(w) PROVE WorkOK'
    BY <1>14, <1>j DEF FetchGap, WorkOK, Becomes, Job, Working, Syncing, TypeOK
<1>15. ASSUME NEW w \in Worker, FinishRecent(w) PROVE WorkOK'
    BY <1>15, <1>j DEF FinishRecent, WorkOK, Becomes, Job, Working, Syncing, TypeOK
<1>16. ASSUME NEW w \in Worker, FinishDeepen(w) PROVE WorkOK'
    BY <1>16, <1>j DEF FinishDeepen, WorkOK, Becomes, Job, Working, Syncing, TypeOK
<1>17. ASSUME NEW w \in Worker, SyncFails(w) PROVE WorkOK'
    BY <1>17, <1>j DEF SyncFails, WorkOK, Becomes, Job, Working, Syncing, TypeOK
<1>18. CASE UNCHANGED job
    BY <1>18 DEF WorkOK
<1> QED
    BY <1>1, <1>2, <1>3, <1>5, <1>7, <1>8, <1>9, <1>10, <1>11, <1>12, <1>13,
       <1>14, <1>15, <1>16, <1>17, <1>18
    DEF Next, Progress, HistoryEnds, RefreshTargetsFails, NothingToLease, markOhlcvTargetSuccess,
        markOhlcvTargetFailure, Crash, Advance, RanksChange, vars

\* Type correctness: every reachable state is well typed.
THEOREM TypeCorrect == Spec => []TypeOK
<1>1. Init => TypeOK /\ WorkOK
    <2>1. Init => WorkOK
        BY DEF Init, WorkOK, IdleJob, Working, Syncing
    <2> QED
        BY <2>1, TypeInit
<1>2. TypeOK /\ WorkOK /\ [Next]_vars => (TypeOK /\ WorkOK)'
    BY TypeStep, WorkStep
<1> QED
    BY <1>1, <1>2, PTL DEF Spec

-----------------------------------------------------------------------------
(***************************************************************************)
(* The cursors of a row are stored candles.  A worker settles a row from   *)
(* its own copies, so the invariant has to follow them through the tick.   *)
(***************************************************************************)

\* Every cursor a worker still carries is in the series it works on.
CarriedBacked(w) ==
    LET series == candles[Series(job[w].target)]
        Backed(cursor) == cursor # NoTime => cursor \in series
    IN  /\ Backed(job[w].row.latestSyncedAt) /\ Backed(job[w].row.oldestSyncedAt)
        /\ job[w].stored \subseteq series
        /\ job[w].phase = "deepen" => Backed(job[w].latest) /\ Backed(job[w].oldest)

JobBacked ==
    \A w \in Worker :
        /\ job[w].pc \in Syncing => CarriedBacked(w)
        /\ job[w].pc \notin Syncing => job[w].phase = "recent" /\ job[w].stored = {}
        /\ job[w].pc = "completing" => job[w].phase = "deepen"

\* Candles are never removed.
LEMMA CandlesGrow ==
    ASSUME TypeOK, WorkOK, [Next]_vars, NEW t \in Target
    PROVE  candles[Series(t)] \subseteq candles'[Series(t)]
<1>1. CASE UNCHANGED candles
    BY <1>1
<1>2. ASSUME NEW w \in Worker, WriteCandle(w)
      PROVE  candles[Series(t)] \subseteq candles'[Series(t)]
    BY <1>2 DEF WriteCandle, TypeOK
<1> QED
    BY ZenonT(60), <1>1, <1>2 DEF Next, Progress, StartTick, RefreshTargetsFails, upsertOhlcvSyncTargets,
        refreshOhlcvPriorityTiers, SelectCandidates, NothingToLease, LeaseTarget, LeaseRaceLost,
        ReadLease, FetchCandles, SkipDeepen, CheckLease, FetchGap, FinishRecent, FinishDeepen,
        SyncFails, markOhlcvTargetSuccess, markOhlcvTargetFailure, Advance, Crash, RanksChange,
        HistoryEnds, vars

\* A worker that does not move keeps what it carries.
LEMMA CarriedStays ==
    ASSUME TypeOK, WorkOK, JobBacked, [Next]_vars, NEW v \in Worker, job'[v] = job[v]
    PROVE  /\ job'[v].pc \in Syncing => CarriedBacked(v)'
           /\ job'[v].pc \notin Syncing => job'[v].phase = "recent" /\ job'[v].stored = {}
           /\ job'[v].pc = "completing" => job'[v].phase = "deepen"
<1>1. CASE job[v].pc \in Syncing
    <2>1. job[v].target \in Target
        BY <1>1 DEF WorkOK, Working
    <2>2. candles[Series(job[v].target)] \subseteq candles'[Series(job[v].target)]
        BY <2>1, CandlesGrow
    <2>3. CarriedBacked(v)
        BY <1>1 DEF JobBacked
    <2> QED
        BY <1>1, <2>2, <2>3 DEF CarriedBacked, JobBacked
<1>2. CASE job[v].pc \notin Syncing
    BY <1>2 DEF JobBacked
<1> QED
    BY <1>1, <1>2

\* What is required of one worker after a step.
Carries(w) ==
    /\ job[w].pc \in Syncing => CarriedBacked(w)
    /\ job[w].pc \notin Syncing => job[w].phase = "recent" /\ job[w].stored = {}
    /\ job[w].pc = "completing" => job[w].phase = "deepen"

\* A worker that goes back to idle, or stays before its fetch, carries nothing.
LEMMA CarriesNothing ==
    ASSUME NEW w, job'[w].pc \notin Syncing, job'[w].phase = "recent", job'[w].stored = {}
    PROVE  Carries(w)'
BY DEF Carries, Syncing

\* A worker whose record changes is the one that takes the step.
LEMMA OneMoves ==
    ASSUME TypeOK, [Next]_vars, NEW w \in Worker, job'[w] # job[w]
    PROVE  StartTick(w) \/ Progress(w) \/ Crash(w)
<1>1. PICK v \in Worker : StartTick(v) \/ Progress(v) \/ Crash(v)
    BY DEF Next, Advance, RanksChange, HistoryEnds, vars
<1>2. ASSUME NEW r, Becomes(v, r) PROVE v = w
    BY <1>2 DEF Becomes, TypeOK
<1>3. \E r : Becomes(v, r)
    BY <1>1 DEF Progress, StartTick, RefreshTargetsFails, upsertOhlcvSyncTargets,
        refreshOhlcvPriorityTiers, SelectCandidates, NothingToLease, LeaseTarget, LeaseRaceLost,
        ReadLease, FetchCandles, SkipDeepen, CheckLease, WriteCandle, FetchGap, FinishRecent,
        FinishDeepen, SyncFails, markOhlcvTargetSuccess, markOhlcvTargetFailure, Crash, Step, Finish
<1> QED
    BY <1>1, <1>2, <1>3

LEMMA CarriedStep ==
    ASSUME TypeOK, WorkOK, JobBacked, CursorsBackedByCandles, [Next]_vars, NEW w \in Worker,
           job'[w] # job[w]
    PROVE  Carries(w)'
<1>j. job[w] \in Job
    BY DEF TypeOK
<1>1. ASSUME StartTick(w) PROVE Carries(w)'
    BY <1>1, <1>j DEF StartTick, Becomes, Job, Syncing, JobBacked, Carries, TypeOK
<1>2. ASSUME Finish(w) PROVE Carries(w)'
    BY <1>2, CarriesNothing DEF Finish, Becomes, IdleJob, Syncing, TypeOK
<1>3. ASSUME upsertOhlcvSyncTargets(w) \/ refreshOhlcvPriorityTiers(w) PROVE Carries(w)'
    <2>1. job[w].pc \notin Syncing /\ job[w].phase = "recent" /\ job[w].stored = {}
        BY <1>3 DEF upsertOhlcvSyncTargets, refreshOhlcvPriorityTiers, Step, Syncing, JobBacked
    <2>2. PICK pc \in {"retiering", "selecting"} : job'[w] = [job[w] EXCEPT !.pc = pc]
        BY <1>3 DEF upsertOhlcvSyncTargets, refreshOhlcvPriorityTiers, Step, Becomes, TypeOK
    <2>3. job'[w].pc = pc /\ job'[w].phase = job[w].phase /\ job'[w].stored = job[w].stored
        BY <2>2, <1>j DEF Job
    <2> QED
        BY <2>1, <2>3, CarriesNothing DEF Syncing
<1>4. ASSUME SelectCandidates(w) PROVE Carries(w)'
    BY <1>4, <1>j DEF SelectCandidates, Becomes, Job, Syncing, JobBacked, Carries, TypeOK
<1>5. ASSUME NEW t \in Target, LeaseTarget(w, t) \/ LeaseRaceLost(w, t) PROVE Carries(w)'
    <2>1. job[w].pc = "leasing" /\ job[w].phase = "recent" /\ job[w].stored = {}
        BY <1>5 DEF LeaseTarget, LeaseRaceLost, Syncing, JobBacked
    <2>2. CASE LeaseTarget(w, t)
        <3>1. job'[w].pc = "reading" /\ job'[w].phase = job[w].phase /\ job'[w].stored = job[w].stored
            BY <2>2, <1>j DEF LeaseTarget, Becomes, TypeOK, Job
        <3> QED
            BY <2>1, <3>1, CarriesNothing DEF Syncing
    <2>3. CASE LeaseRaceLost(w, t)
        <3>1. job'[w] = [job[w] EXCEPT !.rows = [@ EXCEPT ![t] = NoRow]]
            BY <2>3 DEF LeaseRaceLost, Becomes, TypeOK
        <3>2. job'[w].pc = job[w].pc /\ job'[w].phase = job[w].phase /\ job'[w].stored = job[w].stored
            BY <3>1, <1>j DEF Job
        <3> QED
            BY <2>1, <3>2, CarriesNothing DEF Syncing
    <2> QED
        BY <1>5, <2>2, <2>3
<1>6. ASSUME ReadLease(w) PROVE Carries(w)'
    <2>1. job[w].target \in Target /\ job[w].phase = "recent" /\ job[w].stored = {}
        BY <1>6 DEF ReadLease, WorkOK, Working, JobBacked, Syncing
    <2>2. /\ job'[w].pc = "fetch" /\ job'[w].row = targets[job[w].target]
          /\ job'[w].target = job[w].target
          /\ job'[w].phase = "recent" /\ job'[w].stored = {}
        BY <1>6, <1>j, <2>1 DEF ReadLease, Becomes, Job, TypeOK
    <2>3. UNCHANGED candles
        BY <1>6 DEF ReadLease
    <2> QED
        BY <2>1, <2>2, <2>3 DEF Carries, CarriedBacked, CursorsBackedByCandles, Syncing
<1>7. ASSUME job[w].pc \in Syncing, job'[w].pc \in Syncing,
             job'[w].target = job[w].target, job'[w].row = job[w].row,
             job'[w].phase = job[w].phase,
             job'[w].stored \in {job[w].stored, {}},
             job'[w].latest = job[w].latest, job'[w].oldest \in {job[w].oldest, job[w].row.oldestSyncedAt},
             job'[w].pc = "completing" => job[w].phase = "deepen"
      PROVE  Carries(w)'
    <2>1. CarriedBacked(w) /\ candles[Series(job[w].target)] \subseteq candles'[Series(job[w].target)]
        BY <1>7, CandlesGrow DEF JobBacked, WorkOK, Working
    <2> QED
        BY <1>7, <2>1 DEF Carries, CarriedBacked
<1>8. ASSUME FetchCandles(w) PROVE Carries(w)'
    BY <1>7, <1>8, <1>j DEF FetchCandles, Becomes, Job, TypeOK, Syncing
<1>9. ASSUME SkipDeepen(w) PROVE Carries(w)'
    BY <1>7, <1>9, <1>j DEF SkipDeepen, Becomes, Job, TypeOK, Syncing
<1>10. ASSUME CheckLease(w) PROVE Carries(w)'
    BY <1>7, <1>10, <1>j DEF CheckLease, Becomes, Job, TypeOK, Syncing
<1>11. ASSUME FetchGap(w) PROVE Carries(w)'
    BY <1>7, <1>11, <1>j DEF FetchGap, Becomes, Job, TypeOK, Syncing
<1>12. ASSUME SyncFails(w) PROVE Carries(w)'
    BY <1>7, <1>12, <1>j DEF SyncFails, Becomes, Job, TypeOK, Syncing
<1>13. ASSUME WriteCandle(w) PROVE Carries(w)'
    <2> DEFINE c == CHOOSE c \in job[w].batch : \A d \in job[w].batch : c <= d
    <2>1. job[w].pc \in Syncing /\ job[w].target \in Target
        BY <1>13 DEF WriteCandle, WorkOK, Working, Syncing
    <2>2. candles' = [candles EXCEPT ![Series(job[w].target)] = @ \cup {c}]
        BY <1>13, Zenon DEF WriteCandle
    <2>3. Becomes(w, [job[w] EXCEPT
              !.pc = IF @ = "write" THEN "persist" ELSE "fill",
              !.batch = @ \ {c},
              !.stored = IF job[w].pc = "write" THEN @ \cup {c} ELSE @])
        BY <1>13, Zenon DEF WriteCandle
    <2> HIDE DEF c
    <2>4. /\ job'[w].pc \in {"persist", "fill"} /\ job'[w].target = job[w].target
          /\ job'[w].row = job[w].row /\ job'[w].phase = job[w].phase
          /\ job'[w].stored \subseteq job[w].stored \cup {c}
          /\ job'[w].latest = job[w].latest /\ job'[w].oldest = job[w].oldest
        BY <2>3, <1>j DEF Becomes, Job, TypeOK
    <2>5. candles'[Series(job[w].target)] = candles[Series(job[w].target)] \cup {c}
        BY <2>1, <2>2 DEF TypeOK
    <2>6. CarriedBacked(w)
        BY <2>1 DEF JobBacked
    <2> QED
        BY <2>4, <2>5, <2>6 DEF Carries, CarriedBacked, Syncing
<1>14. ASSUME FinishRecent(w) PROVE Carries(w)'
    <2> DEFINE next == deriveOhlcvLatestSyncedAt(job[w].row, job[w].stored)
    <2>1. job[w].pc \in Syncing /\ CarriedBacked(w) /\ UNCHANGED candles
        BY <1>14 DEF FinishRecent, JobBacked, Syncing
    <2>2. next # NoTime => next \in candles[Series(job[w].target)]
        <3>1. CASE job[w].stored = {}
            BY <3>1, <2>1 DEF deriveOhlcvLatestSyncedAt, CarriedBacked
        <3>2. CASE job[w].stored # {}
            BY <3>2, <2>1, <1>j, JobType, LatestIsStored DEF CarriedBacked
        <3> QED
            BY <3>1, <3>2
    <2>3. /\ job'[w].target = job[w].target /\ job'[w].row = job[w].row
          /\ job'[w].latest = next /\ job'[w].oldest = job[w].row.oldestSyncedAt
          /\ job'[w].phase = "deepen" /\ job'[w].stored = {} /\ job'[w].pc \in Syncing
        BY <1>14, <1>j DEF FinishRecent, Becomes, Job, TypeOK, Syncing
    <2> HIDE DEF next
    <2> QED
        BY <2>1, <2>2, <2>3 DEF Carries, CarriedBacked
<1>15. ASSUME FinishDeepen(w) PROVE Carries(w)'
    <2> DEFINE first == deriveOhlcvOldestSyncedAt(job[w].row, job[w].stored)
    <2>1. job[w].pc \in Syncing /\ CarriedBacked(w) /\ UNCHANGED candles /\ job[w].phase = "deepen"
        BY <1>15 DEF FinishDeepen, JobBacked, Syncing
    <2>2. first # NoTime => first \in candles[Series(job[w].target)]
        <3>1. CASE job[w].stored = {}
            BY <3>1, <2>1 DEF deriveOhlcvOldestSyncedAt, CarriedBacked
        <3>2. CASE job[w].stored # {}
            BY <3>2, <2>1, <1>j, JobType, OldestIsStored DEF CarriedBacked
        <3> QED
            BY <3>1, <3>2
    <2>3. /\ job'[w].target = job[w].target /\ job'[w].row = job[w].row
          /\ job'[w].latest = job[w].latest /\ job'[w].oldest = first
          /\ job'[w].phase = "deepen" /\ job'[w].stored = {} /\ job'[w].pc \in Syncing
        BY <1>15, <1>j, <2>1 DEF FinishDeepen, Becomes, Job, TypeOK, Syncing
    <2> HIDE DEF first
    <2> QED
        BY <2>1, <2>2, <2>3 DEF Carries, CarriedBacked
<1>16. StartTick(w) \/ Progress(w) \/ Crash(w)
    BY OneMoves
<1> QED
    BY <1>1, <1>2, <1>3, <1>4, <1>5, <1>6, <1>8, <1>9, <1>10, <1>11, <1>12, <1>13, <1>14, <1>15,
       <1>16
    DEF Progress, RefreshTargetsFails, NothingToLease, markOhlcvTargetSuccess,
        markOhlcvTargetFailure, Crash

\* The only statement that sets a cursor of an existing row.
LEMMA CursorsChange ==
    ASSUME TypeOK, WorkOK, [Next]_vars, NEW t \in Target
    PROVE  \/ /\ targets'[t].latestSyncedAt \in {targets[t].latestSyncedAt, NoTime}
              /\ targets'[t].oldestSyncedAt \in {targets[t].oldestSyncedAt, NoTime}
              /\ targets[t].status # "absent" =>
                    targets'[t].latestSyncedAt = targets[t].latestSyncedAt
           \/ \E w \in Worker :
                 /\ job[w].pc = "completing" /\ job[w].target = t
                 /\ job[w].row.leaseToken # NoToken /\ LeaseActive(t, job[w].row.leaseToken)
                 /\ targets'[t].latestSyncedAt = job[w].latest
                 /\ targets'[t].oldestSyncedAt = job[w].oldest
                 /\ targets'[t].leaseToken = NoToken
                 /\ UNCHANGED candles
<1>t. targets[t] \in Row
    BY DEF TypeOK
<1>1. CASE UNCHANGED targets
    BY <1>1
<1>2. ASSUME NEW w \in Worker, upsertOhlcvSyncTargets(w)
      PROVE  /\ targets'[t].latestSyncedAt \in {targets[t].latestSyncedAt, NoTime}
             /\ targets'[t].oldestSyncedAt \in {targets[t].oldestSyncedAt, NoTime}
             /\ targets[t].status # "absent" =>
                   targets'[t].latestSyncedAt = targets[t].latestSyncedAt
    <2>1. targets'[t] = Upserted(t)
        BY <1>2 DEF upsertOhlcvSyncTargets
    <2>2. CASE targets[t].status = "absent"
        BY <2>1, <2>2 DEF Upserted, FreshRow
    <2>3. CASE targets[t].status # "absent"
        BY <2>1, <2>3, <1>t DEF Upserted, Row
    <2> QED
        BY <2>2, <2>3
<1>3. ASSUME NEW w \in Worker, refreshOhlcvPriorityTiers(w)
      PROVE  /\ targets'[t].latestSyncedAt = targets[t].latestSyncedAt
             /\ targets'[t].oldestSyncedAt = targets[t].oldestSyncedAt
    BY <1>3, <1>t DEF refreshOhlcvPriorityTiers, Row
<1>4. ASSUME NEW w \in Worker, NEW u \in Target, LeaseTarget(w, u)
      PROVE  /\ targets'[t].latestSyncedAt = targets[t].latestSyncedAt
             /\ targets'[t].oldestSyncedAt = targets[t].oldestSyncedAt
    <2>1. CASE t = u
        <3>1. targets'[t] = [targets[t] EXCEPT
                  !.status = "running", !.leaseToken = tokens + 1,
                  !.leaseExpiresAt = job[w].now + LeaseTtl, !.lastAttemptAt = job[w].now]
            BY <1>4, <2>1 DEF LeaseTarget, TypeOK
        <3> QED
            BY <3>1, <1>t DEF Row
    <2>2. CASE t # u
        BY <1>4, <2>2 DEF LeaseTarget, TypeOK
    <2> QED
        BY <2>1, <2>2
<1>5. ASSUME NEW w \in Worker, markOhlcvTargetFailure(w)
      PROVE  /\ targets'[t].latestSyncedAt = targets[t].latestSyncedAt
             /\ targets'[t].oldestSyncedAt = targets[t].oldestSyncedAt
    <2>1. CASE t = job[w].target /\ targets' # targets
        <3>1. targets'[t] = [targets[t] EXCEPT
                  !.status = "failed", !.failureCount = targets[t].failureCount + 1,
                  !.nextRetryAt = now + RetryBase * 2^targets[t].failureCount,
                  !.leaseToken = NoToken, !.leaseExpiresAt = NoTime]
            BY <1>5, <2>1, Zenon DEF markOhlcvTargetFailure, TypeOK
        <3> QED
            BY <3>1, <1>t, Zenon DEF Row
    <2>2. CASE t # job[w].target \/ targets' = targets
        BY <1>5, <2>2 DEF markOhlcvTargetFailure, TypeOK
    <2> QED
        BY <2>1, <2>2
<1>6. ASSUME NEW w \in Worker, markOhlcvTargetSuccess(w), targets' # targets, t = job[w].target
      PROVE  /\ job[w].pc = "completing"
             /\ job[w].row.leaseToken # NoToken /\ LeaseActive(t, job[w].row.leaseToken)
             /\ targets'[t].latestSyncedAt = job[w].latest
             /\ targets'[t].oldestSyncedAt = job[w].oldest
             /\ targets'[t].leaseToken = NoToken
             /\ UNCHANGED candles
    <2>1. /\ job[w].pc = "completing" /\ UNCHANGED candles
          /\ job[w].row.leaseToken # NoToken /\ LeaseActive(t, job[w].row.leaseToken)
        BY <1>6 DEF markOhlcvTargetSuccess
    <2>2. targets'[t] = [targets[t] EXCEPT
              !.status = "idle", !.latestSyncedAt = job[w].latest, !.oldestSyncedAt = job[w].oldest,
              !.lastSuccessAt = now, !.failureCount = 0, !.nextRetryAt = NoTime,
              !.leaseToken = NoToken, !.leaseExpiresAt = NoTime]
        BY <1>6 DEF markOhlcvTargetSuccess, TypeOK
    <2>3. /\ targets'[t].latestSyncedAt = job[w].latest
          /\ targets'[t].oldestSyncedAt = job[w].oldest
          /\ targets'[t].leaseToken = NoToken
        BY <2>2, <1>t DEF Row
    <2> QED
        BY <2>1, <2>3
<1>7. ASSUME NEW w \in Worker, markOhlcvTargetSuccess(w), t # job[w].target
      PROVE  targets'[t] = targets[t]
    BY <1>7 DEF markOhlcvTargetSuccess, TypeOK
<1> QED
    BY ZenonT(60), <1>1, <1>2, <1>3, <1>4, <1>5, <1>6, <1>7 DEF Next, Progress, StartTick,
        RefreshTargetsFails, SelectCandidates, NothingToLease, LeaseRaceLost, ReadLease,
        FetchCandles, SkipDeepen, CheckLease, WriteCandle, FetchGap, FinishRecent, FinishDeepen,
        SyncFails, Advance, Crash, RanksChange, HistoryEnds, vars

BackedInv == TypeOK /\ WorkOK /\ JobBacked /\ CursorsBackedByCandles

LEMMA BackedInit == Init => BackedInv
<1> SUFFICES ASSUME Init PROVE BackedInv
    OBVIOUS
<1>1. TypeOK
    BY TypeInit
<1>2. WorkOK /\ JobBacked
    BY DEF Init, WorkOK, JobBacked, IdleJob, Working, Syncing
<1>3. ASSUME NEW t \in Target
      PROVE  targets[t].latestSyncedAt = NoTime /\ targets[t].oldestSyncedAt = NoTime
    <2>1. LegacyRunningRow(t).latestSyncedAt = NoTime /\ LegacyRunningRow(t).oldestSyncedAt = NoTime
        BY DEF LegacyRunningRow, FreshRow
    <2> QED
        BY <2>1 DEF Init, NoRow
<1> QED
    BY <1>1, <1>2, <1>3 DEF BackedInv, CursorsBackedByCandles

LEMMA BackedStep == BackedInv /\ [Next]_vars => BackedInv'
<1> SUFFICES ASSUME BackedInv, [Next]_vars PROVE BackedInv'
    OBVIOUS
<1> USE DEF BackedInv
<1>1. TypeOK' /\ WorkOK'
    BY TypeStep, WorkStep
<1>2. ASSUME NEW w \in Worker PROVE Carries(w)'
    <2>1. CASE job'[w] = job[w]
        BY <2>1, CarriedStays DEF Carries
    <2>2. CASE job'[w] # job[w]
        BY <2>2, CarriedStep
    <2> QED
        BY <2>1, <2>2
<1>3. JobBacked'
    BY <1>2 DEF JobBacked, Carries
<1>4. ASSUME NEW t \in Target
      PROVE  /\ targets'[t].latestSyncedAt # NoTime => targets'[t].latestSyncedAt \in candles'[Series(t)]
             /\ targets'[t].oldestSyncedAt # NoTime => targets'[t].oldestSyncedAt \in candles'[Series(t)]
    <2>1. candles[Series(t)] \subseteq candles'[Series(t)]
        BY CandlesGrow
    <2>2. CASE /\ targets'[t].latestSyncedAt \in {targets[t].latestSyncedAt, NoTime}
               /\ targets'[t].oldestSyncedAt \in {targets[t].oldestSyncedAt, NoTime}
        BY <2>1, <2>2 DEF CursorsBackedByCandles
    <2>3. ASSUME NEW w \in Worker, job[w].pc = "completing", job[w].target = t,
                 targets'[t].latestSyncedAt = job[w].latest, targets'[t].oldestSyncedAt = job[w].oldest
          PROVE  /\ targets'[t].latestSyncedAt # NoTime => targets'[t].latestSyncedAt \in candles'[Series(t)]
                 /\ targets'[t].oldestSyncedAt # NoTime => targets'[t].oldestSyncedAt \in candles'[Series(t)]
        <3>1. CarriedBacked(w) /\ job[w].phase = "deepen"
            BY <2>3 DEF JobBacked, Syncing
        <3> QED
            BY <2>1, <2>3, <3>1 DEF CarriedBacked
    <2> QED
        BY <2>2, <2>3, CursorsChange
<1>5. CursorsBackedByCandles'
    BY <1>4 DEF CursorsBackedByCandles
<1> QED
    BY <1>1, <1>3, <1>5

\* Whatever was lost, recovered or stored by whom, the cursors a row records
\* are stored candles.
THEOREM CursorsAreBacked == Spec => []CursorsBackedByCandles
<1>1. BackedInv => CursorsBackedByCandles
    BY DEF BackedInv
<1> QED
    BY <1>1, BackedInit, BackedStep, PTL DEF Spec

-----------------------------------------------------------------------------
(***************************************************************************)
(* The recent cursor never moves back.  Two facts: what a worker carries   *)
(* is not older than the cursor it read, and as long as its token is the   *)
(* one in the table, the cursor it read is the one in the table.           *)
(***************************************************************************)

\* Everything worker w may record as latest is at or after the cursor it read.
NotOlder(w) ==
    LET old == job[w].row.latestSyncedAt
    IN  (job[w].pc \in Syncing /\ old # NoTime) =>
            /\ job[w].phase = "recent" => \A c \in job[w].stored : old <= c
            /\ (job[w].phase = "recent" /\ job[w].pc \in {"persist", "write"})
                  => \A c \in job[w].batch : old <= c
            /\ job[w].phase = "deepen" => job[w].latest # NoTime /\ old <= job[w].latest

\* The fencing token: held by w and still in the table, nothing has happened.
Fenced(w) ==
    (job[w].pc \in Syncing /\ job[w].row.leaseToken # NoToken) =>
        /\ job[w].row.leaseToken <= tokens
        /\ targets[job[w].target].leaseToken = job[w].row.leaseToken
              => targets[job[w].target].latestSyncedAt = job[w].row.latestSyncedAt

TableOK ==
    \A t \in Target :
        /\ targets[t].leaseToken # NoToken => targets[t].leaseToken <= tokens
        /\ targets[t].status = "absent" => targets[t].latestSyncedAt = NoTime

FenceInv ==
    /\ BackedInv
    /\ TableOK
    /\ \A w \in Worker : NotOlder(w) /\ Fenced(w)

LEMMA NotOlderStep ==
    ASSUME FenceInv, [Next]_vars, NEW w \in Worker, job'[w] # job[w]
    PROVE  NotOlder(w)'
<1>j. job[w] \in Job /\ job[w].row \in Row
    BY JobType DEF FenceInv, BackedInv, TypeOK
<1>T. TypeOK /\ WorkOK /\ NotOlder(w)
    BY DEF FenceInv, BackedInv
<1>1. ASSUME job'[w].pc \notin Syncing PROVE NotOlder(w)'
    BY <1>1 DEF NotOlder, Syncing
<1>2. ASSUME StartTick(w) \/ upsertOhlcvSyncTargets(w) \/ refreshOhlcvPriorityTiers(w) \/ SelectCandidates(w)
      PROVE  NotOlder(w)'
    <2>1. job'[w].pc \in {"refreshing", "retiering", "selecting", "leasing"}
        BY ZenonT(60), <1>2, <1>j, <1>T DEF StartTick, upsertOhlcvSyncTargets, refreshOhlcvPriorityTiers,
            SelectCandidates, Step, Becomes, Job, TypeOK
    <2> QED
        BY <2>1, <1>1 DEF Syncing
<1>3. ASSUME NEW t \in Target, LeaseTarget(w, t) \/ LeaseRaceLost(w, t)
      PROVE  NotOlder(w)'
    <2>1. CASE LeaseTarget(w, t)
        BY <2>1, <1>1, <1>j, <1>T DEF LeaseTarget, Becomes, Job, TypeOK, Syncing
    <2>2. CASE LeaseRaceLost(w, t)
        <3>1. job'[w] = [job[w] EXCEPT !.rows = [@ EXCEPT ![t] = NoRow]]
            BY <2>2, <1>T DEF LeaseRaceLost, Becomes, TypeOK
        <3>2. job'[w].pc = "leasing"
            BY <2>2, <3>1, <1>j DEF Job, LeaseRaceLost
        <3> QED
            BY <3>2, <1>1 DEF Syncing
    <2> QED
        BY <1>3, <2>1, <2>2
<1>4. ASSUME Finish(w) PROVE NotOlder(w)'
    BY <1>4, <1>1, <1>T DEF Finish, Becomes, IdleJob, Syncing, TypeOK
<1>5. ASSUME ReadLease(w) PROVE NotOlder(w)'
    <2>1. job[w].phase = "recent" /\ job[w].stored = {}
        BY <1>5 DEF ReadLease, FenceInv, BackedInv, JobBacked, Syncing
    <2>2. job'[w].pc = "fetch" /\ job'[w].phase = "recent" /\ job'[w].stored = {}
        BY <1>5, <1>j, <1>T, <2>1 DEF ReadLease, Becomes, Job, TypeOK
    <2> QED
        BY <2>2 DEF NotOlder
<1>6. ASSUME FetchCandles(w) PROVE NotOlder(w)'
    <2>1. PICK B \in Answers(w) :
             Becomes(w, [job[w] EXCEPT !.pc = "persist", !.batch = B, !.stored = {}])
        BY <1>6 DEF FetchCandles
    <2>2. /\ job'[w].pc = "persist" /\ job'[w].batch = B /\ job'[w].stored = {}
          /\ job'[w].row = job[w].row /\ job'[w].phase = job[w].phase
          /\ job'[w].latest = job[w].latest
        BY <2>1, <1>j, <1>T DEF Becomes, Job, TypeOK
    <2>3. ASSUME job[w].phase = "recent", job[w].row.latestSyncedAt # NoTime, NEW c \in B
          PROVE  job[w].row.latestSyncedAt <= c
        <3>1. RecentSince(job[w].row, job[w].now) <= c /\ c \in Instants
            BY <2>1, <2>3, AnswersType DEF Answers
        <3>2. RecentSince(job[w].row, job[w].now)
                 = job[w].row.latestSyncedAt + getIntervalMs(job[w].row.interval)
            BY <2>3 DEF RecentSince
        <3>3. getIntervalMs(job[w].row.interval) \in Nat
            BY RuntimeAssumption, PolicyAssumption DEF getIntervalMs
        <3>4. job[w].row.latestSyncedAt \in Int
            BY <2>3, <1>j, RowType DEF TimeOrNull
        <3> QED
            BY <3>1, <3>2, <3>3, <3>4 DEF Instants
    <2>4. job[w].pc = "fetch"
        BY <1>6 DEF FetchCandles
    <2> QED
        BY <2>2, <2>3, <2>4, <1>T DEF NotOlder, Syncing
<1>7. ASSUME SkipDeepen(w) PROVE NotOlder(w)'
    <2>1. /\ job[w].pc = "fetch" /\ job[w].phase = "deepen"
          /\ job'[w].pc = "completing" /\ job'[w].row = job[w].row
          /\ job'[w].phase = "deepen" /\ job'[w].latest = job[w].latest
        BY <1>7, <1>j, <1>T DEF SkipDeepen, Becomes, Job, TypeOK
    <2> QED
        BY <2>1, <1>T DEF NotOlder, Syncing
<1>8. ASSUME CheckLease(w) PROVE NotOlder(w)'
    <2>1. /\ job[w].pc \in {"persist", "fill"}
          /\ job'[w].pc = "write" => job[w].pc = "persist"
          /\ job'[w].pc \in {"repair", "write", "fillwrite"}
          /\ job'[w].batch = job[w].batch /\ job'[w].stored = job[w].stored
          /\ job'[w].row = job[w].row /\ job'[w].phase = job[w].phase
          /\ job'[w].latest = job[w].latest
        BY <1>8, <1>j, <1>T DEF CheckLease, Becomes, Job, TypeOK
    <2> QED
        BY <2>1, <1>T DEF NotOlder, Syncing
<1>9. ASSUME WriteCandle(w) PROVE NotOlder(w)'
    <2> DEFINE c == CHOOSE c \in job[w].batch : \A d \in job[w].batch : c <= d
    <2>1. job[w].batch # {} /\ job[w].batch \in SUBSET Instants
        BY <1>9, <1>j, <1>T, JobType DEF WriteCandle, WorkOK
    <2>2. \E d \in job[w].batch : \A e \in job[w].batch : d <= e
        BY <2>1, MinExists, RuntimeAssumption DEF Instants
    <2>3. c \in job[w].batch
        BY <2>2
    <2>4. Becomes(w, [job[w] EXCEPT
              !.pc = IF @ = "write" THEN "persist" ELSE "fill",
              !.batch = @ \ {c},
              !.stored = IF job[w].pc = "write" THEN @ \cup {c} ELSE @])
        BY <1>9, Zenon DEF WriteCandle
    <2> HIDE DEF c
    <2>8. job[w].pc \in {"write", "fillwrite"}
        BY <1>9 DEF WriteCandle
    <2>5. /\ job[w].pc \in {"write", "fillwrite"}
          /\ job'[w].pc = IF job[w].pc = "write" THEN "persist" ELSE "fill"
          /\ job'[w].batch = job[w].batch \ {c}
          /\ job'[w].stored = IF job[w].pc = "write" THEN job[w].stored \cup {c} ELSE job[w].stored
          /\ job'[w].row = job[w].row /\ job'[w].phase = job[w].phase
          /\ job'[w].latest = job[w].latest
        BY <2>4, <2>8, <1>j, <1>T DEF Becomes, Job, TypeOK
    <2>6. CASE job[w].pc = "write"
        <3>1. /\ job'[w].pc = "persist" /\ job'[w].stored = job[w].stored \cup {c}
              /\ job'[w].batch \subseteq job[w].batch
            BY <2>5, <2>6
        <3>2. ASSUME job[w].row.latestSyncedAt # NoTime, job[w].phase = "recent"
              PROVE  /\ \A d \in job[w].stored : job[w].row.latestSyncedAt <= d
                     /\ \A d \in job[w].batch : job[w].row.latestSyncedAt <= d
            BY <2>6, <3>2, <1>T DEF NotOlder, Syncing
        <3>3. ASSUME job[w].row.latestSyncedAt # NoTime, job[w].phase = "deepen"
              PROVE  job[w].latest # NoTime /\ job[w].row.latestSyncedAt <= job[w].latest
            BY <2>6, <3>3, <1>T DEF NotOlder, Syncing
        <3> QED
            BY <2>3, <2>5, <3>1, <3>2, <3>3 DEF NotOlder
    <2>7. CASE job[w].pc = "fillwrite"
        BY <2>5, <2>7, <1>T DEF NotOlder, Syncing
    <2> QED
        BY <2>5, <2>6, <2>7
<1>10. ASSUME FetchGap(w) PROVE NotOlder(w)'
    <2>1. /\ job[w].pc = "repair" /\ job'[w].pc = "fill"
          /\ job'[w].stored = job[w].stored
          /\ job'[w].row = job[w].row /\ job'[w].phase = job[w].phase
          /\ job'[w].latest = job[w].latest
        BY <1>10, <1>j, <1>T DEF FetchGap, Becomes, Job, TypeOK
    <2> QED
        BY <2>1, <1>T DEF NotOlder, Syncing
<1>11. ASSUME FinishRecent(w) PROVE NotOlder(w)'
    <2> DEFINE next == deriveOhlcvLatestSyncedAt(job[w].row, job[w].stored)
    <2>1. job[w].pc = "repair" /\ job[w].phase = "recent" /\ job[w].stored \in SUBSET Instants
        BY <1>11, <1>j, JobType DEF FinishRecent
    <2>2. /\ job'[w].pc \in Syncing /\ job'[w].row = job[w].row /\ job'[w].phase = "deepen"
          /\ job'[w].latest = next
        BY <1>11, <1>j, <1>T DEF FinishRecent, Becomes, Job, TypeOK, Syncing
    <2>3. ASSUME job[w].row.latestSyncedAt # NoTime
          PROVE  next # NoTime /\ job[w].row.latestSyncedAt <= next
        <3>1. job[w].row.latestSyncedAt \in Int
            BY <2>3, <1>j, RowType DEF TimeOrNull
        <3>2. CASE job[w].stored = {}
            BY <2>3, <3>1, <3>2 DEF deriveOhlcvLatestSyncedAt
        <3>3. CASE job[w].stored # {}
            <4>1. next \in job[w].stored /\ next \in Int
                BY <2>1, <3>3, LatestIsStored DEF Instants
            <4>2. job[w].row.latestSyncedAt <= next
                BY <2>1, <2>3, <4>1, <1>T DEF NotOlder, Syncing
            <4> QED
                BY <4>1, <4>2, PolicyAssumption
        <3> QED
            BY <3>2, <3>3
    <2> HIDE DEF next
    <2> QED
        BY <2>2, <2>3 DEF NotOlder
<1>12. ASSUME FinishDeepen(w) PROVE NotOlder(w)'
    <2>1. /\ job[w].pc = "repair" /\ job[w].phase = "deepen"
          /\ job'[w].row = job[w].row /\ job'[w].phase = "deepen" /\ job'[w].pc = "completing"
          /\ job'[w].latest = job[w].latest
        BY <1>12, <1>j, <1>T DEF FinishDeepen, Becomes, Job, TypeOK
    <2> QED
        BY <2>1, <1>T DEF NotOlder, Syncing
<1>13. ASSUME SyncFails(w) PROVE NotOlder(w)'
    <2>1. /\ job[w].pc \in {"fetch", "repair"} /\ job'[w].pc = "failing"
          /\ job'[w].stored = job[w].stored
          /\ job'[w].row = job[w].row /\ job'[w].phase = job[w].phase
          /\ job'[w].latest = job[w].latest
        BY <1>13, <1>j, <1>T DEF SyncFails, Becomes, Job, TypeOK
    <2> QED
        BY <2>1, <1>T DEF NotOlder, Syncing
<1>14. StartTick(w) \/ Progress(w) \/ Crash(w)
    BY OneMoves, <1>T
<1> QED
    BY <1>2, <1>3, <1>4, <1>5, <1>6, <1>7, <1>8, <1>9, <1>10, <1>11, <1>12, <1>13, <1>14
    DEF Progress, RefreshTargetsFails, NothingToLease, markOhlcvTargetSuccess,
        markOhlcvTargetFailure, Crash

\* What one step does to the token of a row: nothing, clear it, or draw the
\* next one; only the step that clears it may move the recent cursor.
Kept(t) ==
    /\ targets'[t].leaseToken = targets[t].leaseToken
    /\ targets'[t].latestSyncedAt = targets[t].latestSyncedAt
    /\ targets'[t].status = "absent" => targets[t].status = "absent"
    /\ tokens' = tokens

Cleared(t) ==
    /\ targets'[t].leaseToken = NoToken
    /\ targets'[t].status # "absent"
    /\ tokens' = tokens

Drawn(t) ==
    /\ targets'[t].leaseToken = tokens + 1
    /\ targets'[t].latestSyncedAt = targets[t].latestSyncedAt
    /\ targets'[t].status # "absent"
    /\ tokens' = tokens + 1

\* The row of another target than the one leased.
Untouched(t) == targets'[t] = targets[t] /\ tokens' \in {tokens, tokens + 1}

LEMMA TokenMoves ==
    ASSUME TypeOK, WorkOK, TableOK, [Next]_vars, NEW t \in Target
    PROVE  Kept(t) \/ Cleared(t) \/ Drawn(t) \/ Untouched(t)
<1>t. targets[t] \in Row
    BY DEF TypeOK
<1>1. CASE UNCHANGED <<targets, tokens>>
    BY <1>1 DEF Untouched
<1>2. ASSUME NEW w \in Worker, upsertOhlcvSyncTargets(w) PROVE Kept(t) \/ Cleared(t)
    <2>1. targets'[t] = Upserted(t) /\ tokens' = tokens
        BY <1>2 DEF upsertOhlcvSyncTargets
    <2>2. CASE targets[t].status = "absent"
        BY <2>1, <2>2 DEF Upserted, FreshRow, Cleared
    <2>3. CASE targets[t].status # "absent"
        BY <2>1, <2>3, <1>t DEF Upserted, Row, Kept
    <2> QED
        BY <2>2, <2>3
<1>3. ASSUME NEW w \in Worker, refreshOhlcvPriorityTiers(w) PROVE Kept(t)
    BY <1>3, <1>t DEF refreshOhlcvPriorityTiers, Row, Kept
<1>4. ASSUME NEW w \in Worker, NEW u \in Target, LeaseTarget(w, u) PROVE Drawn(t) \/ Untouched(t)
    <2>1. tokens' = tokens + 1
        BY <1>4 DEF LeaseTarget
    <2>2. CASE t = u
        <3>1. targets'[t] = [targets[t] EXCEPT
                  !.status = "running", !.leaseToken = tokens + 1,
                  !.leaseExpiresAt = job[w].now + LeaseTtl, !.lastAttemptAt = job[w].now]
            BY <1>4, <2>2 DEF LeaseTarget, TypeOK
        <3> QED
            BY <2>1, <3>1, <1>t DEF Row, Drawn
    <2>3. CASE t # u
        BY <1>4, <2>1, <2>3 DEF LeaseTarget, TypeOK, Untouched
    <2> QED
        BY <2>2, <2>3
<1>5. ASSUME NEW w \in Worker, markOhlcvTargetFailure(w) PROVE Cleared(t) \/ Untouched(t)
    <2>0. tokens' = tokens
        BY <1>5 DEF markOhlcvTargetFailure
    <2>1. CASE t = job[w].target /\ targets' # targets
        <3>1. targets'[t] = [targets[t] EXCEPT
                  !.status = "failed", !.failureCount = targets[t].failureCount + 1,
                  !.nextRetryAt = now + RetryBase * 2^targets[t].failureCount,
                  !.leaseToken = NoToken, !.leaseExpiresAt = NoTime]
            BY <1>5, <2>1, Zenon DEF markOhlcvTargetFailure, TypeOK
        <3>2. targets'[t].leaseToken = NoToken /\ targets'[t].status = "failed"
            BY <3>1, <1>t, Zenon DEF Row
        <3> QED
            BY <2>0, <3>2 DEF Cleared
    <2>2. CASE t # job[w].target \/ targets' = targets
        BY <1>5, <2>0, <2>2 DEF markOhlcvTargetFailure, TypeOK, Untouched
    <2> QED
        BY <2>1, <2>2
<1>6. ASSUME NEW w \in Worker, markOhlcvTargetSuccess(w) PROVE Cleared(t) \/ Untouched(t)
    <2>0. tokens' = tokens
        BY <1>6 DEF markOhlcvTargetSuccess
    <2>1. CASE t = job[w].target /\ targets' # targets
        <3>1. targets'[t] = [targets[t] EXCEPT
                  !.status = "idle", !.latestSyncedAt = job[w].latest,
                  !.oldestSyncedAt = job[w].oldest,
                  !.lastSuccessAt = now, !.failureCount = 0, !.nextRetryAt = NoTime,
                  !.leaseToken = NoToken, !.leaseExpiresAt = NoTime]
            BY <1>6, <2>1 DEF markOhlcvTargetSuccess, TypeOK
        <3> QED
            BY <2>0, <3>1, <1>t DEF Row, Cleared
    <2>2. CASE t # job[w].target \/ targets' = targets
        BY <1>6, <2>0, <2>2 DEF markOhlcvTargetSuccess, TypeOK, Untouched
    <2> QED
        BY <2>1, <2>2
<1> QED
    BY <1>1, <1>2, <1>3, <1>4, <1>5, <1>6 DEF Next, Progress, StartTick,
        RefreshTargetsFails, SelectCandidates, NothingToLease, LeaseRaceLost, ReadLease,
        FetchCandles, SkipDeepen, CheckLease, WriteCandle, FetchGap, FinishRecent, FinishDeepen,
        SyncFails, Advance, Crash, RanksChange, HistoryEnds, vars

LEMMA TableStep ==
    ASSUME FenceInv, [Next]_vars
    PROVE  TableOK'
<1> SUFFICES ASSUME NEW t \in Target
             PROVE  /\ targets'[t].leaseToken # NoToken => targets'[t].leaseToken <= tokens'
                    /\ targets'[t].status = "absent" => targets'[t].latestSyncedAt = NoTime
    BY DEF TableOK
<1>1. TypeOK /\ WorkOK /\ TableOK
    BY DEF FenceInv, BackedInv
<1>2. targets[t].leaseToken \in Nat \cup {NoToken} /\ tokens \in Nat
    BY <1>1 DEF TypeOK, Row, Token
<1> QED
    BY <1>1, <1>2, TokenMoves DEF Kept, Cleared, Drawn, Untouched, TableOK

\* A worker gets its copy of the row from ReadLease and keeps it.
LEMMA RowStays ==
    ASSUME TypeOK, WorkOK, [Next]_vars, NEW w \in Worker, job'[w] # job[w], job'[w].pc \in Syncing
    PROVE  \/ ReadLease(w)
           \/ /\ job[w].pc \in Syncing
              /\ job'[w].row = job[w].row /\ job'[w].target = job[w].target
<1>j. job[w] \in Job
    BY DEF TypeOK
<1>1. StartTick(w) \/ Progress(w) \/ Crash(w)
    BY OneMoves
<1>2. ASSUME NEW t \in Target, LeaseTarget(w, t) \/ LeaseRaceLost(w, t) PROVE FALSE
    <2>1. CASE LeaseTarget(w, t)
        BY <2>1, <1>j DEF LeaseTarget, Becomes, Job, TypeOK, Syncing
    <2>2. CASE LeaseRaceLost(w, t)
        <3>1. job'[w] = [job[w] EXCEPT !.rows = [@ EXCEPT ![t] = NoRow]]
            BY <2>2 DEF LeaseRaceLost, Becomes, TypeOK
        <3>2. job'[w].pc = "leasing"
            BY <2>2, <3>1, <1>j DEF Job, LeaseRaceLost
        <3> QED
            BY <3>2 DEF Syncing
    <2> QED
        BY <1>2, <2>1, <2>2
<1>3. ~Finish(w)
    BY DEF Finish, Becomes, IdleJob, Syncing, TypeOK
<1>4. ASSUME StartTick(w) \/ upsertOhlcvSyncTargets(w) \/ refreshOhlcvPriorityTiers(w)
             \/ SelectCandidates(w)
      PROVE  FALSE
    <2>1. job'[w].pc \in {"refreshing", "retiering", "selecting", "leasing"}
        BY ZenonT(60), <1>4, <1>j DEF StartTick, upsertOhlcvSyncTargets, refreshOhlcvPriorityTiers,
            SelectCandidates, Step, Becomes, Job, TypeOK
    <2> QED
        BY <2>1 DEF Syncing
<1>5. ASSUME FetchCandles(w) \/ SkipDeepen(w) \/ CheckLease(w) \/ FetchGap(w) \/ SyncFails(w)
      PROVE  /\ job[w].pc \in Syncing
             /\ job'[w].row = job[w].row /\ job'[w].target = job[w].target
    <2>1. CASE FetchCandles(w)
        BY <2>1, <1>j DEF FetchCandles, Becomes, Job, TypeOK, Syncing
    <2>2. CASE SkipDeepen(w)
        BY <2>2, <1>j DEF SkipDeepen, Becomes, Job, TypeOK, Syncing
    <2>3. CASE CheckLease(w)
        BY <2>3, <1>j DEF CheckLease, Becomes, Job, TypeOK, Syncing
    <2>4. CASE FetchGap(w)
        BY <2>4, <1>j DEF FetchGap, Becomes, Job, TypeOK, Syncing
    <2>5. CASE SyncFails(w)
        BY <2>5, <1>j DEF SyncFails, Becomes, Job, TypeOK, Syncing
    <2> QED
        BY <1>5, <2>1, <2>2, <2>3, <2>4, <2>5
<1>6. ASSUME WriteCandle(w)
      PROVE  /\ job[w].pc \in Syncing
             /\ job'[w].row = job[w].row /\ job'[w].target = job[w].target
    <2> DEFINE c == CHOOSE c \in job[w].batch : \A d \in job[w].batch : c <= d
    <2>1. Becomes(w, [job[w] EXCEPT
              !.pc = IF @ = "write" THEN "persist" ELSE "fill",
              !.batch = @ \ {c},
              !.stored = IF job[w].pc = "write" THEN @ \cup {c} ELSE @])
        BY <1>6, Zenon DEF WriteCandle
    <2>2. job[w].pc \in Syncing
        BY <1>6 DEF WriteCandle, Syncing
    <2> HIDE DEF c
    <2> QED
        BY <2>1, <2>2, <1>j DEF Becomes, Job, TypeOK
<1>7. ASSUME FinishRecent(w)
      PROVE  /\ job[w].pc \in Syncing
             /\ job'[w].row = job[w].row /\ job'[w].target = job[w].target
    BY <1>7, <1>j DEF FinishRecent, Becomes, Job, TypeOK, Syncing
<1>8. ASSUME FinishDeepen(w)
      PROVE  /\ job[w].pc \in Syncing
             /\ job'[w].row = job[w].row /\ job'[w].target = job[w].target
    BY <1>8, <1>j DEF FinishDeepen, Becomes, Job, TypeOK, Syncing
<1> QED
    BY <1>1, <1>2, <1>3, <1>4, <1>5, <1>6, <1>7, <1>8
    DEF Progress, RefreshTargetsFails, NothingToLease, markOhlcvTargetSuccess,
        markOhlcvTargetFailure, Crash

LEMMA FencedStep ==
    ASSUME FenceInv, [Next]_vars, NEW w \in Worker
    PROVE  Fenced(w)'
<1>1. TypeOK /\ WorkOK /\ TableOK /\ Fenced(w) /\ tokens \in Nat
    BY DEF FenceInv, BackedInv, TypeOK
<1>2. ASSUME ReadLease(w) PROVE Fenced(w)'
    <2>1. job[w].target \in Target /\ UNCHANGED <<targets, tokens>>
        BY <1>2, <1>1 DEF ReadLease, WorkOK, Working
    <2>2. job'[w].row = targets[job[w].target] /\ job'[w].target = job[w].target
        BY <1>2, <1>1 DEF ReadLease, Becomes, Job, TypeOK
    <2> QED
        BY <1>1, <2>1, <2>2 DEF Fenced, TableOK
<1>3. ASSUME job[w].pc \in Syncing,
             job'[w].row = job[w].row, job'[w].target = job[w].target
      PROVE  Fenced(w)'
    <2> DEFINE t == job[w].target
               k == job[w].row.leaseToken
    <2>1. t \in Target /\ job[w] \in Job
        BY <1>1, <1>3 DEF WorkOK, Working, TypeOK
    <2>2. k \in Nat \cup {NoToken}
        BY <2>1, JobType, <1>1 DEF Row, Token
    <2>3. k # NoToken =>
             /\ k <= tokens
             /\ targets[t].leaseToken = k => targets[t].latestSyncedAt = job[w].row.latestSyncedAt
        BY <1>1, <1>3 DEF Fenced
    <2>4. Kept(t) \/ Cleared(t) \/ Drawn(t) \/ Untouched(t)
        BY <1>1, <2>1, TokenMoves
    <2>5. ASSUME k # NoToken
          PROVE  /\ k <= tokens'
                 /\ targets'[t].leaseToken = k
                       => targets'[t].latestSyncedAt = job[w].row.latestSyncedAt
        BY <1>1, <2>2, <2>3, <2>4, <2>5 DEF Kept, Cleared, Drawn, Untouched
    <2> HIDE DEF t, k
    <2>6. job'[w].target = t /\ job'[w].row.leaseToken = k
          /\ job'[w].row.latestSyncedAt = job[w].row.latestSyncedAt
        BY <1>3 DEF t, k
    <2> QED
        BY <2>5, <2>6 DEF Fenced
<1>4. CASE job'[w] = job[w]
    <2>1. CASE job[w].pc \in Syncing
        BY <1>3, <1>4, <2>1
    <2>2. CASE job[w].pc \notin Syncing
        BY <1>4, <2>2 DEF Fenced
    <2> QED
        BY <2>1, <2>2
<1>5. CASE job'[w] # job[w] /\ job'[w].pc \in Syncing
    BY <1>1, <1>2, <1>3, <1>5, RowStays
<1>6. CASE job'[w].pc \notin Syncing
    BY <1>6 DEF Fenced
<1> QED
    BY <1>4, <1>5, <1>6

LEMMA FenceInit == Init => FenceInv
<1> SUFFICES ASSUME Init PROVE FenceInv
    OBVIOUS
<1>1. BackedInv
    BY BackedInit
<1>2. TableOK
    <2> SUFFICES ASSUME NEW t \in Target
                 PROVE  targets[t].leaseToken = NoToken /\ targets[t].latestSyncedAt = NoTime
        BY DEF TableOK
    <2>1. PICK legacy \in SUBSET Target :
             targets = [u \in Target |-> IF u \in legacy THEN LegacyRunningRow(u) ELSE NoRow]
        BY DEF Init
    <2>2. CASE t \in legacy
        <3>1. targets[t] = LegacyRunningRow(t)
            BY <2>1, <2>2
        <3> QED
            BY <3>1 DEF LegacyRunningRow, FreshRow
    <2>3. CASE t \notin legacy
        BY <2>1, <2>3 DEF NoRow
    <2> QED
        BY <2>2, <2>3
<1>3. \A w \in Worker : NotOlder(w) /\ Fenced(w)
    BY DEF Init, IdleJob, NotOlder, Fenced, Syncing
<1> QED
    BY <1>1, <1>2, <1>3 DEF FenceInv

LEMMA FenceStep == FenceInv /\ [Next]_vars => FenceInv'
<1> SUFFICES ASSUME FenceInv, [Next]_vars PROVE FenceInv'
    OBVIOUS
<1>1. BackedInv'
    BY BackedStep DEF FenceInv
<1>2. TableOK'
    BY TableStep
<1>3. ASSUME NEW w \in Worker PROVE NotOlder(w)' /\ Fenced(w)'
    <2>1. CASE job'[w] = job[w]
        BY <2>1, <1>3, FencedStep DEF FenceInv, NotOlder
    <2>2. CASE job'[w] # job[w]
        BY <2>2, <1>3, FencedStep, NotOlderStep
    <2> QED
        BY <2>1, <2>2
<1> QED
    BY <1>1, <1>2, <1>3 DEF FenceInv

\* One step does not move the recent cursor of any row back.
LEMMA LatestKept ==
    ASSUME FenceInv, [Next]_vars, NEW t \in Target, targets[t].latestSyncedAt # NoTime
    PROVE  targets'[t].latestSyncedAt # NoTime /\ targets'[t].latestSyncedAt >= targets[t].latestSyncedAt
<1>1. TypeOK /\ WorkOK /\ TableOK /\ JobBacked
    BY DEF FenceInv, BackedInv
<1>2. targets[t].status # "absent"
    BY <1>1 DEF TableOK
<1>3. targets[t].latestSyncedAt \in Int
    BY <1>1 DEF TypeOK, Row, TimeOrNull
<1>4. CASE targets'[t].latestSyncedAt = targets[t].latestSyncedAt
    BY <1>3, <1>4
<1>5. ASSUME NEW w \in Worker, job[w].pc = "completing", job[w].target = t,
             job[w].row.leaseToken # NoToken, LeaseActive(t, job[w].row.leaseToken),
             targets'[t].latestSyncedAt = job[w].latest
      PROVE  /\ targets'[t].latestSyncedAt # NoTime
             /\ targets'[t].latestSyncedAt >= targets[t].latestSyncedAt
    <2>1. job[w].row.latestSyncedAt = targets[t].latestSyncedAt
        BY <1>5 DEF FenceInv, Fenced, LeaseActive, Syncing
    <2>2. job[w].phase = "deepen"
        BY <1>1, <1>5 DEF JobBacked, CarriedBacked, Syncing
    <2>3. job[w].latest # NoTime /\ targets[t].latestSyncedAt <= job[w].latest
        BY <1>5, <2>1, <2>2 DEF FenceInv, NotOlder, Syncing
    <2>4. job[w].latest \in Int
        BY <1>1, <2>3 DEF TypeOK, Job, TimeOrNull
    <2> QED
        BY <1>3, <1>5, <2>3, <2>4
<1> QED
    BY <1>1, <1>2, <1>4, <1>5, CursorsChange

\* A process that comes back with an old copy of a row, after its lease was
\* recovered by another, never overwrites the recent cursor with an older one.
THEOREM LatestIsMonotone == Spec => LatestNeverRegresses
<1>1. FenceInv /\ [Next]_vars =>
        [\A t \in Target : targets[t].latestSyncedAt # NoTime =>
            /\ targets'[t].latestSyncedAt # NoTime
            /\ targets'[t].latestSyncedAt >= targets[t].latestSyncedAt]_vars
    BY LatestKept
<1> QED
    BY <1>1, FenceInit, FenceStep, PTL DEF Spec, LatestNeverRegresses
-----------------------------------------------------------------------------
(***************************************************************************)
(* Leases are fenced.  A tick decides at an instant it read earlier, so    *)
(* two facts relate that instant to the clock: it is never ahead of it,    *)
(* and a running row has no retry instant ahead of it either, although a   *)
(* recovered lease is granted without looking at the retry column.         *)
(***************************************************************************)

ClockOK ==
    \A w \in Worker : job[w].pc # "idle" => job[w].now <= now

RetryOK ==
    \A t \in Target :
        targets[t].status = "running" =>
            targets[t].nextRetryAt = NoTime \/ targets[t].nextRetryAt <= now

LeaseInv == TypeOK /\ WorkOK /\ ClockOK /\ RetryOK

\* The deadline of t has not passed: the row may not be leased.
InForce(t) ==
    /\ targets[t].status = "running"
    /\ targets[t].leaseExpiresAt # NoTime
    /\ targets[t].leaseExpiresAt > now

LEMMA LeaseInit == Init => LeaseInv
<1> SUFFICES ASSUME Init PROVE LeaseInv
    OBVIOUS
<1>1. TypeOK /\ WorkOK
    BY TypeInit DEF Init, IdleJob, WorkOK, Working, Syncing
<1>2. ClockOK
    BY DEF Init, IdleJob, ClockOK
<1>3. RetryOK
    <2> SUFFICES ASSUME NEW t \in Target PROVE targets[t].nextRetryAt = NoTime
        BY DEF RetryOK
    <2>1. PICK legacy \in SUBSET Target :
             targets = [u \in Target |-> IF u \in legacy THEN LegacyRunningRow(u) ELSE NoRow]
        BY DEF Init
    <2>2. CASE t \in legacy
        <3>1. targets[t] = LegacyRunningRow(t)
            BY <2>1, <2>2
        <3> QED
            BY <3>1 DEF LegacyRunningRow, FreshRow
    <2>3. CASE t \notin legacy
        BY <2>1, <2>3 DEF NoRow
    <2> QED
        BY <2>2, <2>3
<1> QED
    BY <1>1, <1>2, <1>3 DEF LeaseInv

\* The instant of a tick is set when the tick starts and kept to its end.
LEMMA InstantStays ==
    ASSUME TypeOK, WorkOK, [Next]_vars, NEW w \in Worker,
           job'[w] # job[w], job'[w].pc # "idle"
    PROVE  \/ job'[w].now = now /\ now' = now
           \/ job[w].pc # "idle" /\ job'[w].now = job[w].now /\ now' = now
<1>j. job[w] \in Job
    BY DEF TypeOK
<1>1. StartTick(w) \/ Progress(w) \/ Crash(w)
    BY OneMoves
<1>2. ~Finish(w)
    BY DEF Finish, Becomes, IdleJob, TypeOK
<1>3. CASE StartTick(w)
    BY <1>3, <1>j DEF StartTick, Becomes, Job, TypeOK
<1>4. CASE upsertOhlcvSyncTargets(w) \/ refreshOhlcvPriorityTiers(w) \/ SelectCandidates(w)
    <2>1. CASE upsertOhlcvSyncTargets(w)
        BY <2>1, <1>j DEF upsertOhlcvSyncTargets, Step, Becomes, Job, TypeOK
    <2>2. CASE refreshOhlcvPriorityTiers(w)
        BY <2>2, <1>j DEF refreshOhlcvPriorityTiers, Step, Becomes, Job, TypeOK
    <2>3. CASE SelectCandidates(w)
        BY <2>3, <1>j DEF SelectCandidates, Becomes, Job, TypeOK
    <2> QED
        BY <1>4, <2>1, <2>2, <2>3
<1>5. ASSUME NEW t \in Target, LeaseTarget(w, t) \/ LeaseRaceLost(w, t)
      PROVE  job[w].pc # "idle" /\ job'[w].now = job[w].now /\ now' = now
    <2>1. CASE LeaseTarget(w, t)
        <3>1. job'[w] = [job[w] EXCEPT !.pc = "reading", !.target = t, !.rows = IdleJob.rows]
            BY <2>1 DEF LeaseTarget, Becomes, TypeOK
        <3> QED
            BY <2>1, <3>1, <1>j DEF LeaseTarget, Job
    <2>2. CASE LeaseRaceLost(w, t)
        <3>1. job'[w] = [job[w] EXCEPT !.rows = [@ EXCEPT ![t] = NoRow]]
            BY <2>2 DEF LeaseRaceLost, Becomes, TypeOK
        <3> QED
            BY <2>2, <3>1, <1>j DEF LeaseRaceLost, Job
    <2> QED
        BY <1>5, <2>1, <2>2
<1>6. ASSUME ReadLease(w) \/ FetchCandles(w) \/ SkipDeepen(w) \/ SyncFails(w) \/ FetchGap(w)
      PROVE  job[w].pc # "idle" /\ job'[w].now = job[w].now /\ now' = now
    <2>1. CASE ReadLease(w)
        BY <2>1, <1>j DEF ReadLease, Becomes, Job, TypeOK
    <2>2. CASE FetchCandles(w)
        BY <2>2, <1>j DEF FetchCandles, Becomes, Job, TypeOK
    <2>3. CASE SkipDeepen(w)
        BY <2>3, <1>j DEF SkipDeepen, Becomes, Job, TypeOK
    <2>4. CASE SyncFails(w)
        BY <2>4, <1>j DEF SyncFails, Becomes, Job, TypeOK
    <2>5. CASE FetchGap(w)
        BY <2>5, <1>j DEF FetchGap, Becomes, Job, TypeOK
    <2> QED
        BY <1>6, <2>1, <2>2, <2>3, <2>4, <2>5
<1>7. CASE CheckLease(w)
    BY <1>7, <1>j DEF CheckLease, Becomes, Job, TypeOK
<1>8. CASE WriteCandle(w)
    <2> DEFINE c == CHOOSE c \in job[w].batch : \A d \in job[w].batch : c <= d
    <2>1. Becomes(w, [job[w] EXCEPT
              !.pc = IF @ = "write" THEN "persist" ELSE "fill",
              !.batch = @ \ {c},
              !.stored = IF job[w].pc = "write" THEN @ \cup {c} ELSE @])
        BY <1>8, Zenon DEF WriteCandle
    <2>2. job[w].pc # "idle" /\ now' = now
        BY <1>8 DEF WriteCandle
    <2> HIDE DEF c
    <2> QED
        BY <2>1, <2>2, <1>j DEF Becomes, Job, TypeOK
<1>9. CASE FinishRecent(w)
    BY <1>9, <1>j DEF FinishRecent, Becomes, Job, TypeOK
<1>10. CASE FinishDeepen(w)
    BY <1>10, <1>j DEF FinishDeepen, Becomes, Job, TypeOK
<1> QED
    BY <1>1, <1>2, <1>3, <1>4, <1>5, <1>6, <1>7, <1>8, <1>9, <1>10
    DEF Progress, RefreshTargetsFails, NothingToLease, markOhlcvTargetSuccess,
        markOhlcvTargetFailure, Crash

\* The clock only goes forward.
LEMMA ClockForward ==
    ASSUME TypeOK, [Next]_vars
    PROVE  now \in Nat /\ now' \in Nat /\ now <= now'
<1>1. ASSUME NEW w \in Worker, StartTick(w) \/ Progress(w) \/ Crash(w) PROVE now' = now
    BY <1>1 DEF Progress, StartTick, RefreshTargetsFails, upsertOhlcvSyncTargets,
        refreshOhlcvPriorityTiers, SelectCandidates, NothingToLease, LeaseTarget, LeaseRaceLost,
        ReadLease, FetchCandles, SkipDeepen, CheckLease, WriteCandle, FetchGap, FinishRecent,
        FinishDeepen, SyncFails, markOhlcvTargetSuccess, markOhlcvTargetFailure, Crash
<1>2. now' \in {now, now + 1}
    BY <1>1 DEF Next, Advance, RanksChange, HistoryEnds, vars
<1> QED
    BY <1>2 DEF TypeOK

LEMMA ClockStep ==
    ASSUME LeaseInv, [Next]_vars
    PROVE  ClockOK'
<1> SUFFICES ASSUME NEW w \in Worker, job'[w].pc # "idle" PROVE job'[w].now <= now'
    BY DEF ClockOK
<1>1. now \in Nat /\ now' \in Nat /\ now <= now'
    BY ClockForward DEF LeaseInv
<1>2. job[w].now \in Nat
    BY DEF LeaseInv, TypeOK, Job
<1>3. job[w].pc # "idle" => job[w].now <= now
    BY DEF LeaseInv, ClockOK
<1>4. CASE job'[w] = job[w]
    BY <1>1, <1>2, <1>3, <1>4
<1>5. CASE job'[w] # job[w]
    <2>1. job'[w].now = now \/ (job[w].pc # "idle" /\ job'[w].now = job[w].now)
        BY <1>5, InstantStays DEF LeaseInv
    <2> QED
        BY <1>1, <1>2, <1>3, <2>1
<1> QED
    BY <1>4, <1>5

\* Where the status, the retry instant and the token of a row come from in
\* one step: the row keeps all three, is inserted, is leased, or is marked by
\* the process whose lease on it is in force.
KeptLease(t) ==
    /\ targets'[t].status = targets[t].status
    /\ targets'[t].nextRetryAt = targets[t].nextRetryAt
    /\ targets'[t].leaseToken = targets[t].leaseToken

Inserted(t) ==
    /\ targets[t].status = "absent"
    /\ targets'[t].status = "idle" /\ targets'[t].leaseToken = NoToken

Leased(t) ==
    \E w \in Worker :
        /\ job[w].pc # "idle"
        /\ isOhlcvTargetLeaseEligible(targets[t], job[w].now)
        /\ targets'[t].status = "running"
        /\ targets'[t].nextRetryAt = targets[t].nextRetryAt

Marked(t) ==
    /\ targets'[t].status \in {"idle", "failed"} /\ targets'[t].leaseToken = NoToken
    /\ \E w \in Worker : Holds(w, t) /\ job'[w].pc = "idle"

LEMMA LeaseMoves ==
    ASSUME TypeOK, WorkOK, [Next]_vars, NEW t \in Target
    PROVE  KeptLease(t) \/ Inserted(t) \/ Leased(t) \/ Marked(t)
<1>t. targets[t] \in Row
    BY DEF TypeOK
<1>1. CASE UNCHANGED targets
    BY <1>1 DEF KeptLease
<1>2. ASSUME NEW w \in Worker, upsertOhlcvSyncTargets(w) PROVE KeptLease(t) \/ Inserted(t)
    <2>1. targets'[t] = Upserted(t)
        BY <1>2 DEF upsertOhlcvSyncTargets
    <2>2. CASE targets[t].status = "absent"
        BY <2>1, <2>2 DEF Upserted, FreshRow, Inserted
    <2>3. CASE targets[t].status # "absent"
        BY <2>1, <2>3, <1>t DEF Upserted, Row, KeptLease
    <2> QED
        BY <2>2, <2>3
<1>3. ASSUME NEW w \in Worker, refreshOhlcvPriorityTiers(w) PROVE KeptLease(t)
    BY <1>3, <1>t DEF refreshOhlcvPriorityTiers, Row, KeptLease
<1>4. ASSUME NEW w \in Worker, NEW u \in Target, LeaseTarget(w, u)
      PROVE  KeptLease(t) \/ Leased(t)
    <2>1. CASE t = u
        <3>1. targets'[t] = [targets[t] EXCEPT
                  !.status = "running", !.leaseToken = tokens + 1,
                  !.leaseExpiresAt = job[w].now + LeaseTtl, !.lastAttemptAt = job[w].now]
            BY <1>4, <2>1 DEF LeaseTarget, TypeOK
        <3>2. targets'[t].status = "running" /\ targets'[t].nextRetryAt = targets[t].nextRetryAt
            BY <3>1, <1>t DEF Row
        <3> QED
            BY <1>4, <2>1, <3>2 DEF LeaseTarget, Leased
    <2>2. CASE t # u
        BY <1>4, <2>2 DEF LeaseTarget, TypeOK, KeptLease
    <2> QED
        BY <2>1, <2>2
<1>5. ASSUME NEW w \in Worker, markOhlcvTargetFailure(w) PROVE KeptLease(t) \/ Marked(t)
    <2>1. CASE t = job[w].target /\ targets' # targets
        <3>1. /\ targets'[t] = [targets[t] EXCEPT
                    !.status = "failed", !.failureCount = targets[t].failureCount + 1,
                    !.nextRetryAt = now + RetryBase * 2^targets[t].failureCount,
                    !.leaseToken = NoToken, !.leaseExpiresAt = NoTime]
              /\ job[w].row.leaseToken # NoToken /\ LeaseActive(t, job[w].row.leaseToken)
            BY <1>5, <2>1, Zenon DEF markOhlcvTargetFailure, TypeOK
        <3>2. targets'[t].leaseToken = NoToken /\ targets'[t].status = "failed"
            BY <3>1, <1>t, Zenon DEF Row
        <3>3. Holds(w, t) /\ job'[w].pc = "idle"
            BY <1>5, <2>1, <3>1
            DEF markOhlcvTargetFailure, Holds, Syncing, Finish, Becomes, IdleJob, TypeOK
        <3> QED
            BY <3>2, <3>3 DEF Marked
    <2>2. CASE t # job[w].target \/ targets' = targets
        BY <1>5, <2>2 DEF markOhlcvTargetFailure, TypeOK, KeptLease
    <2> QED
        BY <2>1, <2>2
<1>6. ASSUME NEW w \in Worker, markOhlcvTargetSuccess(w) PROVE KeptLease(t) \/ Marked(t)
    <2>1. CASE t = job[w].target /\ targets' # targets
        <3>1. /\ targets'[t] = [targets[t] EXCEPT
                    !.status = "idle", !.latestSyncedAt = job[w].latest,
                    !.oldestSyncedAt = job[w].oldest,
                    !.lastSuccessAt = now, !.failureCount = 0, !.nextRetryAt = NoTime,
                    !.leaseToken = NoToken, !.leaseExpiresAt = NoTime]
              /\ job[w].row.leaseToken # NoToken /\ LeaseActive(t, job[w].row.leaseToken)
            BY <1>6, <2>1 DEF markOhlcvTargetSuccess, TypeOK
        <3>2. targets'[t].leaseToken = NoToken /\ targets'[t].status = "idle"
            BY <3>1, <1>t DEF Row
        <3>3. Holds(w, t) /\ job'[w].pc = "idle"
            BY <1>6, <2>1, <3>1
            DEF markOhlcvTargetSuccess, Holds, Syncing, Finish, Becomes, IdleJob, TypeOK
        <3> QED
            BY <3>2, <3>3 DEF Marked
    <2>2. CASE t # job[w].target \/ targets' = targets
        BY <1>6, <2>2 DEF markOhlcvTargetSuccess, TypeOK, KeptLease
    <2> QED
        BY <2>1, <2>2
<1>7. ASSUME NEW w \in Worker, StartTick(w) \/ Progress(w) \/ Crash(w)
      PROVE  \/ UNCHANGED targets
             \/ upsertOhlcvSyncTargets(w) \/ refreshOhlcvPriorityTiers(w)
             \/ markOhlcvTargetSuccess(w) \/ markOhlcvTargetFailure(w)
             \/ \E u \in Target : LeaseTarget(w, u)
    BY <1>7 DEF Progress, StartTick,
        RefreshTargetsFails, SelectCandidates, NothingToLease, LeaseRaceLost, ReadLease,
        FetchCandles, SkipDeepen, CheckLease, WriteCandle, FetchGap, FinishRecent, FinishDeepen,
        SyncFails, Crash
<1>8. CASE Advance \/ RanksChange \/ HistoryEnds \/ UNCHANGED vars
    BY <1>1, <1>8 DEF Advance, RanksChange, HistoryEnds, vars
<1> QED
    BY <1>1, <1>2, <1>3, <1>4, <1>5, <1>6, <1>7, <1>8 DEF Next

\* An eligible row is free on the clock as well, which may be later than the
\* instant of the tick.
LEMMA EligibleIsFree ==
    ASSUME LeaseInv, NEW t \in Target, NEW w \in Worker, job[w].pc # "idle",
           isOhlcvTargetLeaseEligible(targets[t], job[w].now)
    PROVE  /\ ~InForce(t)
           /\ targets[t].nextRetryAt = NoTime \/ targets[t].nextRetryAt <= now
<1>1. job[w].now \in Nat /\ now \in Nat /\ job[w].now <= now
    BY DEF LeaseInv, TypeOK, ClockOK, Job
<1>2. /\ targets[t].leaseExpiresAt \in Int \cup {NoTime}
      /\ targets[t].nextRetryAt \in Int \cup {NoTime}
    BY DEF LeaseInv, TypeOK, Row, TimeOrNull
<1>3. CASE targets[t].status = "running" /\ isOhlcvLeaseExpired(targets[t], job[w].now)
    <2>1. targets[t].nextRetryAt = NoTime \/ targets[t].nextRetryAt <= now
        BY <1>3 DEF LeaseInv, RetryOK
    <2>2. targets[t].leaseExpiresAt # NoTime => targets[t].leaseExpiresAt <= job[w].now
        BY <1>3 DEF isOhlcvLeaseExpired
    <2> QED
        BY <1>1, <1>2, <2>1, <2>2 DEF InForce
<1>4. CASE /\ targets[t].status \in {"idle", "failed"}
           /\ targets[t].nextRetryAt # NoTime => targets[t].nextRetryAt <= job[w].now
    BY <1>1, <1>2, <1>4 DEF InForce
<1> QED
    BY <1>3, <1>4 DEF isOhlcvTargetLeaseEligible

LEMMA RetryStep ==
    ASSUME LeaseInv, [Next]_vars
    PROVE  RetryOK'
<1> SUFFICES ASSUME NEW t \in Target, targets'[t].status = "running"
             PROVE  targets'[t].nextRetryAt = NoTime \/ targets'[t].nextRetryAt <= now'
    BY DEF RetryOK
<1>1. now \in Nat /\ now' \in Nat /\ now <= now'
    BY ClockForward DEF LeaseInv
<1>2. targets[t].nextRetryAt \in Int \cup {NoTime}
    BY DEF LeaseInv, TypeOK, Row, TimeOrNull
<1>3. KeptLease(t) \/ Leased(t)
    BY LeaseMoves DEF LeaseInv, Inserted, Marked
<1>4. targets'[t].nextRetryAt = targets[t].nextRetryAt
    BY <1>3 DEF KeptLease, Leased
<1>5. targets[t].nextRetryAt = NoTime \/ targets[t].nextRetryAt <= now
    <2>1. CASE KeptLease(t)
        BY <2>1 DEF KeptLease, LeaseInv, RetryOK
    <2>2. CASE Leased(t)
        BY <2>2, EligibleIsFree DEF Leased
    <2> QED
        BY <1>3, <2>1, <2>2
<1> QED
    BY <1>1, <1>2, <1>4, <1>5

LEMMA LeaseStep == LeaseInv /\ [Next]_vars => LeaseInv'
BY TypeStep, WorkStep, ClockStep, RetryStep DEF LeaseInv

\* One step and the lease of one row.
LEMMA LeaseKept ==
    ASSUME LeaseInv, [Next]_vars, NEW t \in Target
    PROVE  /\ Granted(t) => /\ ~InForce(t)
                            /\ ~(targets[t].nextRetryAt # NoTime /\ targets[t].nextRetryAt > now)
           /\ InForce(t) /\ targets'[t].leaseToken # targets[t].leaseToken
                => \E w \in Worker : Holds(w, t) /\ job'[w].pc = "idle"
<1>1. now \in Nat /\ targets[t].nextRetryAt \in Int \cup {NoTime}
    BY DEF LeaseInv, TypeOK, Row, TimeOrNull
<1>2. CASE KeptLease(t)
    BY <1>2 DEF KeptLease, Granted
<1>3. CASE Inserted(t)
    BY <1>3 DEF Inserted, Granted, InForce
<1>4. CASE Leased(t)
    BY <1>1, <1>4, EligibleIsFree DEF Leased
<1>5. CASE Marked(t)
    BY <1>5 DEF Marked, Granted
<1> QED
    BY <1>2, <1>3, <1>4, <1>5, LeaseMoves DEF LeaseInv

\* Whatever the processes read and however old it is, a lease is granted only
\* on a row that is free at that instant, and one in force is ended only by
\* the process that works under its token.
THEOREM LeasesAreFenced == Spec => LeasesFenced
<1>1. LeaseInv /\ [Next]_vars =>
        [\A t \in Target :
            LET inForce == targets[t].status = "running" /\ targets[t].leaseExpiresAt # NoTime
                           /\ targets[t].leaseExpiresAt > now IN
            /\ Granted(t) => /\ ~inForce
                             /\ ~(targets[t].nextRetryAt # NoTime /\ targets[t].nextRetryAt > now)
            /\ inForce /\ targets'[t].leaseToken # targets[t].leaseToken
               => \E w \in Worker : Holds(w, t) /\ job'[w].pc = "idle"]_vars
    BY LeaseKept DEF InForce
<1> QED
    BY <1>1, LeaseInit, LeaseStep, PTL DEF Spec, LeasesFenced
=============================================================================
