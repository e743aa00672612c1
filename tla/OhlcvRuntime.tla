----------------------------- MODULE OhlcvRuntime -----------------------------
(***************************************************************************)
(* The OHLCV worker: services/ohlcv-runtime.ts (the tick), the statements  *)
(* of services/ohlcv-worker-state.ts on ohlcv_sync_targets, and the        *)
(* fetch / persist / repair pipeline of services/ohlcv-sync.ts and         *)
(* services/candle-store.ts.                                               *)
(*                                                                         *)
(* Several processes (the API's in-process job and the standalone worker   *)
(* of jobs/run-ohlcv-worker.ts) share one SQLite file, so an action is one *)
(* SQL statement, or the code between two awaits when it runs no statement.*)
(***************************************************************************)
EXTENDS OhlcvSchedulingPolicy, FiniteSets

CONSTANTS
    Worker,         \* processes that run a tick
    Target,         \* primary keys of ohlcv_sync_targets
    NoTarget,
    Ranked,         \* coins a market refresh may rank 100 or better
    Seeds,          \* what buildOhlcvSyncTargets returns, per target
    NoToken,        \* NULL lease_token; tokens are a counter (randomUUID)
    Minute,         \* one 1m candle
    BootstrapMinutes, BootstrapDays,  \* first recent window, 1m and 1d
    Chunk,          \* HISTORICAL_DEEPEN_CHUNK_DAYS + OVERLAP, in instants
    RetryBase,      \* five minutes
    Start,          \* the instant the history begins with
    MaxTime,        \* bound: the clock stops here
    MaxLeases,      \* bound: ticks start only below this many leases
    MaxFailures     \* bound: no tick fails once a target has failed so often

ASSUME RuntimeAssumption ==
    /\ NoTarget \notin Target
    /\ NoToken \notin Nat
    /\ Seeds \in [Target -> [coin : Int, interval : Interval,
                             priorityTier : Tier, targetHistory : Nat]]
    /\ {Minute, Chunk, RetryBase, BootstrapMinutes, BootstrapDays} \subseteq Nat \ {0}
    /\ Ranked \subseteq Int
    /\ Start \in Nat /\ MaxTime \in Nat /\ MaxLeases \in Nat /\ MaxFailures \in Nat

VARIABLES
    now,        \* the wall clock, shared by the processes
    targets,    \* the table ohlcv_sync_targets
    candles,    \* the canonical rows of ohlcv_candles, per series
    topCoins,   \* coins ranked 100 or better in market_snapshots
    tokens,     \* lease tokens drawn so far
    job         \* per process, the locals of the tick in flight

vars == <<now, targets, candles, topCoins, tokens, job>>

Time == Int
TimeOrNull == Int \cup {NoTime}
Token == Nat \cup {NoToken}

\* Targets of one coin and interval on different exchanges feed one series.
Series(t) == <<Seeds[t].coin, Seeds[t].interval>>

Row == [coin : Int, interval : Interval, priorityTier : Tier, targetHistory : Nat,
        status : Status \cup {"absent"},
        latestSyncedAt : TimeOrNull, oldestSyncedAt : TimeOrNull,
        lastSuccessAt : TimeOrNull, lastAttemptAt : TimeOrNull,
        nextRetryAt : TimeOrNull, failureCount : Nat,
        leaseToken : Token, leaseExpiresAt : TimeOrNull]

\* Mutant: the lease column of a new row is undefined instead of NULL.
FreshRowUndefinedToken(t) ==
    [coin |-> Seeds[t].coin, interval |-> Seeds[t].interval,
     priorityTier |-> Seeds[t].priorityTier, targetHistory |-> Seeds[t].targetHistory,
     status |-> "idle",
     latestSyncedAt |-> NoTime, oldestSyncedAt |-> NoTime,
     lastSuccessAt |-> NoTime, lastAttemptAt |-> NoTime,
     nextRetryAt |-> NoTime, failureCount |-> 0,
     leaseToken |-> NoTime, leaseExpiresAt |-> NoTime]

\* The row upsertOhlcvSyncTargets inserts.
FreshRow(t) ==
    [coin |-> Seeds[t].coin, interval |-> Seeds[t].interval,
     priorityTier |-> Seeds[t].priorityTier, targetHistory |-> Seeds[t].targetHistory,
     status |-> "idle",
     latestSyncedAt |-> NoTime, oldestSyncedAt |-> NoTime,
     lastSuccessAt |-> NoTime, lastAttemptAt |-> NoTime,
     nextRetryAt |-> NoTime, failureCount |-> 0,
     leaseToken |-> NoToken, leaseExpiresAt |-> NoTime]

\* No row: not inserted yet, or not among the rows of a SELECT.
NoRow ==
    [coin |-> 0, interval |-> "1m", priorityTier |-> "long_tail", targetHistory |-> 0,
     status |-> "absent",
     latestSyncedAt |-> NoTime, oldestSyncedAt |-> NoTime,
     lastSuccessAt |-> NoTime, lastAttemptAt |-> NoTime,
     nextRetryAt |-> NoTime, failureCount |-> 0,
     leaseToken |-> NoToken, leaseExpiresAt |-> NoTime]

\* A row left "running" by a build that had no lease deadline column.
LegacyRunningRow(t) == [FreshRow(t) EXCEPT !.status = "running", !.lastAttemptAt = Start]

IdleJob == [pc |-> "idle", now |-> Start, rows |-> [t \in Target |-> NoRow],
            target |-> NoTarget, row |-> NoRow, phase |-> "recent", batch |-> {}, stored |-> {},
            exhausted |-> {}, latest |-> NoTime, oldest |-> NoTime]

Init ==
    /\ now = Start
    /\ \E legacy \in SUBSET Target :
          targets = [t \in Target |-> IF t \in legacy THEN LegacyRunningRow(t) ELSE NoRow]
    /\ candles = [s \in {Series(t) : t \in Target} |-> {}]
    /\ topCoins \in SUBSET Ranked
    /\ tokens = 0
    /\ job = [w \in Worker |-> IdleJob]

-----------------------------------------------------------------------------
(***************************************************************************)
(* Helpers.                                                                *)
(***************************************************************************)

getIntervalMs(i) == IF i = "1m" THEN Minute ELSE Day

\* The instants an exchange has candles for.
Slots(t) == {s \in 0..MaxTime : s % getIntervalMs(Seeds[t].interval) = 0}

\* Mutant: any running row passes for the caller's own.
LeaseActiveUnfenced(t, token) == targets[t].status = "running"

\* isOhlcvTargetLeaseActive and activeLeaseWhere.
LeaseActive(t, token) ==
    /\ targets[t].status = "running"
    /\ targets[t].leaseToken = token
    /\ targets[t].leaseExpiresAt # NoTime
    /\ targets[t].leaseExpiresAt > now

\* isLeaseActiveForWrite: a row read without a token is written unguarded.
LeaseActiveForWrite(w) ==
    \/ job[w].row.leaseToken = NoToken
    \/ LeaseActive(job[w].target, job[w].row.leaseToken)

\* detectOhlcvGaps: the interior holes of the series, as maximal runs.
Missing(t) ==
    {s \in Slots(t) \ candles[Series(t)] :
        \E c, d \in candles[Series(t)] : c < s /\ s < d}

GapAround(t, s) ==
    {r \in Missing(t) :
        \A c \in candles[Series(t)] : ~(r < c /\ c < s) /\ ~(s < c /\ c < r)}

Gaps(t) == {GapAround(t, s) : s \in Missing(t)}

\* The gap a repair pass turns to: the longest one, the earliest among equals.
SelectedGap(t, gap) ==
    \A h \in Gaps(t) :
        \/ Cardinality(gap) > Cardinality(h)
        \/ Cardinality(gap) = Cardinality(h) /\ \E r \in gap : \A q \in h : r <= q

GapStart(gap) == {r \in gap : \A q \in gap : r <= q}

\* The loop of repairOhlcvGaps stops: no gap, a lost lease, or the selected
\* gap is one whose fetch stored nothing.
RepairOver(w) ==
    LeaseActiveForWrite(w)
    => \A gap \in Gaps(job[w].target) :
          SelectedGap(job[w].target, gap) => GapStart(gap) \subseteq job[w].exhausted

Becomes(w, record) == job' = [job EXCEPT ![w] = record]

Step(w, from, to) ==
    /\ job[w].pc = from
    /\ Becomes(w, [job[w] EXCEPT !.pc = to])

Finish(w) == Becomes(w, IdleJob)

-----------------------------------------------------------------------------
(***************************************************************************)
(* tick(): refresh the targets, lease one.                                 *)
(***************************************************************************)

\* `now` is read here, before the network work of refreshTargets, and is the
\* instant every later decision of this tick is made at.
StartTick(w) ==
    /\ job[w].pc = "idle"
    /\ tokens < MaxLeases
    /\ Becomes(w, [job[w] EXCEPT !.pc = "refreshing", !.now = now])
    /\ UNCHANGED <<now, targets, candles, topCoins, tokens>>

RefreshTargetsFails(w) ==
    /\ job[w].pc = "refreshing"
    /\ Finish(w)
    /\ UNCHANGED <<now, targets, candles, topCoins, tokens>>

\* upsertOhlcvSyncTargets: insert, or raise the tier and take the new depth.
Upserted(t) ==
    LET old == targets[t].priorityTier
        new == Seeds[t].priorityTier
    IN  IF targets[t].status = "absent" THEN FreshRow(t)
        ELSE [targets[t] EXCEPT
                !.targetHistory = Seeds[t].targetHistory,
                !.priorityTier = IF PRIORITY_RANK[old] <= PRIORITY_RANK[new] THEN old ELSE new]

\* The statements of one batch are merged: each touches a row of its own,
\* and none of the columns a lease lives in.
upsertOhlcvSyncTargets(w) ==
    /\ Step(w, "refreshing", "retiering")
    /\ targets' = [t \in Target |-> Upserted(t)]
    /\ UNCHANGED <<now, candles, topCoins, tokens>>

\* Run right after: every row is top100 or long_tail again.
refreshOhlcvPriorityTiers(w) ==
    /\ Step(w, "retiering", "selecting")
    /\ targets' = [t \in Target |->
          [targets[t] EXCEPT !.priorityTier =
              IF targets[t].coin \in topCoins THEN "top100" ELSE "long_tail"]]
    /\ UNCHANGED <<now, candles, topCoins, tokens>>

\* The SELECT of leaseNextOhlcvTarget.
Candidates(tickNow) ==
    {t \in Target :
        \/ targets[t].status = "running"
        \/ /\ targets[t].status \in {"idle", "failed"}
           /\ targets[t].nextRetryAt # NoTime => targets[t].nextRetryAt <= tickNow}

SelectCandidates(w) ==
    /\ job[w].pc = "selecting"
    /\ Becomes(w, [job[w] EXCEPT
          !.pc = "leasing",
          !.rows = [t \in Target |-> IF t \in Candidates(job[w].now) THEN targets[t] ELSE NoRow]])
    /\ UNCHANGED <<now, targets, candles, topCoins, tokens>>

NothingToLease(w) ==
    /\ job[w].pc = "leasing"
    /\ selectNextOhlcvLeaseTarget(job[w].rows, job[w].now) = {}
    /\ Finish(w)
    /\ UNCHANGED <<now, targets, candles, topCoins, tokens>>

\* The conditional UPDATE on the preferred candidate: the WHERE clause
\* evaluates eligibility again, on the row as it is now.
LeaseTarget(w, t) ==
    /\ job[w].pc = "leasing"
    /\ t \in selectNextOhlcvLeaseTarget(job[w].rows, job[w].now)
    /\ isOhlcvTargetLeaseEligible(targets[t], job[w].now)
    /\ targets' = [targets EXCEPT ![t] =
          [@ EXCEPT !.status = "running", !.leaseToken = tokens + 1,
                    !.leaseExpiresAt = job[w].now + LeaseTtl,
                    !.lastAttemptAt = job[w].now]]
    /\ tokens' = tokens + 1
    /\ Becomes(w, [job[w] EXCEPT !.pc = "reading", !.target = t, !.rows = IdleJob.rows])
    /\ UNCHANGED <<now, candles, topCoins>>

\* Zero rows changed: another process was first; try the next candidate.
LeaseRaceLost(w, t) ==
    /\ job[w].pc = "leasing"
    /\ t \in selectNextOhlcvLeaseTarget(job[w].rows, job[w].now)
    /\ ~isOhlcvTargetLeaseEligible(targets[t], job[w].now)
    /\ Becomes(w, [job[w] EXCEPT !.rows = [@ EXCEPT ![t] = NoRow]])
    /\ UNCHANGED <<now, targets, candles, topCoins, tokens>>

\* readTarget: a second statement, so the row may have moved on.
ReadLease(w) ==
    /\ job[w].pc = "reading"
    /\ Becomes(w, [job[w] EXCEPT !.pc = "fetch", !.row = targets[job[w].target]])
    /\ UNCHANGED <<now, targets, candles, topCoins, tokens>>

-----------------------------------------------------------------------------
(***************************************************************************)
(* syncRecentOhlcvWindow and deepenHistoricalOhlcvWindow: one pipeline,    *)
(* run for the "recent" phase and then, perhaps, for the "deepen" phase.   *)
(***************************************************************************)

RecentSince(row, tickNow) ==
    IF row.latestSyncedAt # NoTime THEN row.latestSyncedAt + getIntervalMs(row.interval)
    ELSE IF row.interval = "1m" THEN tickNow - BootstrapMinutes
    ELSE tickNow - BootstrapDays

DesiredOldest(row, tickNow) == tickNow - row.targetHistory

DeepenSkipped(row, tickNow) ==
    /\ row.oldestSyncedAt # NoTime
    /\ row.oldestSyncedAt <= DesiredOldest(row, tickNow)

\* The end of the stretch to deepen: the oldest cursor, else the latest one
\* (which the recent phase has just advanced).
ReferenceEnd(w) ==
    IF job[w].row.oldestSyncedAt # NoTime THEN job[w].row.oldestSyncedAt ELSE job[w].latest

DeepenSince(w) ==
    LET desired == DesiredOldest(job[w].row, job[w].now)
        chunk == ReferenceEnd(w) - Chunk
    IN  IF desired > chunk THEN desired ELSE chunk

\* Math.max(Math.ceil((referenceEnd - since) / intervalMs), 1)
DeepenLimit(w) ==
    LET step == getIntervalMs(job[w].row.interval)
        n == (ReferenceEnd(w) - DeepenSince(w) + step - 1) \div step
    IN  IF n < 1 THEN 1 ELSE n

\* What the exchange may answer: valid candles from `since` on, at most
\* `limit` of them when a limit is sent, with whatever holes it has.
Answers(w) ==
    LET t == job[w].target
        recent == job[w].phase = "recent"
        since == IF recent THEN RecentSince(job[w].row, job[w].now) ELSE DeepenSince(w)
        window == {s \in Slots(t) : since <= s /\ s <= now}
        bootstrap == job[w].row.latestSyncedAt = NoTime /\ job[w].row.interval = "1m"
        limit == IF ~recent THEN DeepenLimit(w)
                 ELSE IF bootstrap THEN BootstrapMinutes ELSE Cardinality(window)
    IN  {B \in SUBSET window : Cardinality(B) <= limit}

FetchCandles(w) ==
    /\ job[w].pc = "fetch"
    /\ job[w].phase = "deepen" => ~DeepenSkipped(job[w].row, job[w].now)
    /\ \E B \in Answers(w) :
          Becomes(w, [job[w] EXCEPT !.pc = "persist", !.batch = B, !.stored = {}])
    /\ UNCHANGED <<now, targets, candles, topCoins, tokens>>

\* The target depth is already covered: no fetch, no repair.
SkipDeepen(w) ==
    /\ job[w].pc = "fetch" /\ job[w].phase = "deepen"
    /\ DeepenSkipped(job[w].row, job[w].now)
    /\ Becomes(w, [job[w] EXCEPT !.pc = "completing", !.oldest = job[w].row.oldestSyncedAt])
    /\ UNCHANGED <<now, targets, candles, topCoins, tokens>>

\* The lease check in front of each candle to store, fetched for the window
\* (persistCandles) or for a gap (repairOhlcvGaps) ...
CheckLease(w) ==
    /\ job[w].pc \in {"persist", "fill"}
    /\ Becomes(w, [job[w] EXCEPT !.pc =
                  IF job[w].batch = {} \/ ~LeaseActiveForWrite(w) THEN "repair"
                  ELSE IF @ = "persist" THEN "write" ELSE "fillwrite"])
    /\ UNCHANGED <<now, targets, candles, topCoins, tokens>>

\* ... and upsertCanonicalOhlcvCandle, a statement of its own.
WriteCandle(w) ==
    LET c == CHOOSE c \in job[w].batch : \A d \in job[w].batch : c <= d
    IN  /\ job[w].pc \in {"write", "fillwrite"}
        /\ candles' = [candles EXCEPT ![Series(job[w].target)] = @ \cup {c}]
        /\ Becomes(w, [job[w] EXCEPT
              !.pc = IF @ = "write" THEN "persist" ELSE "fill",
              !.batch = @ \ {c},
              !.stored = IF job[w].pc = "write" THEN @ \cup {c} ELSE @])
        /\ UNCHANGED <<now, targets, topCoins, tokens>>

\* A pass of repairOhlcvGaps: the gap is chosen, then fetched; by the time
\* its candles are stored another process may have filled it.
FetchGap(w) ==
    /\ job[w].pc = "repair"
    /\ ~RepairOver(w)
    /\ \E gap \in Gaps(job[w].target) : \E F \in SUBSET gap :
          /\ SelectedGap(job[w].target, gap)
          /\ Becomes(w, [job[w] EXCEPT
                !.pc = "fill", !.batch = F,
                !.exhausted = IF F = {} THEN @ \cup GapStart(gap) ELSE @])
    /\ UNCHANGED <<now, targets, candles, topCoins, tokens>>

\* The phase hands its cursor to the tick.
FinishRecent(w) ==
    LET next == deriveOhlcvLatestSyncedAt(job[w].row, job[w].stored)
    IN  /\ job[w].pc = "repair" /\ job[w].phase = "recent"
        /\ RepairOver(w)
        /\ Becomes(w, [job[w] EXCEPT
              !.latest = next, !.oldest = job[w].row.oldestSyncedAt,
              !.batch = {}, !.stored = {}, !.exhausted = {},
              !.phase = "deepen",
              !.pc = IF shouldDeepenOhlcvHistory(job[w].row, next, job[w].now)
                        THEN "fetch" ELSE "completing"])
        /\ UNCHANGED <<now, targets, candles, topCoins, tokens>>

FinishDeepen(w) ==
    /\ job[w].pc = "repair" /\ job[w].phase = "deepen"
    /\ RepairOver(w)
    /\ Becomes(w, [job[w] EXCEPT
          !.oldest = deriveOhlcvOldestSyncedAt(job[w].row, job[w].stored),
          !.batch = {}, !.stored = {}, !.exhausted = {}, !.pc = "completing"])
    /\ UNCHANGED <<now, targets, candles, topCoins, tokens>>

\* A fetch rejects, of the window or of a gap.
SyncFails(w) ==
    /\ \/ job[w].pc = "fetch" /\ ~(job[w].phase = "deepen" /\ DeepenSkipped(job[w].row, job[w].now))
       \/ job[w].pc = "repair" /\ ~RepairOver(w)
    /\ targets[job[w].target].failureCount < MaxFailures
    /\ Becomes(w, [job[w] EXCEPT !.pc = "failing"])
    /\ UNCHANGED <<now, targets, candles, topCoins, tokens>>

(***************************************************************************)
(* The end of a tick.  Both UPDATEs are fenced by activeLeaseWhere and do  *)
(* nothing when the lease is gone; the tick ignores their result.          *)
(***************************************************************************)

markOhlcvTargetSuccess(w) ==
    LET t == job[w].target
    IN  /\ job[w].pc = "completing"
        /\ targets' =
              IF job[w].row.leaseToken # NoToken /\ LeaseActive(t, job[w].row.leaseToken)
              THEN [targets EXCEPT ![t] =
                      [@ EXCEPT !.status = "idle",
                                !.latestSyncedAt = job[w].latest,
                                !.oldestSyncedAt = job[w].oldest,
                                !.lastSuccessAt = now,
                                !.failureCount = 0, !.nextRetryAt = NoTime,
                                !.leaseToken = NoToken, !.leaseExpiresAt = NoTime]]
              ELSE targets
        /\ Finish(w)
        /\ UNCHANGED <<now, candles, topCoins, tokens>>

\* The read of failureCount and the UPDATE are one action: the count changes
\* only in statements that also end the lease the UPDATE requires.
markOhlcvTargetFailure(w) ==
    LET t == job[w].target
        count == targets[t].failureCount + 1
    IN  /\ job[w].pc = "failing"
        /\ targets[t].failureCount <= MaxFailures
        /\ targets' =
              IF job[w].row.leaseToken # NoToken /\ LeaseActive(t, job[w].row.leaseToken)
              THEN [targets EXCEPT ![t] =
                      [@ EXCEPT !.status = "failed",
                                !.failureCount = count,
                                !.nextRetryAt = now + RetryBase * 2^targets[t].failureCount,
                                !.leaseToken = NoToken, !.leaseExpiresAt = NoTime]]
              ELSE targets
        /\ Finish(w)
        /\ UNCHANGED <<now, candles, topCoins, tokens>>

-----------------------------------------------------------------------------
(***************************************************************************)
(* The environment: time, crashes, and a market refresh that moves ranks.  *)
(***************************************************************************)

Advance ==
    /\ now < MaxTime
    /\ now' = now + 1
    /\ UNCHANGED <<targets, candles, topCoins, tokens, job>>

\* The process dies and restarts; only the database survives.
Crash(w) ==
    /\ job[w].pc # "idle"
    /\ Finish(w)
    /\ UNCHANGED <<now, targets, candles, topCoins, tokens>>

RanksChange ==
    /\ topCoins' \in (SUBSET Ranked) \ {topCoins}
    /\ UNCHANGED <<now, targets, candles, tokens, job>>

\* The bounded history is over.
HistoryEnds ==
    /\ now = MaxTime /\ tokens >= MaxLeases
    /\ \A w \in Worker : job[w].pc = "idle"
    /\ UNCHANGED vars

Progress(w) ==
    \/ RefreshTargetsFails(w)
    \/ upsertOhlcvSyncTargets(w) \/ refreshOhlcvPriorityTiers(w)
    \/ SelectCandidates(w) \/ NothingToLease(w)
    \/ \E t \in Target : LeaseTarget(w, t) \/ LeaseRaceLost(w, t)
    \/ ReadLease(w)
    \/ FetchCandles(w) \/ SkipDeepen(w)
    \/ CheckLease(w) \/ WriteCandle(w) \/ FetchGap(w)
    \/ FinishRecent(w) \/ FinishDeepen(w) \/ SyncFails(w)
    \/ markOhlcvTargetSuccess(w) \/ markOhlcvTargetFailure(w)

Next ==
    \/ \E w \in Worker : StartTick(w) \/ Progress(w) \/ Crash(w)
    \/ Advance
    \/ RanksChange
    \/ HistoryEnds

Spec == Init /\ [][Next]_vars

(***************************************************************************)
(* The scheduler fires again and again, time passes and an await ends.  A  *)
(* process may crash at any point, but not for ever before the statement   *)
(* that leases: those four steps are strongly fair.  Nothing is assumed of *)
(* the exchange beyond an answer or an error.                              *)
(***************************************************************************)
FairSpec ==
    /\ Spec
    /\ WF_vars(Advance)
    /\ \A w \in Worker :
          /\ WF_vars(StartTick(w)) /\ WF_vars(Progress(w))
          /\ SF_vars(upsertOhlcvSyncTargets(w)) /\ SF_vars(refreshOhlcvPriorityTiers(w))
          /\ SF_vars(SelectCandidates(w))
          /\ \A t \in Target : SF_vars(LeaseTarget(w, t))

-----------------------------------------------------------------------------
(***************************************************************************)
(* Properties.                                                             *)
(***************************************************************************)

Syncing == {"fetch", "persist", "write", "repair", "fill", "fillwrite", "completing", "failing"}

\* Process w works on t under a lease that is in force right now.
Holds(w, t) ==
    /\ job[w].pc \in Syncing /\ job[w].target = t
    /\ job[w].row.leaseToken # NoToken
    /\ LeaseActive(t, job[w].row.leaseToken)

Granted(t) == targets'[t].leaseToken \notin {targets[t].leaseToken, NoToken}

Instants == 0..MaxTime

Job == [pc : {"idle", "refreshing", "retiering", "selecting", "leasing", "reading"} \cup Syncing,
        now : Nat, rows : [Target -> Row], target : Target \cup {NoTarget}, row : Row,
        phase : {"recent", "deepen"},
        batch : SUBSET Instants, stored : SUBSET Instants, exhausted : SUBSET Instants,
        latest : TimeOrNull, oldest : TimeOrNull]

TypeOK ==
    /\ now \in Nat
    /\ targets \in [Target -> Row]
    /\ candles \in [{Series(t) : t \in Target} -> SUBSET Instants]
    /\ topCoins \in SUBSET Int
    /\ tokens \in Nat
    /\ job \in [Worker -> Job]

\* What the cursors of a row claim is in the candle store: whatever was
\* stored, by whomever, under however many recovered leases, the two
\* cursors markOhlcvTargetSuccess records are candles a reader will find.
CursorsBackedByCandles ==
    \A t \in Target :
        /\ targets[t].latestSyncedAt # NoTime => targets[t].latestSyncedAt \in candles[Series(t)]
        /\ targets[t].oldestSyncedAt # NoTime => targets[t].oldestSyncedAt \in candles[Series(t)]

\* The recent cursor of a row never moves back and is never lost: a process
\* that comes back with an old copy of the row after its lease was recovered
\* must not overwrite what the new holder recorded.
LatestNeverRegresses ==
    [][\A t \in Target : targets[t].latestSyncedAt # NoTime =>
          /\ targets'[t].latestSyncedAt # NoTime
          /\ targets'[t].latestSyncedAt >= targets[t].latestSyncedAt]_vars

\* leaseNextOhlcvTarget grants a lease only on a row that is free at that
\* instant, no unexpired lease of another process and no retry back-off still
\* running, although it decided on a SELECT made earlier and on a clock read
\* earlier still; and a lease in force ends only by the process that works
\* under its token.
LeasesFenced ==
    [][\A t \in Target :
          LET inForce == targets[t].status = "running" /\ targets[t].leaseExpiresAt # NoTime
                         /\ targets[t].leaseExpiresAt > now IN
          /\ Granted(t) => /\ ~inForce
                           /\ ~(targets[t].nextRetryAt # NoTime /\ targets[t].nextRetryAt > now)
          /\ inForce /\ targets'[t].leaseToken # targets[t].leaseToken
             => \E w \in Worker : Holds(w, t) /\ job'[w].pc = "idle"]_vars

\* A target left "running" by a process that died, hung or lost its lease
\* does not stay so: once the deadline can pass, the lease ends or the row is
\* leased again under another token.
AbandonedLeaseRecovered ==
    \A t \in Target : \A k \in 1..MaxLeases :
        (/\ targets[t].leaseToken = k /\ targets[t].leaseExpiresAt <= MaxTime
         /\ tokens < MaxLeases)
        ~> targets[t].leaseToken # k

\* What a test says and the code does not keep (the run ohlcv_overlap refutes it):
\* tests/ohlcv-worker-state.test.ts: "prevents overlapping active leases on
\* the same target".
OneLiveHolder ==
    \A v, w \in Worker : \A t \in Target : Holds(v, t) /\ Holds(w, t) => v = w
=============================================================================
