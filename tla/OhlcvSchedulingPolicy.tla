------------------------ MODULE OhlcvSchedulingPolicy ------------------------
(***************************************************************************)
(* The pure decisions of services/ohlcv-scheduling-policy.ts: which rows   *)
(* of ohlcv_sync_targets may be leased at a given instant, in which order  *)
(* they are preferred, and how the two coverage cursors of a row follow    *)
(* from the candles a worker stored.  No state, only operators.            *)
(*                                                                         *)
(* Instants are integers on one scale; NoTime stands for a NULL column.    *)
(***************************************************************************)
EXTENDS Integers

CONSTANTS
    NoTime,        \* SQL NULL / JavaScript null
    LeaseTtl,      \* DEFAULT_OHLCV_LEASE_TTL_MS
    Day,           \* OHLCV_DAY_MS
    MinuteFresh    \* INTERVAL_RECENT_FRESHNESS_MS['1m']

ASSUME PolicyAssumption ==
    /\ NoTime \notin Int
    /\ LeaseTtl \in Nat \ {0}
    /\ Day \in Nat \ {0}
    /\ MinuteFresh \in Nat \ {0}

Tier == {"top100", "requested", "long_tail"}
Interval == {"1m", "1d"}
Status == {"idle", "running", "failed"}

(***************************************************************************)
(* Eligibility.                                                            *)
(***************************************************************************)

\* Mutant: a deadline is taken for passed one instant early.
isOhlcvLeaseExpiredEarly(row, now) ==
    IF row.leaseExpiresAt # NoTime
    THEN row.leaseExpiresAt <= now + 1
    ELSE row.lastAttemptAt # NoTime => row.lastAttemptAt <= now - LeaseTtl

\* Mutant: only rows without a deadline are ever recovered.
isOhlcvLeaseExpiredLegacyOnly(row, now) ==
    /\ row.leaseExpiresAt = NoTime
    /\ row.lastAttemptAt # NoTime => row.lastAttemptAt <= now - LeaseTtl

\* A deadline decides when there is one; a running row written before the
\* deadline column existed falls back to its last attempt.
isOhlcvLeaseExpired(row, now) ==
    IF row.leaseExpiresAt # NoTime
    THEN row.leaseExpiresAt <= now
    ELSE row.lastAttemptAt # NoTime => row.lastAttemptAt <= now - LeaseTtl

isOhlcvTargetLeaseEligible(row, now) ==
    \/ row.status = "running" /\ isOhlcvLeaseExpired(row, now)
    \/ /\ row.status \in {"idle", "failed"}
       /\ row.nextRetryAt # NoTime => row.nextRetryAt <= now

(***************************************************************************)
(* Preference.  compareOhlcvLeaseTargets is a lexicographic comparison of  *)
(* seven numbers, smaller first; the last one is the coin id.              *)
(***************************************************************************)

PRIORITY_RANK == [top100 |-> 0, requested |-> 1, long_tail |-> 2]

INTERVAL_LEASE_RANK == [i \in Interval |-> IF i = "1m" THEN 0 ELSE 1]

INTERVAL_RECENT_FRESHNESS == [i \in Interval |-> IF i = "1m" THEN MinuteFresh ELSE Day]

isTargetRecentStale(row, now) ==
    \/ row.latestSyncedAt = NoTime
    \/ row.latestSyncedAt < now - INTERVAL_RECENT_FRESHNESS[row.interval]

\* How much history is still missing below the oldest cursor.
getOhlcvTargetHistoricalGap(row, now) ==
    LET gap == row.oldestSyncedAt - (now - row.targetHistory)
    IN  IF row.oldestSyncedAt = NoTime THEN row.targetHistory
        ELSE IF gap > 0 THEN gap ELSE 0

\* Math.ceil(gap / day)
getOhlcvTargetRemainingDepthDays(row, now) ==
    (getOhlcvTargetHistoricalGap(row, now) + Day - 1) \div Day

Flag(b) == IF b THEN 0 ELSE 1

LeaseRank(row, now) ==
    << PRIORITY_RANK[row.priorityTier],
       Flag(row.status = "failed"),
       Flag(isTargetRecentStale(row, now)),
       INTERVAL_LEASE_RANK[row.interval],
       0 - getOhlcvTargetRemainingDepthDays(row, now),
       IF row.lastSuccessAt = NoTime THEN 0 ELSE row.lastSuccessAt,
       row.coin >>

LexLess(a, b) ==
    \E i \in DOMAIN a : a[i] < b[i] /\ \A j \in 1..(i - 1) : a[j] = b[j]

compareOhlcvLeaseTargets(left, right, now) ==
    LexLess(LeaseRank(left, now), LeaseRank(right, now))

\* The keys of `rows` that the sorted list of eligible rows may start with.
\* Equal ranks keep the order of the SELECT, which is left open here.
selectNextOhlcvLeaseTarget(rows, now) ==
    LET eligible == {t \in DOMAIN rows : isOhlcvTargetLeaseEligible(rows[t], now)}
    IN  {t \in eligible :
            \A u \in eligible : ~compareOhlcvLeaseTargets(rows[u], rows[t], now)}

(***************************************************************************)
(* Cursors.  `stored` is the set of instants of the candles the worker     *)
(* persisted, in ascending order in the code.                              *)
(***************************************************************************)

\* Mutants: the cursor names the candle to ask for next, not one stored.
deriveOhlcvLatestSyncedAtNext(row, stored) ==
    IF stored = {} THEN row.latestSyncedAt
    ELSE (CHOOSE c \in stored : \A d \in stored : d <= c) + 1

deriveOhlcvOldestSyncedAtNext(row, stored) ==
    IF stored = {} THEN row.oldestSyncedAt
    ELSE (CHOOSE c \in stored : \A d \in stored : c <= d) - 1

deriveOhlcvLatestSyncedAt(row, stored) ==
    IF stored = {} THEN row.latestSyncedAt
    ELSE CHOOSE c \in stored : \A d \in stored : d <= c

deriveOhlcvOldestSyncedAt(row, stored) ==
    IF stored = {} THEN row.oldestSyncedAt
    ELSE CHOOSE c \in stored : \A d \in stored : c <= d

isOhlcvRecentCoverageCurrentEnough(latest, now) ==
    latest # NoTime /\ latest >= now - Day

shouldDeepenOhlcvHistory(row, nextLatest, now) ==
    /\ isOhlcvRecentCoverageCurrentEnough(row.latestSyncedAt, now)
    /\ isOhlcvRecentCoverageCurrentEnough(nextLatest, now)
=============================================================================
