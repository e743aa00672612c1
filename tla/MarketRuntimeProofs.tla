-------------------------- MODULE MarketRuntimeProofs --------------------------
(***************************************************************************)
(* Proofs about MarketRuntime for any threshold, time in the cache and     *)
(* modes of the validator.                                                 *)
(***************************************************************************)
EXTENDS MarketRuntime, TLAPS

\* A stopped process has stopped its scheduler.
StoppedSchedulesNothing == stop # "up" => ~serving

\* Nothing has come before start().
NothingBeforeStart == startup = "new" => listener = "none" /\ flags.completed = FALSE

\* The process schedules nothing before the initial sync is over, nor ever after
\* a start that failed.
NotYetScheduled ==
    startup \in {"new", "syncing", "failed", "rejected"} => ~pending /\ ~serving /\ job = "idle"

\* So that no refresh can forget the reason of a failed start.
ReasonOfFailedStart == FailedStart => flags.reason = TRUE

\* A live row in the cache ages no faster than its time there runs out.
RowAgesInCache ==
    cache.shows = "live" =>
        /\ cache.left > 0
        /\ cache.age + cache.left <= Threshold + CacheTtl \/ policy.stale

SeededRowInCache == cache.shows = "seeded" => ~policy.completed

Inv ==
    /\ TypeOK
    /\ StaleServiceExplained
    /\ StoppedSchedulesNothing /\ NothingBeforeStart /\ NotYetScheduled
    /\ RowAgesInCache /\ SeededRowInCache /\ ReasonOfFailedStart

LEMMA Constant ==
    /\ CacheTtl \in Nat \ {0} /\ Modes \subseteq Mode
    /\ Threshold \in Nat /\ TooOld \in Nat /\ Threshold < TooOld
BY RuntimeAssumption, ThresholdAssumption

-----------------------------------------------------------------------------
\* The transitions keep the flags typed, and stale service explained.
Explained(f) == f \in RuntimeFlags /\ (f.completed /\ f.stale => f.reason)

LEMMA FreshFlags == Explained(createMarketDataRuntimeState)
BY Zenon DEF Explained, createMarketDataRuntimeState, RuntimeFlags

LEMMA ClearedExplained ==
    ASSUME NEW f \in RuntimeFlags
    PROVE  /\ Explained(clearRecoveredMarketRuntimeDegradation(f))
           /\ Explained(recordMarketRefreshSuccess(f))
           /\ Explained(recordMarketRefreshFailure(f))
<1>1. ASSUME NEW g \in RuntimeFlags
      PROVE  Explained(clearRecoveredMarketRuntimeDegradation(g))
    BY Zenon DEF Explained, clearRecoveredMarketRuntimeDegradation, RuntimeFlags
<1>2. [f EXCEPT !.zeroLive = FALSE] \in RuntimeFlags
    BY Zenon DEF RuntimeFlags
<1>3. Explained(recordMarketRefreshFailure(f))
    BY Zenon DEF Explained, recordMarketRefreshFailure, RuntimeFlags
<1> QED
    BY <1>1, <1>2, <1>3 DEF recordMarketRefreshSuccess

LEMMA CompletedExplained ==
    ASSUME NEW f \in RuntimeFlags
    PROVE  Explained(completeInitialMarketSync(f))
<1>1. CASE f.zeroLive
    <2> DEFINE g == [f EXCEPT !.completed = TRUE, !.deferred = FALSE, !.reason = f.stale]
    <2>1. completeInitialMarketSync(f) = g
        BY <1>1, Zenon DEF completeInitialMarketSync
    <2>2. g \in RuntimeFlags /\ g.reason = f.stale /\ g.stale = f.stale
        BY Zenon DEF RuntimeFlags
    <2> QED
        BY <2>1, <2>2 DEF Explained
<1>2. CASE ~f.zeroLive
    <2> DEFINE c == clearRecoveredMarketRuntimeDegradation(f)
               g == [c EXCEPT !.completed = TRUE, !.deferred = TRUE]
    <2>1. completeInitialMarketSync(f) = g
        BY <1>2, Zenon DEF completeInitialMarketSync
    <2>2. c \in RuntimeFlags /\ c.stale = FALSE
        BY Zenon DEF clearRecoveredMarketRuntimeDegradation, RuntimeFlags
    <2> HIDE DEF c
    <2>3. g \in RuntimeFlags /\ g.stale = FALSE
        BY <2>2, Zenon DEF RuntimeFlags
    <2> QED
        BY <2>1, <2>3 DEF Explained
<1> QED
    BY <1>1, <1>2

LEMMA FailureRecorded ==
    ASSUME NEW f \in RuntimeFlags
    PROVE  /\ Explained(recordInitialSyncFailure(f))
           /\ recordInitialSyncFailure(f).reason = TRUE
           /\ recordInitialSyncFailure(f).completed = f.completed
           /\ recordInitialSyncFailure(f).stale = f.stale
<1> DEFINE g == [f EXCEPT !.reason = TRUE]
<1>1. recordInitialSyncFailure(f) = g
    BY Zenon DEF recordInitialSyncFailure
<1>2. g \in RuntimeFlags /\ g.reason = TRUE /\ g.completed = f.completed /\ g.stale = f.stale
    BY Zenon DEF RuntimeFlags
<1> HIDE DEF g
<1> QED
    BY <1>1, <1>2 DEF Explained

\* However the catch of the startup task ends, the reason is recorded; only when
\* it throws is an entry of the cache left to be served.
LEMMA HandledExplained ==
    ASSUME NEW f \in RuntimeFlags, NEW row, NEW kept, SyncFailureHandled(f, row, kept)
    PROVE  /\ Explained(flags')
           /\ \/ cache' = NoEntry
              \/ /\ cache' = kept /\ flags'.reason = TRUE
                 /\ flags'.completed = f.completed /\ flags'.stale = f.stale
           /\ \/ startup' \in {"ended", "currency"}
              \/ startup' = "rejected" /\ flags'.reason = TRUE
<1> DEFINE g == recordInitialSyncFailure(f)
           h == [g EXCEPT !.stale = g.stale \/ (stop # "closed" /\ row.kind # "none")]
<1>1. g \in RuntimeFlags /\ g.reason = TRUE /\ g.completed = f.completed /\ g.stale = f.stale
      /\ Explained(g)
    BY FailureRecorded DEF Explained
<1>2. WithResidual(g, row) = h
    BY Zenon DEF WithResidual
<1>3. \/ flags' = h /\ cache' = NoEntry /\ AfterSync
      \/ flags' = g /\ cache' = kept /\ startup' = "rejected"
    BY <1>2, Zenon DEF SyncFailureHandled, Bumped
<1> HIDE DEF g
<1>4. h \in RuntimeFlags /\ h.reason = TRUE
    BY <1>1, Zenon DEF RuntimeFlags
<1> HIDE DEF h
<1> QED
    BY <1>1, <1>3, <1>4 DEF Explained, AfterSync

LEMMA OverriddenExplained ==
    ASSUME NEW f, Explained(f), NEW mode
    PROVE  /\ Explained(recordValidationRuntimeOverride(f, mode))
           /\ recordValidationRuntimeOverride(f, mode).reason = f.reason
<1> DEFINE zero == mode = "zero_live_completed_boot"
           c == zero \/ (f.completed /\ mode \notin {"seeded_bootstrap", "degraded_seeded_bootstrap"})
           s == f.stale /\ ~zero
           g == [f EXCEPT !.completed = c, !.zeroLive = zero, !.stale = s]
<1>1. f \in RuntimeFlags
    BY DEF Explained
<1>2. recordValidationRuntimeOverride(f, mode) = g
    BY Zenon DEF recordValidationRuntimeOverride
<1>3. zero \in BOOLEAN /\ c \in BOOLEAN /\ s \in BOOLEAN
    OBVIOUS
<1>4. s /\ c => f.stale /\ f.completed
    OBVIOUS
<1> HIDE DEF zero, c, s
<1>5. g \in RuntimeFlags /\ g.completed = c /\ g.stale = s /\ g.reason = f.reason
    BY <1>1, <1>3, Zenon DEF RuntimeFlags
<1> HIDE DEF g
<1> QED
    BY <1>2, <1>4, <1>5, Zenon DEF Explained

-----------------------------------------------------------------------------
\* What may be shown changes with the mode and two of the flags alone; it only
\* grows when stale service is turned on.
LEMMA PolicyGrows ==
    ASSUME override'.mode = override.mode, flags'.completed = flags.completed,
           flags.stale => flags'.stale
    PROVE  /\ policy'.completed = policy.completed
           /\ policy.stale => policy'.stale
BY DEF policy, getSnapshotAccessPolicy

LEMMA CacheKept ==
    ASSUME RowAgesInCache, SeededRowInCache, cache' = cache,
           policy'.completed = policy.completed, policy.stale => policy'.stale
    PROVE  RowAgesInCache' /\ SeededRowInCache'
BY DEF RowAgesInCache, SeededRowInCache

LEMMA CacheDropped ==
    ASSUME cache' = NoEntry
    PROVE  cache' \in CacheEntry /\ RowAgesInCache' /\ SeededRowInCache'
BY Constant DEF NoEntry, CacheEntry, RowAgesInCache, SeededRowInCache

LEMMA EffectiveTyped ==
    ASSUME snapshot \in Snapshot, override \in Override
    PROVE  getEffectiveSnapshot(snapshot, override) \in Snapshot
BY Constant DEF getEffectiveSnapshot, Snapshot, Override

\* buildSimplePayload shows only what the policy allows.
LEMMA AnswerAllowed ==
    ASSUME snapshot \in Snapshot, override \in Override, cache' = Answer,
           override' = override, flags' = flags
    PROVE  cache' \in CacheEntry /\ RowAgesInCache' /\ SeededRowInCache'
<1> DEFINE s == getEffectiveSnapshot(snapshot, override)
           shown == getUsableSnapshot(s, policy)
<1>1. s \in Snapshot
    BY EffectiveTyped
<1>2. Answer = [left |-> CacheTtl, shows |-> IF shown THEN s.kind ELSE "none",
                age |-> IF shown THEN s.age ELSE 0]
    BY Zenon DEF Answer
<1>3. policy' = policy
    BY DEF policy
<1>4. s.kind \in {"none", "seeded", "live"} /\ s.age \in 0..TooOld
    BY <1>1 DEF Snapshot
<1>5. shown => \/ s.kind = "seeded" /\ ~policy.completed
               \/ s.kind = "live" /\ (s.age <= Threshold \/ policy.stale)
    BY Zenon DEF getUsableSnapshot
<1> HIDE DEF s, shown
<1>6. cache' \in CacheEntry
    BY <1>2, <1>4, Constant DEF CacheEntry
<1>7. /\ cache'.left = CacheTtl
      /\ cache'.shows = IF shown THEN s.kind ELSE "none"
      /\ cache'.age = IF shown THEN s.age ELSE 0
    BY <1>2
<1>8. RowAgesInCache'
    BY <1>3, <1>4, <1>5, <1>7, Constant DEF RowAgesInCache
<1>9. SeededRowInCache'
    BY <1>3, <1>5, <1>7 DEF SeededRowInCache
<1> QED
    BY <1>6, <1>8, <1>9

LEMMA CacheAges ==
    ASSUME TypeOK, RowAgesInCache, SeededRowInCache, Tick
    PROVE  cache' \in CacheEntry /\ RowAgesInCache' /\ SeededRowInCache'
<1>1. cache.left \in 0..CacheTtl /\ cache.age \in 0..TooOld /\ cache \in CacheEntry
    BY DEF TypeOK, CacheEntry
<1>2. override'.mode = override.mode
    BY Zenon DEF Tick, TypeOK, Override
<1>3. flags' = flags
    BY DEF Tick
<1>4. policy'.completed = policy.completed /\ (policy.stale => policy'.stale)
    BY <1>2, <1>3, PolicyGrows
<1>5. CASE cache.left <= 1
    BY <1>5, CacheDropped DEF Tick
<1>6. CASE ~(cache.left <= 1)
    <2> DEFINE l == cache.left - 1
               a == IF cache.shows = "none" THEN 0 ELSE Older(cache.age)
    <2>1. cache' = [cache EXCEPT !.left = l, !.age = a]
        BY <1>6, Zenon DEF Tick
    <2>2. l \in 0..CacheTtl /\ l > 0 /\ a \in 0..TooOld /\ a + l <= cache.age + cache.left
        <3>1. Older(cache.age) \in 0..TooOld /\ Older(cache.age) <= cache.age + 1
            BY <1>1, Constant DEF Older
        <3>2. l \in 0..CacheTtl /\ l > 0 /\ l + 1 = cache.left
            BY <1>1, <1>6, Constant
        <3> HIDE DEF l
        <3> QED
            BY <1>1, <3>1, <3>2, Constant
    <2> HIDE DEF l, a
    <2>3. /\ cache' \in CacheEntry
          /\ cache'.left = l /\ cache'.age = a /\ cache'.shows = cache.shows
        BY <1>1, <2>1, <2>2, Zenon DEF CacheEntry
    <2>4. RowAgesInCache'
        BY <1>1, <1>4, <2>2, <2>3, Constant DEF RowAgesInCache
    <2>5. SeededRowInCache'
        BY <1>4, <2>3 DEF SeededRowInCache
    <2> QED
        BY <2>3, <2>4, <2>5
<1> QED
    BY <1>5, <1>6

-----------------------------------------------------------------------------
LEMMA InitHolds == Init => Inv
<1> SUFFICES ASSUME Init PROVE Inv
    OBVIOUS
<1>1. Explained(flags)
    BY FreshFlags DEF Init
<1>2. cache \in CacheEntry /\ RowAgesInCache /\ SeededRowInCache
    BY Constant DEF Init, NoEntry, CacheEntry, RowAgesInCache, SeededRowInCache
<1>3. override \in Override
    BY Constant DEF Init, Override, Mode
<1> QED
    BY <1>1, <1>2, <1>3 DEF Init, Inv, Explained, TypeOK, StaleServiceExplained,
        StoppedSchedulesNothing, NothingBeforeStart, NotYetScheduled, ReasonOfFailedStart,
        FailedStart, createMarketDataRuntimeState

\* The parts of a step that the lemmas above are about, and what is left of Inv.
LEMMA Assemble ==
    ASSUME Explained(flags)', cache' \in CacheEntry, RowAgesInCache', SeededRowInCache',
           snapshot' \in Snapshot, override' \in Override,
           startup' \in {"new", "syncing", "failed", "rejected", "currency", "running", "ended"},
           pending' \in BOOLEAN, listener' \in {"none", "bound", "announced"},
           serving' \in BOOLEAN, job' \in {"idle", "running"},
           stop' \in {"up", "stopping", "closed"}, StoppedSchedulesNothing',
           NothingBeforeStart', NotYetScheduled', ReasonOfFailedStart'
    PROVE  Inv'
BY DEF Inv, Explained, TypeOK, StaleServiceExplained

LEMMA FreshRow == Fresh \in Snapshot
BY Constant DEF Fresh, Snapshot

\* Steps that change none of the flags, the override and the cached answer.
LEMMA ElsewhereKept ==
    ASSUME Inv, flags' = flags, override' = override, cache' = cache
    PROVE  /\ Explained(flags)' /\ cache' \in CacheEntry /\ RowAgesInCache' /\ SeededRowInCache'
           /\ override' \in Override
<1>1. policy' = policy
    BY DEF policy
<1> QED
    BY <1>1, CacheKept DEF Inv, TypeOK, Explained, StaleServiceExplained

LEMMA Residual ==
    ASSUME NEW f, Explained(f), f.completed = FALSE, NEW row
    PROVE  /\ Explained(WithResidual(f, row))
           /\ WithResidual(f, row).completed = f.completed
           /\ WithResidual(f, row).reason = f.reason
           /\ f.stale => WithResidual(f, row).stale
<1> DEFINE b == f.stale \/ (stop # "closed" /\ row.kind # "none")
           g == [f EXCEPT !.stale = b]
<1>1. f \in RuntimeFlags
    BY DEF Explained
<1>2. b \in BOOLEAN /\ (f.stale => b)
    BY <1>1, Zenon DEF RuntimeFlags
<1>3. WithResidual(f, row) = g
    BY Zenon DEF WithResidual
<1> HIDE DEF b
<1>4. g \in RuntimeFlags /\ g.completed = f.completed /\ g.stale = b /\ g.reason = f.reason
    BY <1>1, <1>2, Zenon DEF RuntimeFlags
<1> HIDE DEF g
<1> QED
    BY <1>2, <1>3, <1>4, Zenon DEF Explained

\* One step of Spec per action.
LEMMA NextKeeps == Inv /\ [Next]_vars => Inv'
<1> SUFFICES ASSUME Inv, [Next]_vars PROVE Inv'
    OBVIOUS
<1> USE DEF StoppedSchedulesNothing, NothingBeforeStart, NotYetScheduled,
            ReasonOfFailedStart, FailedStart
<1>t. TypeOK /\ StaleServiceExplained /\ Explained(flags) /\ RowAgesInCache /\ SeededRowInCache
      /\ flags \in RuntimeFlags /\ StoppedSchedulesNothing /\ NothingBeforeStart
      /\ NotYetScheduled /\ ReasonOfFailedStart
    BY DEF Inv, Explained, TypeOK, StaleServiceExplained
<1>1. CASE start
    <2>1. /\ Explained(flags)' /\ flags'.completed = flags.completed
          /\ (flags.stale => flags'.stale)
          /\ startup' = "syncing" \/ (startup' = "failed" /\ flags'.reason = TRUE)
        <3>1. CASE startup' = "syncing" /\ flags' = WithResidual(flags, snapshot)
            BY <1>1, <1>t, <3>1, Residual DEF start
        <3>2. CASE startup' = "failed" /\ flags' = recordInitialSyncFailure(flags)
            BY <1>t, <3>2, FailureRecorded DEF Explained
        <3> QED
            BY <1>1, <3>1, <3>2 DEF start
    <2>2. policy'.completed = policy.completed /\ (policy.stale => policy'.stale)
        BY <1>1, <2>1, PolicyGrows DEF start
    <2>3. RowAgesInCache' /\ SeededRowInCache'
        BY <1>1, <1>t, <2>2, CacheKept DEF start
    <2> QED
        BY <1>1, <1>t, <2>1, <2>3, Assemble DEF start, TypeOK
<1>2. CASE InitialSyncCompletes
    <2>1. PICK committed \in BOOLEAN, live \in BOOLEAN :
             LET f == completeInitialMarketSync([flags EXCEPT !.zeroLive = ~live])
             IN  /\ snapshot' = IF committed THEN Fresh ELSE snapshot
                 /\ \/ flags' = f /\ cache' = Bumped /\ AfterSync
                    \/ SyncFailureHandled(f, snapshot', Bumped)
        BY <1>2, Zenon DEF InitialSyncCompletes
    <2> DEFINE g == [flags EXCEPT !.zeroLive = ~live]
               f == completeInitialMarketSync(g)
    <2>2. g \in RuntimeFlags
        BY <1>t, Zenon DEF RuntimeFlags
    <2> HIDE DEF g
    <2>3. Explained(f)
        BY <2>2, CompletedExplained
    <2> HIDE DEF f
    <2>4. f \in RuntimeFlags
        BY <2>3 DEF Explained
    <2>5. \/ flags' = f /\ cache' = Bumped /\ AfterSync
          \/ SyncFailureHandled(f, snapshot', Bumped)
        BY <2>1, Zenon DEF f, g
    <2>6. /\ Explained(flags)' /\ cache' = NoEntry
          /\ startup' \in {"ended", "currency"} \/ (startup' = "rejected" /\ flags'.reason = TRUE)
        <3>1. CASE flags' = f /\ cache' = Bumped /\ AfterSync
            BY <2>3, <3>1 DEF Explained, AfterSync, Bumped
        <3>2. CASE SyncFailureHandled(f, snapshot', Bumped)
            BY <2>4, <3>2, HandledExplained DEF Bumped, Explained
        <3> QED
            BY <2>5, <3>1, <3>2
    <2>7. snapshot' \in Snapshot
        BY <1>t, <2>1, FreshRow DEF TypeOK
    <2>8. cache' \in CacheEntry /\ RowAgesInCache' /\ SeededRowInCache'
        BY <2>6, CacheDropped
    <2> QED
        BY <1>2, <1>t, <2>6, <2>7, <2>8, Assemble DEF InitialSyncCompletes, TypeOK
<1>3. CASE InitialSyncFails
    <2>1. /\ snapshot' = Fresh \/ snapshot' = snapshot
          /\ SyncFailureHandled(flags, snapshot', cache)
        BY <1>3, Zenon DEF InitialSyncFails
    <2>2. /\ Explained(flags)' /\ cache' \in {NoEntry, cache}
          /\ startup' \in {"ended", "currency"} \/ (startup' = "rejected" /\ flags'.reason = TRUE)
          /\ cache' # NoEntry => flags'.completed = flags.completed /\ flags'.stale = flags.stale
        BY <1>t, <2>1, HandledExplained DEF Explained
    <2>3. cache' \in CacheEntry /\ RowAgesInCache' /\ SeededRowInCache'
        <3>1. CASE cache' = NoEntry
            BY <3>1, CacheDropped
        <3>2. CASE cache' # NoEntry
            <4>1. policy'.completed = policy.completed /\ (policy.stale => policy'.stale)
                BY <1>3, <2>2, <3>2, PolicyGrows DEF InitialSyncFails
            <4> QED
                BY <1>t, <2>2, <3>2, <4>1, CacheKept DEF TypeOK
        <3> QED
            BY <3>1, <3>2
    <2>4. snapshot' \in Snapshot
        BY <1>t, <2>1, FreshRow DEF TypeOK
    <2> QED
        BY <1>3, <1>t, <2>2, <2>3, <2>4, Assemble DEF InitialSyncFails, TypeOK
<1>4. CASE CurrencyRatesFetched
    <2>1. /\ Explained(flags)' /\ cache' \in CacheEntry /\ RowAgesInCache' /\ SeededRowInCache'
          /\ override' \in Override
        BY <1>4, ElsewhereKept DEF CurrencyRatesFetched
    <2>2. pending' \in BOOLEAN /\ MaySchedule \in BOOLEAN
        BY <1>4, <1>t DEF CurrencyRatesFetched, shouldDeferListenerBoundRefreshAfterBootstrap,
            RuntimeFlags, MaySchedule
    <2>3. StoppedSchedulesNothing' /\ serving' \in BOOLEAN
        BY <1>4, <1>t DEF CurrencyRatesFetched, MaySchedule, TypeOK
    <2> QED
        BY <1>4, <1>t, <2>1, <2>2, <2>3, Assemble DEF CurrencyRatesFetched, TypeOK
<1>5. CASE markListenerBound \/ markMarketRuntimeListenerBound
    <2> DEFINE g == [flags EXCEPT !.deferred = FALSE]
    <2>1. flags' = g /\ override' = override /\ cache' = cache
        BY <1>5 DEF markListenerBound, markMarketRuntimeListenerBound
    <2>2. /\ g \in RuntimeFlags /\ g.completed = flags.completed /\ g.stale = flags.stale
          /\ g.reason = flags.reason
        BY <1>t, Zenon DEF RuntimeFlags
    <2> HIDE DEF g
    <2>3. policy'.completed = policy.completed /\ (policy.stale => policy'.stale)
        BY <2>1, <2>2, PolicyGrows
    <2>4. RowAgesInCache' /\ SeededRowInCache'
        BY <1>t, <2>1, <2>3, CacheKept
    <2>5. Explained(flags)'
        BY <1>t, <2>1, <2>2 DEF Explained
    <2>6. pending' \in BOOLEAN /\ job' \in {"idle", "running"}
        BY <1>5, <1>t DEF markListenerBound, markMarketRuntimeListenerBound, TypeOK
    <2>7. NotYetScheduled'
        <3>1. pending' => pending
            BY <1>5, Zenon DEF markListenerBound, markMarketRuntimeListenerBound
        <3>2. job = "idle" /\ ~pending => job' = "idle"
            BY <1>5, Zenon DEF markListenerBound, markMarketRuntimeListenerBound
        <3>3. startup' = startup /\ serving' = serving
            BY <1>5, Zenon DEF markListenerBound, markMarketRuntimeListenerBound
        <3> QED
            BY <1>t, <3>1, <3>2, <3>3
    <2>8. ReasonOfFailedStart'
        BY <1>5, <1>t, <2>1, <2>2 DEF markListenerBound, markMarketRuntimeListenerBound
    <2> QED
        BY <1>5, <1>t, <2>1, <2>4, <2>5, <2>6, <2>7, <2>8, Assemble
        DEF markListenerBound, markMarketRuntimeListenerBound, TypeOK
<1>6. CASE SimplePriceRequested
    <2>1. cache' \in CacheEntry /\ RowAgesInCache' /\ SeededRowInCache'
        BY <1>6, <1>t, AnswerAllowed DEF SimplePriceRequested, TypeOK
    <2>2. Explained(flags)'
        BY <1>6, <1>t DEF SimplePriceRequested, Explained
    <2> QED
        BY <1>6, <1>t, <2>1, <2>2, Assemble DEF SimplePriceRequested, TypeOK
<1>7. CASE \E mode \in Modes : DegradedStatePosted(mode)
    <2>1. PICK mode \in Modes : DegradedStatePosted(mode)
        BY <1>7
    <2>2. Explained(flags') /\ flags'.reason = flags.reason
        BY <1>t, <2>1, OverriddenExplained DEF DegradedStatePosted
    <2>3. Explained(flags)'
        BY <2>2 DEF Explained
    <2>4. cache' \in CacheEntry /\ RowAgesInCache' /\ SeededRowInCache'
        BY <2>1, CacheDropped DEF DegradedStatePosted, Bumped
    <2>5. override' \in Override
        BY <2>1, Constant DEF DegradedStatePosted, Override
    <2> QED
        BY <1>t, <2>1, <2>2, <2>3, <2>4, <2>5, Assemble DEF DegradedStatePosted, TypeOK
<1>8. CASE MarketRefreshBegins \/ stopRuntime \/ CloseDatabase
    <2>1. /\ Explained(flags)' /\ cache' \in CacheEntry /\ RowAgesInCache' /\ SeededRowInCache'
          /\ override' \in Override
        BY <1>8, ElsewhereKept DEF MarketRefreshBegins, stopRuntime, CloseDatabase
    <2>2. CASE MarketRefreshBegins
        BY <2>2, <1>t, <2>1, Assemble DEF MarketRefreshBegins, TypeOK
    <2>3. CASE stopRuntime
        BY <2>3, <1>t, <2>1, Assemble DEF stopRuntime, TypeOK
    <2>4. CASE CloseDatabase
        BY <2>4, <1>t, <2>1, Assemble DEF CloseDatabase, TypeOK
    <2> QED
        BY <1>8, <2>2, <2>3, <2>4
<1>9. CASE MarketRefreshReturns
    <2>1. Explained(flags')
        BY <1>9, <1>t, ClearedExplained DEF MarketRefreshReturns
    <2>2. Explained(flags)'
        BY <2>1 DEF Explained
    <2>3. cache' \in CacheEntry /\ RowAgesInCache' /\ SeededRowInCache'
        BY <1>9, CacheDropped DEF MarketRefreshReturns, BumpedBySuccess, Bumped
    <2>4. snapshot' \in Snapshot
        BY <1>9, <1>t, FreshRow DEF MarketRefreshReturns, TypeOK
    <2> QED
        BY <1>9, <1>t, <2>2, <2>3, <2>4, Assemble DEF MarketRefreshReturns, TypeOK
<1>10. CASE MarketRefreshThrows
    <2> DEFINE g == recordMarketRefreshFailure(flags)
    <2>1. flags' = g /\ override' = override
        BY <1>10 DEF MarketRefreshThrows
    <2>2. g.completed = flags.completed /\ g.stale /\ g.reason
        BY <1>t, Zenon DEF recordMarketRefreshFailure, RuntimeFlags
    <2>3. Explained(g)
        BY <1>t, ClearedExplained
    <2> HIDE DEF g
    <2>4. policy'.completed = policy.completed /\ (policy.stale => policy'.stale)
        BY <2>1, <2>2, PolicyGrows
    <2>5. snapshot' = Fresh \/ snapshot' = snapshot
        BY <1>10, Zenon DEF MarketRefreshThrows
    <2>6. RowAgesInCache' /\ SeededRowInCache'
        BY <1>10, <1>t, <2>4, CacheKept DEF MarketRefreshThrows
    <2>7. Explained(flags)'
        BY <2>1, <2>3 DEF Explained
    <2>8. snapshot' \in Snapshot
        BY <1>t, <2>5, FreshRow DEF TypeOK
    <2> QED
        BY <1>10, <1>t, <2>6, <2>7, <2>8, Assemble DEF MarketRefreshThrows, TypeOK
<1>11. CASE OtherProcessCommits
    <2>1. /\ Explained(flags)' /\ cache' \in CacheEntry /\ RowAgesInCache' /\ SeededRowInCache'
          /\ override' \in Override
        BY <1>11, ElsewhereKept DEF OtherProcessCommits
    <2> QED
        BY <1>11, <1>t, <2>1, FreshRow, Assemble DEF OtherProcessCommits, TypeOK
<1>12. CASE Tick
    <2>1. cache' \in CacheEntry /\ RowAgesInCache' /\ SeededRowInCache'
        BY <1>12, <1>t, CacheAges
    <2>2. ASSUME NEW n \in 0..TooOld PROVE Older(n) \in 0..TooOld
        BY Constant DEF Older
    <2>3. snapshot' \in Snapshot
        <3>1. snapshot.age \in 0..TooOld /\ snapshot \in Snapshot
            BY <1>t DEF TypeOK, Snapshot
        <3>2. [snapshot EXCEPT !.age = Older(snapshot.age)] \in Snapshot
            BY <2>2, <3>1, Zenon DEF Snapshot
        <3> QED
            BY <1>12, <3>1, <3>2, Zenon DEF Tick
    <2>4. override' \in Override
        <3>1. override.age \in 0..TooOld /\ override \in Override
            BY <1>t DEF TypeOK, Override
        <3>2. [override EXCEPT !.age = Older(override.age)] \in Override
            BY <2>2, <3>1, Zenon DEF Override
        <3> QED
            BY <1>12, <3>1, <3>2, Zenon DEF Tick
    <2>5. Explained(flags)'
        BY <1>12, <1>t DEF Tick, Explained
    <2> QED
        BY <1>12, <1>t, <2>1, <2>3, <2>4, <2>5, Assemble DEF Tick, TypeOK
<1>13. CASE UNCHANGED vars
    <2>1. /\ Explained(flags)' /\ cache' \in CacheEntry /\ RowAgesInCache' /\ SeededRowInCache'
          /\ override' \in Override
        BY <1>13, ElsewhereKept DEF vars
    <2> QED
        BY <1>13, <1>t, <2>1, Assemble DEF vars, TypeOK
<1> QED
    BY <1>1, <1>2, <1>3, <1>4, <1>5, <1>6, <1>7, <1>8, <1>9, <1>10, <1>11, <1>12, <1>13 DEF Next

LEMMA Invariance == Spec => []Inv
BY InitHolds, NextKeeps, PTL DEF Spec

-----------------------------------------------------------------------------
\* The variables keep their types (MarketDataRuntimeState and the private
\* state of the runtime).
THEOREM TypeCorrect == Spec => []TypeOK
<1>1. Inv => TypeOK
    BY DEF Inv
<1> QED
    BY <1>1, Invariance, PTL

\* Whatever sync, refresh, restart or validator did to the flags, stale rows are
\* served after the initial sync only for a recorded reason.
THEOREM StaleExplained == Spec => []StaleServiceExplained
<1>1. Inv => StaleServiceExplained
    BY DEF Inv
<1> QED
    BY <1>1, Invariance, PTL

\* /simple/price never answers from its cache with a row that the policy of the
\* moment forbids, for every freshness threshold and every time in the cache.
THEOREM CachedAllowed == Spec => []CachedAnswersAllowed
<1>1. Inv => CachedAnswersAllowed
    <2> SUFFICES ASSUME Inv PROVE CachedAnswersAllowed
        OBVIOUS
    <2>1. cache.left \in 0..CacheTtl /\ cache.age \in 0..TooOld
        BY DEF Inv, TypeOK, CacheEntry
    <2> QED
        BY <2>1, Constant DEF Inv, RowAgesInCache, SeededRowInCache, CachedAnswersAllowed
<1> QED
    BY <1>1, Invariance, PTL

\* The reason of a start that failed is never lost to diagnostics.
THEOREM FailedStartHasReason == Spec => []FailedStartExplained
<1>1. Inv => FailedStartExplained
    BY Zenon DEF Inv, ReasonOfFailedStart, FailedStartExplained
<1> QED
    BY <1>1, Invariance, PTL

\* Whatever ends the initial sync, a failure or stale service, no answer from
\* before it is served by /simple/price.
THEOREM RecoveriesReach == Spec => RecoveriesReachReaders
<1>1. ASSUME Inv, [Next]_vars, Recovers
      PROVE  ~Served(cache')
    <2>1. ~Served(NoEntry)
        BY DEF Served, NoEntry
    <2>2. flags \in RuntimeFlags
        BY <1>1 DEF Inv, TypeOK
    <2>3. CASE start
        <3>1. \/ flags' = WithResidual(flags, snapshot)
              \/ flags' = recordInitialSyncFailure(flags)
            BY <2>3 DEF start
        <3>2. flags.completed = FALSE /\ Explained(flags)
            BY <1>1, <2>2, <2>3 DEF Inv, NothingBeforeStart, StaleServiceExplained, Explained, start
        <3>3. /\ flags'.completed = flags.completed /\ (flags.stale => flags'.stale)
              /\ flags'.reason = flags.reason \/ flags'.reason = TRUE
            <4>1. CASE flags' = WithResidual(flags, snapshot)
                BY <3>2, <4>1, Residual
            <4>2. CASE flags' = recordInitialSyncFailure(flags)
                <5>1. /\ flags'.completed = flags.completed /\ flags'.stale = flags.stale
                      /\ flags'.reason = TRUE
                    BY <2>2, <4>2, FailureRecorded
                <5> QED
                    BY <5>1, Zenon
            <4> QED
                BY <3>1, <4>1, <4>2
        <3> QED
            BY <1>1, <3>3, Zenon DEF Recovers
    <2>4. CASE InitialSyncCompletes
        <3>1. PICK f : \/ cache' = Bumped
                       \/ SyncFailureHandled(f, snapshot', Bumped)
            BY <2>4, Zenon DEF InitialSyncCompletes
        <3> QED
            BY <2>1, <3>1, Zenon DEF SyncFailureHandled, Bumped
    <2>5. CASE InitialSyncFails
        <3>1. SyncFailureHandled(flags, snapshot', cache)
            BY <2>5, Zenon DEF InitialSyncFails
        <3>2. \/ cache' = NoEntry
              \/ /\ flags'.reason = TRUE
                 /\ flags'.completed = flags.completed /\ flags'.stale = flags.stale
            BY <2>2, <3>1, HandledExplained
        <3> QED
            BY <1>1, <2>1, <3>2, Zenon DEF Recovers
    <2>6. CASE markListenerBound \/ markMarketRuntimeListenerBound
        <3>1. flags' = [flags EXCEPT !.deferred = FALSE]
            BY <2>6, Zenon DEF markListenerBound, markMarketRuntimeListenerBound
        <3>2. /\ flags'.completed = flags.completed /\ flags'.stale = flags.stale
              /\ flags'.reason = flags.reason
            BY <2>2, <3>1, Zenon DEF RuntimeFlags
        <3> QED
            BY <1>1, <3>2, Zenon DEF Recovers
    <2>7. CASE \E mode \in Modes : DegradedStatePosted(mode)
        BY <2>1, <2>7, Zenon DEF DegradedStatePosted, Bumped
    <2>8. CASE MarketRefreshReturns
        BY <2>1, <2>8, Zenon DEF MarketRefreshReturns, BumpedBySuccess, Bumped
    <2>9. CASE MarketRefreshThrows
        <3>1. /\ flags'.completed = flags.completed
              /\ flags'.stale = TRUE /\ flags'.reason = TRUE
            BY <2>2, <2>9, Zenon DEF MarketRefreshThrows, recordMarketRefreshFailure, RuntimeFlags
        <3> QED
            BY <1>1, <3>1, Zenon DEF Recovers
    <2>10. CASE \/ CurrencyRatesFetched \/ SimplePriceRequested \/ MarketRefreshBegins
                \/ OtherProcessCommits \/ stopRuntime \/ CloseDatabase \/ Tick
                \/ UNCHANGED vars
        <3>1. flags' = flags
            BY <2>10 DEF CurrencyRatesFetched, SimplePriceRequested, MarketRefreshBegins,
                OtherProcessCommits, stopRuntime, CloseDatabase, Tick, vars
        <3> QED
            BY <1>1, <3>1, Zenon DEF Recovers
    <2> QED
        BY <1>1, <2>3, <2>4, <2>5, <2>6, <2>7, <2>8, <2>9, <2>10, Zenon DEF Next
<1>2. Inv /\ [Next]_vars => [Recovers => ~Served(cache')]_vars
    BY <1>1
<1> QED
    BY <1>2, Invariance, PTL DEF Spec, RecoveriesReachReaders

\* stop() is final, wherever the startup task and the listener had come.
THEOREM StopIsFinal == Spec => NothingStartsAfterStop
<1>1. ASSUME Inv, [Next]_vars, stop # "up"
      PROVE  (serving' => serving) /\ (job' = "running" => job = "running")
    <2>1. ~serving
        BY <1>1 DEF Inv, StoppedSchedulesNothing
    <2>2. CASE CurrencyRatesFetched
        BY <1>1, <2>2 DEF CurrencyRatesFetched, MaySchedule
    <2>3. CASE InitialSyncCompletes \/ InitialSyncFails \/ start \/ SimplePriceRequested \/ Tick
        BY <2>3 DEF InitialSyncCompletes, InitialSyncFails, start, SimplePriceRequested, Tick
    <2>4. CASE \E mode \in Modes : DegradedStatePosted(mode)
        BY <2>4 DEF DegradedStatePosted
    <2>5. CASE MarketRefreshBegins \/ MarketRefreshReturns \/ MarketRefreshThrows
        BY <2>1, <2>5 DEF MarketRefreshBegins, MarketRefreshReturns, MarketRefreshThrows
    <2>6. CASE markListenerBound \/ markMarketRuntimeListenerBound
        BY <1>1, <2>6 DEF markListenerBound, markMarketRuntimeListenerBound
    <2>7. CASE OtherProcessCommits \/ stopRuntime \/ CloseDatabase \/ UNCHANGED vars
        BY <2>7 DEF OtherProcessCommits, stopRuntime, CloseDatabase, vars
    <2> QED
        BY <1>1, <2>2, <2>3, <2>4, <2>5, <2>6, <2>7, Zenon DEF Next
<1>2. Inv /\ [Next]_vars =>
        [stop # "up" => /\ serving' => serving
                        /\ job' = "running" => job = "running"]_vars
    BY <1>1
<1> QED
    BY <1>2, Invariance, PTL DEF Spec, NothingStartsAfterStop
=============================================================================
