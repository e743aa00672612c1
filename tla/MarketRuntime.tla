------------------------------ MODULE MarketRuntime ------------------------------
(***************************************************************************)
(* The life of an API process with background jobs.  The market runtime    *)
(* (services/market-runtime.ts) works on the flags of                      *)
(* services/market-runtime-state.ts, beside the server (app.ts, server.ts),*)
(* the stored market snapshot, and the hot route /simple/price with its    *)
(* response cache.  An action is the code between two awaits that wait for *)
(* I/O; one snapshot and one query are kept.                               *)
(***************************************************************************)
EXTENDS SnapshotPolicy

CONSTANTS
    CacheTtl,   \* SIMPLE_PRICE_CACHE_TTL_MS
    Modes       \* what the degraded_state route of a validator is asked for

ASSUME RuntimeAssumption == CacheTtl \in Nat \ {0} /\ Modes \subseteq Mode

VARIABLES
    flags,      \* MarketDataRuntimeState but for its provider fields
    override,   \* its validationOverride
    startup,    \* the startup task
    pending,    \* listenerBoundDeferredMarketRefreshPending
    listener,
    serving,    \* the scheduler is started
    job,        \* market-refresh, which every process schedules
    stop,       \* the progress of onClose
    snapshot,   \* the row of market_snapshots
    cache       \* the entry of the query in simplePriceCache

vars == <<flags, override, startup, pending, listener, serving, job, stop, snapshot, cache>>

-----------------------------------------------------------------------------
\* MarketDataRuntimeState

createMarketDataRuntimeState ==
    [completed |-> FALSE, deferred |-> FALSE, zeroLive |-> FALSE, stale |-> FALSE,
     reason |-> FALSE]

clearRecoveredMarketRuntimeDegradation(f) ==
    [f EXCEPT !.reason = FALSE, !.stale = FALSE, !.deferred = FALSE]

completeInitialMarketSync(f) ==
    IF f.zeroLive
    THEN [f EXCEPT !.completed = TRUE, !.deferred = FALSE, !.reason = f.stale]
    ELSE [clearRecoveredMarketRuntimeDegradation(f) EXCEPT !.completed = TRUE, !.deferred = TRUE]

\* Mutant: the reason of the fallback is forgotten.
recordMarketRefreshFailureSilent(f) == [f EXCEPT !.stale = TRUE]

recordMarketRefreshFailure(f) == [f EXCEPT !.reason = TRUE, !.stale = TRUE]

recordMarketRefreshSuccess(f) ==
    clearRecoveredMarketRuntimeDegradation([f EXCEPT !.zeroLive = FALSE])

recordValidationRuntimeOverride(f, mode) ==
    LET zero == mode = "zero_live_completed_boot"
    IN  [f EXCEPT !.completed = zero \/ (@ /\ mode \notin {"seeded_bootstrap", "degraded_seeded_bootstrap"}),
                  !.zeroLive = zero,
                  !.stale = @ /\ ~zero]

\* Mutant: a failure after the sync is taken for none of the sync's.
recordInitialSyncFailureOnce(f) == [f EXCEPT !.reason = @ \/ ~f.completed]

recordInitialSyncFailure(f) == [f EXCEPT !.reason = TRUE]

shouldDeferListenerBoundRefreshAfterBootstrap(f) == ~f.zeroLive /\ ~f.stale

policy == getSnapshotAccessPolicy(override.mode, flags.completed, flags.stale)

\* enableResidualStaleDataIfAvailable, when it returns: a closed database is
\* forgiven.  Any other error of the read is thrown on (start, SyncFailureHandled).
WithResidual(f, row) == [f EXCEPT !.stale = @ \/ (stop # "closed" /\ row.kind # "none")]

-----------------------------------------------------------------------------
\* services/response-cache.ts.  An entry of an earlier revision, or past its
\* expiry, is never served again and is kept as no entry.
NoEntry == [left |-> 0, shows |-> "none", age |-> 0]

\* bumpMarketDataRevision
Bumped == NoEntry

Served(e) == e.left > 0

\* Mutant: the entry is still served at the instant it expires.
AnswerKeptLonger ==
    LET s == getEffectiveSnapshot(snapshot, override)
        shown == getUsableSnapshot(s, policy)
    IN  [left |-> CacheTtl + 1, shows |-> IF shown THEN s.kind ELSE "none",
         age |-> IF shown THEN s.age ELSE 0]

\* What buildSimplePayload makes of the row.
Answer ==
    LET s == getEffectiveSnapshot(snapshot, override)
        shown == getUsableSnapshot(s, policy)
    IN  [left |-> CacheTtl, shows |-> IF shown THEN s.kind ELSE "none",
         age |-> IF shown THEN s.age ELSE 0]

Init ==
    /\ flags = createMarketDataRuntimeState
    /\ override = [mode |-> "off", age |-> 0]
    /\ startup = "new" /\ pending = FALSE /\ listener = "none"
    /\ serving = FALSE /\ job = "idle" /\ stop = "up"
    /\ snapshot \in Snapshot /\ (snapshot.kind = "none" => snapshot.age = 0)
    /\ cache = NoEntry

-----------------------------------------------------------------------------
\* buildApp calls start() once.  When the stored rows cannot be read no startup
\* task is made, and buildApp records the error.
start ==
    /\ startup = "new"
    /\ \/ startup' = "syncing" /\ flags' = WithResidual(flags, snapshot)
       \/ startup' = "failed" /\ flags' = recordInitialSyncFailure(flags)
    /\ UNCHANGED <<override, pending, listener, serving, job, stop, snapshot, cache>>

Fresh == [kind |-> "live", age |-> 0]

\* Mutant: a failed sync ends the task.
AfterSyncUnlessFailed ==
    startup' = IF stop # "up" \/ flags'.reason THEN "ended" ELSE "currency"

\* The code after a sync, whichever way it ended: nothing once stop() was
\* called, else runNow('currency-rates').
AfterSync == startup' = IF stop # "up" THEN "ended" ELSE "currency"

\* The catch of the startup task: the stored rows become the fallback; or they
\* cannot be read, the error is thrown on and the task is rejected as it stands.
SyncFailureHandled(f, row, kept) ==
    \/ /\ flags' = WithResidual(recordInitialSyncFailure(f), row)
       /\ cache' = Bumped
       /\ AfterSync
    \/ /\ stop # "closed"
       /\ flags' = recordInitialSyncFailure(f)
       /\ cache' = kept
       /\ startup' = "rejected"

\* runInitialMarketSync returns: its refresh may have committed, and the rows
\* may count as fresh live ones.  Then the reference data is seeded, which may
\* throw.
InitialSyncCompletes ==
    /\ startup = "syncing"
    /\ stop # "closed"
    /\ \E committed, live \in BOOLEAN :
          LET f == completeInitialMarketSync([flags EXCEPT !.zeroLive = ~live])
          IN  /\ snapshot' = IF committed THEN Fresh ELSE snapshot
              /\ live => snapshot'.kind = "live"
              /\ \/ flags' = f /\ cache' = Bumped /\ AfterSync
                 \/ SyncFailureHandled(f, snapshot', Bumped)
    /\ UNCHANGED <<override, pending, listener, serving, job, stop>>

\* It throws, at worst when it gives the work lease back after the commit.
InitialSyncFails ==
    /\ startup = "syncing"
    /\ \E committed \in BOOLEAN :
          /\ committed => stop # "closed"
          /\ snapshot' = IF committed THEN Fresh ELSE snapshot
          /\ SyncFailureHandled(flags, snapshot', cache)
    /\ UNCHANGED <<override, pending, listener, serving, job, stop>>

\* Mutant: a stop() that came while the currency rates were fetched is missed.
MayScheduleAlways == TRUE

MaySchedule == stop = "up"

\* The awaited run is over: the refresh is deferred, the schedulers start.
CurrencyRatesFetched ==
    /\ startup = "currency"
    /\ pending' = shouldDeferListenerBoundRefreshAfterBootstrap(flags)
    /\ startup' = IF MaySchedule THEN "running" ELSE "ended"
    /\ serving' = (serving \/ MaySchedule)
    /\ UNCHANGED <<flags, override, listener, job, stop, snapshot, cache>>

-----------------------------------------------------------------------------
\* The hook onListen.  The prewarm it may start sends requests.
markListenerBound ==
    /\ listener = "none" /\ startup # "new" /\ stop = "up"
    /\ listener' = "bound"
    /\ flags' = [flags EXCEPT !.deferred = FALSE]
    /\ pending' = FALSE
    /\ job' = IF pending THEN "running" ELSE job
    /\ UNCHANGED <<override, startup, serving, stop, snapshot, cache>>

\* server.ts marks the flags once more when listen() has returned.
markMarketRuntimeListenerBound ==
    /\ listener = "bound" /\ stop = "up"
    /\ listener' = "announced"
    /\ flags' = [flags EXCEPT !.deferred = FALSE]
    /\ UNCHANGED <<override, startup, pending, serving, job, stop, snapshot, cache>>

SimplePriceRequested ==
    /\ listener # "none" /\ stop = "up"
    /\ ~Served(cache)
    /\ cache' = Answer
    /\ UNCHANGED <<flags, override, startup, pending, listener, serving, job, stop, snapshot>>

DegradedStatePosted(mode) ==
    /\ listener # "none" /\ stop = "up"
    /\ override' = [mode |-> mode, age |-> 0]
    /\ flags' = recordValidationRuntimeOverride(flags, mode)
    /\ cache' = Bumped
    /\ UNCHANGED <<startup, pending, listener, serving, job, stop, snapshot>>

-----------------------------------------------------------------------------
MarketRefreshBegins ==
    /\ serving /\ job = "idle"
    /\ job' = "running"
    /\ UNCHANGED <<flags, override, startup, pending, listener, serving, stop, snapshot, cache>>

\* Mutant: a success advances the revision only when there are live rows again.
BumpedBySuccessUnlessLive(f) == IF f.zeroLive THEN Bumped ELSE cache

\* recordMarketRefreshSuccess advances the revision.
BumpedBySuccess(f) == Bumped

\* The refresh has committed, or has been skipped.
MarketRefreshReturns ==
    /\ job = "running" /\ stop # "closed"
    /\ job' = "idle"
    /\ \E committed \in BOOLEAN : snapshot' = IF committed THEN Fresh ELSE snapshot
    /\ flags' = recordMarketRefreshSuccess(flags)
    /\ cache' = BumpedBySuccess(flags)
    /\ UNCHANGED <<override, startup, pending, listener, serving, stop>>

\* At worst it has committed and could not give the work lease back.
MarketRefreshThrows ==
    /\ job = "running"
    /\ job' = "idle"
    /\ \E committed \in BOOLEAN :
          /\ committed => stop # "closed"
          /\ snapshot' = IF committed THEN Fresh ELSE snapshot
    /\ flags' = recordMarketRefreshFailure(flags)
    /\ UNCHANGED <<override, startup, pending, listener, serving, stop, cache>>

\* The command, or another API process on the same file, commits.
OtherProcessCommits ==
    /\ snapshot' = Fresh
    /\ UNCHANGED <<flags, override, startup, pending, listener, serving, job, stop, cache>>

-----------------------------------------------------------------------------
\* onClose: the runtime is stopped ...
stopRuntime ==
    /\ stop = "up" /\ startup # "new"
    /\ stop' = "stopping"
    /\ serving' = FALSE
    /\ UNCHANGED <<flags, override, startup, pending, listener, job, snapshot, cache>>

\* ... and when the wait for the jobs is over or has timed out, the database
\* is closed, unless the startup task was rejected: stop() awaits it and throws.
CloseDatabase ==
    /\ stop = "stopping" /\ startup # "rejected"
    /\ stop' = "closed"
    /\ UNCHANGED <<flags, override, startup, pending, listener, serving, job, snapshot, cache>>

Older(n) == IF n < TooOld THEN n + 1 ELSE n

Tick ==
    /\ snapshot' = IF snapshot.kind = "none" THEN snapshot
                   ELSE [snapshot EXCEPT !.age = Older(@)]
    /\ override' = IF override.mode = "off" THEN override
                   ELSE [override EXCEPT !.age = Older(@)]
    /\ cache' = IF cache.left <= 1 THEN NoEntry
                ELSE [cache EXCEPT !.left = @ - 1,
                                   !.age = IF cache.shows = "none" THEN 0 ELSE Older(@)]
    /\ UNCHANGED <<flags, startup, pending, listener, serving, job, stop>>

Next ==
    \/ start \/ InitialSyncCompletes \/ InitialSyncFails \/ CurrencyRatesFetched
    \/ markListenerBound \/ markMarketRuntimeListenerBound \/ SimplePriceRequested
    \/ \E mode \in Modes : DegradedStatePosted(mode)
    \/ MarketRefreshBegins \/ MarketRefreshReturns \/ MarketRefreshThrows
    \/ OtherProcessCommits
    \/ stopRuntime \/ CloseDatabase \/ Tick

Spec == Init /\ [][Next]_vars

\* The network calls of the startup end, by their own timeouts.
FairSpec ==
    /\ Spec
    /\ WF_vars(start)
    /\ WF_vars(InitialSyncCompletes \/ InitialSyncFails)
    /\ WF_vars(CurrencyRatesFetched)

-----------------------------------------------------------------------------
RuntimeFlags ==
    [completed : BOOLEAN, deferred : BOOLEAN, zeroLive : BOOLEAN, stale : BOOLEAN,
     reason : BOOLEAN]

CacheEntry ==
    [left : 0..CacheTtl, shows : {"none", "seeded", "live"}, age : 0..TooOld]

TypeOK ==
    /\ flags \in RuntimeFlags
    /\ override \in Override
    /\ startup \in {"new", "syncing", "failed", "rejected", "currency", "running", "ended"}
    /\ pending \in BOOLEAN
    /\ listener \in {"none", "bound", "announced"}
    /\ serving \in BOOLEAN
    /\ job \in {"idle", "running"}
    /\ stop \in {"up", "stopping", "closed"}
    /\ snapshot \in Snapshot
    /\ cache \in CacheEntry

\* Once stop() was called the schedulers are not started and no refresh begins,
\* however far the startup task and the listener had come.
NothingStartsAfterStop == [][stop # "up" =>
    /\ serving' => serving
    /\ job' = "running" => job = "running"]_vars

\* Stale rows are never served after the initial sync without a recorded
\* reason for it.
StaleServiceExplained ==
    flags.completed /\ flags.stale => flags.reason

\* Whatever the flags and the stored row went through, an answer from the cache
\* shows a seeded row only before the initial sync is over, and a live one at
\* most its time in the cache beyond the threshold, unless stale rows are allowed.
CachedAnswersAllowed ==
    /\ cache.shows = "seeded" => ~policy.completed
    /\ cache.shows = "live" => cache.age < Threshold + CacheTtl \/ policy.stale

\* .factory/library/runtime.md asks that any transition of the runtime state
\* which changes what hot routes may show advance the revision: when one makes
\* the row as it is stored visible or hides it, no older answer is served.  A
\* failed refresh turns stale service on without advancing it.
VisibilityAdvancesRevision ==
    [][/\ flags' # flags \/ override'.mode # override.mode
       /\ Answer.shows' # Answer.shows /\ snapshot' = snapshot
       => ~Served(cache')]_vars

Recovers ==
    \/ flags.reason /\ ~flags'.reason
    \/ flags.stale /\ ~flags'.stale
    \/ ~flags.completed /\ flags'.completed

\* When the initial sync is over, a failure is forgotten or stale service ends,
\* whichever of sync, refresh and validator did it and in whichever state the
\* flags were, no answer from before it is served any more.
RecoveriesReachReaders == [][Recovers => ~Served(cache')]_vars

FailedStart == startup \in {"failed", "rejected"}

\* A process whose start ended for good with an error, before the initial sync,
\* in it or after it, never loses the reason that diagnostics give for it.
FailedStartExplained == FailedStart => flags.reason

\* However the initial sync ends, the schedulers start, unless the process stops
\* or the rows to fall back on cannot be read either; then the reason is given.
SchedulersStart ==
    startup = "new" ~> serving \/ stop # "up" \/ (FailedStart /\ flags.reason)
=============================================================================
