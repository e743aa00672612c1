# OpenGecko: a TLA+ model of the background data plane

OpenGecko is a CoinGecko-compatible HTTP API over SQLite. A Fastify process
serves requests and, in the same process, an in-memory scheduler keeps the data
fresh from exchanges (CCXT) and other providers. A second process
(`src/src/jobs/run-ohlcv-worker.ts`) may run the OHLCV worker on the same SQLite file.
What can go wrong lies in the background data plane: several processes and
callbacks interleave on one database, processes crash, exchanges answer late,
partially or not at all. That is what these modules model; paths below are
relative to `src/src/`.

## Inventory

| Component | State | Operations | Talks to | Hard because |
| --- | --- | --- | --- | --- |
| OHLCV worker (`services/ohlcv-runtime.ts`, `ohlcv-worker-state.ts`, `ohlcv-sync.ts`, `ohlcv-priority.ts`) | table `ohlcv_sync_targets`: status, cursors, retry and lease columns | refresh targets, lease one, fetch recent window, deepen history, settle success or failure | candle store, exchanges, `market_snapshots` ranks | several processes lease rows by conditional UPDATE; holders hang, crash, come back after their lease was recovered |
| Scheduling policy (`services/ohlcv-scheduling-policy.ts`) | none | eligibility, expiry, the order of targets, cursor arithmetic | OHLCV worker | boundaries, null columns, lexicographic order |
| Candle store (`services/candle-store.ts`, `ohlcv-backfill.ts`) | table `ohlcv_candles` | upsert, gap detection and repair, retention | OHLCV worker, chart routes | writers of one series interleave, exchanges leave holes |
| Unified job scheduler (`services/job-scheduler.ts`) | per job: timer, in-flight promise, error count, next eligible time | register, start, runNow, stop | every background job | ticks overlap runs, back-off, runs outlive a bounded stop |
| SQLite coordination (`db/sqlite-coordination.ts`) | work leases, refresh revisions, process heartbeats | acquire, release, record, heartbeat | market refresh, both processes | expiry against a slow holder, crash between steps |
| Market refresh (`services/market-refresh.ts`) | snapshots, tickers, cooldown, breakers | one refresh under a work lease | providers, coordination, runtime state | every step may fail; the lease is not renewed |
| Market runtime (`services/market-runtime.ts`, `market-runtime-state.ts`, `app.ts`, `server.ts`) | start-up task, readiness, phase flags, hot-data revision | start, listener bound, stop | scheduler, response cache, routes | the listener binds while the initial sync runs; stop during start |
| Provider breaker and fan-out (`services/provider-breaker.ts`, `provider-readiness-coordinator.ts`) | closed, open, half-open per provider; in-flight attempts | check, success, failure; budgeted fan-out | market refresh, initial sync | late answers after the budget, probes in parallel |
| Response cache (`services/response-cache.ts`) | entries with revision and expiry, in-flight producers | getFresh, getOrSet, set, evict | hot routes | coalescing, late producers of old revisions |
| Optional provider jobs (`services/optional-provider-*.ts`) | persisted run records | scheduled passes, record outcome | ingestion syncs | a crash leaves a record `running` |
| Initial sync (`services/initial-sync.ts`, `coin-catalog-sync.ts`, `chain-catalog-sync.ts`) | catalog tables, report of the exchanges | metadata, coins, chains, a refresh, a rescue refresh, the count of what is fresh | providers, market refresh | each step may fail or be overtaken by its budget |
| Bootstrap (`services/bootstrap.ts`, `db/seeds.ts`) | the database files in `data/` | check, remove, rebuild from a fixture, import | main process on the same files | crashes between statements, files removed while open |
| Quotes of a refresh (`services/market-ingestion-acceptance-plan.ts`, `market-snapshots.ts`) | quotes, snapshots, tickers, volumes of one transaction | accept, agree, merge evidence, write | market refresh, supply and history rows | one sample must count everywhere or nowhere |
| Hot routes (`modules/coins/*`, `modules/simple.ts`, `modules/market-freshness.ts`) | cache of `/coins/markets` | list, page, convert, movers | rows of the refresh, closes, rates, runtime state | stale reads across transitions, rows without ranks or volumes |
| Charts and histories (`services/market-chart-*.ts`, `history-backfill-planner.ts`, `modules/coins/charts.ts`) | source points by provider and kind | plan, sync, replay, retain, sample | providers, candle store | replays out of order, partial answers, sparse rows |
| Spot exchanges (`modules/exchange*.ts`, `services/exchange-volume-*.ts`) | volume points, tickers of coins | volume pass, refresh, lists | providers, market refresh | two writers of one chart, aliases, one pair claimed twice |
| Derivatives (`services/derivatives-*.ts`, `modules/derivatives.ts`) | tickers, figures of venues, refresh states | pass over venues, sums, retention, lists | providers, seeds | rows and sums are separate statements |
| Treasuries (`services/treasury-*.ts`, `modules/treasury.ts`) | entities, documents, holdings, transactions | sweep, retention, lists, charts | replay files, prices | four writes per disclosure, labels by document |
| On-chain pools (`services/tier1-onchain-sweepers.ts`, `modules/onchain/*`) | pools, dexes, the live catalog in flight | two sweeps, shared catalog, lists | DefiLlama, breaker | requests share an answer made for another |
| On-chain series (`modules/onchain/trades.ts`, `tokens.ts`, `services/onchain-*-ingestion.ts`) | trades, candles, holder tables | sweep, imports, live trades, candles | Subsquid, fixtures | trades in any order, fixtures beside real rows |
| Source-backed ingestion (`services/*-ingestion.ts`, `*-sync.ts`, `snapshot-retention.ts`) | source tables | fetch, replace, sweep | providers | one target of several fails, age boundaries |
| Currency rates (`services/currency-rates.ts`) | in-memory snapshot with a generation | refresh, reset | conversion routes | concurrent refreshes |
| HTTP surface, diagnostics, configuration, schema, providers, search index, comparison tooling | none of their own | parse, read, format | all | not modelled: pure reading, formatting or I/O |

What makes each component correct:

- **OHLCV worker**: a target is granted only when nobody holds it; only its holder
  ends a lease that is in force; an abandoned target is recovered; cursors never
  move back and always name stored candles, whoever crashed or came back late.
- **Job scheduler**: one run of a job at a time; a failing job is retried, not before
  its back-off; nothing starts after `stop()`; `stop()` returns although a run hangs.
- **SQLite coordination and market refresh**: one process refreshes at a time; a failed
  refresh leaves no half-written snapshot; revisions only grow; a crash does not
  block the next refresh for ever.
- **Market runtime**: no job runs after shutdown; a refresh deferred to the listener
  is not lost; every transition that changes what hot routes may serve advances the
  hot-data revision (a failed refresh does not, see `runtime_revision`); a start that failed
  says why.
- **Breaker and fan-out**: the concurrency bound holds; an answer that came in time is
  kept; an open breaker closes again once its provider recovers.
- **Initial sync and bootstrap**: the sync ends whatever providers do, its rescue is not
  refused by the failures that made it necessary, and old rows are not reported as new;
  a boot imports from whole files only and loses no live row of its own.
- **Quotes**: a minority of the samples cannot move a price; all rows of a refresh tell
  of the same samples.
- **Hot routes**: routes asked at once agree on a price; pages have each coin once; a
  cached list is the one that would be made anew.
- **Charts, exchanges, derivatives, treasuries, on-chain**: of one instant one row is
  shown, the best there is; sums are of rows that exist; labels (live, replay, fixture)
  say what is shown; lists have every row that is due once.
- **Response cache**: a reader of revision r gets an answer of revision r; one producer
  per key and revision; the cache never exceeds its limit.
- **Optional provider jobs**: a recorded success has its rows in the database; no row goes
  before its retention horizon; the registry and the stored record agree; a record left
  `running` is settled by a later pass.

## Plan

In order of importance:

1. `OhlcvSchedulingPolicy` and `OhlcvRuntime`, proofs in `OhlcvRuntimeProofs`.
2. `JobScheduler`, which implements the abstract `SchedulerContract`; `JobSchedulerProofs`.
3. `MarketRefresh`, which composes the work lease, the revisions and the persisting
   transaction with `ProviderBreaker`; `MarketRefreshProofs`.
4. `MarketRuntime`, which composes the start-up task, the listener, the market-refresh job,
   shutdown and one cached hot route with `SnapshotPolicy`; `MarketRuntimeProofs`.
5. `OptionalProviderSync`: the source-backed syncs and their retention, as the optional
   scheduler and the commands run them; `OptionalProviderSyncProofs`.
6. `InitialSync`, which composes `ProviderFanout` and `ProviderBreaker`, and `Bootstrap`;
   `InitialSyncProofs`.
7. What is made of rows: `MarketQuotes`, `MarketAnswers` (on `SnapshotPolicy`),
   `ChartHistory`, `Exchanges` and `OnchainPools` (both on `RowOrder`, the latter on
   `ProviderBreaker` too), `DerivativeVenues`, `Treasuries`, `OnchainSeries`, all composed
   with `Bootstrap` in `DataPlane`; `DataPlaneProofs`, `ListsAndChartsProofs`.

Left: a proof of `SeriesTrue`, as far as it is in reach; the readiness flow of a process
without background jobs; the eviction of the response cache;
retention and one-shot backfill of candles; the generation guard of the currency rates;
process heartbeats; the search index.

## Modules

The modules share three conventions. An action is one SQL statement or transaction, or the
code between two awaits when it runs none, so whatever two processes or two callbacks can
interleave is interleaved. Where only distances between instants matter, an instant is
kept as the ticks left until it or passed since it, so those models need no bound on
time. Logging, counters and texts that only diagnostics read are left out. Each module has
an `MC` module with the constants of its instances (those of rows and answers share one;
`MCRecovery` puts the leases of `OhlcvRuntime` beside the records of `OptionalProviderSync`,
as the topics of one run), and
the definitions marked *Mutant* are plausible bugs: put in the place of the definition they
follow, each one breaks a property.

### `OhlcvSchedulingPolicy`

The pure functions of `services/ohlcv-scheduling-policy.ts`, each an operator of the same
name over a row and the instant of the tick. The chain of comparisons of
`compareOhlcvLeaseTargets` is a lexicographic comparison of rank tuples. Two numbers of the
code are constants: `LeaseTtl` (ten minutes) and `MinuteFresh`, `Day` (freshness windows).
`NULL` is `NoTime`.

### `OhlcvRuntime`

| State | Code |
| --- | --- |
| `now` | the wall clock, one for all processes of the host |
| `targets` | rows of `ohlcv_sync_targets`; status `"absent"` is a row not inserted yet |
| `candles` | per series (coin and interval), the instants of the canonical rows of `ohlcv_candles` |
| `topCoins` | coins ranked 100 or better in `market_snapshots` |
| `tokens` | lease tokens drawn; `randomUUID()` is a counter, it never repeats |
| `job[w]` | the locals of the tick process `w` has in flight |

`StartTick` (reads the clock once for the whole tick), `upsertOhlcvSyncTargets`,
`refreshOhlcvPriorityTiers`, `SelectCandidates`, `LeaseTarget` or `LeaseRaceLost` (the
conditional UPDATE), `ReadLease` (a statement of its own), `FetchCandles`, `SkipDeepen`,
`CheckLease` and `WriteCandle` (two statements per candle), `FetchGap` (one pass of the gap
repair), `FinishRecent`, `FinishDeepen`, `SyncFails`, `markOhlcvTargetSuccess`,
`markOhlcvTargetFailure`. The environment: `Advance` (time), `Crash` (the process dies;
only the database survives), `RanksChange` (a market refresh moves the ranks).
An exchange may answer with any subset of the window asked for, up to the limit,
or fail. Prices are left out: no decision of the worker reads one.

Statements merged into one action: the inserts of one upsert batch, and the
read of `failure_count` with the UPDATE after it (the module says why).

### `SchedulerContract` and `JobScheduler`

`services/job-scheduler.ts`. The contract knows two things, whether the scheduler is
`serving` (between `start()` and `stop()`) and how many `runs` each job has: never two, and
none begun while not serving. `KeepsContract` is the refinement.

| State | Code |
| --- | --- |
| `jobs[j]` | `SchedulerJobState`: `timer` (ticks to the next), `inFlight`, `errorCount`, `wait` (until `nextEligibleAtMs`), `stopped`; `runs` and `sinceFailure` are history |
| `started` | `started` |
| `stop` | the last `stop()`: waiting or not, its time left, the runs it waits for |

`register` (also after `start()`, by a request), `start`, `runNow`, `TimerFires`,
`RunSucceeds`, `RunFails` (back-off with its jitter), `stopJobs` and `StopReturns` (the
two sides of the await in `stop()`), `Tick`. `inFlight` is what the code looks at and `runs`
what really runs, so an overlap shows.

### `ProviderBreaker` and `MarketRefresh`

`services/provider-breaker.ts` as operators over one entry, `runMarketRefreshOnce` of
`services/market-refresh.ts` as the market-refresh job and the command run it, and the
leases and revisions of `db/sqlite-coordination.ts`.

| State | Code |
| --- | --- |
| `lease` | the `market_refresh` row of the work leases; its holder stands for the token, `Lost` for one whose refresh is gone |
| `revision` | its row of the refresh revisions: number and status |
| `runtime[p]` | per process: the cooldown, the breakers, the validator's forced failure |
| `refresh[p]` | the refresh in flight: where it is, the exchanges it attempts, its age |

`CooldownSkips`, `acquireSqliteWorkLease`, `LeaseNotAcquired` (held, or the database locked);
`CatalogSynced`, `CatalogFails`; `TickersFetched` (any exchanges fail; breakers, cooldown);
`PersistCommits`, `PersistRollsBack`; `ReadRevision` and `RecordFailed` or `RecordFails`, the
two statements that record a failure; `releaseSqliteWorkLease`, `ReleaseFails`. Around
them `recordForcedProviderFailure`, `Crash`, `Restart`, `Tick`. The row's `lease_owner` is
redundant with its token.

### `SnapshotPolicy` and `MarketRuntime`

`modules/market-freshness.ts` as operators (which snapshot may a hot route show), and the
life of an API process with background jobs: `services/market-runtime.ts`,
`market-runtime-state.ts`, `app.ts`, `server.ts`, `modules/simple.ts`, `response-cache.ts`.

| State | Code |
| --- | --- |
| `flags` | `MarketDataRuntimeState`: initial sync completed, bind deferred, zero live boot, stale service allowed, a reason recorded |
| `override` | `validationOverride` and the age of its timestamp |
| `startup` | the start-up task: syncing, fetching currency rates, running, ended; failed before it was made, or rejected |
| `pending` | `listenerBoundDeferredMarketRefreshPending` |
| `listener` | not bound, bound (`onListen`), announced (`listen()` returned) |
| `serving`, `job` | the scheduler is started; the market-refresh job runs |
| `stop` | up, `stop()` called, database closed |
| `snapshot` | one row of `market_snapshots`: none, seeded or live, and its age |
| `cache` | the entry of one query in `simplePriceCache`: what it shows, the age of that row, the time it has left |

`start`, `InitialSyncCompletes`, `InitialSyncFails`, `CurrencyRatesFetched`,
`markListenerBound`, `markMarketRuntimeListenerBound`, `SimplePriceRequested`,
`DegradedStatePosted`, `MarketRefreshBegins`, `MarketRefreshReturns`, `MarketRefreshThrows`,
`OtherProcessCommits`, `stopRuntime`, `CloseDatabase`, `Tick`. An initial sync or a refresh
that throws may have committed first: `MarketRefresh` shows that the release after the commit
can fail. A cache entry of an older revision is never served again, so it is kept as no entry.
Whether stored rows can stand in is read from the database, and that read fails too: before the
task is made it ends `start`, whose error `buildApp` records; in the catch of the task
(`SyncFailureHandled`, of both ways the sync ends) it rejects the task, before the revision is
advanced and before any scheduler starts. `server.ts` logs such a rejection and goes on.

### `OptionalProviderSync`

`services/optional-provider-scheduler.ts`, `optional-provider-job-runs.ts`, the six syncs it
schedules, the commands `jobs/sync-*.ts` and `services/snapshot-retention.ts`.

| State | Code |
| --- | --- |
| `rows` | the source rows, as the age of `sourceFetchedAt` |
| `records` | `optional_provider_job_runs`: status, who wrote it, and, as history, the rows a success counted |
| `registry` | the in-memory registry of the API process |
| `run[p]` | the run in progress: the jobs of the pass that are left, the targets, the rows of the answer in hand |
| `mode` | the API process is up, stopping or down |

`PassBegins`, `CommandStarts`, `RecordRunning`, `TargetAnswers`, `TargetFails`,
`TargetMalformed`, `WriteRow`, `Prune`, `RecordSuccess`, `RecordFailure`, each write with
its failing twin (`...Fails`); `stop`, `ApiEnds`, `ApiStarts`, `CommandCrashes`, `Tick`. Every
sync dates its rows and its cutoff with the instant it began; that is why a row of a slow
run is written old, and why a sweep may be one run late.

### `ProviderFanout` and `InitialSync`

`services/provider-readiness-coordinator.ts` as operators over the record of one fan-out:
`startNext` fills free slots in order, an answer settles its item and makes room, a budget
that expires gives what runs a timeout and what never started a skip.
`runInitialMarketSync` goes through its steps with it: `MetadataSynced`, `CoinsSynced`,
`ChainsSynced`, then the market refresh (`RefreshBegins` with its early returns,
`CatalogSynced`, `TickersFetched`, `Persisted`, `RefreshFails`), `StartRescue`, `Count`.
`StatementFails` ends the sync outside the refresh. `db` keeps of tickers and snapshots
whether there are none, residual or fresh ones. Around it `Tick`,
`recordForcedProviderFailure` and `OtherProcess`, which may hold the lease and commit.

### `Bootstrap`

| State | Code |
| --- | --- |
| `disk` | per file of `data/`: absent, corrupt, without or with tables; its coins with live snapshots, whether it has a whole corpus, its chart points |
| `boot` | the boot under way: its stage, the files it has to make whole, whether it still holds its own, what it imported, and the runtime state it leaves |
| `main` | the main server: attached to its file, or orphaned when the file was removed under it |

`Start`, `CheckCorpus`, `BuildCorpus` or `BuildOverOld`, `AddSnapshots`, `AddTickers`,
`resolveBootstrapSnapshotAccessMode`, `OpenDatabase`, `resolvePersistentSnapshotDatabaseUrl`,
`SeedRuntime` or `RunInitialSync`, `Finish`; `Ends` (crash, close), `PowerLoss`, `MainPersists`.

### What is made of rows

Each of these modules has the writers of its tables as actions, one per statement or
transaction, and the routes as operators of the source's names over the state; where a
request waits for a provider, it is an action before and one after. Values are small
numbers and a `NULL` is a number no value has. The rows of a validation server's corpus are
`canonical`: `/coins/markets` before the initial sync, and `/coins/{id}` always, tell neither
market cap nor rank of them. The live catalog of pools patches stored rows, price, reserve and
volume, by the pool they match (DefiLlama is taken to tell of the largest first), by the volume
of their exchange (`DexVolumes`: told, told without that exchange, or not told, when the
catalog is degraded), or by a pool discovered for an earlier set of rows.

| Module | State | Writers | Answers |
| --- | --- | --- | --- |
| `MarketQuotes` | samples, quotes, snapshot, tickers, volumes and candle of one coin; supply and history rows | `Refresh` (one transaction), `SupplyTold`, `HistoryTold` | the snapshot |
| `MarketAnswers` | snapshots, closes, rates, flags, override, revision, the cache of `/coins/markets` | `Refresh` (of this process or another), `RefreshFails`, `OverridePosted`, `RatesFetched`, `CloseWritten`, `AskMarkets`, `Tick` | `MarketsPayload`, `buildSimplePayload`, `buildCoinDetail`, `TopMovers` |
| `ChartHistory` | source points of charts, supplies and past days, candles, a pass of the backfill, the counts of labels | `PassBegins`, `TaskAnswered`, `PassEnds`, `Crash`, `Replayed`, `TargetSynced`, `CandleWritten`, `Asked` | `buildChartPayload`, `SupplyRows`, `getHistorySnapshot` |
| `Exchanges` | exchanges, volume points by provider, canonical volumes, tickers of coins | `PassBegins`, `TargetAnswered`, `PassFails`, `PassEnds`, `Refreshed`, `ExchangeSynced`, `OthersRetain` | `volume_chart`, `getExchangeTickers`, `Detail`, `resolveExchangeRouteId` |
| `DerivativeVenues` | tickers, the rows each venue's figures were summed of, the refresh state | `PassBegins`, `VenueAnswered`, `VenueWithout`, `RowWritten`, `VenueSummed`, `IngestionFails`, `PassEnds`, `OthersRetain`, `Restart` | `sortDerivativesExchangeRows`, `buildDerivativesMeta`, `resolveConfiguredVenueStatus` |
| `Treasuries` | entities, documents, holdings, transactions, the sweep | `EntityWritten`, `DocumentWritten`, `HoldingWritten`, `TransactionWritten`, `DisclosureEnds`, `OthersRetain`, `Crash` | `ByCoin`, `Detail`, `sortTreasuryTransactions`, `holding_chart` |
| `OnchainPools` | pools, dexes, breaker, sweeps in flight, the shared catalog, requests | `PoolSweep...`, `TokenSweep...`, `RequestWaits`, `fetchLiveSimpleTokenPrice`, `CatalogAnswered` | `PoolList`, `PoolDetail`, `TokenPrice`, and the lists, searches and filters of the database |
| `OnchainSeries` | trades, candles, holder tables, the sweep, the request that waits | `runSubsquidTradeSweep`, imports, `fetchLivePoolTrades` | `TradesAnswer`, `PoolOhlcvAnswer`, `aggregatePoolSeriesForToken`, analytics |

The figures of a venue are kept as the rows that were summed, so that the property can
ask of which rows a sum is; a volume of a chart is known by its provider and when it was
fetched; the price of a pool is kept as the token it is the price of.

`RowOrder` is the order of lists: a row has a rank, a number for each comparison of the chain
a route sorts by, and a list is its rows by how many others rank before.

`DataPlane` extends `Bootstrap` and `MarketAnswers`, instantiates the others, and joins them in
one specification, with constants for everything providers tell and clients ask; `MCDataPlane`
has the values of one instance. The parts share no tables, so a behaviour moves one of them,
its `topic`, and the others stay in their first state; the invariants of a part are asked of
the behaviours that move it. `RoutesAgree` asks `AnswersAgree` of the states without a cache
entry, and `ListsOnce` asks of lists of pairs in states without passes and points: no conjunct
of theirs reads what is left out.

## Runs

| Run | Question | Instance |
| --- | --- | --- |
| `ohlcv_lease` | do hung, crashed and recovered holders ever corrupt a row? | two processes, one target with holes to repair, three leases, so that a lease is recovered from a holder that is itself recovered; the clock reaches past two deadlines |
| `ohlcv_overlap` | "prevents overlapping active leases" (`tests/ohlcv-worker-state.test.ts`) | refuted |
| `scheduler` | do runs overlap, start after `stop()` or within a back-off; does `stop()` return, does every job run again? | a job with a timer, one registered late, a disabled one |
| `refresh` | is a refresh alone within its lease, does the revision only grow, is an abandoned lease taken over, an open breaker probed? | an API process whose validator may force failures, a command, two exchanges, crashes and a locked database anywhere |
| `refresh_cooldown` | "short-circuits repeated refreshes until cooldown expires" (`tests/market-refresh.test.ts`) | refuted |
| `runtime` | does a cached answer ever break the freshness policy, or outlive a recovery; does anything start after `stop()`; do the schedulers start, or is there a reason why not? | one process, start to close, with every mode of the validator and rows that cannot be read |
| `runtime_revision` | "any runtime-state transition that changes hot-endpoint freshness/visibility must advance this shared revision" (`.factory/library/runtime.md:35`) | refuted: a failed refresh turns stale service on without advancing it (`services/market-runtime-state.ts:321`) |
| `optional_rows` | are the rows a recorded success counts in the database, does a sweep take a young one, do the registry and the record agree? | one tolerant job, two targets of one row each, the scheduler and a command, row by row |
| `recovery` | is what a crash left running settled, a leased target and the record of a job; do both cursors name stored candles through bootstrap, deepening, holes and gap repair? | one of two topics per behaviour, under fair scheduling: one OHLCV process that may crash at any point, with a series of several candles and arbitrary answers; passes over two jobs and a command, with answers without rows |
| `initial_sync` | is an answer ever lost to a budget, the rescue refused, an old row taken for new, and does the sync end? | three exchanges, two asked at a time, a validator, another process on the lease |
| `data_plane` | do rows and answers agree, part by part? (properties below) | nine parts, one a behaviour |
| `markets_order` | explicit ids are answered in their order (`tests/coins-markets-parity.test.ts:836`) | refuted: the key of the cache sorts them |

The properties of `data_plane`: `MajorityDecides` and `RowsAgree` (quotes), `ListsOnce`
(pools, pairs of exchanges) and `PriceOfBase` (pools), `SeriesTrue` (trades and candles), `AnswersCurrent` and
`RoutesAgree` (hot routes), `ChartsTrue` and `PlanConverges` (charts), `VolumesAdvance`
(exchanges), `FiguresAddUp` (derivatives), `DisclosuresTrue` (treasuries), `FallbackIsWhole` and
`OwnRowsSurviveBoot` (bootstrap).

The refuted statements are the findings of `PROJECT.json`; each run prints the trace. More
disagreements were met while reading and have no run:

- Leases by priority tier first (`README.md:528`): `refreshOhlcvPriorityTiers` rewrites the
  tiers on every tick (`services/ohlcv-priority.ts:22`), so a requested target is one of the
  long tail again. Tiers are strict besides: the long tail may starve.
- "does not persist accepted candles after the worker lease is recovered by another owner"
  (`tests/ohlcv-sync.test.ts:329`) holds only as long as the recovery does not fall between
  the check of the lease and the write (`CheckLease`, `WriteCandle`), which are two statements.
- Deepening "extends backward from the oldest cursor"
  (`docs/analysis/2026-03-27-historical-chart-gap-analysis.md:59`): the oldest cursor is set
  to the first candle of whatever was answered (`services/ohlcv-scheduling-policy.ts:165`),
  which may be later than the one recorded.
- Once the listener is bound nothing waits for it
  (`tests/modules/app-scaffold/app-runtime-prewarm-budget.test.ts:252`):
  `completeInitialMarketSync` sets `listenerBindDeferred` after the bind
  (`services/market-runtime-state.ts:312`).
- A malformed default database falls back to the validation snapshot
  (`tests/modules/app-scaffold/app-runtime-bootstrap.test.ts:382`): `OpenDatabase` ends the boot.
- The BTC volume of an exchange
  (`docs/plans/2026-03-20-opengecko-endpoint-parity-matrix.md:132`): `updateExchangeVolumes`
  stores the sum of quote volumes unconverted (`services/market-refresh.ts:664`).

Some behaviour is modelled as the code has it and may surprise:

- *Runtime.* Where neither the sync nor the stored rows can be had, the process goes on
  without schedulers (`services/market-runtime.ts:225`, `:360`), and its `stop()` throws the
  error of the task it awaits, so that `onClose` does not close the database
  (`SchedulersStart` allows this and asks that the reason be given, and
  `FailedStartHasReason` proves that it always is). What follows a
  failed refresh is asked in two properties: of recoveries the revision must tell at once
  (`RecoveriesReachReaders`), of failures it does not (`runtime_revision`), and an answer kept
  from before one still obeys the policy (`CachedAnswersAllowed`).
- *Hot routes.* `/simple/price` derives a market cap from supply where `/coins/markets` shows
  none; the movers' universe and meta do not look at an override; the cache of
  `/coins/markets` never evicts; a commit of another process has no revision here, so a
  cached list may be five seconds old.
- *Charts.* One source row of a window hides every canonical candle; rows that are no price
  are dropped after the sampling, so that a bad row may hide a good one; supplies over a
  range keep the first and the last row; a hole inside of an answered window stays; an
  older replay of a provider overwrites its newer one; retention goes by when a row was
  fetched, a year, while the plan reaches ten years back.
- *Exchanges.* The first target that fails ends the pass and its retention; a name stands for
  an aliased exchange only until one of that name has a row.
- *Derivatives.* Figures stay those of rows that retention took, or that a crash or a failed
  venue kept from being summed again, and `FiguresAddUp` allows it: it speaks of venues in state
  success and of the rows that are beside figures. The refresh state is of one process.
- *Treasuries.* Sources are counted by url, so two rows of one document are called hybrid;
  an older disclosure that comes later overwrites a holding; a correction that is interrupted
  leaves the old beside the new, of which `DisclosuresTrue` only asks for documents; retention turns backed rows
  into fixtures; an alias finds an entity without its holdings.
- *On-chain.* A discovered pool is listed and not found by its address; the trades of one
  transaction and block share one id; a token's candles are called live beside synthetic ones;
  a pool sweep that swaps the tokens of a pool keeps its price until the token sweep, whose write
  is all that `PriceOfBase` speaks of; a trade sweep ends with the retention of all families.
- *Bootstrap.* A boot on `:memory:` may rebuild the default database, and a relative url lets
  a file be imported into itself.

**Bounds.**

- *OHLCV.* `MaxTime` stops the clock, `MaxLeases` stops new ticks and `MaxFailures` caps
  consecutive failures; a retry takes one instant, a lease one in `ohlcv_lease`, whose clock
  passes two deadlines in a row, and two in `recovery`, so a run sees a lease taken,
  outlived, recovered, outlived again, and a stale holder return in every phase. Three leases are enough for a holder, the process that recovers from it
  and one that recovers from that. For the liveness property the bounds matter: the
  property speaks of leases whose deadline the clock can still reach.
- *Scheduler.* `MaxErrors` is the error count at which the back-off of the instance has
  reached `FiveMinutes`; beyond it nothing changes. Timers and back-offs are ticks left.
- *Market refresh.* `MaxFailures` saturates the failure count where the back-off has reached its
  maximum; `MaxRevision` saturates the revision (no revision yet, and one, are what the
  code tells apart; a revision that went back to the number read before the first commit shows).
- *Runtime.* `TooOld` saturates ages at `Threshold + CacheTtl`, the largest age a property
  tells apart from a smaller one.
- *Optional jobs.* `LongestRun` bounds a run (every fetch has a timeout of fifteen seconds);
  ages saturate at `Retention + LongestRun`, past which every sweep takes a row. With a
  retention of three and runs of one tick, a run can start, another overtake it and sweep,
  and the row of the first one be written old. The passes of `recovery` have answers without
  rows and runs of no length: a row touches no record, and a pass touches rows only through
  its syncs.
- *Initial sync.* Three exchanges with two slots, so that one waits; one of them, asked first,
  is no rescuer. Breakers open at the first failure.
- *Data plane.* Each part has two or three of what it is about and two or three changes: two
  refreshes (a row and what supersedes it), passes that overlap retention, two requests that
  share one catalog, coins with and without rank and figures, providers that tell of the
  same instant. Times reach one tick past the retention or the time to live. A file or an
  answer of trades that is stored holds none, one or all of them (several steps store any
  others), one that a request shows any of them; the retention that ends a trade sweep takes the
  older rows of a table all or not at all. Requests for
  pools are interchangeable (`SYMMETRY`), which is sound as the run has no liveness property.

`CHECK_DEADLOCK FALSE` is said where a bound or the end of a process stops the system.

**Fairness.** Every assumption is what the code schedules, and nothing is assumed of
exchanges and providers beyond an answer or an error.

- *OHLCV, `FairSpec`.* Time passes; the scheduler's timer fires again and again
  (`setInterval`); an await ends, with an answer or an error (`Progress`). The four steps
  up to the leasing statement are strongly fair: a process may crash at any point, but one
  that crashed before leasing on every tick for ever would be a process that is not running.
- *Scheduler, `LoopFair`.* Time passes, due timers fire, and a `stop()` that may return
  does. A run may hang for ever; `stop()` returns all the same.
- *Market refresh, `FairSpec`.* Time passes, awaits end, the job runs again and again, a crashed
  process is restarted. Acquiring the lease is strongly fair: the database is not locked
  at every attempt, and no process crashes before every refresh.
- *Runtime, `FairSpec`.* `buildApp` calls `start()`; the initial sync and the first fetch
  of currency rates end, by the timeouts of their network calls.
- *Optional jobs, `FairSpec`.* The timer fires and awaits end. Recording a job is strongly
  fair, per job: the database is not locked at every attempt. `RecordsSettle` speaks of a
  process that stays up: one that is closed during every pass settles nothing.
- *`RecoverySpec`.* The two above, condition by condition: a behaviour has one topic, so of
  two actions joined by "or" only the one of the topic is ever enabled, and fairness of the
  disjunction is fairness of that action.
- *Initial sync.* Requests settle by the timeouts of their clients and the event loop goes
  on; budgets need not expire.

## Proofs

Each `*Proofs` module proves its theorems for any values of the constants that satisfy the
assumptions the modules name, which TLC evaluates on every run. They say what the code
guarantees of its numbers and no more:

- `PolicyAssumption`, `RuntimeAssumption`, `SchedulerAssumption`, `BreakerAssumption`,
  `RefreshAssumption`, `ThresholdAssumption` and the `SyncAssumption` of the optional jobs are the
  types of the constants, and nulls that are not numbers.
- `SyncAssumption` of `InitialSync`: exchanges and rescuers are lists, at least one exchange is
  configured, there is at least one slot, and the first back-off is not above the longest.
- `BootstrapAssumption`: the two files of `data/` and `:memory:` are different urls, some coin is
  canonical and no other coin is.
- `AnswersAssumption`: the types of rows and queries, finitely many coins and rates of which
  there is one, and a live row has a price above zero, as the acceptance of samples sees
  to (`filterMarketQuoteSamplesForConsensus`).
- `PlaneAssumption` joins those of the parts: samples, tellings, files, claims and seeded rows are
  finite and of their types; an exchange tells of a market once in one answer, and a venue of
  a pair; addresses of pools are rolling digests of 31 bits (`modules/onchain/helpers.ts:149`), taken
  to be without collisions, and an id is of one pool, which keeps its network and its exchange; no volume, and no sum of all interests, reaches
  `MaxSafeInteger`, as which an unknown one sorts; a page has at least one place.

| Module | Theorems |
| --- | --- |
| `OhlcvRuntimeProofs` | `TypeCorrect`, `CursorsAreBacked`, `LatestIsMonotone`, `LeasesAreFenced` |
| `JobSchedulerProofs` | `TypeCorrect`, `DrainedStaysQuiet`, `ContractKept`, `BackoffIsKept` |
| `MarketRefreshProofs` | `TypeCorrect`, `HoldersAlone`, `RevisionIsMonotone` |
| `MarketRuntimeProofs` | `TypeCorrect`, `StaleExplained`, `CachedAllowed`, `FailedStartHasReason`, `RecoveriesReach`, `StopIsFinal` |
| `OptionalProviderSyncProofs` | `TypeCorrect`, `ShownRecorded`, `SuccessBacked`, `YoungAreKept` |
| `InitialSyncProofs` | `TypeCorrect`, `AnswersAreKept`, `LiveIsFresh`, `RescueReaches` |
| `DataPlaneProofs` | of boots `TypeCorrect`, `FallbackStaysWhole`, `OwnRowsAreKept`; of hot routes `CacheIsCurrent`, `PagesAreWhole`, `RoutesTellTheSame`, `RoutesStayInStep`; `FiguresAreSums`, `RowsTellTheSame`, `MajorityHolds`, `BackfillsConverge`, `ChartsAdvance` |
| `ListsAndChartsProofs` | `PricesAreOfBase`, `LabelsAreTrue`, `ChartsTellTheTruth`, `ListsHaveAllOnce` |

**OHLCV.** *Type correctness* is inductive only with `WorkOK`: a process that is past the
lease has a target. *Backed cursors*: what the table records was computed by a worker, so
the inductive invariant `BackedInv` adds `JobBacked`, that whatever a worker carries (its
copy of the row, the batch it stored, the cursors it derived) is in the candle store;
candles are never removed, so this survives the steps of the others. *Monotone cursor*:
the worker that settles a row overwrites the cursor with one derived from its own copy,
made perhaps long ago. `FenceInv` adds that a lease token is never above the counter
(`TableOK`), that while a worker's token is still in the table its copy of the cursor is the
table's (`Fenced`), and that what it carries is not older than its copy (`NotOlder`). A
new lease draws a new token, so a stale holder fails the fence; the holder that passes
it has the current cursor and a newer or equal one to record. *Fenced leases*: a tick grants
by the instant it read when it began, which may be long past; `LeaseInv` adds `ClockOK`, that
this instant is never ahead of the clock, so a row that looked free to it is free now, and
`RetryOK`, that a running row has no retry instant ahead, because a lease that is recovered is
granted without a look at the retry column. That powers of two are numbers, which the
back-off needs, is a lemma here too (`PowerIsNat`).

**Scheduler.** `Tracked(j)` says that `inFlight`, which the code keeps, is exactly "one
run", that a job is `stopped` while the scheduler does not serve, and that a `stop()`
waits for every run in flight. With it each step of the scheduler is a step of the
contract or a stutter: `start()` opens, `stopJobs` closes, a run begins only where
`inFlight` is false and `stopped` is not set. *Back-off*: `Owed` adds up the wait that is left
and the time since the failure; their sum is never less than the shortest back-off the error
count can draw, four fifths of the exponential one. Ticks move time from one to the other,
`start()` and `stop()` leave both, and a run begins only when no wait is left, so the whole
back-off has passed by then. `BackoffBound` bounds the exponential back-off for every error
count, which `PowerIsNat` makes possible: `2^n` counts the subsets of `1..n`.

**Market refresh.** `HoldersAlone` needs the clock of the row tied to the clock of the
refresh: `HoldsLease(p)` says that a refresh younger than the TTL holds the lease, with
exactly the TTL less its age left. A lease is given only when none is left, so two
refreshes within their time would be one. The revision is monotone because a failure's
upsert writes the number it read only where no row exists, and rows are not deleted.

**Market runtime.** The inductive invariant `Inv` joins `StaleServiceExplained` and
`StoppedSchedulesNothing` with two facts on the start and two on the cached answer. Nothing has
come before `start()` (`NothingBeforeStart`), and a process that has not come past its initial
sync, or never will, has nothing scheduled or running (`NotYetScheduled`); so no refresh can
take away the reason of a start that failed (`ReasonOfFailedStart`). The row of the cached
answer has aged at most as long as it was kept beyond the threshold, unless stale service is on
(`RowAgesInCache`), and it is a seeded one only before the initial sync (`SeededRowInCache`).
Each change of the flags that does not drop the entry only makes the policy more generous
(`PolicyGrows`). That a recovery drops it is `RecoveriesReach`, by the steps that can clear a
flag: each of them either advances the revision or clears none.

**Optional jobs.** `Backs(x, n)` says that a row counted `n` ticks ago is there or that
this was too long ago to tell. `StoredBacked` claims it of what every run has
written so far, `RecordedBacked` of every recorded success, and both survive a sweep because a
sweep is dated at most `LongestRun` early. `RunOK` ties the fields of a run to where it is,
and `RunIsRecorded` says that the record of a job the API process is running is `running`,
unless a command has overwritten it.

**Initial sync.** The fan-out of `n` items is described by `FanOK`: what is being asked and what
has not been reached yet has no result, and no more are asked at a time than there are slots.
Every transition of a fan-out keeps it and no result already there, which gives
`AnswersAreKept` and, with `Typed`, `TypeCorrect`. `LiveIsFresh` and `RescueReaches` share the
inductive invariant `SyncInv`. Fresh snapshots without a fresh ticker come from a refresh whose
report names who answered (`FreshReported`), and that report stands, because the only refresh
that may still follow is a rescue that finds the lease held (`ReportStands`, `LeaseHeld`,
`RescueLast`). A rescue about to begin finds a closed breaker and no cooldown
(`RescueReady`), although the refresh before it may have opened the one and begun the other.

**Bootstrap.** `BootInv` follows a boot through its stages: which files are left to be made whole
(`QueueKept`), how far the one in work is (`BuildKept`), that whoever writes to a file has
one with tables (`WritersHaveTables`, `RowsNeedTables`), that behind the check of the fallback
it is whole although another process may crash over it (`FallbackKept`), and that a source is
chosen only among files with live rows and is the process's own file if that has any
(`SourceKept`). From the last follows that an import never replaces own rows by others.

**Hot routes.** *Pages*: the comparison of two coins is lexicographic, by figures, by a number
that may be unknown, by the coin (`LexicalIsTotal`); a place is the number of coins that
come before, and counting the members of a finite set before each of its members is a
bijection on `1..n` (the lemmas on `Placed` and `Ahead`). *Agreement*: a coin with a `Usable` row has its
price and time on every route, one without has none on any (`PricesAgree`); movers called
live come of live rows, and a live row has a price (`LiveMoversHaveAPrice`). *The cache*: `AnswersInv` says that every entry is of the
present revision and within its time to live (`EntriesTimed`), of the present policy while
stale service is off (`PolicyAsKeyed`), and has the rows that would be computed now unless
something without a revision changed since it was made (`EntriesCurrent`). The
hard step is time alone: it changes an answer only where a row of it grows too old.

**Rows of the data plane.** `DataPlane` has one theorem per property but one. Each follows from
an inductive invariant of its topic; a step of another topic leaves the topic's variables alone.

- *Sums* are folds over sets, and no induction is at hand. A sum is described as a function on
  all subsets that takes one member after the other (`IsSum`); that there is one such function
  and that order does not matter follow from the smallest set that would be a counterexample
  (`SmallestSet`, of `LeastNumber`).
- *Derivatives* (`VenuesInv`): of a contract there is one row, a venue's figures are of its own
  rows and never of seeds beside others (`VenueRowsKept`), what is being written is of the
  venue that was asked (`WritesKept`), and a venue that succeeded counts what there is of it
  but for what retention took (`SuccessCounts`). A bound on all interests keeps a known sum
  below the number an unknown one sorts as.
- *Quotes*: prices are compared by how many samples are below them, so that the median of a set,
  most of whose members lie in a band, lies in the band; what the filter drops
  is never most of the samples. `QuoteRowsKept` says of the rows of the last refresh that they
  agree.
- *Backfills* (`ChartsInv`): while a pass was answered wholly and is younger than the retention,
  every task of its plan either waits or has a live row for each of its days that is as
  young as the pass (`PlanKept`). When nothing waits, the planner finds all of it covered.
- *Volumes* (`VolumesInv`): nothing stored is of an instant to come or fetched later than the
  pass that may replace it, so a row that is replaced is replaced by one not older.
- *Prices of pools*: a sweep changes some columns of a row and keeps the others
  (`PoolColumns`); a price is compared with the base token the row has when it is written.
- *Treasuries* (`LedgersInv`): what is held is finite and of its type, and a holding is only
  written to an entity that is there (`EntityFirst`), so no total misses a detail.
- *Charts*: the rows of every family are finitely many, live or replayed (`FamiliesFine`), and
  the order of outranking is total, so of a day one row is outranked by none. The sampling
  keeps a set of times described by its own condition (`Spaced`): a time is kept where no kept
  one is less than a step before it. Two such sets differ nowhere, as the least time where
  they do would be decided by times on which they agree.
- *Lists*: a rank is a tuple of numbers, and how many rows come before a row is a number of its
  own for each (`BeforeIsOrder`, `EachHasItsNumber`), so a list made of these numbers has every
  row once (`OrderedIsList`). For pools `RequestsInv` adds that a row stays
  under its address with its network and its exchange (`PoolRows`, and `RowsFollow` of every
  step), so that what was due when a request came (`DueKept`) is there when it is answered from
  a catalog made for somebody else, and that the answer given is whole (`AnswerWhole`). For
  pairs `PairsInv` says that a coin has one ticker of a pair and that volumes are below the
  number an unknown one sorts as; of the claims to a pair exactly one is shown
  (`OneClaimIsShown`), and pages cut a list so that every place is on one page
  (`EveryPlaceHasPage`, `PlacesFollow`).

Each `TypeCorrect` proves the `TypeOK` of its module, which the runs leave to the proof.

**Only model-checked.** Liveness under fairness is out of the prover's reach:
`AbandonedLeaseRecovered`, `AbandonedLeaseRetaken`, `OpenBreakerProbed`, `StopIsBounded`,
`EveryJobRunsAgain`, `SchedulersStart`, `RecordsSettle`, `SyncEnds`. Of the safety properties
only `SeriesTrue` has no proof: candles are folds over the trades of a window and the gaps
between them, in the order `SortSeq` gives trades of one instant, and what those compute needs
induction over sequences.

## Not modelled

- *OHLCV*: the discovery of targets on the exchanges is its result (`Seeds`); prices and
  volumes of candles; retention and the one-shot backfill; `promoteOhlcvTargetPriority`,
  which only tests call.
- *Market refresh*: the validator's faults per provider.
- *Initial sync and bootstrap*: what the catalogs write; of the files, everything but whether
  live snapshots, a whole corpus and chart points are there.
- *Market runtime*: the prewarm (its requests are requests like any other) and the
  readiness flow of a process without background jobs; other keys and the eviction of
  the response cache. Its producers are synchronous, so coalescing never shows.
- *Optional jobs*: how an answer is parsed, the configuration of targets, counts and wording
  of partial failures.
- *Data plane*: further currencies of a refresh, categories and `/global`, contracts' prices
  and funding, names and countries of entities, timeframes of candles beside one, pages of
  on-chain lists, more than one pass over exchanges at a time.
- Currency rates beyond the rate a route sees, process heartbeats, the search index and the
  tier 1 catalogs.
- Read-only code (diagnostics, reports), declarations (schema, configuration) and
  pure I/O (HTTP clients of providers).

`PROJECT.json` lists every component with its status and every known hazard with the
properties that watch it.
