------------------------------- MODULE DataPlane -------------------------------
(***************************************************************************)
(* The parts that turn rows into rows and answers, in one specification.   *)
(* They share nothing, so a behaviour is one of one of them, the topic,    *)
(* and the others stay as they began.  The boot of a process and the       *)
(* answers of markets are modules this one extends, the others are         *)
(* instances.  Constants of one name in several of them are shared.        *)
(***************************************************************************)
EXTENDS Bootstrap, MarketAnswers

VARIABLE topic

-----------------------------------------------------------------------------
(* The quotes of a coin. *)

CONSTANTS
    QuotedExchange, KnownExchange, CanonicalName,   \* exchanges, those with a row, its name
    QuotedSymbol, Offers, QuotePrices, QuoteSupplies,
    MaxRefreshes

VARIABLES snapshot, samples, quotes, tickers, volumes, backed, candle, supply, history, refreshes

Quotes == INSTANCE MarketQuotes WITH
    left <- refreshes, Exchange <- QuotedExchange, Known <- KnownExchange,
    Canonical <- CanonicalName, Symbol <- QuotedSymbol,
    Answers <- Offers, Prices <- QuotePrices, Supplies <- QuoteSupplies

-----------------------------------------------------------------------------
(* On-chain pools. *)

CONSTANTS Tellings, AddressOf, PoolSeeds, PoolNetworks, Client, MaxTargets, MaxPoolSweeps,
    BaseBackoff, MaxBackoff, MaxFailures

VARIABLES pools, dexes, breaker, poolNow, poolSweep, tokenSweep, catalog, poolAsked, poolAnswer

Listing == INSTANCE OnchainPools WITH
    now <- poolNow, asked <- poolAsked, answer <- poolAnswer,
    Seeds <- PoolSeeds, Configured <- PoolNetworks, MaxSweeps <- MaxPoolSweeps

-----------------------------------------------------------------------------
(* On-chain trades, candles and analytics. *)

CONSTANTS Pools, Stable, Swaps, Replays, Fixtures, SwapWindow, Made, MaxSwapTime, MaxSteps

VARIABLES trades, candles, analytics, tradeSweep, seriesAsked, seriesAnswer, seriesLeft

Series == INSTANCE OnchainSeries WITH
    sweep <- tradeSweep, asked <- seriesAsked, answer <- seriesAnswer, left <- seriesLeft,
    MaxTime <- MaxSwapTime, Window <- SwapWindow

-----------------------------------------------------------------------------
(* The chart and the history of a coin. *)

CONSTANTS Depth, First, Chunk, Slo, ProductionSlo, Retention, Granularities, Coarsest,
    ChartTold, ChartReplays, WorkerCandles, Ratio, ChartQueries, EventLimit,
    ChartStart, ChartEnd, MaxChartChanges, MaxPasses

VARIABLES points, chartCandles, day, pass, counts, events, chartLeft, passes

Charts == INSTANCE ChartHistory WITH
    candles <- chartCandles, now <- day, left <- chartLeft,
    Told <- ChartTold, Replays <- ChartReplays, Candles <- WorkerCandles, Queries <- ChartQueries,
    Start <- ChartStart, MaxTime <- ChartEnd, MaxChanges <- MaxChartChanges

-----------------------------------------------------------------------------
(* Derivatives. *)

CONSTANTS Venue, ConfiguredVenues, SeededVenues, SeededTickers, SeededInterest, Symbols, Interest, MaxSafeInteger

VARIABLES venueTickers, figures, venueState, venueRun, venueDay, venuePasses

Venues == INSTANCE DerivativeVenues WITH
    tickers <- venueTickers, state <- venueState, run <- venueRun, now <- venueDay, passes <- venuePasses,
    Configured <- ConfiguredVenues

-----------------------------------------------------------------------------
(* Treasuries. *)

CONSTANTS SeededEntities, SeededHoldings, SeededTransactions, Files, DayPrices, CurrentPrice,
    HoldingWindows, LastDay, MaxSweeps

VARIABLES entities, documents, holdings, transactions, ledgerSweep, ledgerDay, sweeps

Ledgers == INSTANCE Treasuries WITH
    sweep <- ledgerSweep, now <- ledgerDay,
    Seeded <- SeededEntities, Prices <- DayPrices, Windows <- HoldingWindows, MaxTime <- LastDay

-----------------------------------------------------------------------------
(* Spot exchanges. *)

CONSTANTS SpotExchange, SeededExchanges, Alias, Targets, Instants, Claims, VolumeWindows, PerPage

VARIABLES spot, volumePoints, canonicalVolumes, spotTickers, volumePass, volumeDay, volumePasses,
    spotRefreshes

Spots == INSTANCE Exchanges WITH
    known <- spot, points <- volumePoints, canonical <- canonicalVolumes, tickers <- spotTickers,
    pass <- volumePass, now <- volumeDay, passes <- volumePasses, refreshes <- spotRefreshes,
    Exchange <- SpotExchange, Seeded <- SeededExchanges, Windows <- VolumeWindows

-----------------------------------------------------------------------------

ASSUME PlaneAssumption ==
    /\ Quotes!QuotesAssumption /\ Listing!PoolsAssumption /\ Series!SeriesAssumption
    /\ Charts!HistoryAssumption /\ Venues!VenuesAssumption
    /\ Ledgers!TreasuriesAssumption /\ Spots!ExchangesAssumption

quoteVars == <<snapshot, samples, quotes, tickers, volumes, backed, candle, supply, history, refreshes>>
poolVars == <<pools, dexes, breaker, poolNow, poolSweep, tokenSweep, catalog, poolAsked, poolAnswer>>
seriesVars == <<trades, candles, analytics, tradeSweep, seriesAsked, seriesAnswer, seriesLeft>>
chartVars == <<points, chartCandles, day, pass, counts, events, chartLeft, passes>>
venueVars == <<venueTickers, figures, venueState, venueRun, venueDay, venuePasses>>
ledgerVars == <<entities, documents, holdings, transactions, ledgerSweep, ledgerDay, sweeps>>
spotVars == <<spot, volumePoints, canonicalVolumes, spotTickers, volumePass, volumeDay, volumePasses,
              spotRefreshes>>
planeVars == <<topic, quoteVars, poolVars, seriesVars, answersVars, vars, chartVars, venueVars,
               ledgerVars, spotVars>>

\* One canonical coin and another one; the files begin as any of their contents a boot
\* may find, or, for the other topics, as none.
PlaneInit ==
        /\ topic \in {"quotes", "pools", "series", "answers", "boot", "charts", "venues", "ledgers",
                   "exchanges"}
        /\ Quotes!Init /\ Listing!Init /\ Series!Init /\ AnswersInit /\ Charts!Init
        /\ Venues!Init /\ Ledgers!Init /\ Spots!Init
        /\ Init /\ (topic = "boot" \/ \A f \in File : disk[f] = Absent)

PlaneNext ==
        /\ UNCHANGED topic
        /\ \/ topic = "quotes"
              /\ UNCHANGED <<poolVars, seriesVars, answersVars, vars, chartVars, venueVars, ledgerVars, spotVars>>
              /\ Quotes!Next
           \/ topic = "pools"
              /\ UNCHANGED <<quoteVars, seriesVars, answersVars, vars, chartVars, venueVars, ledgerVars, spotVars>>
              /\ Listing!Next
           \/ topic = "series"
              /\ UNCHANGED <<quoteVars, poolVars, answersVars, vars, chartVars, venueVars, ledgerVars, spotVars>>
              /\ Series!Next
           \/ topic = "answers"
              /\ UNCHANGED <<quoteVars, poolVars, seriesVars, vars, chartVars, venueVars, ledgerVars, spotVars>>
              /\ AnswersNext
           \/ topic = "boot"
              /\ UNCHANGED <<quoteVars, poolVars, seriesVars, answersVars, chartVars, venueVars, ledgerVars, spotVars>>
              /\ Next
           \/ topic = "charts"
              /\ UNCHANGED <<quoteVars, poolVars, seriesVars, answersVars, vars, venueVars, ledgerVars, spotVars>>
              /\ Charts!Next
           \/ topic = "venues"
              /\ UNCHANGED <<quoteVars, poolVars, seriesVars, answersVars, vars, chartVars, ledgerVars, spotVars>>
              /\ Venues!Next
           \/ topic = "ledgers"
              /\ UNCHANGED <<quoteVars, poolVars, seriesVars, answersVars, vars, chartVars, venueVars, spotVars>>
              /\ Ledgers!Next
           \/ topic = "exchanges"
              /\ UNCHANGED <<quoteVars, poolVars, seriesVars, answersVars, vars, chartVars, venueVars, ledgerVars>>
              /\ Spots!Next

PlaneSpec == PlaneInit /\ [][PlaneNext]_planeVars

\* A majority of the samples decides the price (services/market-snapshots.ts).
MajorityDecides == Quotes!MajorityDecides
\* The rows of a refresh tell of the same samples (services/market-refresh.ts).
RowsAgree == Quotes!RowsAgree
\* Every list has each pool, or each pair of an exchange, that is due, once
\* (modules/onchain/pool-routes.ts, modules/exchange-tickers.ts).  Lists of pairs look
\* neither at passes nor at points: all tickers there may be are met without them.
ListsOnce ==
    /\ topic = "pools" => Listing!PoolsListedOnce
    /\ topic = "exchanges" /\ volumePass = Spots!Idle /\ volumePoints = {} => Spots!ListsAgree
\* A pool has the price of its base token (services/tier1-onchain-sweepers.ts).
PriceOfBase == Listing!PriceOfBase
\* Candles tell of the trades they were made of, and answers show fixtures if and only
\* if they say so (modules/onchain/trades.ts, tokens.ts, trade-routes.ts).
SeriesTrue == topic = "series" => Series!SeriesTrue
\* Pages have each coin once, and routes asked at once agree (modules/coins/market-data.ts,
\* modules/simple.ts, modules/coins/detail.ts).  The cache has no part in it: all rows there
\* may be are met without a cached list.
RoutesAgree == topic = "answers" /\ cache = {} => AnswersAgree
\* A chart tells one thing of a day, by the row that outranks the others, leaves no
\* stretch out and is labelled as what it is (services/market-chart-ingestion.ts).
ChartsTrue == topic = "charts" => Charts!ChartsTrue
\* A backfill that was answered need not be planned again
\* (services/history-backfill-planner.ts).
PlanConverges == Charts!PlanConverges
\* The figures of a venue add up what there is of it (services/derivatives-ingestion.ts).
FiguresAddUp == topic = "venues" => Venues!FiguresAddUp
\* Only what a document backs is labelled so (modules/treasury.ts).
DisclosuresTrue == topic = "ledgers" => Ledgers!DisclosuresTrue
\* Charts of volumes never go back (services/exchange-volume-ingestion.ts).
VolumesAdvance == Spots!VolumesAdvance
=============================================================================
