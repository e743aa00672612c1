---------------------------- MODULE MarketQuotes ----------------------------
(***************************************************************************)
(* What a market refresh makes of the tickers it fetched: which of them    *)
(* count (services/market-ingestion-acceptance-plan.ts), the price they    *)
(* agree on and the snapshot built from it and from what was known before  *)
(* (services/market-snapshots.ts), and the rows that are written in one    *)
(* transaction (services/market-refresh.ts).  Prices are whole, 0 stands   *)
(* for null, and of the currencies one is modelled, usd.                   *)
(***************************************************************************)
EXTENDS Integers, FiniteSets, FiniteSetsExt

CONSTANTS
    Exchange,           \* the exchanges fetched from
    Known, Canonical,   \* the exchanges that have a row, and the name in it
    Symbol,             \* the markets of the coin in usd: BTC/USD, BTC/USDT
    Answers,            \* the tickers exchanges may answer with together
    Prices, Supplies,   \* the prices and the circulating supplies among them
    MaxRefreshes        \* bound: the refreshes of a behaviour

\* An exchange answers with at most one ticker of a market.
OneOfAMarket(ts) == \A t, u \in ts : t.exchange = u.exchange /\ t.symbol = u.symbol => t = u

QuotesAssumption ==
    /\ Canonical \in [Exchange -> STRING]
    /\ \A t \in UNION Answers : t.exchange \in Exchange /\ t.last \in Prices \cup {0}
    /\ \A ts \in Answers : IsFiniteSet(ts) /\ OneOfAMarket(ts)
    /\ Prices \subseteq Nat \ {0} /\ Supplies \subseteq Nat \ {0} /\ MaxRefreshes \in Nat

VARIABLES
    snapshot,   \* the row of market_snapshots
    samples,    \* the tickers of the last refresh that passed for samples
    quotes,     \* the quote_snapshots it wrote
    tickers,    \* the coin_tickers it wrote, with their price in usd
    volumes,    \* the tickers counted in the volume of each known exchange
    backed,     \* the exchanges its diagnostics call live-backed
    candle,     \* the candle of the day, or none
    supply,     \* the rows of supply_chart_points
    history,    \* the row of coin_history_snapshots, or none
    left        \* the refreshes left

vars == <<snapshot, samples, quotes, tickers, volumes, backed, candle, supply, history, left>>

Null == 0

\* A ticker: its price, whether bid and ask are out of order, when it is from in
\* minutes from now, and whether it is flagged as an anomaly or stale.
Ticker == [exchange : Exchange, symbol : Symbol \cup {"other"}, last : Prices \cup {Null},
           crossed : BOOLEAN, minutes : Int, flagged : BOOLEAN]

NoCandle == [open |-> Null, high |-> Null, low |-> Null, close |-> Null]

NoSnapshot == [price |-> Null, cap |-> Null, supply |-> Null, ath |-> Null, atl |-> Null,
               sources |-> {}]

-----------------------------------------------------------------------------
(* Which tickers count. *)

\* MAX_FUTURE_MARKET_TIMESTAMP_DRIFT_MS is five minutes.
normalizeMarketTimestamp(minutes) == minutes <= 5

normalizeMarketTickerCandidate(t) ==
    /\ normalizeMarketTimestamp(t.minutes)
    /\ t.last # Null /\ ~t.crossed /\ ~t.flagged

\* One sample for each ticker of a symbol in question.
Samples(ts) == {t \in ts : t.symbol \in Symbol /\ normalizeMarketTickerCandidate(t)}

\* The price in place k, from the lowest.
Nth(ts, k) ==
    CHOOSE p \in {t.last : t \in ts} :
        /\ Cardinality({t \in ts : t.last < p}) < k
        /\ k <= Cardinality({t \in ts : t.last <= p})

\* Twice the median, which may lie between two prices.
TwiceMedian(ts) ==
    LET n == Cardinality(ts) IN Nth(ts, (n + 1) \div 2) + Nth(ts, (n \div 2) + 1)

\* MAX_MARKET_PRICE_OUTLIER_RATIO is 1.25.
isPriceSampleWithinConsensus(price, twice) ==
    8 * price <= 5 * twice /\ 4 * twice <= 10 * price

\* Mutant: the lowest price decides for the others as well.
ConsensusOfFirst(ts) ==
    IF ts = {} THEN {}
    ELSE {t \in ts : isPriceSampleWithinConsensus(t.last, 2 * Nth(ts, 1))}

\* The samples of one provider are taken as they are.
filterMarketQuoteSamplesForConsensus(ts) ==
    LET twice == TwiceMedian(ts) IN
    IF Cardinality({t.exchange : t \in ts}) <= 1 THEN ts
    ELSE {t \in ts : isPriceSampleWithinConsensus(t.last, twice)}

-----------------------------------------------------------------------------
(* The evidence of earlier rows. *)

Rank(row) == IF row.live THEN 1 ELSE 0

compareSourceRankedRows(a, b) ==
    IF Rank(a) # Rank(b) THEN Rank(a) > Rank(b) ELSE a.at > b.at

readLatestSupplyEvidence ==
    IF supply = {} THEN Null
    ELSE (CHOOSE r \in supply : \A s \in supply : s = r \/ ~compareSourceRankedRows(s, r)).value

FirstKnown(a, b) == IF a # Null THEN a ELSE b

\* A market cap and the price it was made with come from the same row.
mergeSourceBackedSupplyEvidence(previous) ==
    LET capRow == IF previous.cap # Null THEN previous
                  ELSE IF history.cap # Null THEN history ELSE NoSnapshot IN
    IF readLatestSupplyEvidence = Null /\ history = NoSnapshot THEN previous
    ELSE [previous EXCEPT
            !.price = FirstKnown(capRow.price, FirstKnown(@, history.price)),
            !.cap = capRow.cap,
            !.supply = FirstKnown(readLatestSupplyEvidence, FirstKnown(@, history.supply)),
            !.ath = FirstKnown(@, history.ath), !.atl = FirstKnown(@, history.atl)]

\* scaleByPriceRatio, never down to nothing.
Scaled(cap, from, to) == IF cap = Null \/ from = Null THEN Null ELSE Max({1, (cap * to) \div from})

Average(ts) == MapThenSumSet(LAMBDA t : t.last, ts) \div Cardinality(ts)

\* The accumulator applies the filter once more to the samples that passed it.
buildMarketQuoteAccumulator(ts) == filterMarketQuoteSamplesForConsensus(ts)

buildLiveSnapshotValue(ts, previous) ==
    LET price == Average(ts) IN
    [price |-> price,
     cap |-> IF previous.supply # Null THEN price * previous.supply
             ELSE Scaled(previous.cap, previous.price, price),
     supply |-> previous.supply,
     ath |-> IF previous.ath = Null THEN Null ELSE Max({previous.ath, price}),
     atl |-> IF previous.atl = Null THEN Null ELSE Min({previous.atl, price}),
     sources |-> {t.exchange : t \in ts}]

-----------------------------------------------------------------------------
(* A refresh. *)

\* What a history row may tell: a market cap, or a supply and the extremes.
Evidence == LET p == Max(Prices) IN
            {[NoSnapshot EXCEPT !.price = p, !.cap = 500]}
            \cup {[NoSnapshot EXCEPT !.price = p, !.supply = n, !.ath = p, !.atl = p] : n \in Supplies}

Init ==
    /\ snapshot = NoSnapshot /\ samples = {} /\ quotes = {} /\ tickers = {}
    /\ supply = {} /\ history = NoSnapshot
    /\ volumes = [e \in Known |-> 0] /\ backed = {} /\ candle = NoCandle
    /\ left = MaxRefreshes

\* buildAcceptedIngestionPlan: the samples whose rows may be written.
AcceptedPlan(ts) == filterMarketQuoteSamplesForConsensus(ts)

\* The name of an exchange's row: its own, or the canonical one where only that exists.
resolveCanonicalExchangeId(e) == IF e \notin Known /\ Canonical[e] \in Known THEN Canonical[e] ELSE e

\* What recordMatchedTicker keeps for coin_tickers.
Pending(t) == [exchange |-> resolveCanonicalExchangeId(t.exchange), symbol |-> t.symbol, last |-> t.last]

\* Mutant: every pending ticker is written.
upsertAllCoinTickers(pending, accepted, usd) ==
    {[ticker |-> Pending(t), usd |-> usd] : t \in {u \in pending : Pending(u).exchange \in Known}}

\* An exchange without a row gets no tickers.  The price in usd is the coin's, where
\* the refresh found one.
upsertPendingCoinTickers(pending, accepted, usd) ==
    {[ticker |-> Pending(t), usd |-> usd] : t \in {u \in accepted : Pending(u).exchange \in Known}}

updateExchangeVolumes(accepted) ==
    [e \in Known |-> LET counted == {t \in accepted : Pending(t).exchange = e} IN
                     IF counted = {} THEN volumes[e] ELSE Cardinality(counted)]

\* The rows are counted under the name in the row, so an exchange that goes by another
\* is not found among the diagnostics of the fetches.
writeExchangeTickerIngestionDiagnostics(pending, accepted) ==
    {e \in {t.exchange : t \in pending} :
        e \in Known /\ \E t \in accepted : Pending(t).exchange = e}

upsertCanonicalCandle(price) ==
    IF candle = NoCandle THEN [open |-> price, high |-> price, low |-> price, close |-> price]
    ELSE [candle EXCEPT !.high = Max({@, price}), !.low = Min({@, price}), !.close = price]

\* The transaction of a refresh: quotes, volumes, snapshot and candle, tickers.
Refresh(ts) ==
    LET pending == Samples(ts)
        accepted == AcceptedPlan(pending)
        agreed == buildMarketQuoteAccumulator(accepted)
        live == buildLiveSnapshotValue(agreed, mergeSourceBackedSupplyEvidence(snapshot)) IN
    /\ left > 0 /\ left' = left - 1
    /\ samples' = pending
    /\ quotes' = accepted
    /\ volumes' = updateExchangeVolumes(accepted)
    /\ backed' = writeExchangeTickerIngestionDiagnostics(pending, accepted)
    /\ IF agreed = {}
       THEN /\ UNCHANGED <<snapshot, candle>>
            /\ tickers' = {}
       ELSE /\ snapshot' = live
            /\ candle' = upsertCanonicalCandle(live.price)
            /\ tickers' = upsertPendingCoinTickers(pending, accepted, live.price)
    /\ UNCHANGED <<supply, history>>

\* A supply is imported or told live, the latter for an earlier instant.  Imports come
\* before the first refresh, which bounds a behaviour.
SupplyTold ==
    /\ \E n \in Supplies, live \in BOOLEAN :
          /\ \A r \in supply : r.live # live
          /\ live \/ left = MaxRefreshes
          /\ supply' = supply \cup {[live |-> live, at |-> IF live THEN 1 ELSE 2, value |-> n]}
    /\ UNCHANGED <<snapshot, samples, quotes, tickers, volumes, backed, candle, history, left>>

\* Of a day there is one row.
HistoryTold ==
    /\ history = NoSnapshot /\ left = MaxRefreshes /\ \E row \in Evidence : history' = row
    /\ UNCHANGED <<snapshot, samples, quotes, tickers, volumes, backed, candle, supply, left>>

Next == SupplyTold \/ HistoryTold \/ (left > 0 /\ \E ts \in Answers : Refresh(ts))

Spec == Init /\ [][Next]_vars

-----------------------------------------------------------------------------
(* Properties. *)

Within(ts, lo, hi) == {t \in ts : lo <= t.last /\ t.last <= hi}

\* Where most of the samples lie in a band, the others cannot move the price out of it
\* by more than the ratio of the filter, be they as far off as they like
\* (filterMarketQuoteSamplesForConsensus, applied when the plan is built and again
\* when the snapshot is).
MajorityDecides ==
    [][ snapshot' # snapshot /\ Cardinality({t.exchange : t \in samples'}) > 1 =>
          \A lo, hi \in Prices :
            2 * Cardinality(Within(samples', lo, hi)) > Cardinality(samples')
          => 4 * lo <= 5 * snapshot'.price /\ 4 * snapshot'.price <= 5 * hi ]_vars

\* The rows of a refresh tell of the same samples: the sources of a snapshot have a
\* quote, a ticker that is written has one too and is converted at the price of the
\* snapshot, and what the diagnostics call live-backed has a ticker.
RowsAgree ==
    [][ /\ snapshot' # snapshot => snapshot'.sources \subseteq {q.exchange : q \in quotes'}
        /\ \A r \in tickers' : r.usd = snapshot'.price /\ \E q \in quotes' : Pending(q) = r.ticker
        /\ backed' \subseteq {r.ticker.exchange : r \in tickers'} ]_vars
=============================================================================
