---------------------------- MODULE OnchainSeries ----------------------------
(***************************************************************************)
(* Trades, candles and holder analytics of on-chain pools: the sweep and   *)
(* the imports that write them (services/tier1-onchain-sweepers.ts,        *)
(* onchain-trade-ingestion.ts, onchain-ohlcv-ingestion.ts,                 *)
(* onchain-analytics-ingestion.ts), and the answers made of them, of what  *)
(* the provider tells a request, or of fixtures (modules/onchain).  The    *)
(* pools stay as they are, OnchainPools changes them.  Prices are in usd   *)
(* and whole, a fixture stays at the price of its pool, the timeframe is   *)
(* one.                                                                    *)
(***************************************************************************)
EXTENDS Integers, Sequences, FiniteSetsExt, SequencesExt

CONSTANTS
    Pools,      \* the pools, by their address
    Stable,     \* the tokens worth a dollar
    Swaps,      \* the swaps the provider may tell of
    Replays,    \* the candles an import may hold
    Fixtures,   \* buildOnchainTradeFixtures
    Window,     \* resolveOnchainOhlcvWindowMs of the timeframe
    Made,       \* the instant the synthetic candles end at
    MaxTime,    \* bound: the last instant of a swap
    MaxSteps    \* bound: the requests and imports of a behaviour

SeriesAssumption ==
    /\ Window \in Nat \ {0} /\ MaxTime \in Nat /\ MaxSteps \in Nat
    /\ \A s \in Swaps : s.pool \in DOMAIN Pools /\ s.time \in 0..MaxTime

VARIABLES
    trades,     \* onchain_pool_trades
    candles,    \* onchain_pool_ohlcv
    analytics,  \* the tables of holders, traders and holder counts
    sweep,      \* the pools the sweep in flight has still to ask for, the trades it wrote
    asked,      \* the request that waits for the provider
    answer,     \* the answer sent in this step, if one was
    left        \* the requests and imports left

vars == <<trades, candles, analytics, sweep, asked, answer, left>>

Idle == [idle |-> TRUE]
Abs(n) == IF n < 0 THEN -n ELSE n
Sorted(S, before(_, _)) == SortSeq(FoldSet(LAMBDA x, s : Append(s, x), <<>>, S), before)
LastOf(s, n) == SubSeq(s, Max({1, Len(s) - n + 1}), Len(s))
FirstOf(s, n) == SubSeq(s, 1, Min({n, Len(s)}))

-----------------------------------------------------------------------------
(* Trades. *)

TokenOf(pool, s) == IF s.amount0 <= 0 THEN pool.base ELSE pool.quote
Amount(s) == Abs(IF s.amount0 <= 0 THEN s.amount0 ELSE s.amount1)

\* In dollars, by the stable side of the pool or by its price; 0 if neither tells.
AmountUsd(pool, s) ==
    IF pool.quote \in Stable /\ s.amount1 # 0 THEN Abs(s.amount1)
    ELSE IF pool.base \in Stable /\ s.amount0 # 0 THEN Abs(s.amount0)
    ELSE Amount(s) * pool.price

\* All swaps of a transaction get one id.
deriveLivePoolTrades(pool, swaps) ==
    {[pool |-> s.pool, id |-> s.tx, token |-> TokenOf(pool, s), time |-> s.time,
      volume |-> AmountUsd(pool, s), source |-> "live",
      price |-> IF Amount(s) = 0 THEN pool.price ELSE AmountUsd(pool, s) \div Amount(s)]
     : s \in {u \in swaps : AmountUsd(pool, u) # 0}}

\* The trades the provider may tell of a pool, all of them or some.
Live(p) == deriveLivePoolTrades(Pools[p], {s \in Swaps : s.pool = p})

Key(t) == <<t.pool, t.id>>

\* Of the trades of one id the last stays.
LastTold(rows) ==
    LET clashing == {r \in rows : \E s \in rows \ {r} : s.id = r.id} IN
    {(rows \ clashing) \cup last :
        last \in {l \in SUBSET clashing : /\ \A r \in clashing : \E k \in l : k.id = r.id
                                        /\ \A j, k \in l : j.id = k.id => j = k}}

\* The trades there may be once these are upserted.
ingestOnchainTradeReplay(rows) ==
    {kept \cup {t \in trades : \A k \in kept : Key(k) # Key(t)} : kept \in LastTold(rows)}

\* Bound: an answer or a file that is written holds no trade, one or all.
Batches(ts) == {b \in SUBSET ts : Cardinality(b) \in {0, 1, Cardinality(ts)}}

NewestFirst(ts) == Sorted(ts, LAMBDA a, b : a.time > b.time \/ (a.time = b.time /\ a.id < b.id))

TradeSweepBegins ==
    /\ sweep.pools = {}
    /\ sweep' = [pools |-> {p \in DOMAIN Pools : Pools[p].v3}, wrote |-> {}]
    /\ UNCHANGED <<trades, candles, analytics, asked, left>> /\ answer' = Idle

\* What was fetched long ago goes, and nothing a sweep has just written.  Bound: of a
\* table all older rows are that old or none.
enforceSnapshotRetention(ts, wrote) ==
    /\ trades' \in {ts, {t \in ts : Key(t) \in wrote}}
    /\ candles' \in {candles, {}} /\ analytics' \in {analytics, {}}

\* One pool after the other; what fails or tells nothing is a partial failure.  A sweep
\* that wrote something ends with the retention of all families.
runSubsquidTradeSweep ==
    \E p \in sweep.pools : \E told \in Batches(Live(p)) : \E ts \in ingestOnchainTradeReplay(told) :
        LET more == sweep.pools \ {p}
            wrote == sweep.wrote \cup {Key(t) : t \in told} IN
        /\ sweep' = [pools |-> more, wrote |-> IF more = {} THEN {} ELSE wrote]
        /\ IF more = {} /\ wrote # {} THEN enforceSnapshotRetention(ts, wrote)
           ELSE trades' = ts /\ UNCHANGED <<candles, analytics>>
        /\ UNCHANGED <<asked, left>> /\ answer' = Idle

normalizeOnchainTradeReplay(swaps) ==
    {[t EXCEPT !.source = "replay"] : t \in UNION {deriveLivePoolTrades(Pools[s.pool], {s}) : s \in swaps}}

TradesImported ==
    /\ left > 0 /\ left' = left - 1
    /\ \E told \in Batches(normalizeOnchainTradeReplay(Swaps)) : trades' \in ingestOnchainTradeReplay(told)
    /\ UNCHANGED <<candles, analytics, sweep, asked>> /\ answer' = Idle

-----------------------------------------------------------------------------
(* Candles. *)

Point(time, price, volume) ==
    [time |-> time, open |-> price, high |-> price, low |-> price, close |-> price, volume |-> volume]

Envelope(c) == c.low <= Min({c.open, c.close}) /\ c.high >= Max({c.open, c.close})

\* A row out of its envelope refuses the whole batch.
normalizeOnchainPoolOhlcvReplayBatch(rows) == \A r \in rows : Envelope(r.point)

ingestOnchainPoolOhlcvReplayBatch(rows) ==
    /\ left > 0 /\ left' = left - 1
    /\ normalizeOnchainPoolOhlcvReplayBatch(rows)
    /\ candles' = rows \cup {c \in candles : \A r \in rows : <<r.pool, r.point.time>> # <<c.pool, c.point.time>>}
    /\ UNCHANGED <<trades, analytics, sweep, asked>> /\ answer' = Idle

ByTime(points) == Sorted(points, LAMBDA a, b : a.time < b.time)

\* A volume that is null is read as 0.
readOnchainPoolOhlcvSeries(p) ==
    LET rows == {c \in candles : c.pool = p} IN
    [series |-> ByTime({c.point : c \in rows}),
     label |-> IF rows = {} THEN "none"
               ELSE IF \E c \in rows : c.source = "live" THEN "live" ELSE "replay"]

\* Six windows, those from before the pool are left out.
buildSyntheticPoolOhlcvSeries(pool) ==
    ByTime({Point(Made - k * Window, pool.price, 1)
            : k \in {i \in 0..5 : Made - i * Window >= pool.created}})

Traded(series, t) ==
    LET bucket == (t.time \div Window) * Window IN
    IF series = <<>> \/ Last(series).time # bucket THEN Append(series, Point(bucket, t.price, t.volume))
    ELSE [series EXCEPT ![Len(series)] = [@ EXCEPT !.high = Max({@, t.price}), !.low = Min({@, t.price}),
                                                   !.close = t.price, !.volume = @ + t.volume]]

\* Mutant: the trades as the provider lists them, the newest first.
SeriesFromNewest(ts) == FoldLeft(Traded, <<>>, NewestFirst(ts))

derivePoolOhlcvFromTrades(ts) ==
    FoldLeft(Traded, <<>>,
             Sorted(ts, LAMBDA a, b : a.time < b.time \/ (a.time = b.time /\ a.id < b.id)))

\* The windows between the last point and the next keep the last close.
Gap(series, c) ==
    IF series = <<>> THEN <<>>
    ELSE [i \in 1..((c.time - Last(series).time - 1) \div Window) |->
             Point(Last(series).time + i * Window, Last(series).close, 0)]

finalizeOnchainOhlcvSeries(series, q) ==
    LET filtered == SelectSeq(series, LAMBDA c : c.time <= q.before)
        filled == FoldLeft(LAMBDA s, c : (s \o Gap(s, c)) \o <<c>>, <<>>, filtered) IN
    LastOf(IF q.fill THEN filled ELSE filtered, q.limit)

\* The candles of a token: those of its pools, weighed by their reserves.
Weighted(points, f(_)) ==
    MapThenSumSet(LAMBDA x : f(x) * x.weight, points) \div MapThenSumSet(LAMBDA x : x.weight, points)

SourceSeries(p) ==
    IF readOnchainPoolOhlcvSeries(p).label = "none" THEN buildSyntheticPoolOhlcvSeries(Pools[p])
    ELSE readOnchainPoolOhlcvSeries(p).series

PoolsOf(token, inactive) ==
    {p \in DOMAIN Pools : /\ token \in {Pools[p].base, Pools[p].quote} /\ (Pools[p].active \/ inactive)
                         /\ SourceSeries(p) # <<>>}

aggregatePoolSeriesForToken(token, inactive) ==
    LET times(p) == IF Pools[p].base = token THEN 1 ELSE Pools[p].price
        all == UNION {{[pool |-> p, time |-> c.time, weight |-> Pools[p].reserve, open |-> c.open * times(p),
                        high |-> c.high * times(p), low |-> c.low * times(p),
                        close |-> c.close * times(p), volume |-> c.volume]
                       : c \in ToSet(SourceSeries(p))} : p \in PoolsOf(token, inactive)} IN
    ByTime({LET points == {x \in all : x.time = time} IN
            [time |-> time, open |-> Weighted(points, LAMBDA x : x.open),
             high |-> Max({x.high : x \in points}), low |-> Min({x.low : x \in points}),
             close |-> Weighted(points, LAMBDA x : x.close),
             volume |-> MapThenSumSet(LAMBDA x : x.volume, points)] : time \in {x.time : x \in all}})

\* Of the pools that were used, the best source names the answer.
TokenLabel(token, inactive) ==
    LET labels == {readOnchainPoolOhlcvSeries(p).label : p \in PoolsOf(token, inactive)} IN
    IF "live" \in labels THEN "live" ELSE IF "replay" \in labels THEN "replay" ELSE "fixture"

\* The candles of a pool's series.
CandlesOf(p) ==
    LET rows == {c \in candles : c.pool = p} IN
    IF rows = {} THEN {"fixture"} ELSE {c.source : c \in rows}

-----------------------------------------------------------------------------
(* Analytics. *)

Tables == {"holders", "traders", "chart"}

\* The fixtures are those of one token.
AnalyticsFixtures(table) == {[table |-> table, who |-> n, value |-> n, kind |-> "fixture"] : n \in 1..3}

ingestOnchainAnalytics(rows) ==
    /\ left > 0 /\ left' = left - 1
    /\ analytics' = rows \cup {a \in analytics : \A r \in rows : <<r.table, r.who>> # <<a.table, a.who>>}
    /\ UNCHANGED <<trades, candles, sweep, asked>> /\ answer' = Idle

resolveSourceKind(rows) ==
    IF \E r \in rows : r.kind = "live" THEN "live"
    ELSE IF \E r \in rows : r.kind = "replay" THEN "replay" ELSE "fixture"

readOnchainTokenAnalytics(table) == {a \in analytics : a.table = table}

TopRows(rows, n) ==
    FirstOf(Sorted(rows, LAMBDA a, b : a.value > b.value \/ (a.value = b.value /\ a.who < b.who)), n)

\* A chart is of all its instants or of the last two.
ChartRows(rows, n) == LastOf(Sorted(rows, LAMBDA a, b : a.who < b.who), n)

AnalyticsRequested(table, n) ==
    LET rows == readOnchainTokenAnalytics(table)
        chosen == IF rows = {} THEN AnalyticsFixtures(table) ELSE rows IN
    /\ left > 0 /\ left' = left - 1
    /\ answer' = [kind |-> "analytics", label |-> resolveSourceKind(rows),
                  shown |-> {a.kind : a \in ToSet(IF table = "chart" THEN ChartRows(chosen, n)
                                                   ELSE TopRows(chosen, n))}]
    /\ UNCHANGED <<trades, candles, analytics, sweep, asked>>

-----------------------------------------------------------------------------
(* Answers. *)

Kept(ts, q) ==
    {t \in ts : (q.token # "any" => t.token = q.token) /\ t.time <= q.before /\ t.volume > q.least}

\* Fixtures only stand in for trades if there are none at all.
Chosen(source, fixtures, q) == Kept(IF source = {} THEN fixtures ELSE source, q)

\* The label is that of the newest of all the trades there are.
TradesAnswer(source, fixtures, q) ==
    [kind |-> "trades", label |-> IF source = {} THEN "fixture" ELSE NewestFirst(source)[1].source,
     shown |-> {t.source : t \in ToSet(FirstOf(NewestFirst(Chosen(source, fixtures, q)), q.limit))}]

\* A request of a pool or of one of its tokens, and what it leaves out.
Query(token, before, least, limit, fill) ==
    [token |-> token, before |-> before, least |-> least, limit |-> limit, fill |-> fill]

\* A pool with trades is told of at once, for another the provider is asked.
PoolTradesRequested(p, q) ==
    LET rows == {t \in trades : t.pool = p} IN
    /\ q.token \in {"any", Pools[p].base, Pools[p].quote}
    /\ asked = Idle /\ left > 0 /\ left' = left - 1
    /\ IF rows # {}
       THEN answer' = TradesAnswer(rows, {}, q) /\ UNCHANGED asked
       ELSE answer' = Idle /\ asked' = [kind |-> "trades", pool |-> p, q |-> q]
    /\ UNCHANGED <<trades, candles, analytics, sweep>>

TokenTradesRequested(q) ==
    /\ left > 0 /\ left' = left - 1
    /\ answer' = TradesAnswer({t \in trades : t.token = q.token}, {t \in Fixtures : t.token = q.token}, q)
    /\ UNCHANGED <<trades, candles, analytics, sweep, asked>>

PoolOhlcvRequested(p, q) ==
    /\ asked = Idle /\ left > 0 /\ left' = left - 1
    /\ asked' = [kind |-> "ohlcv", pool |-> p, q |-> q]
    /\ UNCHANGED <<trades, candles, analytics, sweep>> /\ answer' = Idle

TokenOhlcvRequested(token, inactive, queries) ==
    /\ left > 0 /\ left' = left - 1
    /\ LET of == aggregatePoolSeriesForToken(token, inactive) IN
       \E q \in queries :
       answer' = [kind |-> "token", label |-> TokenLabel(token, inactive), q |-> q, of |-> ToSet(of),
                  shown |-> UNION {CandlesOf(p) : p \in PoolsOf(token, inactive)},
                  series |-> finalizeOnchainOhlcvSeries(of, q)]
    /\ UNCHANGED <<trades, candles, analytics, sweep, asked>>

\* The candles that are kept are read after the provider answered.
PoolOhlcvAnswer(p, live, q) ==
    LET kept == readOnchainPoolOhlcvSeries(p)
        label == IF live # {} THEN "live" ELSE IF kept.label # "none" THEN kept.label ELSE "fixture"
        of == IF live # {} THEN derivePoolOhlcvFromTrades(live) ELSE SourceSeries(p) IN
    [kind |-> "ohlcv", label |-> label, told |-> live, q |-> q, of |-> ToSet(of),
     shown |-> {IF live = {} /\ kept.label = "none" THEN "fixture" ELSE label},
     series |-> finalizeOnchainOhlcvSeries(of, q)]

\* Only pools of eth are asked for; a failed answer is an empty one.
fetchLivePoolTrades ==
    /\ asked # Idle /\ asked' = Idle
    /\ \E live \in SUBSET Live(asked.pool) :
          answer' = IF asked.kind = "ohlcv" THEN PoolOhlcvAnswer(asked.pool, live, asked.q)
                    ELSE TradesAnswer(live, {t \in Fixtures : t.pool = asked.pool}, asked.q)
    /\ UNCHANGED <<trades, candles, analytics, sweep, left>>

-----------------------------------------------------------------------------

Init ==
    /\ trades = {} /\ candles = {} /\ analytics = {} /\ sweep = [pools |-> {}, wrote |-> {}]
    /\ asked = Idle /\ answer = Idle /\ left = MaxSteps

\* What an import holds: one row of every table.
AnalyticsRows(who, kind) == {[table |-> t, who |-> who, value |-> 4 - who, kind |-> kind] : t \in Tables}
TokensOf == UNION {{Pools[p].base, Pools[p].quote} : p \in DOMAIN Pools}

\* What is asked for: the first window or all, of series with gaps filled or not.
SeriesQueries == {Query("any", Window, 0, 1, FALSE)} \cup {Query("any", MaxTime, 0, 9, fill) : fill \in BOOLEAN}
TradeQueries(token) == {Query(token, Window, 1, 1, FALSE), Query(token, MaxTime, 1, 9, FALSE)}

Next ==
    \/ TradeSweepBegins \/ runSubsquidTradeSweep \/ TradesImported \/ fetchLivePoolTrades
    \/ \E rows \in SUBSET Replays : ingestOnchainPoolOhlcvReplayBatch(rows)
    \/ \E w \in {1, 3}, k \in {"live", "replay"} : ingestOnchainAnalytics(AnalyticsRows(w, k))
    \/ \E t \in Tables, n \in {2, 3} : AnalyticsRequested(t, n)
    \/ \E t \in TokensOf, inactive \in BOOLEAN : TokenOhlcvRequested(t, inactive, SeriesQueries)
    \/ \E p \in DOMAIN Pools, q \in SeriesQueries : PoolOhlcvRequested(p, q)
    \/ \E p \in DOMAIN Pools :
          \E q \in TradeQueries("any") \cup TradeQueries(Pools[p].base) : PoolTradesRequested(p, q)
    \/ \E t \in TokensOf : \E q \in TradeQueries(t) : TokenTradesRequested(q)

Spec == Init /\ [][Next]_vars

-----------------------------------------------------------------------------
(* Properties. *)

\* The series of a token may be of several pools; it is labelled by one of them.
FixturesLabelled ==
    answer # Idle =>
        /\ answer.label = "fixture" => answer.shown \subseteq {"fixture"}
        /\ answer.label # "fixture" =>
              IF answer.kind = "token" THEN answer.label \in answer.shown
              ELSE answer.shown \subseteq {"live", "replay"}

In(time, ts) == {t \in ts : (t.time \div Window) * Window = time}
Prices(ts) == {t.price : t \in ts}
Ends(ts, time) == {t \in ts : t.time = time}

\* What a window of live trades must be shown as.
TellsOf(c, ts) ==
    /\ c.open \in Prices(Ends(ts, Min({t.time : t \in ts})))
    /\ c.close \in Prices(Ends(ts, Max({t.time : t \in ts})))
    /\ c.high = Max(Prices(ts)) /\ c.low = Min(Prices(ts))
    /\ c.volume = MapThenSumSet(LAMBDA t : t.volume, ts)

\* A series shows the latest candles of its source up to the instant asked for, in order
\* and in their envelopes; a window between them is there only if gaps are to be filled,
\* keeps the close before it, and then there is no gap.  Made of live trades, a candle
\* opens with the first and closes with the last trade of its window
\* (derivePoolOhlcvFromTrades, finalizeOnchainOhlcvSeries, aggregatePoolSeriesForToken).
SeriesTrue ==
    /\ FixturesLabelled
    /\ answer # Idle /\ answer.kind \in {"ohlcv", "token"} =>
           LET s == answer.series
               due == {c \in answer.of : c.time <= answer.q.before} IN
           /\ \A i \in DOMAIN s :
                 /\ Envelope(s[i])
                 /\ s[i] \notin due => answer.q.fill /\ s[i].volume = 0
                                       /\ (i > 1 => Point(s[i].time, s[i - 1].close, 0) = s[i])
           /\ \A i \in 2..Len(s) : s[i].time > s[i - 1].time
                                   /\ (answer.q.fill => s[i].time <= s[i - 1].time + Window)
           /\ Len(s) <= answer.q.limit
           /\ \A c \in due \ ToSet(s) : Len(s) = answer.q.limit /\ c.time < s[1].time
           /\ answer.kind = "ohlcv" /\ answer.told # {} =>
                 /\ \A c \in answer.of : TellsOf(c, In(c.time, answer.told))
                 /\ \A t \in answer.told : \E c \in answer.of : t \in In(c.time, answer.told)
=============================================================================
