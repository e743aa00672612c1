----------------------------- MODULE MCDataPlane -----------------------------
(***************************************************************************)
(* Values for the constants of DataPlane: of each topic the few rows,      *)
(* answers and requests among which its properties are at stake.           *)
(***************************************************************************)
EXTENDS DataPlane, TLC

-----------------------------------------------------------------------------
(* One coin on three exchanges, one of which is known under another name   *)
(* and one not at all; the bounds of the ratio fall between the prices.    *)

MCCanonicalName == [kraken |-> "kraken", gate |-> "gate", okx |-> "okex"]

Clean(e, s, at) ==
    {[exchange |-> e, symbol |-> s, last |-> p, crossed |-> FALSE, minutes |-> 0, flagged |-> FALSE] : p \in at}

\* The last one is refused for two reasons.
MCTickers ==
    Clean("kraken", "USD", QuotePrices) \cup Clean("kraken", "USDT", {24}) \cup Clean("gate", "USD", {31, 100})
    \cup Clean("okx", "USD", {24})
    \cup {[exchange |-> "gate", symbol |-> "USD", last |-> 100, crossed |-> TRUE, minutes |-> 6, flagged |-> TRUE]}

\* An exchange answers with one ticker of a market.
MCOffers == {ts \in SUBSET MCTickers :
                \A t, u \in ts : t.exchange = u.exchange /\ t.symbol = u.symbol => t = u}

-----------------------------------------------------------------------------
(* A seeded pool the provider tells of with its tokens in either order, two *)
(* it may tell of besides, one of them of a chain that is not configured.   *)

PoolTold(id, network, dex, tokens, tvl) ==
    [id |-> id, network |-> network, dex |-> dex, tokens |-> tokens, tvl |-> tvl, volume |-> tvl]

SeedPool(address, tokens, reserve) ==
    [network |-> "eth", address |-> address, dex |-> "uniswap", tokens |-> tokens, priceOf |-> tokens[1],
     reserve |-> reserve, volume |-> 7, tx |-> 1, created |-> address, updated |-> 0]

MCEntry == {PoolTold("p", "eth", "uniswap", <<"a", "b">>, 300), PoolTold("p", "eth", "uniswap", <<"b", "a">>, 300),
            PoolTold("q", "eth", "curve", <<"a", "c">>, 200), PoolTold("r", "tron", "sun", <<"a", "c">>, 150)}

\* A pool is told of with its tokens in one order.
MCTellings == {es \in SUBSET MCEntry : \A a, b \in es : a.id = b.id => a = b}
MCAddressOf == [p |-> 2, q |-> 3, r |-> 4]
MCPoolSeeds == {SeedPool(2, <<"a", "b">>, 150)}

-----------------------------------------------------------------------------
(* A pool of a stable token whose swaps the provider tells of, two of them  *)
(* of one transaction and one after a window without any, and a small one   *)
(* priced by its own token.  One of the candles is out of its envelope,     *)
(* one has no volume.                                                       *)

Swap(tx, amount0, amount1, time) ==
    [pool |-> "p", tx |-> tx, amount0 |-> amount0, amount1 |-> amount1, time |-> time]

Candled(pool, source, time, open, high, low, close, volume) ==
    [pool |-> pool, source |-> source, point |-> [time |-> time, open |-> open, high |-> high, low |-> low,
                                                  close |-> close, volume |-> volume]]

MCPools == [p |-> [base |-> "a", quote |-> "usdc", price |-> 2, active |-> TRUE, reserve |-> 1, v3 |-> TRUE,
                   created |-> 0],
            r |-> [base |-> "c", quote |-> "a", price |-> 3, active |-> FALSE, reserve |-> 2, v3 |-> FALSE,
                   created |-> 3]]
MCSwaps == {Swap(1, -1, 2, 0), Swap(2, 2, -6, 1), Swap(2, -1, 1, 1), Swap(3, -1, 4, 5)}
MCCandleReplays == {Candled("p", "replay", 0, 1, 3, 1, 2, 1), Candled("p", "live", 4, 2, 2, 1, 1, 0),
                    Candled("r", "replay", 4, 1, 2, 1, 3, 1)}
MCFixtures == {[pool |-> "p", id |-> 9, token |-> "a", time |-> 0, volume |-> 2, source |-> "fixture",
                price |-> 2]}

-----------------------------------------------------------------------------
(* Three coins: bitcoin as seeded, one of the canonical corpus and one that *)
(* nothing is known of yet, with a rank and inactive.  A refresh may bring  *)
(* figures or no more than a price and a rank.                              *)

Row(live, price, cap, volume, change, rank) ==
    [live |-> live, canonical |-> FALSE, price |-> price, cap |-> cap, volume |-> volume, change |-> change, rank |-> rank,
     at |-> 0]

Query(ids, order, vs) ==
    [ids |-> ids, order |-> order, page |-> 1, per |-> 2, vs |-> vs, windows |-> {1, 7}]

MCSeeds == <<Row(FALSE, 4, 9, -1, 2, -1), [Row(TRUE, 5, 8, 1, 2, 2) EXCEPT !.canonical = TRUE],
             [Row(FALSE, 0, 0, 0, 0, 0) EXCEPT !.at = -1]>>
MCSnapshots == {Row(TRUE, 2, 6, 5, 3, -1), Row(TRUE, 3, -1, -1, -1, 1)}
MCRanks == <<2, -1, 1>>
MCSupply == <<-1, 3, -1>>
MCSeries == <<<<4>>, <<>>, <<>>>>
MCQueries == {Query(<<>>, "market_cap_desc", "btc"), Query(<<2, 1>>, "id_asc", "eur"),
              Query(<<1, 2>>, "id_asc", "eur")}

-----------------------------------------------------------------------------
(* Two providers whose captured charts overlap each other and what is live, *)
(* one of a day that has no price live, and a candle that is none.          *)

Fact(price, cap, sound) == [price |-> price, cap |-> cap, sound |-> sound]

Batch(family, provider, captured, told) ==
    [family |-> family, provider |-> provider, captured |-> captured, told |-> told]

ChartCandle(at, price, sound) == [at |-> at, price |-> price, cap |-> -1, sound |-> sound]

ChartQuery(route, kind, days, to, interval) ==
    [route |-> route, kind |-> kind, days |-> days, from |-> 4, to |-> to, interval |-> interval]

MCChartTold == [t \in 1..8 |-> IF t = 7 THEN Fact(0, -1, TRUE) ELSE Fact(2, 9, TRUE)]
MCChartReplays ==
    {Batch("chart", "r", 7, 3 :> Fact(1, -1, TRUE) @@ 7 :> Fact(1, 3, FALSE)),
     Batch("chart", "s", 6, 7 :> Fact(1, 2, TRUE)),
     Batch("supply", "r", 7, [t \in 4..6 |-> Fact(1, -1, TRUE)]),
     Batch("history", "r", 8, 5 :> Fact(1, -1, TRUE))}
MCWorkerCandles == {ChartCandle(5, 3, TRUE), ChartCandle(7, 3, FALSE)}
MCChartQueries ==
    {ChartQuery("chart", "days", 3, 5, "none"), ChartQuery("ohlc", "range", 0, 7, "none"),
     ChartQuery("chart", "max", 0, 7, "weekly")}
MCGranularities == <<[upTo |-> 1, step |-> 1], [upTo |-> 3, step |-> 2]>>

-----------------------------------------------------------------------------
(* A seeded venue and a new one that are asked, and a seeded one that is    *)
(* not; two contracts.                                                      *)

MCConfiguredVenues == <<"new", "known">>
MCSeededTickers == {[venue |-> "known", symbol |-> "s"]}
MCInterest == [s |-> 1, t |-> 2]

-----------------------------------------------------------------------------
(* Two seeded entities and one that is disclosed; a document that is        *)
(* corrected, one that comes after a newer one, two transactions of a day.  *)

Deed(id, balance, at, value) == [id |-> id, balance |-> balance, at |-> at, value |-> value]

Disclosed(url, entity, accepted, amount, deeds) ==
    [url |-> url, entity |-> entity, accepted |-> accepted, amount |-> amount, transactions |-> deeds]

MCFiles ==
    {<<Disclosed("a", "strategy", 0, 7, <<Deed(1, 5, 2, -1), Deed(2, 7, 3, 4)>>)>>,
     <<Disclosed("b", "strategy", 1, 6, <<Deed(2, 6, 3, 3)>>),
       Disclosed("c", "metaplanet", 1, 2, <<Deed(3, 2, 2, 1), Deed(4, 1, 2, -1)>>)>>,
     <<Disclosed("a", "strategy", 2, 8, <<Deed(1, 8, 3, 2)>>)>>}
MCSeededHoldings ==
    {[entity |-> "strategy", amount |-> 4, url |-> "press"], [entity |-> "salvador", amount |-> 3, url |-> "site"]}
MCSeededTransactions == {[id |-> 9, entity |-> "salvador", balance |-> 3, at |-> 2, value |-> 5, url |-> "report"]}
MCDayPrices == {[at |-> 1, price |-> 2], [at |-> 2, price |-> 3], [at |-> 3, price |-> 1]}

-----------------------------------------------------------------------------
(* An exchange, another that comes later and whose name stood for the first *)
(* one until then; two providers of one volume; a pair that two coins claim. *)

Claim(coin, exchange, pair, volume) == [coin |-> coin, exchange |-> exchange, pair |-> pair, volume |-> volume]

MCVolumeTargets == <<[provider |-> "p", exchange |-> "okex"], [provider |-> "q", exchange |-> "okex"]>>
MCClaims == {{Claim(1, "okex", 1, 1), Claim(2, "okex", 1, 2), Claim(2, "okex", 2, -1)},
             {Claim(1, "okex", 1, -1), Claim(2, "okex", 2, 1), Claim(1, "okx", 1, 1)}}
MCAlias == [okx |-> "okex"]

-----------------------------------------------------------------------------

\* The requests for pools are interchangeable.
Clients == Permutations(Client)
=============================================================================
