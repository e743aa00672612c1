---------------------------- MODULE MarketAnswers ----------------------------
(***************************************************************************)
(* What the hot routes answer of the stored usd snapshots: /simple/price,  *)
(* /simple/token_price, /coins/markets with its cache, /coins/{id} and     *)
(* /coins/top_gainers_losers.  Snapshots are rewritten by refreshes of     *)
(* this process, which advance the revision, and of others, which do not;  *)
(* daily closes, currency rates, the failure flag and time move alone.     *)
(* Coins are numbers in the order of their ids, coin 1 is bitcoin.         *)
(***************************************************************************)
EXTENDS SnapshotPolicy, Integers, Sequences, FiniteSets, FiniteSetsExt

CONSTANTS
    Coin,           \* 1..n
    RankOf,         \* the rank of the catalog, or Nothing
    Active,         \* the coins that are not inactive
    Seeds,          \* the rows of the seeded reference data
    Snapshots,      \* what a refresh may write, live
    Closes,         \* the seeded daily closes
    ClosePrice,     \* the close the worker adds
    Supply,         \* the latest circulating supply of each coin, or Nothing
    Fiat,           \* the rates currency-rates may bring for eur, first the bundled one
    Queries,        \* requests for /coins/markets
    Modes,          \* of the override a validation server may be given
    CacheTtl,       \* COINS_MARKETS_CACHE_TTL_MS
    MaxTime, MaxChanges     \* bounds

Nothing == -1
Bitcoin == 1

\* gecko_desc and gecko_asc are further names of the first two.
Orders == {"market_cap_desc", "market_cap_asc", "volume_desc", "volume_asc", "id_desc", "id_asc"}

\* canonical: of the corpus of a validation server.
StoredRow == [live : BOOLEAN, canonical : BOOLEAN, price : Int, cap : Int, volume : Int, change : Int,
              rank : Int, at : Int]

\* Of a live row the price is one (filterMarketQuoteSamplesForConsensus).
ASSUME AnswersAssumption ==
    /\ Coin \in SUBSET Nat /\ IsFiniteSet(Coin) /\ Bitcoin \in Coin /\ Active \subseteq Coin
    /\ RankOf \in [Coin -> Int]
    /\ Seeds \in [Coin -> StoredRow] /\ Snapshots \subseteq StoredRow
    /\ \A r \in {Seeds[c] : c \in Coin} \cup Snapshots : r.live => r.price > 0
    /\ Fiat \subseteq Nat \ {0} /\ IsFiniteSet(Fiat) /\ Fiat # {}
    /\ Queries \subseteq [ids : Seq(Nat), order : Orders, page : Nat \ {0}, per : Nat \ {0},
                          vs : {"usd", "eur", "btc"}, windows : SUBSET (Nat \ {0})]
    /\ Modes \subseteq Mode
    /\ CacheTtl \in Nat

VARIABLES
    rows,           \* market_snapshots of usd
    closes,         \* of each coin, its daily closes, oldest first
    fiat,           \* the currency snapshot
    flags,          \* initialSyncCompleted, allowStaleLiveService
    override,       \* validationOverride: its mode and instant
    revision, now,
    cache,          \* coinMarketsCache
    touched,        \* when something last changed without a new revision
    left            \* changes that may still come

answersVars == <<rows, closes, fiat, flags, override, revision, now, cache, touched, left>>

NoRow == [live |-> FALSE, canonical |-> FALSE, price |-> 0, cap |-> 0, volume |-> 0, change |-> 0,
          rank |-> 0, at |-> -1]

-----------------------------------------------------------------------------
(* The snapshot of a coin as a route may use it. *)

policy == getSnapshotAccessPolicy(override.mode, flags.completed, flags.stale)

Aged(at) == IF now - at > TooOld THEN TooOld ELSE now - at
AsSnapshot(r) == [kind |-> IF r = NoRow THEN "none" ELSE IF r.live THEN "live" ELSE "seeded",
                  age |-> IF r = NoRow THEN 0 ELSE Aged(r.at)]

\* The epoch, which is too old at any time.
Epoch == -TooOld

\* applyValidationSnapshotOverride replaces source count and time, and in the
\* degraded mode the figures.
Effective(r) ==
    LET s == getEffectiveSnapshot(AsSnapshot(r), [mode |-> override.mode, age |-> Aged(override.at)])
        at == IF override.mode \in {"stale_disallowed", "stale_allowed"} THEN Epoch ELSE override.at IN
    IF r = NoRow \/ override.mode = "off" THEN r
    ELSE IF override.mode = "degraded_seeded_bootstrap"
    THEN [r EXCEPT !.live = FALSE, !.at = at, !.cap = Nothing, !.volume = Nothing, !.change = Nothing]
    ELSE [r EXCEPT !.live = s.kind = "live", !.at = at]

UsableOf(r) == IF getUsableSnapshot(AsSnapshot(r), policy) THEN r ELSE NoRow
Usable(c) == UsableOf(Effective(rows[c]))

Quotient(n, d) == [num |-> n, den |-> d]
Zero == Quotient(0, 1)

\* getConversionRate: usd, eur of the currency snapshot, and bitcoin by its own
\* usable row, which no override touches, or by the currency snapshot.
Rate(vs) ==
    LET b == UsableOf(rows[Bitcoin]) IN
    CASE vs = "usd" -> Quotient(1, 1)
      [] vs = "eur" -> Quotient(fiat, 1)
      [] vs = "btc" -> Quotient(1, IF b.price > 0 THEN b.price ELSE fiat)

In(v, rate) == IF v = Nothing THEN Zero ELSE Quotient(v * rate.num, rate.den)
\* An amount of zero is shown as null too.
Some(v, rate) == IF v <= 0 THEN Zero ELSE In(v, rate)

-----------------------------------------------------------------------------
(* Daily closes: what of a row is made of them. *)

Of(series) == {series[i] : i \in DOMAIN series}

\* getSeriesExtremes looks at every close there is, and the price.
getSeriesExtremes(c, s) ==
    LET all == Of(closes[c]) \cup (IF s = NoRow THEN {} ELSE {s.price}) IN
    IF all = {} THEN <<Nothing, Nothing>> ELSE <<Max(all), Min(all)>>

\* The change from the close of so many days before the last one, or the first.
getSeriesChangePercentageForWindowDays(c, days) ==
    LET n == Len(closes[c])
        first == closes[c][IF n - days >= 1 THEN n - days ELSE 1] IN
    IF n < 2 \/ first = 0 THEN Zero ELSE Quotient(closes[c][n] - first, first)

\* A day's change is that of the snapshot, stored and not as usable.
getSeriesChangePercentageForWindow(c, days) ==
    IF days > 1 THEN getSeriesChangePercentageForWindowDays(c, days)
    ELSE IF rows[c] = NoRow \/ rows[c].change = Nothing THEN Zero ELSE Quotient(rows[c].change, 1)

-----------------------------------------------------------------------------
(* The order of a list and its pages. *)

IsKnown(v) == v # Nothing

\* Mutant: what is not known is neither before nor after what is.
compareKnownOnly(l, r, up) == IF ~(IsKnown(l) /\ IsKnown(r)) THEN 0 ELSE IF up THEN l - r ELSE r - l

\* Known before unknown.
compareOptionalNumbers(l, r, up) ==
    IF IsKnown(l) /\ IsKnown(r) THEN (IF up THEN l - r ELSE r - l)
    ELSE IF IsKnown(l) THEN -1 ELSE IF IsKnown(r) THEN 1 ELSE 0

hasPositiveMarketEvidence(s) == s.price > 0 \/ s.cap > 0 \/ s.volume > 0

\* The rank of the snapshot, else of the catalog, else, for a coin with figures,
\* of a table.
getReferenceMarketCapRank(c, s) ==
    IF s # NoRow /\ s.rank # Nothing THEN s.rank
    ELSE IF RankOf[c] # Nothing THEN RankOf[c]
    ELSE IF hasPositiveMarketEvidence(s) /\ c = Bitcoin THEN 1 ELSE Nothing

RankIn(c) == getReferenceMarketCapRank(c, Usable(c))
VolumeOf(c) == IF Usable(c) = NoRow THEN Nothing ELSE Usable(c).volume

\* Coins without any figure come last, whatever the order.
compareMarketRowsForRouteOrder(l, r, order) ==
    LET withFigures(c) == hasPositiveMarketEvidence(Usable(c))
        compared == CASE order = "market_cap_desc" ->
                           compareOptionalNumbers(RankIn(l), RankIn(r), TRUE)
                      [] order = "market_cap_asc" ->
                           compareOptionalNumbers(RankIn(l), RankIn(r), FALSE)
                      [] order \in {"volume_desc", "volume_asc"} ->
                           compareOptionalNumbers(VolumeOf(l), VolumeOf(r), order = "volume_asc")
                      [] OTHER -> 0 IN
    IF withFigures(l) # withFigures(r) THEN (IF withFigures(l) THEN -1 ELSE 1)
    ELSE IF compared # 0 THEN compared
    ELSE IF order = "id_desc" THEN r - l ELSE l - r

Place(c, order) == 1 + Cardinality({d \in Coin \ {c} : compareMarketRowsForRouteOrder(d, c, order) < 0})

Elements(s) == {s[i] : i \in DOMAIN s}

\* The members of a set by their places.
InOrder(S, place) ==
    LET before(c) == {d \in S : place[d] < place[c]} IN
    [i \in 1..Cardinality(S) |-> CHOOSE c \in S : Cardinality(before(c)) = i - 1]

\* rows.slice(start, start + perPage)
Page(place, page, per) == {c \in Coin : (place[c] - 1) \div per = page - 1}

Listed(q) ==
    LET place == [c \in Coin |-> Place(c, q.order)] IN
    InOrder(Page(place, q.page, q.per), place)

\* getMarketRows reads the coins of explicit ids once each and sorts them by the last
\* index of their id; neither pages nor orders apply to them.
Selected(q) ==
    LET known == Elements(q.ids) \cap Coin IN
    InOrder(known, [c \in known |-> Max({i \in DOMAIN q.ids : q.ids[i] = c})])

Chosen(q) == IF q.ids = <<>> THEN Listed(q) ELSE Selected(q)

-----------------------------------------------------------------------------
(* Rows of answers. *)

\* A day's change is that of the snapshot, a longer one's that of the closes.
buildMarketPriceChangeFields(c, s, windows) ==
    [w \in windows |-> IF w > 1 THEN getSeriesChangePercentageForWindowDays(c, w)
                       ELSE IF s = NoRow \/ s.change = Nothing THEN Zero ELSE Quotient(s.change, 1)]

\* Some overrides leave no more than the price, and a canonical row tells no market
\* cap before the initial sync.
buildMarketRow(c, s, vs, windows) ==
    LET rate == Rate(vs)
        bare == \/ override.mode \in {"degraded_seeded_bootstrap", "stale_disallowed"}
                \/ override.mode = "seeded_bootstrap" /\ s # NoRow /\ s.live
        some(v) == IF bare \/ s = NoRow THEN Zero ELSE Some(v, rate)
        extremes == getSeriesExtremes(c, s) IN
    [coin |-> c,
     price |-> IF s = NoRow THEN Zero ELSE In(s.price, rate),
     cap |-> IF s.canonical /\ ~flags.completed THEN Zero ELSE some(s.cap), volume |-> some(s.volume),
     rank |-> IF bare THEN Nothing ELSE getReferenceMarketCapRank(c, s),
     extremes |-> IF bare THEN <<Zero, Zero>> ELSE <<In(extremes[1], rate), In(extremes[2], rate)>>,
     changes |-> IF bare THEN [w \in windows |-> Zero] ELSE buildMarketPriceChangeFields(c, s, windows),
     updated |-> IF bare THEN Nothing ELSE s.at]

MarketRow(c, vs, windows) == buildMarketRow(c, Usable(c), vs, windows)

MarketsPayload(q) == [i \in DOMAIN Chosen(q) |-> MarketRow(Chosen(q)[i], q.vs, q.windows)]

\* Where the snapshot has no market cap, /simple/price makes one of the supply.
deriveMarketCap(c) ==
    LET s == Usable(c) IN
    IF s.cap > 0 THEN s.cap ELSE IF Supply[c] > 0 THEN s.price * Supply[c] ELSE Nothing

\* /simple/price and /simple/token_price leave out the coins they have no price of.
buildSimplePayload(coins, vs) ==
    LET rate == Rate(vs) IN
    [c \in {d \in coins : Usable(d) # NoRow} |->
        [price |-> In(Usable(c).price, rate), cap |-> In(deriveMarketCap(c), rate),
         volume |-> In(Usable(c).volume, rate), change |-> Usable(c).change, updated |-> Usable(c).at]]

\* /coins/{id}: market_data of the coin, or none.  The week's change is that of
\* all closes; a canonical row tells neither market cap nor rank.
NoMarketData == [price |-> Zero, updated |-> Nothing]
buildCoinDetail(c, vs) ==
    LET s == Usable(c)
        rate == Rate(vs)
        extremes == getSeriesExtremes(c, s) IN
    IF s = NoRow THEN NoMarketData
    ELSE [price |-> In(s.price, rate), volume |-> In(s.volume, rate),
          cap |-> IF s.canonical THEN Zero ELSE In(s.cap, rate),
          rank |-> IF s.canonical THEN Nothing ELSE s.rank, extremes |-> <<In(extremes[1], rate), In(extremes[2], rate)>>,
          change |-> s.change, week |-> getSeriesChangePercentageForWindowDays(c, Len(closes[c])),
          updated |-> s.at]

\* The universe of the movers: the active coins by rank, up to the limit.  The
\* override counts for the policy and not for the rows.
Universe(limit) ==
    LET s(c) == UsableOf(rows[c])
        rank(c) == IF s(c) # NoRow /\ s(c).rank # Nothing THEN s(c).rank ELSE RankOf[c]
        ahead(d, c) == LET order == compareOptionalNumbers(rank(d), rank(c), TRUE) IN
                       order < 0 \/ (order = 0 /\ d < c) IN
    {c \in Active : Cardinality({d \in Active : ahead(d, c)}) < limit}

\* The meta: live if every coin of the universe has a live snapshot.
buildMoverMeta(limit) ==
    [live |-> Universe(limit) # {} /\ \A c \in Universe(limit) : UsableOf(rows[c]).live]

\* So it does in the rows of the movers.
TopMovers(limit, days, vs) ==
    LET row(c) == buildMarketRow(c, UsableOf(rows[c]), vs, {days})
        change(c) == getSeriesChangePercentageForWindow(c, days)
        movers == {c \in Universe(limit) : change(c).num # 0} IN
    [gainers |-> {row(c) : c \in {d \in movers : change(d).num > 0}},
     losers |-> {row(c) : c \in {d \in movers : change(d).num < 0}},
     meta |-> buildMoverMeta(limit)]

-----------------------------------------------------------------------------
(* The cache of /coins/markets. *)

\* Mutant: the access policy is no part of the key.
KeyWithoutPolicy(q) == [query |-> [q EXCEPT !.ids = Elements(q.ids)], override |-> override]

\* createCoinMarketsCacheKey sorts the ids.
Key(q) == [query |-> [q EXCEPT !.ids = Elements(q.ids)], policy |-> policy, override |-> override]

\* Entries of an earlier revision or past their expiry are never served again and
\* are kept as no entries, though the map keeps them.
Served(entries, rev, time) == {e \in entries : e.revision = rev /\ e.expires > time}

Hits(q) == {e \in Served(cache, revision, now) : e.key = Key(q)}

\* A request that finds an entry is answered with it.
AskMarkets(q) ==
    /\ Hits(q) = {}
    /\ cache' = {e \in cache : e.key # Key(q)}
                \cup {[key |-> Key(q), value |-> MarketsPayload(q), revision |-> revision,
                       expires |-> now + CacheTtl]}
    /\ UNCHANGED <<rows, closes, fiat, flags, override, revision, now, touched, left>>

-----------------------------------------------------------------------------
(* What changes the answers. *)

\* What the answers are made of, besides the flags and the override.
Told == <<rows, closes, fiat, {c \in Coin : Aged(rows[c].at) > Threshold}>>

Changes ==
    /\ cache' = Served(cache, revision', now')
    /\ touched' = IF revision' = revision /\ Told' # Told THEN now' ELSE touched

Spends == left > 0 /\ left' = left - 1 /\ UNCHANGED now

\* A refresh writes rows; its own process learns of it by a new revision, and
\* has nothing to hold against the rows it serves.
Refresh ==
    /\ Spends
    /\ \E c \in Coin, s \in Snapshots, own \in BOOLEAN :
         /\ rows' = [rows EXCEPT ![c] = [s EXCEPT !.at = now]]
         /\ revision' = IF own THEN revision + 1 ELSE revision
         /\ flags' = IF own THEN [completed |-> TRUE, stale |-> FALSE] ELSE flags
    /\ UNCHANGED <<closes, fiat, override>>
    /\ Changes

\* recordMarketRefreshFailure turns stale service on.
RefreshFails ==
    /\ Spends
    /\ flags' = [flags EXCEPT !.stale = TRUE]
    /\ UNCHANGED <<rows, closes, fiat, override, revision>>
    /\ Changes

OverridePosted(mode) ==
    /\ Spends
    /\ override' = [mode |-> mode, at |-> now]
    /\ flags' = IF mode \in {"seeded_bootstrap", "degraded_seeded_bootstrap"} THEN [flags EXCEPT !.completed = FALSE]
                ELSE IF mode = "zero_live_completed_boot" THEN [completed |-> TRUE, stale |-> FALSE]
                ELSE flags
    /\ revision' = revision + 1
    /\ UNCHANGED <<rows, closes, fiat>>
    /\ Changes

RatesFetched ==
    /\ Spends
    /\ \E r \in Fiat : fiat' = r
    /\ UNCHANGED <<rows, closes, flags, override, revision>>
    /\ Changes

\* The OHLCV worker adds the close of a day.
CloseWritten ==
    /\ Spends
    /\ \E c \in Coin : closes' = [closes EXCEPT ![c] = Append(@, ClosePrice)]
    /\ UNCHANGED <<rows, fiat, flags, override, revision>>
    /\ Changes

Tick ==
    /\ now < MaxTime
    /\ now' = now + 1
    /\ UNCHANGED <<rows, closes, fiat, flags, override, revision, left>>
    /\ Changes

AnswersInit ==
    /\ rows = Seeds /\ closes = Closes
    /\ fiat = Min(Fiat)
    /\ flags = [completed |-> FALSE, stale |-> FALSE]
    /\ override = [mode |-> "off", at |-> 0]
    /\ revision = 0 /\ now = 0 /\ cache = {}
    /\ touched = 0 /\ left = MaxChanges

AnswersNext ==
    \/ Refresh \/ RefreshFails \/ RatesFetched \/ CloseWritten \/ Tick
    \/ \E mode \in Modes : OverridePosted(mode)
    \/ \E q \in Queries : AskMarkets(q)

AnswersSpec == AnswersInit /\ [][AnswersNext]_answersVars

-----------------------------------------------------------------------------
(* Properties. *)

\* Whatever the cache would answer a request of /coins/markets has the rows the
\* request would get without it, unless something that has no revision (rates,
\* closes, another process, the age of a row) changed within the time to live: all
\* else that a row depends on is in the key or advances the revision.
AnswersCurrent ==
    \A q \in Queries : \A e \in Hits(q) :
      Elements(e.value) # Elements(MarketsPayload(q)) => now - touched < CacheTtl

\* Whoever walks the pages of a list meets every coin once, in every order, and no
\* coin without figures before one with: rows that lack a rank or a volume still
\* have one place (compareMarketRowsForRouteOrder).
PagesCoverOnce ==
    \A order \in Orders :
      LET place == [c \in Coin |-> Place(c, order)]
          figures == {c \in Coin : hasPositiveMarketEvidence(Usable(c))} IN
      /\ {place[c] : c \in Coin} = 1..Cardinality(Coin)
      /\ \A c \in figures, d \in Coin \ figures : place[c] < place[d]

\* Pages have each coin once; routes that are asked at the same moment show the same
\* price of a coin or none, in every currency, of the same time; and movers that are
\* called live all have a price, overridden or not.
AnswersAgree ==
    /\ PagesCoverOnce
    /\ \A vs \in {"eur", "btc"} :
      LET simple == buildSimplePayload(Coin, vs)
          top == TopMovers(2, 1, vs) IN
      /\ \A c \in Coin : LET row == MarketRow(c, vs, {})
                             detail == buildCoinDetail(c, vs) IN
                         /\ detail.price = row.price
                         /\ IF c \in DOMAIN simple
                            THEN /\ simple[c].price = row.price
                                 /\ simple[c].updated = detail.updated
                                 /\ row.updated \in {Nothing, detail.updated}
                            ELSE row.price = Zero /\ detail = NoMarketData
      /\ top.meta.live => \A r \in top.gainers \cup top.losers : r.price # Zero

\* Explicit ids are answered in the order they were asked in.
SelectorOrderKept ==
    \A q \in Queries : \A e \in Hits(q) :
      q.ids # <<>> => [i \in DOMAIN e.value |-> e.value[i].coin] = Chosen(q)
=============================================================================
