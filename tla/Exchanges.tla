------------------------------ MODULE Exchanges ------------------------------
(***************************************************************************)
(* Spot exchanges: which of them a name in a route stands for, the volume  *)
(* charts that a sync of providers and the market refresh both feed, and   *)
(* the tickers a refresh writes per coin, which the routes show per pair.  *)
(***************************************************************************)
EXTENDS Integers, Sequences, FiniteSets, FiniteSetsExt, SequencesExt, RowOrder

CONSTANTS
    Exchange, Seeded,       \* all there may be; those there from the start
    Alias,                  \* EXCHANGE_ID_ALIASES: exchanges by a further name
    Targets,                \* EXCHANGE_VOLUME_TARGETS: provider and exchange, in order
    Instants,               \* of which providers may tell
    Claims,                 \* sets of tickers a refresh may tell of, each of a coin, an exchange
                            \* and a pair, with its converted volume
    Retention,              \* DEFAULT_SNAPSHOT_RETENTION_DAYS
    Windows, PerPage,       \* days a chart is asked for; tickers of a page
    MaxSafeInteger,         \* what an unknown volume counts as in ascending order
    MaxTime, MaxPasses, MaxRefreshes    \* bounds

Unknown == -1
Idle == [queue |-> <<>>, at |-> -1, wrote |-> FALSE]

SameTicker(t, u) == <<t.coin, t.exchange, t.pair>> = <<u.coin, u.exchange, u.pair>>

ExchangesAssumption ==
    /\ Seeded \subseteq Exchange /\ \A e \in DOMAIN Alias : Alias[e] \in Exchange
    /\ \A i \in DOMAIN Targets : Targets[i].exchange \in Exchange
    /\ Retention \in Nat \ {0} /\ PerPage \in Nat \ {0} /\ MaxTime \in Nat
    /\ Instants \subseteq Nat /\ Windows \subseteq Nat /\ MaxSafeInteger \in Nat
    /\ \A all \in Claims :
          /\ IsFiniteSet(all) /\ \A t, u \in all : SameTicker(t, u) => t = u
          /\ \A t \in all : t.coin \in Int /\ t.pair \in Int /\ t.volume \in {Unknown} \cup 0..(MaxSafeInteger - 1)

VARIABLES
    known,          \* exchanges
    points,         \* exchange_volume_source_points
    canonical,      \* exchange_volume_points: of whom and when
    tickers,        \* coin_tickers
    pass,           \* a pass of syncExchangeVolumes under way
    now, passes, refreshes

vars == <<known, points, canonical, tickers, pass, now, passes, refreshes>>

-----------------------------------------------------------------------------
(* The sync of volumes, target by target, each awaited. *)

\* Nothing in src ingests a replay, so that every row is live.  A volume is known by
\* who told of it and when.
Point(target, instant, at) ==
    [exchange |-> target.exchange, provider |-> target.provider, instant |-> instant, fetched |-> at]

SamePoint(p, q) == <<p.exchange, p.provider, p.instant>> = <<q.exchange, q.provider, q.instant>>

Ingested(told) ==
    LET rows == {Point(Head(pass.queue), t, pass.at) : t \in told} IN
    rows \cup {p \in points : \A r \in rows : ~SamePoint(p, r)}

PassBegins ==
    /\ pass = Idle /\ passes > 0
    /\ pass' = [Idle EXCEPT !.queue = Targets, !.at = now] /\ passes' = passes - 1
    /\ UNCHANGED <<known, points, canonical, tickers, now, refreshes>>

\* A provider tells of days up to now; one that does not know the exchange, of none.
TargetAnswered ==
    /\ pass.queue # <<>> /\ Head(pass.queue).exchange \in known
    /\ \E told \in SUBSET {t \in Instants : t <= now} :
         /\ points' = Ingested(told)
         /\ pass' = [pass EXCEPT !.queue = Tail(@), !.wrote = @ \/ told # {}]
    /\ UNCHANGED <<known, canonical, tickers, now, passes, refreshes>>

\* A call fails, an answer is not valid, an exchange has no row, a write fails or the
\* process ends: what was stored up to there stays.  No further target
\* is asked, and nothing is retained.
PassFails ==
    /\ pass # Idle /\ pass' = Idle
    /\ \/ UNCHANGED points
       \/ /\ pass.queue # <<>> /\ Head(pass.queue).exchange \in known
          /\ \E told \in SUBSET {t \in Instants : t <= now} : points' = Ingested(told)
    /\ UNCHANGED <<known, canonical, tickers, now, passes, refreshes>>

\* enforceSnapshotRetention
Kept(at) == {p \in points : p.fetched > at - Retention}

PassEnds ==
    /\ pass # Idle /\ pass.queue = <<>> /\ pass' = Idle
    /\ points' = IF pass.wrote THEN Kept(pass.at) ELSE points
    /\ UNCHANGED <<known, canonical, tickers, now, passes, refreshes>>

\* Other jobs end with the same retention.
OthersRetain ==
    /\ points' = Kept(now)
    /\ UNCHANGED <<known, canonical, tickers, pass, now, passes, refreshes>>

-----------------------------------------------------------------------------
(* The market refresh. *)

\* syncExchangesFromCCXT
ExchangeSynced ==
    /\ \E e \in Exchange \ known : known' = known \cup {e}
    /\ UNCHANGED <<points, canonical, tickers, pass, now, passes, refreshes>>

\* upsertLiveCoinTicker and updateExchangeVolumes: the first volume of an instant stays.
Refreshed ==
    /\ refreshes > 0 /\ refreshes' = refreshes - 1
    /\ \E all \in Claims :
         LET told == {t \in all : t.exchange \in known} IN
         /\ tickers' = told \cup {t \in tickers : \A u \in told : ~SameTicker(t, u)}
         /\ canonical' = canonical \cup {[exchange |-> t.exchange, instant |-> now] : t \in told}
    /\ UNCHANGED <<known, points, pass, now, passes>>

Tick ==
    /\ now < MaxTime /\ now' = now + 1
    /\ UNCHANGED <<known, points, canonical, tickers, pass, passes, refreshes>>

Init ==
    /\ known = Seeded /\ points = {} /\ canonical = {} /\ tickers = {}
    /\ pass = Idle /\ now = 0 /\ passes = MaxPasses /\ refreshes = MaxRefreshes

Next ==
    \/ PassBegins \/ TargetAnswered \/ PassFails \/ PassEnds \/ OthersRetain
    \/ ExchangeSynced \/ Refreshed \/ Tick

Spec == Init /\ [][Next]_vars

-----------------------------------------------------------------------------
(* Answers. *)

\* A row of the name itself comes before that of its alias.
resolveExchangeRouteId(name) ==
    IF name \notin known /\ name \in DOMAIN Alias /\ Alias[name] \in known THEN Alias[name] ELSE name

\* getExchangeOrThrow
Found(name) == resolveExchangeRouteId(name) \in known

\* Mutant: the row read first stays.
latestRowsOfFirst(rows) == {p \in rows : \A q \in rows : q.instant = p.instant => p.fetched <= q.fetched}

\* What was fetched last.  Of two providers of one pass, one.
latestRowsByTimestamp(rows) == {p \in rows : \A q \in rows : q.instant = p.instant => p.fetched >= q.fetched}

SourceChart(e, from, to) ==
    latestRowsByTimestamp({p \in points : p.exchange = e /\ p.instant \in from..to})

CanonicalChart(e, from, to) == {c \in canonical : c.exchange = e /\ c.instant \in from..to}

\* /exchanges/:id/volume_chart/range; one row of a source hides all that are canonical.
volume_chart(e, from, to) ==
    IF SourceChart(e, from, to) # {} THEN SourceChart(e, from, to) ELSE CanonicalChart(e, from, to)

getRawExchangeTickerRows(e, coins) ==
    {t \in tickers : t.exchange = e /\ (coins # {} => t.coin \in coins)}

\* A pair that several coins claim goes to the largest volume, then to the first coin.
dedupeExchangeTickerRows(rows) ==
    {t \in rows : \A u \in rows :
        u.pair = t.pair => t.volume > u.volume \/ (t.volume = u.volume /\ t.coin <= u.coin)}

\* Ties, which the code leaves to the instants of trades or to the order of reading, go by
\* the pair.
sortExchangeTickerRows(rows, order) ==
    LET sortNumber(t, unknown) == IF t.volume = Unknown THEN unknown ELSE t.volume IN
    Ordered(rows, [t \in rows |->
        <<IF order = "volume_asc" THEN -sortNumber(t, MaxSafeInteger) ELSE sortNumber(t, -1), -t.pair>>])

getExchangeTickers(e, coins, order, page) ==
    LET rows == sortExchangeTickerRows(dedupeExchangeTickerRows(getRawExchangeTickerRows(e, coins)), order)
        start == (page - 1) * PerPage IN
    SubSeq(rows, start + 1, Min({start + PerPage, Len(rows)}))

\* /exchanges/:id counts what its list leaves out, too.
Detail(e) ==
    [coins |-> Cardinality({t.coin : t \in getRawExchangeTickerRows(e, {})}),
     pairs |-> Cardinality(getRawExchangeTickerRows(e, {})),
     tickers |-> getExchangeTickers(e, {}, "volume_desc", 1)]

-----------------------------------------------------------------------------
(* Properties. *)

\* The pages of an exchange show every pair of it once, with the volume no other claim
\* to the pair exceeds, and a list for some coins shows each of them the pairs that the
\* whole list gives it; unknown volumes come last; a name a list shows stands for its
\* own exchange (modules/exchange-tickers.ts).
ListsAgree ==
    \A e \in {t.exchange : t \in tickers} :
      LET raw == getRawExchangeTickerRows(e, {})
          pages == 1..Cardinality(raw)
          listed(coins, order) == UNION {ToSet(getExchangeTickers(e, coins, order, p)) : p \in pages}
          all == listed({}, "volume_desc")
          detail == Detail(e) IN
      /\ \A order \in {"volume_desc", "volume_asc"} :
           LET page == [p \in pages |-> getExchangeTickers(e, {}, order, p)] IN
           /\ {t.pair : t \in listed({}, order)} = {t.pair : t \in raw}
           /\ \A p, q \in pages : \A i \in DOMAIN page[p], j \in DOMAIN page[q] :
                LET t == page[p][i]  u == page[q][j] IN
                /\ t.pair = u.pair => p = q /\ i = j
                /\ (p < q \/ (p = q /\ i < j)) /\ t.volume = Unknown => u.volume = Unknown
      /\ \A t \in all, u \in raw : u.pair = t.pair => u.volume <= t.volume
      /\ \A c \in {t.coin : t \in all} : {t \in all : t.coin = c} \subseteq listed({c}, "volume_desc")
      /\ detail.pairs >= Cardinality(all) /\ detail.coins >= Cardinality({t.coin : t \in all})
      /\ resolveExchangeRouteId(e) = e

\* What a chart shows of an instant is never older than what it showed before, unless
\* retention took it, and what a provider has just told is shown, however passes fail;
\* a chart of days shows what the range of the same days does
\* (services/exchange-volume-ingestion.ts).
VolumesAdvance ==
    [][points' # points =>
        \A e \in known :
          LET shown == SourceChart(e, 0, MaxTime)' IN
          /\ \A p \in SourceChart(e, 0, MaxTime) \cup {q \in points' \ points : q.exchange = e} :
               \/ \E q \in shown : q.instant = p.instant /\ q.fetched >= p.fetched
               \/ p.fetched <= now - Retention
          /\ \A from \in {Max({now' - days, 0}) : days \in Windows} :
               volume_chart(e, from, MaxTime)' = volume_chart(e, from, now)']_vars
=============================================================================
