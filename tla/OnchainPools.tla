---------------------------- MODULE OnchainPools ----------------------------
(***************************************************************************)
(* The pools of the on-chain surface: the two sweeps that write them       *)
(* (services/tier1-onchain-sweepers.ts), the live catalog every request    *)
(* that needs it shares while it is being fetched, and the answers made    *)
(* of both (modules/onchain/pools.ts, pool-routes.ts, token-routes.ts,     *)
(* network-routes.ts).  A sweep and a request go on in one turn of the     *)
(* event loop once what they wait for has come.  A price is kept as the    *)
(* token it is of; reserves and volumes are whole, a null one is 0; pages  *)
(* of a hundred, links and wording are left out.                           *)
(***************************************************************************)
EXTENDS Integers, Sequences, FiniteSetsExt, SequencesExt, ProviderBreaker, RowOrder

CONSTANTS
    Tellings,       \* what DefiLlama may answer with: sets of pools, each told of once
    AddressOf,      \* generateDeterministicAddress: the address made of a pool's id
    Seeds,          \* the rows of onchain_pools a database starts with
    Configured,     \* the networks in DEFILLAMA_NETWORK_CONFIG
    Client,         \* requests that may be in flight at a time
    MaxTargets,     \* the rows a sweep looks at
    MaxSweeps       \* bound: the sweeps of a behaviour

PoolsAssumption ==
    \* An abstraction: the code's address is a 31-bit rolling hash of the id, which may be
    \* alike for two ids; here it never is.  An id is of one pool, which neither changes its
    \* network nor its exchange.
    /\ \A es \in Tellings :
          /\ IsFiniteSet(es) /\ \A a, b \in es : AddressOf[a.id] = AddressOf[b.id] => a = b
          /\ \A e \in es : AddressOf[e.id] \in Nat /\ Len(e.tokens) = 2 /\ e.tvl \in Nat /\ e.volume \in Nat
    /\ \A a, b \in UNION Tellings : AddressOf[a.id] = AddressOf[b.id] => a.network = b.network /\ a.dex = b.dex
    /\ \A r \in Seeds, e \in UNION Tellings : r.address = AddressOf[e.id] => r.network = e.network /\ r.dex = e.dex
    /\ IsFiniteSet(Seeds) /\ \A r, s \in Seeds : r.address = s.address => r = s
    /\ \A r \in Seeds : r \in [network : {r.network}, address : Nat, dex : {r.dex}, tokens : {r.tokens},
                                priceOf : {r.priceOf}, reserve : Nat, volume : Nat, tx : Nat,
                                created : Nat, updated : Nat]
    /\ "eth" \in Configured /\ MaxTargets \in Nat \ {0} /\ MaxSweeps \in Nat

VARIABLES
    pools,      \* onchain_pools
    dexes,      \* onchain_dexes, as pairs of a network and a dex
    breaker,    \* the entry "defillama" of the provider breakers, of both sweeps
    now,        \* the instant of the last sweep
    poolSweep, tokenSweep,  \* the sweep in flight: when it began, the tokens it asks for
    catalog,    \* liveOnchainCatalogPromise: the rows read before the provider was asked
    asked,      \* the requests in flight
    answer      \* the answer sent in this step, if one was

vars == <<pools, dexes, breaker, now, poolSweep, tokenSweep, catalog, asked, answer>>

Idle == [idle |-> TRUE]
Null == "null"

Row(network, address, dex, tokens) ==
    [network |-> network, address |-> address, dex |-> dex, tokens |-> tokens, priceOf |-> Null,
     reserve |-> 0, volume |-> 0, tx |-> 0, created |-> 0, updated |-> 0]

Key(r) == <<r.network, r.address>>
Tokens(r) == {r.tokens[1], r.tokens[2]}

Addresses(s) == [i \in DOMAIN s |-> s[i].address]

\* Ties of these are left to SQLite, which reads by the primary key.
resolvePoolOrder(sort, r) ==
    CASE sort = "tx" -> <<r.tx, -r.address>>
      [] sort = "reserve" -> <<r.reserve, -r.address>>
      [] sort = "volume" -> <<r.volume, r.reserve, -r.address>>

-----------------------------------------------------------------------------
(* The sweeps. *)

Init ==
    /\ pools = Seeds /\ dexes = {<<r.network, r.dex>> : r \in Seeds}
    /\ breaker = createEntry /\ now = 0
    /\ poolSweep = Idle /\ tokenSweep = Idle /\ catalog = Idle
    /\ asked = [c \in Client |-> Idle] /\ answer = Idle

\* A sweep that finds the breaker open ends at once.
AttemptBegins == now < MaxSweeps /\ canAttemptProvider(breaker)
                 /\ breaker' = Checked(breaker) /\ now' = now + 1

AttemptFails == \E b \in computeBackoffs(Min({breaker.failureCount + 1, MaxFailures})) :
                    breaker' = recordProviderFailure(breaker, b)

PoolSweepBegins ==
    /\ poolSweep = Idle /\ AttemptBegins
    /\ poolSweep' = [at |-> now + 1]
    /\ UNCHANGED <<pools, dexes, tokenSweep, catalog, asked>> /\ answer' = Idle

Told(e, r) == Key(r) = <<e.network, AddressOf[e.id]>>

\* A known pool keeps its price, its transactions and its creation.
upsertPool(e, at) ==
    LET old == {r \in pools : Told(e, r)}
        base == IF old = {} THEN Row(e.network, AddressOf[e.id], e.dex, e.tokens)
                ELSE CHOOSE r \in old : TRUE IN
    [base EXCEPT !.dex = e.dex, !.tokens = e.tokens, !.reserve = e.tvl, !.volume = e.volume, !.updated = at]

\* Only pools of more than 100 thousand dollars, the largest first.
Large(es) == {e \in es : e.tvl > 100}
SweepCandidates(es) == Leading(Large(es), [e \in Large(es) |-> <<e.tvl, AddressOf[e.id]>>], MaxTargets)

\* A pool of a chain that is not configured is a partial failure.
PoolSweepAnswered(es) ==
    LET written == {e \in SweepCandidates(es) : e.network \in Configured} IN
    /\ poolSweep # Idle /\ poolSweep' = Idle
    /\ breaker' = recordProviderSuccess(breaker)
    /\ pools' = {r \in pools : \A e \in written : ~Told(e, r)} \cup {upsertPool(e, poolSweep.at) : e \in written}
    /\ dexes' = dexes \cup {<<e.network, e.dex>> : e \in written}
    /\ UNCHANGED <<now, tokenSweep, catalog, asked>> /\ answer' = Idle

PoolSweepFails ==
    /\ poolSweep # Idle /\ poolSweep' = Idle /\ AttemptFails
    /\ UNCHANGED <<pools, dexes, now, tokenSweep, catalog, asked>> /\ answer' = Idle

readTokenSweepTargets ==
    LET rows == {r \in pools : r.network = "eth"} IN
    UNION {Tokens(r) : r \in Leading(rows, [r \in rows |-> <<r.reserve, r.volume, -r.address>>], MaxTargets)}

TokenSweepBegins ==
    /\ tokenSweep = Idle /\ AttemptBegins
    /\ tokenSweep' = [at |-> now + 1, targets |-> readTokenSweepTargets]
    /\ UNCHANGED <<pools, dexes, poolSweep, catalog, asked>> /\ answer' = Idle

\* Mutant: a pool is priced by either of its tokens.
PricedByEither(r, token) == r.network = "eth" /\ token \in Tokens(r)

Priced(r, token) == r.network = "eth" /\ r.tokens[1] = token

\* A price the answer lacks is a partial failure.
TokenSweepAnswered(told) ==
    /\ tokenSweep # Idle /\ tokenSweep' = Idle
    /\ breaker' = recordProviderSuccess(breaker)
    /\ pools' = {LET tokens == {t \in tokenSweep.targets \cap told : Priced(r, t)} IN
                 IF tokens # {} THEN [r EXCEPT !.priceOf = CHOOSE t \in tokens : TRUE, !.updated = tokenSweep.at]
                 ELSE IF r.network = "eth" /\ r.tokens[2] \in tokenSweep.targets \cap told
                 THEN [r EXCEPT !.updated = tokenSweep.at] ELSE r : r \in pools}
    /\ UNCHANGED <<dexes, now, poolSweep, catalog, asked>> /\ answer' = Idle

TokenSweepFails ==
    /\ tokenSweep # Idle /\ tokenSweep' = Idle /\ AttemptFails
    /\ UNCHANGED <<pools, dexes, now, poolSweep, catalog, asked>> /\ answer' = Idle

BackoffEnds ==
    /\ breaker.openedLeft > 0 /\ breaker' = [breaker EXCEPT !.openedLeft = @ - 1]
    /\ UNCHANGED <<pools, dexes, now, poolSweep, tokenSweep, catalog, asked>> /\ answer' = Idle

-----------------------------------------------------------------------------
(* The live catalog. *)

NetworksOf(ds) == {r.network : r \in Seeds} \cup {d[1] : d \in ds}

Matches(r, e) == e.network = r.network /\ Tokens(r) \subseteq {e.tokens[1], e.tokens[2]}

\* The pool of the answer a row is: DefiLlama is taken to tell of the largest first.
MatchedPools(r, es) ==
    LET matched == {e \in es : Matches(r, e) /\ e.dex = r.dex} IN
    {e \in matched : \A f \in matched : f.tvl <= e.tvl}

\* What the catalog tells of a row: the pool it matches, else the volume of its dex.
RowPatches(rows, es, volumes) ==
    {LET known == {v.volume : v \in {w \in volumes : w.dex = r.dex}}
         traded == {e.volume : e \in MatchedPools(r, es)} \ {0} IN
     [address |-> r.address, priceOf |-> r.priceOf,
      reserve |-> Max({0} \cup {e.tvl : e \in MatchedPools(r, es)}),
      volume |-> IF traded # {} THEN Max(traded) ELSE Max({0} \cup known)]
     : r \in {s \in rows : s.network \in Configured
                           /\ (MatchedPools(s, es) # {} \/ \E v \in volumes : v.dex = s.dex)}}

\* A large pool is discovered unless a row of its network has its tokens.
Discovered(rows, es) ==
    {[Row(e.network, AddressOf[e.id], e.dex, e.tokens) EXCEPT !.reserve = e.tvl, !.volume = e.volume]
     : e \in {f \in Large(es) : f.network \in Configured /\ ~ \E r \in rows : Matches(r, f)}}

\* What the provider tells of the volumes of dexes: nothing, none or some.
DexVolumes == [known : {FALSE}, of : {{}}] \cup [known : {TRUE}, of : {{}, {[dex |-> "uniswap", volume |-> 60]}}]

\* The provider tells nothing of pools (NoCatalog) or a set of them; a catalog that knows
\* nothing of the volumes is degraded.
NoCatalog == [patches |-> {}, found |-> {}, dexes |-> catalog.dexes, degraded |-> TRUE]

LiveCatalog(es, told) ==
    LET patches == RowPatches(catalog.pools, es, told.of)
        found == {p \in Discovered(catalog.pools, es) : \A q \in patches : q.address # p.address} IN
    [patches |-> patches \cup {[address |-> p.address, priceOf |-> Null, reserve |-> p.reserve, volume |-> p.volume]
                               : p \in found},
     found |-> found,
     dexes |-> catalog.dexes \cup {<<e.network, e.dex>> : e \in {f \in es : f.network \in Configured}},
     degraded |-> ~told.known]

\* A pool discovered for an earlier set of rows patches the row it has got since.
patchPoolRow(r, live) ==
    LET ps == {p \in live.patches : p.address = r.address} IN
    IF ps = {} THEN r
    ELSE LET p == CHOOSE p \in ps : TRUE IN
         [r EXCEPT !.priceOf = IF p.priceOf = Null THEN @ ELSE p.priceOf,
                   !.reserve = IF p.reserve = 0 THEN @ ELSE p.reserve,
                   !.volume = IF p.volume = 0 THEN @ ELSE p.volume]

-----------------------------------------------------------------------------
(* Answers that wait for the catalog. *)

NotFound == [found |-> FALSE]
Of(list, source) == [found |-> TRUE, list |-> list, source |-> source]

\* Mutant: what is known already is what the catalog was made from.
UnknownToCatalog(live, rows) == {p \in live.found : \A r \in catalog.pools : r.address # p.address}

UnlistedDiscoveries(live, rows) == {p \in live.found : \A r \in rows : r.address # p.address}

\* Of the rows that are shown those of the database first, in the order asked for, then
\* what only the catalog knows.
PoolList(live, network, shown, sort) ==
    LET rows == {r \in pools \cap shown : r.network = network}
        more == {p \in UnlistedDiscoveries(live, rows) \cap shown : p.network = network} IN
    Of([i \in 1..Cardinality(rows) |->
            patchPoolRow(Ordered(rows, [r \in rows |-> resolvePoolOrder(sort, r)])[i], live)] \o SetToSeq(more),
       IF network # "eth" \/ live.patches = {} THEN "seeded" ELSE "live")

PoolDetail(live, network, address) ==
    LET rows == {r \in pools : Key(r) = <<network, address>>} IN
    IF rows = {} THEN NotFound
    ELSE Of(<<patchPoolRow(CHOOSE r \in rows : TRUE, live)>>,
            IF network # "eth" \/ live.degraded THEN "seeded" ELSE "live")

Richest(rows) == Ordered(rows, [r \in rows |-> <<r.reserve, -r.address>>])

\* The price of a token told live, with the pools read before.
TokenPrice(live, q) ==
    LET own == {patchPoolRow(r, live) : r \in {s \in q.rows : \E p \in live.patches : p.address = s.address}} IN
    Of(Richest(IF own = {} THEN q.rows ELSE own), "live")

Answered(q, live) ==
    CASE q.kind = "networks" -> Of(SetToSeq(NetworksOf(live.dexes)), "live")
      [] q.kind = "dexes" -> Of(SetToSeq({d[2] : d \in {e \in live.dexes : e[1] = q.network}}), "live")
      [] q.kind = "detail" -> PoolDetail(live, q.network, q.of)
      [] q.kind = "token" -> TokenPrice(live, q)
      [] q.kind = "pools" ->
            IF q.network \notin NetworksOf(live.dexes) THEN NotFound
            ELSE PoolList(live, q.network, pools \cup live.found, q.of)
      [] q.kind = "dex" ->
            IF <<q.network, q.of>> \notin dexes \cup live.dexes THEN NotFound
            ELSE PoolList(live, q.network, {r \in pools \cup live.found : r.dex = q.of}, "volume")

\* buildLiveOnchainCatalog: the request begins the catalog or joins the one under way.
JoinCatalog == catalog' = IF catalog = Idle THEN [pools |-> pools, dexes |-> dexes] ELSE catalog

RequestWaits(c, kind, network, of) ==
    /\ asked[c] = Idle
    /\ kind \in {"dexes", "dex"} => network \in NetworksOf(dexes)
    /\ asked' = [asked EXCEPT ![c] = [kind |-> kind, network |-> network, of |-> of, waits |-> TRUE,
                    due |-> {r.address : r \in {s \in pools : s.network = network /\ (kind = "dex" => s.dex = of)}}]]
    /\ JoinCatalog
    /\ UNCHANGED <<pools, dexes, breaker, now, poolSweep, tokenSweep>> /\ answer' = Idle

collectTokenPools(network, token) ==
    Richest({r \in pools : r.network = network /\ token \in Tokens(r)})

\* A token's own price is asked for first, on one network only.
TokenRequested(c, token) ==
    LET rows == ToSet(collectTokenPools("eth", token)) IN
    /\ asked[c] = Idle /\ rows # {}
    /\ asked' = [asked EXCEPT ![c] = [kind |-> "token", network |-> "eth", rows |-> rows, waits |-> FALSE]]
    /\ UNCHANGED <<pools, dexes, breaker, now, poolSweep, tokenSweep, catalog>> /\ answer' = Idle

fetchLiveSimpleTokenPrice(c) ==
    /\ asked[c] # Idle /\ ~asked[c].waits
    /\ \/ /\ asked' = [asked EXCEPT ![c].waits = TRUE]
          /\ JoinCatalog /\ answer' = Idle
       \/ /\ answer' = [of |-> asked[c], told |-> Of(Richest(asked[c].rows), "seeded")]
          /\ asked' = [asked EXCEPT ![c] = Idle]
          /\ UNCHANGED catalog
    /\ UNCHANGED <<pools, dexes, breaker, now, poolSweep, tokenSweep>>

\* All requests that wait are answered; one of their answers is looked at.
CatalogAnswered(live) ==
    /\ catalog # Idle /\ catalog' = Idle
    /\ \E c \in Client :
          /\ asked[c] # Idle /\ asked[c].waits
          /\ answer' = [of |-> asked[c], told |-> Answered(asked[c], live)]
    /\ asked' = [c \in Client |-> IF asked[c] # Idle /\ asked[c].waits THEN Idle ELSE asked[c]]
    /\ UNCHANGED <<pools, dexes, breaker, now, poolSweep, tokenSweep>>

-----------------------------------------------------------------------------
(* Answers of the database alone. *)

Count(S, f(_)) == MapThenSumSet(f, S)

\* The scores are in thousandths; of six hours, four addresses are preferred.
TrendingScore(r, duration) ==
    IF duration = "1h" THEN 77 * r.volume + 121000 * r.tx + 100 * r.reserve
    ELSE 750 * r.volume + 200000 * r.tx + 5 * r.reserve

buildPoolDiscoveryRows(rows, mode, Preferred) ==
    CASE mode = "new" -> Ordered(rows, [r \in rows |-> <<r.created, r.updated, -r.address>>])
      [] mode = "6h" -> Ordered(rows, [r \in rows |-> <<IF r.address \in Preferred THEN 1 ELSE 0, -r.address>>])
      [] OTHER -> Ordered(rows, [r \in rows |-> <<TrendingScore(r, mode), r.volume, r.reserve, -r.address>>])

\* The address of a pool, or one of its tokens; matches of a part of a name are left out.
scorePoolSearchMatch(r, query) ==
    IF query.address = r.address THEN 10000 ELSE IF query.token \in Tokens(r) THEN 8000 ELSE 0

searchPoolRows(rows, query) ==
    LET found == {r \in rows : scorePoolSearchMatch(r, query) > 0} IN
    Ordered(found, [r \in found |-> <<scorePoolSearchMatch(r, query), r.volume, r.reserve, -r.address>>])

Metric(r, sort) == CASE sort = "reserve" -> r.reserve [] sort = "volume" -> r.volume [] sort = "tx" -> r.tx

sortMegafilterRows(rows, sort, descending) ==
    Ordered(rows, [r \in rows |-> <<IF descending THEN Metric(r, sort) ELSE -Metric(r, sort), r.reserve, -r.address>>])

megafilter(least, most, sort, descending) ==
    sortMegafilterRows({r \in pools : least <= Metric(r, sort) /\ Metric(r, sort) <= most}, sort, descending)

\* The rows that are asked for, in the order of the addresses, each of which counts once.
AskedFor(rows, addresses) ==
    LET found == {r \in rows : r.address \in ToSet(addresses)} IN
    Ordered(found, [r \in found |-> <<-Min({i \in DOMAIN addresses : addresses[i] = r.address})>>])

parseTrendingSearchCandidates(candidates) ==
    IF candidates = <<>> THEN buildPoolDiscoveryRows(pools, "24h", {}) ELSE AskedFor(pools, candidates)

\* resolvePoolCategoryIds: a pool is in a category by one of its tokens.
getPoolsForOnchainCategory(members) == {r \in pools : Tokens(r) \cap members # {}}

buildOnchainCategorySummaries(members) ==
    LET rows == getPoolsForOnchainCategory(members) IN
    [poolCount |-> Cardinality(rows), reserveUsd |-> Count(rows, LAMBDA r : r.reserve),
     volume24hUsd |-> Count(rows, LAMBDA r : r.volume), transactionCount24h |-> Count(rows, LAMBDA r : r.tx),
     networks |-> {r.network : r \in rows}, dexes |-> {r.dex : r \in rows}]

sortOnchainCategoryPools(members, sort) ==
    LET rows == getPoolsForOnchainCategory(members) IN
    Ordered(rows, [r \in rows |-> <<Metric(r, sort), r.reserve, -r.address>>])

PoolsMulti(network, addresses) == AskedFor({r \in pools : r.network = network}, addresses)

Token == UNION {Tokens(r) : r \in pools}

\* A token is told of once for every network that has a pool of it, as old as the newest.
infoRecentlyUpdated ==
    LET of(network, t) == {r \in pools : r.network = network /\ t \in Tokens(r)} IN
    UNION {{[network |-> r.network, token |-> t, updated |-> Max({s.updated : s \in of(r.network, t)})]
            : t \in Tokens(r)} : r \in pools}
Listed == {r.address : r \in pools}

NewPools(network) == buildPoolDiscoveryRows({r \in pools : r.network = network}, "new", {})
TrendingPools(network, duration) == buildPoolDiscoveryRows({r \in pools : r.network = network}, duration, {1})
SearchPools(address, token) == searchPoolRows(pools, [address |-> address, token |-> token])

\* The pools of every token asked for that has some.
TokensMulti(network, tokens) ==
    {ToSet(collectTokenPools(network, t)) : t \in {u \in tokens : collectTokenPools(network, u) # <<>>}}

\* A pool of the rows, and what is told of its two tokens.
PoolInfo(r) == {ToSet(collectTokenPools(r.network, t)) : t \in Tokens(r)}

ReadAnswers ==
    {NewPools(n) : n \in Configured} \cup {TrendingPools(n, d) : n \in Configured, d \in {"1h", "6h", "24h"}}
    \cup {SearchPools(a, t) : a \in Listed, t \in Token}
    \cup {megafilter(0, 200, s, d) : s \in {"reserve", "volume", "tx"}, d \in BOOLEAN}
    \cup {parseTrendingSearchCandidates(s) : s \in {<<>>} \cup {<<a, b>> : a, b \in Listed}}
    \cup {sortOnchainCategoryPools({t}, s) : t \in Token, s \in {"reserve", "volume", "tx"}}
    \cup {PoolsMulti(n, <<a, b>>) : n \in Configured, a, b \in Listed}
    \cup {collectTokenPools(n, t) : n \in Configured, t \in Token}

-----------------------------------------------------------------------------

Requests ==
    {[kind |-> "networks", network |-> "eth", of |-> 0], [kind |-> "dexes", network |-> "eth", of |-> 0],
     [kind |-> "pools", network |-> "eth", of |-> "volume"]}
    \cup {[kind |-> "dex", network |-> "eth", of |-> e.dex] : e \in {f \in UNION Tellings : f.network = "eth"}}
    \cup {[kind |-> "detail", network |-> "eth", of |-> r.address] : r \in Seeds}

Next ==
    \/ PoolSweepBegins \/ PoolSweepFails \/ TokenSweepBegins \/ TokenSweepFails \/ BackoffEnds
    \/ \E es \in Tellings : PoolSweepAnswered(es)
    \/ \E told \in SUBSET Token : TokenSweepAnswered(told)
    \/ \E c \in Client : fetchLiveSimpleTokenPrice(c)
    \/ \E c \in Client, q \in Requests : RequestWaits(c, q.kind, q.network, q.of)
    \/ \E c \in Client, t \in {r.tokens[1] : r \in pools} : TokenRequested(c, t)
    \/ /\ catalog # Idle
       /\ \E live \in {NoCatalog} \cup {LiveCatalog(es, told) : es \in Tellings, told \in DexVolumes} :
             CatalogAnswered(live)

Spec == Init /\ [][Next]_vars

-----------------------------------------------------------------------------
(* Properties. *)

Once(list) == IsInjective(Addresses(list))

\* A price is written to a pool only if it is the price of its base token, though the
\* tokens of the pool may change places while the sweep waits for the prices
\* (runDefillamaTokenSweep reads its targets before, runDefillamaPoolSweep).
PriceOfBase ==
    [][pools' # pools => \A r \in pools' : r.priceOf # r.tokens[1] =>
          \E s \in pools \cup {Row(r.network, r.address, r.dex, r.tokens)} :
             Key(s) = Key(r) /\ s.priceOf = r.priceOf]_vars

ReadsAgree ==
    /\ \A list \in ReadAnswers : Once(list)
    /\ \A r \in pools, t \in Token :
          /\ SearchPools(r.address, t)[1].address = r.address
          /\ \A ps \in PoolInfo(r) : r \in ps
          /\ r \in UNION TokensMulti(r.network, Tokens(r))
          /\ t \in Tokens(r) =>
                /\ r \in ToSet(collectTokenPools(r.network, t))
                /\ \E i \in infoRecentlyUpdated :
                      i.network = r.network /\ i.token = t /\ i.updated >= r.updated
          /\ buildOnchainCategorySummaries({t}).poolCount = Len(sortOnchainCategoryPools({t}, "tx"))

\* A pool that had its row when it was asked for is in the answer, and none is there
\* twice, though sweeps insert and replace rows while the request waits for a catalog
\* that may have been made for an earlier one (the list routes of pool-routes.ts).  The
\* answers of the rows alone list none twice either, and agree: a pool listed anywhere
\* is found by its address and its tokens, and counted once (no request changes a row,
\* so that every set of rows there may be is met while none is in flight).
PoolsListedOnce ==
    /\ answer # Idle /\ answer.of.kind \in {"pools", "dex"} /\ answer.told.found =>
           Once(answer.told.list) /\ answer.of.due \subseteq ToSet(Addresses(answer.told.list))
    /\ answer = Idle /\ (\A c \in Client : asked[c] = Idle) => ReadsAgree
=============================================================================
