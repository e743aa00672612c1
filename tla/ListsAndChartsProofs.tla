-------------------------- MODULE ListsAndChartsProofs --------------------------
(***************************************************************************)
(* Proofs about DataPlane, continued: the prices of pools, treasuries,     *)
(* what charts show of their rows, and the lists of pools and of pairs.    *)
(***************************************************************************)
EXTENDS DataPlaneProofs, SequenceTheorems

-----------------------------------------------------------------------------
(***************************************************************************)
(* Pools.  Of a row a sweep changes some columns, and it keeps the others. *)
(***************************************************************************)

PoolColumns(r) ==
    [network |-> r.network, address |-> r.address, dex |-> r.dex, tokens |-> r.tokens,
     priceOf |-> r.priceOf, reserve |-> r.reserve, volume |-> r.volume, tx |-> r.tx,
     created |-> r.created, updated |-> r.updated]

PoolsInv == \A r \in pools : r = PoolColumns(r)

LEMMA PoolsBegin == Listing!Init => PoolsInv
<1>1. \A r \in PoolSeeds : r = PoolColumns(r)
    <2> SUFFICES ASSUME NEW r \in PoolSeeds PROVE r = PoolColumns(r)
        OBVIOUS
    <2>1. r \in [network : {r.network}, address : Nat, dex : {r.dex}, tokens : {r.tokens},
                 priceOf : {r.priceOf}, reserve : Nat, volume : Nat, tx : Nat,
                 created : Nat, updated : Nat]
        BY PlaneAssumption DEF PlaneAssumption, Listing!PoolsAssumption
    <2> QED
        BY <2>1 DEF PoolColumns
<1> QED
    BY <1>1 DEF PoolsInv, Listing!Init

\* A row that is new has no price, and one that is known keeps its key and its price.
LEMMA PoolUpserted ==
    ASSUME PoolsInv, NEW e, NEW at
    PROVE  LET r == Listing!upsertPool(e, at) IN
           /\ r = PoolColumns(r)
           /\ \E s \in pools \cup {Listing!Row(r.network, r.address, r.dex, r.tokens)} :
                  Listing!Key(s) = Listing!Key(r) /\ s.priceOf = r.priceOf
<1> DEFINE old == {r \in pools : Listing!Told(e, r)}
           new == Listing!Row(e.network, AddressOf[e.id], e.dex, e.tokens)
           base == IF old = {} THEN new ELSE CHOOSE r \in old : TRUE
           r == Listing!upsertPool(e, at)
<1>1. r = [base EXCEPT !.dex = e.dex, !.tokens = e.tokens, !.reserve = e.tvl, !.volume = e.volume, !.updated = at]
    BY DEF Listing!upsertPool
<1>2. new = PoolColumns(new) /\ new.network = e.network /\ new.address = AddressOf[e.id]
      /\ new.priceOf = Listing!Null
    BY DEF PoolColumns, Listing!Row
<1>3. old # {} => base \in pools
    OBVIOUS
<1>4. base = PoolColumns(base)
    BY <1>2, <1>3 DEF PoolsInv
<1> HIDE DEF r, base, new, old
<1>5. /\ r = PoolColumns(r) /\ r.network = base.network /\ r.address = base.address
      /\ r.priceOf = base.priceOf
    BY <1>1, <1>4 DEF PoolColumns
<1>6. CASE old # {}
    BY <1>3, <1>5, <1>6 DEF Listing!Key, r
<1>7. CASE old = {}
    <2> DEFINE s == Listing!Row(r.network, r.address, r.dex, r.tokens)
    <2>1. s.network = r.network /\ s.address = r.address /\ s.priceOf = Listing!Null
        BY DEF Listing!Row
    <2>2. base.priceOf = Listing!Null
        BY <1>2, <1>7 DEF base
    <2>3. Listing!Key(s) = Listing!Key(r) /\ s.priceOf = r.priceOf
        BY <1>5, <2>1, <2>2 DEF Listing!Key
    <2> QED
        BY <1>5, <2>3 DEF r
<1> QED
    BY <1>6, <1>7

\* Whatever a step makes of the rows: a price is that of the base token, or the row of
\* the key had it already.
LEMMA PoolsFollow ==
    ASSUME PoolsInv, [Listing!Next]_poolVars
    PROVE  \A r \in pools' :
              /\ r = PoolColumns(r)
              /\ r.priceOf # r.tokens[1] =>
                    \E s \in pools \cup {Listing!Row(r.network, r.address, r.dex, r.tokens)} :
                        Listing!Key(s) = Listing!Key(r) /\ s.priceOf = r.priceOf
<1> SUFFICES ASSUME NEW r \in pools'
             PROVE  /\ r = PoolColumns(r)
                    /\ r.priceOf # r.tokens[1] =>
                          \E s \in pools \cup {Listing!Row(r.network, r.address, r.dex, r.tokens)} :
                              Listing!Key(s) = Listing!Key(r) /\ s.priceOf = r.priceOf
    OBVIOUS
<1>1. CASE r \in pools
    BY <1>1 DEF PoolsInv
<1>2. ASSUME NEW es \in Tellings, Listing!PoolSweepAnswered(es)
      PROVE  r \in pools \/ \E e : r = Listing!upsertPool(e, poolSweep.at)
    BY <1>2 DEF Listing!PoolSweepAnswered
<1>3. ASSUME NEW e, r = Listing!upsertPool(e, poolSweep.at)
      PROVE  /\ r = PoolColumns(r)
             /\ \E s \in pools \cup {Listing!Row(r.network, r.address, r.dex, r.tokens)} :
                    Listing!Key(s) = Listing!Key(r) /\ s.priceOf = r.priceOf
    BY <1>3, PoolUpserted
<1>4. ASSUME NEW told, Listing!TokenSweepAnswered(told)
      PROVE  r = PoolColumns(r) /\ (r.priceOf # r.tokens[1] =>
                \E s \in pools : Listing!Key(s) = Listing!Key(r) /\ s.priceOf = r.priceOf)
    <2> DEFINE asks(s) == {t \in tokenSweep.targets \cap told : Listing!Priced(s, t)}
               at == tokenSweep.at
    <2>1. PICK s \in pools :
              r = IF asks(s) # {} THEN [s EXCEPT !.priceOf = CHOOSE t \in asks(s) : TRUE, !.updated = at]
                  ELSE IF s.network = "eth" /\ s.tokens[2] \in tokenSweep.targets \cap told
                  THEN [s EXCEPT !.updated = at] ELSE s
        BY <1>4 DEF Listing!TokenSweepAnswered
    <2>2. s = PoolColumns(s)
        BY DEF PoolsInv
    <2>3. CASE asks(s) # {}
        <3>1. PICK t \in asks(s) : r = [s EXCEPT !.priceOf = t, !.updated = at]
            BY <2>1, <2>3
        <3>2. s.tokens[1] = t
            BY DEF Listing!Priced
        <3>3. r = PoolColumns(r) /\ r.tokens = s.tokens /\ r.priceOf = t
            BY <2>2, <3>1 DEF PoolColumns
        <3> QED
            BY <3>2, <3>3
    <2>4. CASE asks(s) = {}
        <3>1. r = s \/ r = [s EXCEPT !.updated = at]
            BY <2>1, <2>4
        <3>2. /\ r = PoolColumns(r) /\ r.network = s.network /\ r.address = s.address
              /\ r.priceOf = s.priceOf
            BY <2>2, <3>1 DEF PoolColumns
        <3> QED
            BY <3>2 DEF Listing!Key
    <2> QED
        BY <2>3, <2>4
<1>5. ASSUME UNCHANGED pools PROVE r \in pools
    BY <1>5
<1>6. \/ UNCHANGED pools
      \/ \E es \in Tellings : Listing!PoolSweepAnswered(es)
      \/ \E told : Listing!TokenSweepAnswered(told)
    <2>1. CASE UNCHANGED poolVars
        BY <2>1 DEF poolVars
    <2>2. CASE \/ Listing!PoolSweepBegins \/ Listing!PoolSweepFails \/ Listing!TokenSweepBegins
               \/ Listing!TokenSweepFails \/ Listing!BackoffEnds
        BY <2>2 DEF Listing!PoolSweepBegins, Listing!PoolSweepFails, Listing!TokenSweepBegins,
            Listing!TokenSweepFails, Listing!BackoffEnds
    <2>3. ASSUME NEW c \in Client,
                 \/ Listing!fetchLiveSimpleTokenPrice(c)
                 \/ \E kind, network, of : Listing!RequestWaits(c, kind, network, of)
                 \/ \E t : Listing!TokenRequested(c, t)
          PROVE  UNCHANGED pools
        BY <2>3 DEF Listing!fetchLiveSimpleTokenPrice, Listing!RequestWaits, Listing!TokenRequested
    <2>4. ASSUME NEW live, Listing!CatalogAnswered(live) PROVE UNCHANGED pools
        BY <2>4 DEF Listing!CatalogAnswered
    <2> QED
        BY <2>1, <2>2, <2>3, <2>4 DEF Listing!Next
<1> QED
    BY <1>1, <1>2, <1>3, <1>4, <1>5, <1>6

\* A pool has the price of its base token, or the one it had, though its tokens may
\* change places between the reading of targets and the coming of prices, for any
\* answers, sweeps and requests (services/tier1-onchain-sweepers.ts).
THEOREM PricesAreOfBase == PlaneSpec => PriceOfBase
<1>1. PlaneInit => PoolsInv
    BY PoolsBegin DEF PlaneInit
<1>2. PoolsInv /\ [PlaneNext]_planeVars => [Listing!Next]_poolVars
    BY DEF PlaneNext, planeVars
<1>3. PoolsInv /\ [PlaneNext]_planeVars => PoolsInv'
    BY <1>2, PoolsFollow DEF PoolsInv
<1>4. PoolsInv /\ [PlaneNext]_planeVars
      => [pools' # pools => \A r \in pools' : r.priceOf # r.tokens[1] =>
            \E s \in pools \cup {Listing!Row(r.network, r.address, r.dex, r.tokens)} :
               Listing!Key(s) = Listing!Key(r) /\ s.priceOf = r.priceOf]_poolVars
    BY <1>2, PoolsFollow
<1> QED
    BY <1>1, <1>3, <1>4, PTL DEF PlaneSpec, PriceOfBase, Listing!PriceOfBase, Listing!vars, poolVars

-----------------------------------------------------------------------------
(***************************************************************************)
(* Treasuries.  The inductive invariant: what is held is finite, of known  *)
(* entities, and has values that sort as the code takes them to.           *)
(***************************************************************************)

Disclosures == UNION {Ledgers!ToSet(file) : file \in Files}

Deeds == [id : Nat, balance : Nat, at : Nat, value : Ledgers!Value]

LedgersTyped ==
    /\ IsFiniteSet(entities) /\ IsFiniteSet(holdings) /\ IsFiniteSet(transactions)
    /\ \A h \in holdings : h.entity \in entities /\ h.amount \in Nat
    /\ \A t \in transactions : t.id \in Nat /\ t.at \in Nat /\ t.value \in Ledgers!Value
    /\ ledgerSweep \in [queue : Seq(Disclosures), rest : Seq(Deeds),
                        step : {"none", "entity", "document", "holding", "transactions"}]

\* A holding is only written to an entity that is there.
EntityFirst ==
    /\ ledgerSweep.step # "none" => ledgerSweep.queue # <<>>
    /\ ledgerSweep.step \in {"document", "holding", "transactions"} => Head(ledgerSweep.queue).entity \in entities

LedgersInv == LedgersTyped /\ EntityFirst

LEMMA LedgersCount == \A S : Ledgers!Cardinality(S) = Cardinality(S) /\ Ledgers!IsFiniteSet(S) = IsFiniteSet(S)
BY DEF Ledgers!Cardinality, Cardinality, Ledgers!IsFiniteSet, IsFiniteSet

LEMMA LedgerConstants ==
    /\ MaxSafeInteger \in Nat /\ CurrentPrice \in {Ledgers!Unknown} \cup Nat
    /\ IsFiniteSet(SeededEntities) /\ IsFiniteSet(SeededHoldings) /\ IsFiniteSet(SeededTransactions)
    /\ \A h \in SeededHoldings : h.entity \in SeededEntities /\ h.amount \in Nat
    /\ \A t \in SeededTransactions : t.id \in Nat /\ t.at \in Nat /\ t.value \in Ledgers!Value
    /\ \A p \in DayPrices : p.at \in Nat
BY PlaneAssumption, LedgersCount DEF PlaneAssumption, Ledgers!TreasuriesAssumption

LEMMA DisclosedAre ==
    /\ \A file \in Files : file \in Seq(Disclosures) /\ file # <<>>
    /\ \A d \in Disclosures : d.amount \in Nat /\ d.transactions \in Seq(Deeds)
<1>1. \A file \in Files :
        /\ file \in Seq(Ledgers!ToSet(file)) \ {<<>>}
        /\ \A d \in Ledgers!ToSet(file) : d.amount \in Nat /\ d.transactions \in Seq(Deeds)
    BY PlaneAssumption DEF PlaneAssumption, Ledgers!TreasuriesAssumption, Deeds
<1>2. ASSUME NEW file \in Files PROVE file \in Seq(Disclosures) /\ file # <<>>
    <2> DEFINE T == Ledgers!ToSet(file)
    <2>1. T \subseteq Disclosures /\ file \in Seq(T) /\ file # <<>>
        BY <1>1 DEF Disclosures
    <2> HIDE DEF T
    <2> QED
        BY <2>1
<1>3. \A d \in Disclosures : d.amount \in Nat /\ d.transactions \in Seq(Deeds)
    BY <1>1 DEF Disclosures
<1> QED
    BY <1>2, <1>3

LEMMA LedgersBegin == Ledgers!Init => LedgersInv
BY LedgerConstants DEF LedgersInv, LedgersTyped, EntityFirst, Ledgers!Init, Ledgers!Idle

LEMMA BeginningIs ==
    ASSUME NEW queue \in Seq(Disclosures), queue # <<>>
    PROVE  LET new == Ledgers!Beginning(queue) IN
           /\ new \in [queue : Seq(Disclosures), rest : Seq(Deeds),
                       step : {"none", "entity", "document", "holding", "transactions"}]
           /\ new.step = "entity" /\ new.queue = queue
<1>1. Head(queue) \in Disclosures
    BY HeadAndTail
<1> QED
    BY <1>1, DisclosedAre DEF Ledgers!Beginning

LEMMA TailStays ==
    ASSUME NEW S, NEW q \in Seq(S), Len(q) > 1
    PROVE  Tail(q) # <<>>
<1>1. q # <<>> /\ Len(Tail(q)) = Len(q) - 1 /\ Len(q) \in Nat
    OBVIOUS
<1>2. Len(Tail(q)) # 0
    BY <1>1
<1>3. Len(<<>>) = 0
    OBVIOUS
<1> QED
    BY <1>2, <1>3

LEMMA LedgersStep == LedgersInv /\ [Ledgers!Next]_ledgerVars => LedgersInv'
<1> SUFFICES ASSUME LedgersInv, [Ledgers!Next]_ledgerVars PROVE LedgersInv'
    OBVIOUS
<1> USE DEF LedgersInv
<1> DEFINE d == Head(ledgerSweep.queue)
<1>0. ledgerSweep.step # "none" => d \in Disclosures /\ Tail(ledgerSweep.queue) \in Seq(Disclosures)
    BY HeadAndTail DEF LedgersTyped, EntityFirst
<1>1. CASE Ledgers!SweepBegins
    <2>1. PICK file \in Files : ledgerSweep' = Ledgers!Beginning(file)
        BY <1>1 DEF Ledgers!SweepBegins
    <2> QED
        BY <1>1, <2>1, BeginningIs, DisclosedAre DEF Ledgers!SweepBegins, LedgersTyped, EntityFirst
<1>2. CASE Ledgers!EntityWritten
    <2>1. /\ entities' = entities \cup {d.entity}
          /\ ledgerSweep' = [ledgerSweep EXCEPT !.step = "document"]
          /\ UNCHANGED <<holdings, transactions>> /\ ledgerSweep.step = "entity"
        BY <1>2 DEF Ledgers!EntityWritten, Ledgers!Disclosure, Ledgers!At
    <2>2. IsFiniteSet(entities')
        BY <2>1, FS_AddElement DEF LedgersTyped
    <2> QED
        BY <2>1, <2>2 DEF LedgersTyped, EntityFirst
<1>3. CASE Ledgers!DocumentWritten
    <2>1. /\ ledgerSweep' = [ledgerSweep EXCEPT !.step = "holding"] /\ ledgerSweep.step = "document"
          /\ UNCHANGED <<entities, holdings, transactions>>
        BY <1>3 DEF Ledgers!DocumentWritten, Ledgers!At
    <2> QED
        BY <2>1 DEF LedgersTyped, EntityFirst
<1>4. CASE Ledgers!HoldingWritten
    <2> DEFINE h == [entity |-> d.entity, amount |-> d.amount, url |-> d.url]
    <2>1. /\ holdings' = {g \in holdings : g.entity # d.entity} \cup {h}
          /\ ledgerSweep' = [ledgerSweep EXCEPT !.step = "transactions"] /\ ledgerSweep.step = "holding"
          /\ UNCHANGED <<entities, transactions>>
        BY <1>4 DEF Ledgers!HoldingWritten, Ledgers!Disclosure, Ledgers!At
    <2>2. h.entity \in entities /\ h.amount \in Nat
        BY <1>0, <2>1, DisclosedAre DEF EntityFirst
    <2>3. IsFiniteSet(holdings')
        <3>1. IsFiniteSet({g \in holdings : g.entity # d.entity})
            BY FS_Subset DEF LedgersTyped
        <3> QED
            BY <2>1, <3>1, FS_AddElement
    <2> HIDE DEF h
    <2> QED
        BY <2>1, <2>2, <2>3 DEF LedgersTyped, EntityFirst
<1>5. CASE Ledgers!TransactionWritten
    <2> DEFINE deed == Head(ledgerSweep.rest)
               t == Ledgers!normalizeTreasuryDisclosure(d, deed)
    <2>1. /\ transactions' = {u \in transactions : u.id # deed.id} \cup {t}
          /\ ledgerSweep' = [ledgerSweep EXCEPT !.rest = Tail(@)] /\ ledgerSweep.step = "transactions"
          /\ UNCHANGED <<entities, holdings>> /\ ledgerSweep.rest # <<>>
        BY <1>5 DEF Ledgers!TransactionWritten, Ledgers!Disclosure, Ledgers!At
    <2>2. deed \in Deeds /\ Tail(ledgerSweep.rest) \in Seq(Deeds)
        BY <2>1, HeadAndTail DEF LedgersTyped
    <2>3. t.id \in Nat /\ t.at \in Nat /\ t.value \in Ledgers!Value
        BY <2>2 DEF Ledgers!normalizeTreasuryDisclosure, Deeds
    <2>4. IsFiniteSet(transactions')
        <3>1. IsFiniteSet({u \in transactions : u.id # deed.id})
            BY FS_Subset DEF LedgersTyped
        <3> QED
            BY <2>1, <3>1, FS_AddElement
    <2> HIDE DEF t, deed
    <2> QED
        BY <2>1, <2>2, <2>3, <2>4 DEF LedgersTyped, EntityFirst
<1>6. CASE Ledgers!DisclosureEnds
    <2>1. UNCHANGED <<entities, holdings, transactions>> /\ ledgerSweep.step = "transactions"
        BY <1>6 DEF Ledgers!DisclosureEnds, Ledgers!At
    <2>2. CASE Len(ledgerSweep.queue) > 1
        <3>1. ledgerSweep' = Ledgers!Beginning(Tail(ledgerSweep.queue))
            BY <1>6, <2>2 DEF Ledgers!DisclosureEnds
        <3>2. Tail(ledgerSweep.queue) # <<>> /\ Tail(ledgerSweep.queue) \in Seq(Disclosures)
            BY <1>0, <2>1, <2>2, TailStays DEF LedgersTyped
        <3> QED
            BY <2>1, <3>1, <3>2, BeginningIs DEF LedgersTyped, EntityFirst
    <2>3. CASE ~(Len(ledgerSweep.queue) > 1)
        <3>1. ledgerSweep' = Ledgers!Idle
            BY <1>6, <2>3 DEF Ledgers!DisclosureEnds
        <3> QED
            BY <2>1, <3>1 DEF LedgersTyped, EntityFirst, Ledgers!Idle
    <2> QED
        BY <2>2, <2>3
<1>7. CASE Ledgers!OthersRetain \/ Ledgers!Tick \/ UNCHANGED ledgerVars
    BY <1>7 DEF Ledgers!OthersRetain, Ledgers!Tick, ledgerVars, LedgersTyped, EntityFirst
<1>8. CASE Ledgers!Crash
    BY <1>8 DEF Ledgers!Crash, Ledgers!Idle, LedgersTyped, EntityFirst
<1> QED
    BY <1>1, <1>2, <1>3, <1>4, <1>5, <1>6, <1>7, <1>8 DEF Ledgers!Next

-----------------------------------------------------------------------------
(* Labels. *)

\* As many urls with a document as rows: every row has one; no such url: no row has.
LEMMA LabelsTell ==
    ASSUME NEW these, IsFiniteSet(these)
    PROVE  LET meta == Ledgers!buildTreasurySourceMeta(these) IN
           /\ ~meta.fixture => \A r \in these : \E d \in documents : d.url = r.url
           /\ Ledgers!source(meta) = "fixture" => \A r \in these : \A d \in documents : d.url # r.url
<1> DEFINE urls == {r.url : r \in these}
           vouched == urls \cap {d.url : d \in documents}
           f == [r \in these |-> r.url]
           rest == Cardinality(these) - Cardinality(vouched)
           meta == Ledgers!buildTreasurySourceMeta(these)
<1>1. f \in Surjection(these, urls)
    <2>1. f \in [these -> urls] /\ \A u \in urls : \E r \in these : f[r] = u
        OBVIOUS
    <2> HIDE DEF f, urls
    <2> QED
        BY <2>1 DEF Surjection
<1>2. /\ IsFiniteSet(urls) /\ Cardinality(urls) <= Cardinality(these)
      /\ Cardinality(urls) \in Nat /\ Cardinality(these) \in Nat
    <2> HIDE DEF f, urls
    <2> QED
        BY <1>1, FS_Surjection, FS_CardinalityType
<1>3. /\ IsFiniteSet(vouched) /\ Cardinality(vouched) \in Nat
      /\ Cardinality(vouched) <= Cardinality(urls)
      /\ Cardinality(vouched) = Cardinality(urls) => vouched = urls
      /\ Cardinality(vouched) = 0 => vouched = {}
    <2>1. vouched \subseteq urls
        OBVIOUS
    <2> HIDE DEF vouched, urls
    <2> QED
        BY <1>2, <2>1, FS_Subset, FS_EmptySet, FS_CardinalityType
<1>4. /\ meta.live = Cardinality(vouched) /\ meta.fallback = Ledgers!Max({rest, 0})
      /\ meta.fixture = (these = {} \/ meta.fallback > 0)
    BY LedgersCount DEF Ledgers!buildTreasurySourceMeta
<1>5. rest \in Int /\ (meta.fallback = rest \/ meta.fallback = 0) /\ meta.fallback >= rest
    <2>1. rest \in Int
        BY <1>2, <1>3
    <2> HIDE DEF rest
    <2>2. \E x \in {rest, 0} : \A y \in {rest, 0} : x >= y
        BY <2>1
    <2>3. Ledgers!Max({rest, 0}) \in {rest, 0} /\ \A y \in {rest, 0} : Ledgers!Max({rest, 0}) >= y
        BY <2>2 DEF Ledgers!Max
    <2> QED
        BY <1>4, <2>1, <2>3
<1>6. ASSUME ~meta.fixture, NEW r \in these PROVE \E d \in documents : d.url = r.url
    <2>1. rest <= 0
        <3> HIDE DEF meta, rest, vouched, urls
        <3>1. ~(meta.fallback > 0)
            BY <1>4, <1>6
        <3>2. meta.fallback <= 0
            BY <1>5, <3>1
        <3> QED
            BY <1>5, <3>2
    <2>2. vouched = urls
        <3> HIDE DEF vouched, urls
        <3> QED
            BY <1>2, <1>3, <2>1
    <2> QED
        BY <2>2
<1>7. ASSUME Ledgers!source(meta) = "fixture", NEW r \in these, NEW d \in documents PROVE d.url # r.url
    <2>1. ~(meta.live > 0)
        <3> HIDE DEF meta
        <3> QED
            BY <1>7 DEF Ledgers!source
    <2>2. vouched = {}
        <3> HIDE DEF vouched, urls, meta
        <3> QED
            BY <1>3, <1>4, <2>1
    <2> QED
        BY <2>2
<1> QED
    BY <1>6, <1>7

-----------------------------------------------------------------------------
(* Charts of holdings, and the order of histories. *)

\* The chart of every day has the days of the transactions.
LEMMA ChartHasDays ==
    ASSUME LedgersInv, NEW e, NEW days, NEW p \in Ledgers!holding_chart(e, days, FALSE)
    PROVE  LET same == {t \in transactions : t.entity = e /\ t.at = p.at} IN
           \E q \in Ledgers!holding_chart(e, days, TRUE) :
               q.at = p.at /\ (Ledgers!Cardinality(same) = 1 => q = p)
<1> DEFINE these == Ledgers!HistoryOf(e)
           shown == {x \in DayPrices : x.at > Ledgers!Max({q.at : q \in DayPrices}) - days}
           same == {t \in transactions : t.entity = e /\ t.at = p.at}
           whole == Ledgers!holding_chart(e, days, TRUE)
<1>1. these # {} /\ DayPrices # {}
    BY DEF Ledgers!holding_chart
<1>2. PICK t \in these, x \in shown : x.at = t.at /\ p = Ledgers!Point(x.at, t.balance, x.price)
    BY <1>1 DEF Ledgers!holding_chart
<1> DEFINE upto == Ledgers!Before(these, x.at)
           latest == CHOOSE u \in upto : \A v \in upto : v.at < u.at \/ (v.at = u.at /\ v.id <= u.id)
           q == Ledgers!Point(x.at, latest.balance, x.price)
<1>3. whole = {Ledgers!Point(y.at, Ledgers!findLatestBalanceAtOrBefore(these, y.at), y.price) :
                   y \in {z \in shown : Ledgers!Before(these, z.at) # {}}}
    BY <1>1 DEF Ledgers!holding_chart
<1>4. \A u \in these : u \in transactions /\ u.entity = e /\ u.at \in Nat /\ u.id \in Nat
    BY DEF Ledgers!HistoryOf, LedgersInv, LedgersTyped
<1>5. x.at \in Nat /\ p.at = x.at /\ q.at = x.at
    BY <1>2, LedgerConstants DEF Ledgers!Point
<1>6. t \in upto /\ \A u \in upto : u \in these /\ u.at <= x.at
    BY <1>2, <1>4, <1>5 DEF Ledgers!Before
<1>7. q \in whole
    <2>1. q = Ledgers!Point(x.at, Ledgers!findLatestBalanceAtOrBefore(these, x.at), x.price)
        BY DEF Ledgers!findLatestBalanceAtOrBefore
    <2> HIDE DEF q, whole, these, shown
    <2> QED
        BY <1>2, <1>3, <1>6, <2>1
<1>8. ASSUME Ledgers!Cardinality(same) = 1 PROVE q = p
    <2>1. t \in same /\ \A u \in same : u = t
        <3>1. IsFiniteSet(same) /\ Cardinality(same) = 1
            BY <1>8, LedgersCount, FS_Subset DEF LedgersInv, LedgersTyped
        <3>2. t \in same
            BY <1>2, <1>4, <1>5
        <3> HIDE DEF same
        <3>3. \A u \in same : u = t
            BY <3>1, <3>2, FS_Singleton
        <3> QED
            BY <3>2, <3>3
    <2>2. ASSUME NEW u \in upto, u.at = x.at PROVE u = t
        <3>1. u \in same
            BY <1>4, <1>5, <1>6, <2>2
        <3> QED
            BY <2>1, <3>1
    <2>3. \A v \in upto : v.at < t.at \/ (v.at = t.at /\ v.id <= t.id)
        <3> SUFFICES ASSUME NEW v \in upto PROVE v.at < t.at \/ (v.at = t.at /\ v.id <= t.id)
            OBVIOUS
        <3>1. v.at \in Nat /\ v.at <= x.at /\ t.at = x.at /\ t.id \in Nat
            BY <1>2, <1>4, <1>6
        <3>2. CASE v.at = x.at
            BY <2>2, <3>1, <3>2
        <3> QED
            BY <1>5, <3>1, <3>2
    <2>4. latest \in upto /\ \A v \in upto : v.at < latest.at \/ (v.at = latest.at /\ v.id <= latest.id)
        BY <1>6, <2>3
    <2> HIDE DEF latest, upto
    <2>5. latest.at = x.at
        <3>1. t.at = x.at /\ t.at \in Nat /\ latest.at \in Nat /\ latest.at <= x.at
            BY <1>2, <1>4, <1>6, <2>4
        <3> QED
            BY <1>6, <2>4, <3>1
    <2>6. latest = t
        BY <2>2, <2>4, <2>5
    <2> QED
        BY <1>2, <2>6
<1> QED
    BY <1>5, <1>7, <1>8

\* A value that is known is shown before one that is not.
LEMMA KnownValuesFirst ==
    ASSUME LedgersInv, NEW order \in {"value_asc", "value_desc"}, NEW t \in transactions, NEW u \in transactions,
           t.value # Ledgers!Unknown, u.value = Ledgers!Unknown
    PROVE  Ledgers!sortTreasuryTransactions(t, u, order)
<1>1. t.value \in 0..(MaxSafeInteger - 1) /\ MaxSafeInteger \in Nat
    BY LedgerConstants DEF LedgersInv, LedgersTyped, Ledgers!Value
<1>2. CASE order = "value_desc"
    BY <1>1, <1>2 DEF Ledgers!sortTreasuryTransactions, Ledgers!sortNumber
<1>3. CASE order = "value_asc"
    BY <1>1, <1>3 DEF Ledgers!sortTreasuryTransactions, Ledgers!sortNumber
<1> QED
    BY <1>2, <1>3

-----------------------------------------------------------------------------
(* Totals. *)

LEMMA SumOfNothing ==
    ASSUME NEW S, IsFiniteSet(S), NEW f, \A x \in S : f[x] = 0
    PROVE  SumOf(f, S) = 0
<1>1. PICK z \in Int : z = 0
    OBVIOUS
<1>2. \A x \in S : f[x] \in Int /\ z <= f[x] /\ f[x] <= z
    BY <1>1
<1>3. SumOf(f, S) \in Int /\ z * Cardinality(S) <= SumOf(f, S) /\ SumOf(f, S) <= z * Cardinality(S)
    BY <1>2, SumIsBetween
<1> QED
    BY <1>1, <1>3, FS_CardinalityType

\* A sum is that of the sums of its parts.
LEMMA SumOfParts ==
    ASSUME NEW X, IsFiniteSet(X), NEW E, IsFiniteSet(E), NEW f, NEW k,
           \A x \in X : f[x] \in Int /\ k[x] \in E
    PROVE  SumOf(f, X) = SumOf([e \in E |-> SumOf(f, {x \in X : k[x] = e})], E)
<1> DEFINE part(s, e) == {x \in s : k[x] = e}
           shares(s) == [e \in E |-> SumOf(f, part(s, e))]
           odd == {s \in SUBSET X : SumOf(f, s) # SumOf(shares(s), E)}
<1>1. \A s \in SUBSET X : /\ IsFiniteSet(s) /\ \A e \in E : IsFiniteSet(part(s, e)) /\ shares(s)[e] \in Int
    <2> SUFFICES ASSUME NEW s \in SUBSET X
                 PROVE  /\ IsFiniteSet(s) /\ \A e \in E : IsFiniteSet(part(s, e)) /\ shares(s)[e] \in Int
        OBVIOUS
    <2>1. ASSUME NEW e \in E PROVE IsFiniteSet(part(s, e)) /\ SumOf(f, part(s, e)) \in Int
        <3>1. part(s, e) \subseteq X
            OBVIOUS
        <3> HIDE DEF part
        <3>2. IsFiniteSet(part(s, e))
            BY <3>1, FS_Subset
        <3>3. \A x \in part(s, e) : f[x] \in Int
            BY <3>1
        <3> QED
            BY <3>2, <3>3, SumIsInt
    <2>2. IsFiniteSet(s)
        BY FS_Subset
    <2> HIDE DEF part
    <2> QED
        BY <2>1, <2>2
<1>2. odd = {}
    <2> SUFFICES ASSUME odd # {} PROVE FALSE
        OBVIOUS
    <2>1. PICK s \in odd : \A y \in s : s \ {y} \notin odd
        <3>1. odd \subseteq SUBSET X
            OBVIOUS
        <3> HIDE DEF odd
        <3> QED
            BY <3>1, SmallestSet
    <2>2. s \in SUBSET X /\ SumOf(f, s) # SumOf(shares(s), E)
        BY <2>1
    <2>3. s # {}
        <3> SUFFICES ASSUME s = {} PROVE FALSE
            OBVIOUS
        <3>1. \A e \in E : shares(s)[e] = 0
            BY SumOfNone
        <3>2. SumOf(f, s) = 0
            BY SumOfNone
        <3>3. SumOf(shares(s), E) = 0
            <4> HIDE DEF shares
            <4> QED
                BY <3>1, SumOfNothing
        <3> QED
            BY <2>2, <3>2, <3>3
    <2>4. PICK x \in s : TRUE
        BY <2>3
    <2> DEFINE t == s \ {x}
               e == k[x]
    <2>5. t \in SUBSET X /\ SumOf(f, t) = SumOf(shares(t), E) /\ e \in E
        BY <2>1, <2>2, <2>4
    <2>6. SumOf(f, s) = f[x] + SumOf(f, t)
        BY <1>1, <2>2, SumOfOneMore
    <2>7. shares(s)[e] = f[x] + shares(t)[e]
        <3>1. x \in part(s, e) /\ part(s, e) \ {x} = part(t, e) /\ \A y \in part(s, e) : f[y] \in Int
            BY <2>2
        <3>2. IsFiniteSet(part(s, e))
            BY <1>1, <2>2, <2>5
        <3>3. SumOf(f, part(s, e)) = f[x] + SumOf(f, part(t, e))
            <4> HIDE DEF part, e, t
            <4> QED
                BY <3>1, <3>2, SumOfOneMore
        <3>4. shares(s)[e] = SumOf(f, part(s, e)) /\ shares(t)[e] = SumOf(f, part(t, e))
            BY <2>5
        <3> QED
            BY <3>3, <3>4
    <2>8. SumOf(shares(s), E \ {e}) = SumOf(shares(t), E \ {e})
        <3>1. ASSUME NEW d \in E \ {e} PROVE shares(s)[d] = shares(t)[d]
            <4>1. part(s, d) = part(t, d)
                OBVIOUS
            <4> QED
                BY <4>1
        <3>2. IsFiniteSet(E \ {e})
            BY FS_Subset
        <3> HIDE DEF shares, e, t
        <3> QED
            BY <3>1, <3>2, SumsOfSame
    <2>9. /\ SumOf(shares(s), E) = shares(s)[e] + SumOf(shares(s), E \ {e})
          /\ SumOf(shares(t), E) = shares(t)[e] + SumOf(shares(t), E \ {e})
          /\ SumOf(shares(t), E \ {e}) \in Int
        <3>1. \A u \in E : shares(s)[u] \in Int /\ shares(t)[u] \in Int
            BY <1>1, <2>2, <2>5
        <3>2. IsFiniteSet(E \ {e})
            BY FS_Subset
        <3> HIDE DEF shares, e, t
        <3> QED
            BY <2>5, <3>1, <3>2, SumOfOneMore, SumIsInt
    <2>10. f[x] \in Int /\ shares(t)[e] \in Int
        BY <1>1, <2>2, <2>5
    <2> HIDE DEF shares, e, t
    <2> QED
        BY <2>2, <2>5, <2>6, <2>7, <2>8, <2>9, <2>10
<1>3. X \notin odd
    BY <1>2
<1>4. SumOf(f, X) = SumOf(shares(X), E)
    BY <1>3
<1> QED
    BY <1>4

\* The rows of a coin are finitely many, and have numbers for values.
LEMMA CoinRows ==
    ASSUME LedgersInv, CurrentPrice # Ledgers!Unknown
    PROVE  IsFiniteSet(Ledgers!ByCoin) /\ \A r \in Ledgers!ByCoin : r.value \in Int /\ r.entity \in entities
<1> DEFINE row(h) == [entity |-> h.entity, amount |-> h.amount, value |-> Ledgers!ValueOf(h), url |-> h.url]
           f == [h \in holdings |-> row(h)]
<1>1. f \in Surjection(holdings, Ledgers!ByCoin)
    <2>1. f \in [holdings -> Ledgers!ByCoin] /\ \A r \in Ledgers!ByCoin : \E h \in holdings : f[h] = r
        BY DEF Ledgers!ByCoin
    <2> HIDE DEF f
    <2> QED
        BY <2>1 DEF Surjection
<1>2. IsFiniteSet(Ledgers!ByCoin)
    <2>1. IsFiniteSet(holdings)
        BY DEF LedgersInv, LedgersTyped
    <2> HIDE DEF f
    <2> QED
        BY <1>1, <2>1, FS_Surjection
<1>3. \A h \in holdings : h.amount \in Nat /\ h.entity \in entities /\ CurrentPrice \in Nat
    BY LedgerConstants DEF LedgersInv, LedgersTyped
<1>4. \A h \in holdings : Ledgers!ValueOf(h) \in Int /\ row(h).value = Ledgers!ValueOf(h) /\ row(h).entity \in entities
    BY <1>3 DEF Ledgers!ValueOf
<1>5. \A r \in Ledgers!ByCoin : \E h \in holdings : r = row(h)
    BY DEF Ledgers!ByCoin
<1> HIDE DEF row
<1> QED
    BY <1>2, <1>4, <1>5

LEMMA LedgerSumIs ==
    ASSUME NEW S, IsFiniteSet(S)
    PROVE  Ledgers!sumBigNumber(S) = SumOf([r \in S |-> r.value], S)
<1> DEFINE f == [r \in S |-> r.value]
<1>1. PICK g : IsSum(g, f, S)
    BY SumsExist
<1>2. g = CHOOSE h : IsSum(h, f, S)
    BY <1>1, SumsAreUnique
<1>3. \A h : IsSum(h, f, S) <=> h = [s \in SUBSET S |->
                    IF s = {} THEN 0 ELSE OneOf(s).value + h[s \ {OneOf(s)}]]
    <2>1. \A h : \A s \in SUBSET S :
             AddsUp(h, f, s) = IF s = {} THEN 0 ELSE OneOf(s).value + h[s \ {OneOf(s)}]
        BY ChosenIsOne DEF AddsUp
    <2> QED
        BY <2>1 DEF IsSum
<1>4. g = CHOOSE h : h = [s \in SUBSET S |-> IF s = {} THEN 0 ELSE OneOf(s).value + h[s \ {OneOf(s)}]]
    BY <1>2, <1>3
<1> QED
    BY <1>2, <1>4 DEF Ledgers!sumBigNumber, Ledgers!MapThenSumSet, Ledgers!MapThenFoldSet, OneOf, SumOf

\* The list of the coin sums up to what the details of the entities show.
LEMMA TotalIsOfDetails ==
    ASSUME LedgersInv, CurrentPrice # Ledgers!Unknown
    PROVE  Ledgers!TotalValue = Ledgers!MapThenSumSet(
               LAMBDA e : Ledgers!sumBigNumber(Ledgers!Detail(e, FALSE).holdings), entities)
<1> DEFINE X == Ledgers!ByCoin
           f == [r \in X |-> r.value]
           k == [r \in X |-> r.entity]
           part(e) == {r \in X : r.entity = e}
           of == [e \in entities |-> Ledgers!sumBigNumber(part(e))]
           shares == [e \in entities |-> SumOf(f, {r \in X : k[r] = e})]
<1>1. IsFiniteSet(X) /\ IsFiniteSet(entities) /\ \A r \in X : f[r] \in Int /\ k[r] \in entities
    BY CoinRows DEF LedgersInv, LedgersTyped
<1>2. Ledgers!TotalValue = SumOf(f, X)
    BY <1>1, LedgerSumIs DEF Ledgers!TotalValue
<1>3. SumOf(f, X) = SumOf(shares, entities)
    <2> HIDE DEF X, f, k
    <2> QED
        BY <1>1, SumOfParts
<1>4. ASSUME NEW e \in entities PROVE shares[e] = of[e]
    <2>1. {r \in X : k[r] = e} = part(e)
        OBVIOUS
    <2>2. IsFiniteSet(part(e))
        BY <1>1, FS_Subset
    <2>3. Ledgers!sumBigNumber(part(e)) = SumOf([r \in part(e) |-> r.value], part(e))
        <3> HIDE DEF part
        <3> QED
            BY <2>2, LedgerSumIs
    <2>4. SumOf([r \in part(e) |-> r.value], part(e)) = SumOf(f, part(e))
        <3> DEFINE h == [r \in part(e) |-> r.value]
        <3>1. \A r \in part(e) : h[r] = f[r]
            OBVIOUS
        <3> HIDE DEF h, f, part
        <3>2. SumOf(h, part(e)) = SumOf(f, part(e))
            BY <2>2, <3>1, SumsOfSame
        <3> QED
            BY <3>2 DEF h
    <2> QED
        BY <2>1, <2>3, <2>4
<1>5. SumOf(shares, entities) = SumOf(of, entities)
    <2> HIDE DEF shares, of
    <2> QED
        BY <1>1, <1>4, SumsOfSame
<1>6. Ledgers!MapThenSumSet(LAMBDA e : Ledgers!sumBigNumber(Ledgers!Detail(e, FALSE).holdings), entities)
        = SumOf(of, entities)
    <2>1. PICK g : IsSum(g, of, entities)
        BY <1>1, SumsExist
    <2>2. g = CHOOSE h : IsSum(h, of, entities)
        BY <1>1, <2>1, SumsAreUnique
    <2>3. \A e \in entities : of[e] = Ledgers!sumBigNumber(Ledgers!Detail(e, FALSE).holdings)
        BY DEF Ledgers!Detail
    <2> HIDE DEF of
    <2>4. \A h : IsSum(h, of, entities) <=> h = [s \in SUBSET entities |->
                    IF s = {} THEN 0
                    ELSE Ledgers!sumBigNumber(Ledgers!Detail(OneOf(s), FALSE).holdings) + h[s \ {OneOf(s)}]]
        <3>1. \A h : \A s \in SUBSET entities :
                 AddsUp(h, of, s) =
                    IF s = {} THEN 0
                    ELSE Ledgers!sumBigNumber(Ledgers!Detail(OneOf(s), FALSE).holdings) + h[s \ {OneOf(s)}]
            BY <2>3, ChosenIsOne DEF AddsUp
        <3> QED
            BY <3>1 DEF IsSum
    <2>5. g = CHOOSE h : h = [s \in SUBSET entities |->
                    IF s = {} THEN 0
                    ELSE Ledgers!sumBigNumber(Ledgers!Detail(OneOf(s), FALSE).holdings) + h[s \ {OneOf(s)}]]
        BY <2>2, <2>4
    <2> QED
        BY <2>2, <2>5 DEF Ledgers!MapThenSumSet, Ledgers!MapThenFoldSet, OneOf, SumOf
<1> QED
    BY <1>2, <1>3, <1>5, <1>6

LEMMA LedgersAreTrue == LedgersInv => Ledgers!DisclosuresTrue
<1> SUFFICES ASSUME LedgersInv PROVE Ledgers!DisclosuresTrue
    OBVIOUS
<1>1. ASSUME NEW these \in {holdings} \cup {{h \in holdings : h.entity = e} : e \in entities}
                            \cup {{t \in transactions : t.entity = e} : e \in entities}
      PROVE  LET meta == Ledgers!buildTreasurySourceMeta(these) IN
             /\ ~meta.fixture => \A r \in these : \E d \in documents : d.url = r.url
             /\ Ledgers!source(meta) = "fixture" => \A r \in these : \A d \in documents : d.url # r.url
    <2>1. these \subseteq holdings \/ these \subseteq transactions
        OBVIOUS
    <2>2. IsFiniteSet(these)
        BY <2>1, FS_Subset DEF LedgersInv, LedgersTyped
    <2> QED
        BY <2>2, LabelsTell
<1>2. ASSUME NEW e \in entities, NEW days \in HoldingWindows, NEW p \in Ledgers!holding_chart(e, days, FALSE)
      PROVE  LET same == {t \in transactions : t.entity = e /\ t.at = p.at} IN
             \E q \in Ledgers!holding_chart(e, days, TRUE) :
                 q.at = p.at /\ (Ledgers!Cardinality(same) = 1 => q = p)
    BY ChartHasDays
<1>3. ASSUME NEW e \in entities, NEW order \in {"value_asc", "value_desc"},
             NEW t \in Ledgers!HistoryOf(e), NEW u \in Ledgers!HistoryOf(e),
             t.value # Ledgers!Unknown, u.value = Ledgers!Unknown
      PROVE  Ledgers!sortTreasuryTransactions(t, u, order)
    BY <1>3, KnownValuesFirst DEF Ledgers!HistoryOf
<1>4. CurrentPrice # Ledgers!Unknown =>
          Ledgers!TotalValue = Ledgers!MapThenSumSet(
              LAMBDA e : Ledgers!sumBigNumber(Ledgers!Detail(e, FALSE).holdings), entities)
    BY TotalIsOfDetails
<1>5. \A these \in {holdings} \cup {{h \in holdings : h.entity = e} : e \in entities}
                         \cup {{t \in transactions : t.entity = e} : e \in entities} :
        LET meta == Ledgers!buildTreasurySourceMeta(these) IN
        /\ ~meta.fixture => \A r \in these : \E d \in documents : d.url = r.url
        /\ Ledgers!source(meta) = "fixture" => \A r \in these : \A d \in documents : d.url # r.url
    BY <1>1
<1>6. \A e \in entities, days \in HoldingWindows : \A p \in Ledgers!holding_chart(e, days, FALSE) :
        LET same == {t \in transactions : t.entity = e /\ t.at = p.at} IN
        \E q \in Ledgers!holding_chart(e, days, TRUE) :
            q.at = p.at /\ (Ledgers!Cardinality(same) = 1 => q = p)
    BY <1>2
<1>7. \A e \in entities, order \in {"value_asc", "value_desc"} :
        \A t, u \in Ledgers!HistoryOf(e) :
            t.value # Ledgers!Unknown /\ u.value = Ledgers!Unknown
            => Ledgers!sortTreasuryTransactions(t, u, order)
    BY <1>3
<1> QED
    BY ONLY <1>4, <1>5, <1>6, <1>7 DEF Ledgers!DisclosuresTrue

-----------------------------------------------------------------------------

LEMMA PlaneTakesLedgerSteps == [PlaneNext]_planeVars => [Ledgers!Next]_ledgerVars
BY DEF PlaneNext, planeVars

\* An answer that is not labelled a fixture has a document behind every row, a list
\* sums up to what the details show, and charts and histories tell the same of a day
\* and put what is known first, for any disclosures, prices and interruptions
\* (services/treasury-ingestion.ts, modules/treasury.ts).
THEOREM LabelsAreTrue == PlaneSpec => []DisclosuresTrue
<1>1. PlaneInit => LedgersInv
    BY LedgersBegin DEF PlaneInit
<1>2. LedgersInv /\ [PlaneNext]_planeVars => LedgersInv'
    BY PlaneTakesLedgerSteps, LedgersStep
<1>3. LedgersInv => DisclosuresTrue
    BY LedgersAreTrue DEF DisclosuresTrue
<1> QED
    BY <1>1, <1>2, <1>3, PTL DEF PlaneSpec

-----------------------------------------------------------------------------
(***************************************************************************)
(* Charts.  The rows of every family are finitely many, live or replayed,  *)
(* so that of every day some row is outranked by none.                     *)
(***************************************************************************)

RowsFine(kept) ==
    /\ IsFiniteSet(kept)
    /\ \A r \in kept : r.at \in Int /\ r.fetched \in Int /\ r.kind \in {"live", "replay"}

FamiliesFine == \A f \in Charts!Families : RowsFine(points[f])

LEMMA UpsertedFine ==
    ASSUME NEW kept, RowsFine(kept), NEW batch, RowsFine(batch)
    PROVE  RowsFine(Charts!Upserted(kept, batch))
<1> DEFINE rest == {r \in kept : \A s \in batch : ~Charts!SameKey(r, s)}
<1>1. Charts!Upserted(kept, batch) = rest \cup batch /\ rest \subseteq kept
    BY DEF Charts!Upserted
<1> HIDE DEF rest
<1>2. IsFiniteSet(rest \cup batch)
    BY <1>1, FS_Subset, FS_Union DEF RowsFine
<1> QED
    BY <1>1, <1>2 DEF RowsFine

LEMMA KeptFine ==
    ASSUME NEW kept, RowsFine(kept), NEW at
    PROVE  RowsFine(Charts!Kept(kept, at))
<1>1. Charts!Kept(kept, at) \subseteq kept
    BY DEF Charts!Kept
<1> QED
    BY <1>1, FS_Subset DEF RowsFine

LEMMA LiveRowsFine ==
    ASSUME NEW days, IsFiniteSet(days), days \subseteq Int, NEW at \in Int
    PROVE  RowsFine(Charts!LiveRows(days, at))
<1> DEFINE batch == Charts!LiveRows(days, at)
           f == [t \in days |-> Charts!SourceRow(t, "live", "custom", ChartTold[t], at)]
<1>1. f \in Surjection(days, batch)
    <2>1. f \in [days -> batch] /\ \A r \in batch : \E t \in days : f[t] = r
        BY DEF Charts!LiveRows
    <2> HIDE DEF f, batch
    <2> QED
        BY <2>1 DEF Surjection
<1>2. IsFiniteSet(batch)
    <2> HIDE DEF f, batch
    <2> QED
        BY <1>1, FS_Surjection
<1> QED
    BY <1>2 DEF RowsFine, Charts!LiveRows, Charts!SourceRow

LEMMA ReplayRowsFine ==
    ASSUME NEW b \in ChartReplays
    PROVE  RowsFine(Charts!ReplayRows(b))
<1> DEFINE batch == Charts!ReplayRows(b)
           f == [t \in DOMAIN b.told |-> Charts!SourceRow(t, "replay", b.provider, b.told[t], b.captured)]
<1>1. IsFiniteSet(DOMAIN b.told) /\ DOMAIN b.told \subseteq Nat /\ b.captured \in Nat
    BY PlaneAssumption, ChartsCount DEF PlaneAssumption, Charts!HistoryAssumption
<1>2. f \in Surjection(DOMAIN b.told, batch)
    <2>1. f \in [DOMAIN b.told -> batch] /\ \A r \in batch : \E t \in DOMAIN b.told : f[t] = r
        BY DEF Charts!ReplayRows
    <2> HIDE DEF f, batch
    <2> QED
        BY <2>1 DEF Surjection
<1>3. IsFiniteSet(batch)
    <2> HIDE DEF f, batch
    <2> QED
        BY <1>1, <1>2, FS_Surjection
<1> QED
    BY <1>1, <1>3 DEF RowsFine, Charts!ReplayRows, Charts!SourceRow

LEMMA FamiliesBegin == Charts!Init => FamiliesFine
BY FS_EmptySet DEF Charts!Init, FamiliesFine, RowsFine

LEMMA FamiliesStep == ChartsInv /\ FamiliesFine /\ [Charts!Next]_chartVars => FamiliesFine'
<1> SUFFICES ASSUME ChartsInv, FamiliesFine, [Charts!Next]_chartVars PROVE FamiliesFine'
    OBVIOUS
<1>0. points = [f \in Charts!Families |-> points[f]] /\ day \in Int
    BY DEF ChartsInv, PointsTyped
<1>1. CASE UNCHANGED points
    BY <1>1 DEF FamiliesFine
<1>2. CASE Charts!TaskAnswered
    <2> DEFINE task == Head(pass.tasks)
    <2>1. PICK days \in {(task.from)..(task.to), {task.to}, {}} :
             points' = [points EXCEPT !["chart"] = Charts!Upserted(@, Charts!LiveRows(days, pass.at))]
        BY <1>2 DEF Charts!TaskAnswered
    <2>2. task \in Tasks /\ pass.at \in Int
        <3>1. pass.tasks \in Seq(Tasks) /\ pass.tasks # <<>> /\ pass.at \in Int
            BY <1>2 DEF Charts!TaskAnswered, ChartsInv, PassTyped
        <3> QED
            BY <3>1, HeadAndTail
    <2>3. IsFiniteSet(days) /\ days \subseteq Int
        <3>1. task.from \in Int /\ task.to \in Int
            BY <2>2 DEF Tasks
        <3>2. CASE days = (task.from)..(task.to)
            BY <3>1, <3>2, FS_Interval
        <3>3. CASE days = {task.to}
            BY <3>1, <3>3, FS_Singleton
        <3>4. CASE days = {}
            BY <3>4, FS_EmptySet
        <3> QED
            BY <3>2, <3>3, <3>4
    <2> DEFINE batch == Charts!LiveRows(days, pass.at)
               new == Charts!Upserted(points["chart"], batch)
    <2>4. RowsFine(new)
        <3>1. RowsFine(points["chart"])
            BY DEF FamiliesFine, Charts!Families
        <3>2. RowsFine(batch)
            BY <2>2, <2>3, LiveRowsFine
        <3> QED
            BY <3>1, <3>2, UpsertedFine
    <2>5. \A f \in Charts!Families : points'[f] = IF f = "chart" THEN new ELSE points[f]
        BY <1>0, <2>1
    <2> HIDE DEF new, batch
    <2> QED
        BY <2>4, <2>5 DEF FamiliesFine
<1>3. CASE Charts!PassEnds
    <2>1. \A f \in Charts!Families : points'[f] \in {points[f], Charts!Kept(points[f], pass.at)}
        BY <1>3 DEF Charts!PassEnds
    <2> QED
        BY <2>1, KeptFine DEF FamiliesFine
<1>4. CASE Charts!Replayed
    <2>1. PICK b \in ChartReplays :
              points' = [points EXCEPT ![b.family] = Charts!Upserted(@, Charts!ReplayRows(b))]
        BY <1>4 DEF Charts!Replayed
    <2>2. \A f \in Charts!Families : points'[f] \in {points[f], Charts!Upserted(points[f], Charts!ReplayRows(b))}
        BY <1>0, <2>1
    <2> QED
        BY <2>2, ReplayRowsFine, UpsertedFine DEF FamiliesFine
<1>5. CASE Charts!TargetSynced
    <2>1. PICK f \in Charts!Families, t \in {day - 1, day} :
             points' = [g \in Charts!Families |->
                          Charts!Kept(IF g = f THEN Charts!Upserted(points[f], Charts!LiveRows({t}, day)) ELSE points[g], day)]
        BY <1>5 DEF Charts!TargetSynced
    <2>2. IsFiniteSet({t}) /\ {t} \subseteq Int
        <3>1. t \in Int
            BY <1>0
        <3> QED
            BY <3>1, FS_Singleton
    <2>3. RowsFine(Charts!Upserted(points[f], Charts!LiveRows({t}, day)))
        <3>1. RowsFine(Charts!LiveRows({t}, day))
            BY <1>0, <2>2, LiveRowsFine
        <3> QED
            BY <3>1, UpsertedFine DEF FamiliesFine
    <2> SUFFICES ASSUME NEW g \in Charts!Families PROVE RowsFine(points'[g])
        BY DEF FamiliesFine
    <2> DEFINE new == IF g = f THEN Charts!Upserted(points[f], Charts!LiveRows({t}, day)) ELSE points[g]
    <2>4. RowsFine(new) /\ points'[g] = Charts!Kept(new, day)
        BY <2>1, <2>3 DEF FamiliesFine
    <2> HIDE DEF new
    <2> QED
        BY <2>4, KeptFine
<1> QED
    BY <1>1, <1>2, <1>3, <1>4, <1>5
       DEF Charts!Next, chartVars, Charts!PassBegins, Charts!Crash, Charts!CandleWritten, Charts!Asked, Charts!Tick

-----------------------------------------------------------------------------
(* Of every day one row, that none outranks. *)

Latest(kept) == Charts!latestRowsByTimestamp(kept)

LEMMA SomeRowIsFirst ==
    ASSUME NEW kept, RowsFine(kept), NEW r \in kept
    PROVE  \E u \in kept : u.at = r.at /\ \A s \in kept : s.at = r.at => ~Charts!Outranks(s, u)
<1> DEFINE same == {s \in kept : s.at = r.at}
           live == {s \in same : s.kind = "live"}
           first == IF live # {} THEN live ELSE same
           age == [s \in first |-> s.fetched]
<1>1. first \subseteq kept /\ first # {} /\ \A s \in first : s \in same
    OBVIOUS
<1>2. PICK u \in first : \A s \in first : s.fetched <= u.fetched
    <2>1. IsFiniteSet(first) /\ \A s \in first : s.fetched \in Int /\ age[s] = s.fetched
        BY <1>1, FS_Subset DEF RowsFine
    <2> HIDE DEF first, age
    <2>2. \E u \in first : \A s \in first : age[s] <= age[u]
        BY <1>1, <2>1, LargestNumber
    <2> QED
        BY <2>1, <2>2
<1>3. ASSUME NEW s \in kept, s.at = r.at PROVE ~Charts!Outranks(s, u)
    <2>1. s \in same /\ u \in same /\ s.fetched \in Int /\ u.fetched \in Int
        BY <1>1, <1>3 DEF RowsFine
    <2>2. CASE live # {}
        <3>1. u.kind = "live" /\ (s.kind = "live" => s \in first)
            BY <2>1, <2>2
        <3> HIDE DEF first, live, same
        <3> QED
            BY <1>2, <2>1, <3>1 DEF Charts!Outranks
    <2>3. CASE live = {}
        <3>1. s.kind # "live" /\ s \in first
            BY <2>1, <2>3
        <3> HIDE DEF first, live, same
        <3> QED
            BY <1>2, <2>1, <3>1 DEF Charts!Outranks
    <2> QED
        BY <2>2, <2>3
<1> QED
    BY <1>1, <1>2, <1>3

LEMMA LatestAre ==
    ASSUME NEW kept, RowsFine(kept)
    PROVE  /\ Latest(kept) \subseteq kept
           /\ {r.at : r \in Latest(kept)} = {r.at : r \in kept}
           /\ \A r, s \in Latest(kept) : r.at = s.at => r = s
           /\ \A r \in Latest(kept), s \in kept : s.at = r.at => ~Charts!Outranks(s, r)
<1> DEFINE first(t) == CHOOSE r \in kept : r.at = t /\ \A s \in kept : s.at = t => ~Charts!Outranks(s, r)
           days == {r.at : r \in kept}
<1>1. Latest(kept) = {first(t) : t \in days}
    BY DEF Latest, Charts!latestRowsByTimestamp
<1>2. \A t \in days : /\ first(t) \in kept /\ first(t).at = t
                      /\ \A s \in kept : s.at = t => ~Charts!Outranks(s, first(t))
    <2> SUFFICES ASSUME NEW r \in kept
                 PROVE  /\ first(r.at) \in kept /\ first(r.at).at = r.at
                        /\ \A s \in kept : s.at = r.at => ~Charts!Outranks(s, first(r.at))
        OBVIOUS
    <2>1. \E u \in kept : u.at = r.at /\ \A s \in kept : s.at = r.at => ~Charts!Outranks(s, u)
        BY SomeRowIsFirst
    <2> QED
        BY <2>1
<1>3. {r.at : r \in Latest(kept)} = days
    <2> HIDE DEF first, days
    <2> QED
        BY <1>1, <1>2
<1> HIDE DEF first
<1> QED
    BY <1>1, <1>2, <1>3

-----------------------------------------------------------------------------
(* Sampling. *)

Spaced(times, T, step) == \A t \in times : t \in T <=> \A s \in T : s < t => t - s >= step

\* What is taken of days: the newest one, where it is far enough from those before.
LEMMA TakenExists ==
    ASSUME NEW times, IsFiniteSet(times), times \subseteq Int, NEW step \in Int
    PROVE  \E T \in SUBSET times : Spaced(times, T, step)
<1> DEFINE odd == {B \in SUBSET times : ~ \E T \in SUBSET B : Spaced(B, T, step)}
<1>1. odd = {}
    <2> SUFFICES ASSUME odd # {} PROVE FALSE
        OBVIOUS
    <2>1. PICK B \in odd : IsFiniteSet(B) /\ \A t \in B : B \ {t} \notin odd
        <3>1. odd \subseteq SUBSET times
            OBVIOUS
        <3> HIDE DEF odd
        <3> QED
            BY <3>1, SmallestSet
    <2>2. B \subseteq Int /\ B \subseteq times /\ ~ \E T \in SUBSET B : Spaced(B, T, step)
        BY <2>1
    <2>3. B # {}
        BY <2>2 DEF Spaced
    <2>4. PICK m \in B : \A t \in B : t <= m
        <3> DEFINE f == [t \in B |-> t]
        <3>1. \A t \in B : f[t] \in Int /\ f[t] = t
            BY <2>2
        <3>2. IsFiniteSet(B)
            BY <2>1
        <3> HIDE DEF f, odd
        <3>3. \E m \in B : \A t \in B : f[t] <= f[m]
            BY <2>3, <3>1, <3>2, LargestNumber
        <3> QED
            BY <3>1, <3>3
    <2>5. PICK T \in SUBSET (B \ {m}) : Spaced(B \ {m}, T, step)
        BY <2>1, <2>2
    <2> DEFINE far == \A s \in T : m - s >= step
               U == IF far THEN T \cup {m} ELSE T
    <2>6. \A t \in B \ {m} : t < m /\ t \in Int /\ m \in Int
        BY <2>2, <2>4
    <2>7. U \in SUBSET B
        BY <2>4
    <2>8. ASSUME NEW t \in B PROVE t \in U <=> \A s \in U : s < t => t - s >= step
        <3>1. CASE t # m
            <4>1. t \in U <=> t \in T
                BY <3>1
            <4>2. ~(m < t)
                BY <2>6, <3>1
            <4>3. (\A s \in U : s < t => t - s >= step) <=> \A s \in T : s < t => t - s >= step
                BY <4>2
            <4> HIDE DEF U
            <4> QED
                BY <2>5, <3>1, <4>1, <4>3 DEF Spaced
        <3>2. CASE t = m
            <4>1. \A s \in T : s < m
                BY <2>5, <2>6
            <4>2. ~(m < m)
                BY <2>2
            <4>3. CASE far
                <5>1. \A s \in U : s < m => m - s >= step
                    BY <4>2, <4>3
                <5> QED
                    BY <3>2, <4>3, <5>1
            <4>4. CASE ~far
                <5>1. U = T /\ m \notin T
                    BY <2>5, <4>4
                <5>2. ~ \A s \in T : s < m => m - s >= step
                    BY <4>1, <4>4
                <5> HIDE DEF U
                <5> QED
                    BY <3>2, <5>1, <5>2
            <4> QED
                BY <4>3, <4>4
        <3> QED
            BY <3>1, <3>2
    <2>9. Spaced(B, U, step)
        <3> HIDE DEF U
        <3> QED
            BY <2>8 DEF Spaced
    <2> HIDE DEF U
    <2> QED
        BY <2>2, <2>7, <2>9
<1>2. times \notin odd
    BY <1>1
<1> QED
    BY <1>2

LEMMA TakenIsNear ==
    ASSUME NEW times, IsFiniteSet(times), times \subseteq Int, NEW step \in Int, NEW t \in times
    PROVE  \E s \in times : s \in Charts!Taken(times, step) /\ s <= t /\ (s = t \/ t - s < step)
<1> DEFINE T == Charts!Taken(times, step)
<1>1. T = CHOOSE U \in SUBSET times : Spaced(times, U, step)
    BY DEF Charts!Taken, Spaced
<1>2. T \in SUBSET times /\ Spaced(times, T, step)
    <2> HIDE DEF T
    <2> QED
        BY <1>1, TakenExists
<1> HIDE DEF T
<1>3. CASE t \in T
    BY <1>3 DEF T
<1>4. CASE t \notin T
    <2>1. PICK s \in T : s < t /\ ~(t - s >= step)
        BY <1>2, <1>4 DEF Spaced
    <2>2. s \in Int /\ t \in Int /\ s <= t /\ t - s < step
        BY <1>2, <2>1
    <2> QED
        BY <1>2, <2>1, <2>2 DEF T
<1> QED
    BY <1>3, <1>4

\* No row is a step or more after the last one that is shown up to it.
LEMMA SampledIsNear ==
    ASSUME NEW kept, IsFiniteSet(kept), \A r \in kept : r.at \in Int, NEW step \in Int, NEW r \in kept
    PROVE  \E s \in Charts!downsampleTimeSeries(kept, step) : s.at <= r.at /\ (s.at = r.at \/ r.at - s.at < step)
<1> DEFINE times == {s.at : s \in kept}
<1>1. CASE Charts!Cardinality(kept) <= 2
    <2>1. Charts!downsampleTimeSeries(kept, step) = kept
        BY <1>1 DEF Charts!downsampleTimeSeries
    <2>2. r.at \in Int /\ r.at <= r.at
        OBVIOUS
    <2> QED
        BY <2>1, <2>2
<1>2. CASE ~(Charts!Cardinality(kept) <= 2)
    <2>1. IsFiniteSet(times) /\ times \subseteq Int /\ r.at \in times
        <3> DEFINE f == [s \in kept |-> s.at]
        <3>1. f \in Surjection(kept, times)
            <4>1. f \in [kept -> times] /\ \A t \in times : \E s \in kept : f[s] = t
                OBVIOUS
            <4> HIDE DEF f, times
            <4> QED
                BY <4>1 DEF Surjection
        <3>2. IsFiniteSet(times)
            <4> HIDE DEF f, times
            <4> QED
                BY <3>1, FS_Surjection
        <3> QED
            BY <3>2
    <2>2. PICK t \in times : t \in Charts!Taken(times, step) /\ t <= r.at /\ (t = r.at \/ r.at - t < step)
        <3> HIDE DEF times
        <3> QED
            BY <2>1, TakenIsNear
    <2>3. PICK s \in kept : s.at = t
        OBVIOUS
    <2>4. s \in Charts!downsampleTimeSeries(kept, step)
        BY <1>2, <2>2, <2>3 DEF Charts!downsampleTimeSeries
    <2> QED
        BY <2>2, <2>3, <2>4
<1> QED
    BY <1>1, <1>2

LEMMA MembersOfSeq ==
    ASSUME NEW S, NEW q \in Seq(S)
    PROVE  \A i \in DOMAIN q : q[i] \in S
OBVIOUS

LEMMA StepIsNumber == \A duration : Charts!getChartGranularity(duration) \in Int
<1> SUFFICES ASSUME NEW duration PROVE Charts!getChartGranularity(duration) \in Int
    OBVIOUS
<1>1. Granularities \in Seq([upTo : Nat, step : Nat]) /\ Coarsest \in Nat
    BY PlaneAssumption DEF PlaneAssumption, Charts!HistoryAssumption
<1> DEFINE fitting == {i \in DOMAIN Granularities : duration <= Granularities[i].upTo}
<1>2. CASE fitting = {}
    BY <1>1, <1>2 DEF Charts!getChartGranularity
<1>3. CASE fitting # {}
    <2>1. fitting \subseteq Nat /\ fitting \subseteq DOMAIN Granularities
        BY <1>1
    <2> HIDE DEF fitting
    <2>2. Charts!Min(fitting) \in fitting
        <3>1. \E i \in fitting : \A j \in fitting : i <= j
            BY <1>3, <2>1, LeastNumber
        <3> QED
            BY <3>1 DEF Charts!Min
    <2>3. Granularities[Charts!Min(fitting)].step \in Int
        <3>1. \A i \in DOMAIN Granularities : Granularities[i] \in [upTo : Nat, step : Nat]
            BY <1>1, MembersOfSeq
        <3>2. \A g \in [upTo : Nat, step : Nat] : g.step \in Int
            OBVIOUS
        <3>3. Charts!Min(fitting) \in DOMAIN Granularities
            BY <2>1, <2>2
        <3>4. Granularities[Charts!Min(fitting)] \in [upTo : Nat, step : Nat]
            BY <3>1, <3>3
        <3> QED
            BY <3>2, <3>4
    <2> QED
        BY <1>3, <2>3 DEF Charts!getChartGranularity, fitting
<1> QED
    BY <1>2, <1>3

-----------------------------------------------------------------------------
(* Charts, supplies and snapshots. *)

\* Of every day one row at most is shown, and no stored row outranks it.
Tells(shown, of) ==
    /\ \A r, s \in shown : r.at = s.at => r = s
    /\ \A r \in shown, s \in of :
          s.at = r.at => ~(\/ r.kind = "replay" /\ s.kind = "live"
                           \/ r.kind = s.kind /\ r.fetched < s.fetched)

LEMMA PartOfLatestTells ==
    ASSUME NEW kept, RowsFine(kept), NEW shown, shown \subseteq Latest(kept)
    PROVE  Tells(shown, kept)
<1>1. \A r, s \in shown : r.at = s.at => r = s
    BY LatestAre
<1>2. ASSUME NEW r \in shown, NEW s \in kept, s.at = r.at
      PROVE  ~(r.kind = "replay" /\ s.kind = "live") /\ ~(r.kind = s.kind /\ r.fetched < s.fetched)
    <2>1. ~Charts!Outranks(s, r) /\ r.fetched \in Int /\ s.fetched \in Int
        BY <1>2, LatestAre DEF RowsFine
    <2> QED
        BY <2>1 DEF Charts!Outranks
<1> QED
    BY <1>1, <1>2 DEF Tells

LEMMA SampledArePart ==
    ASSUME NEW kept, NEW q \in ChartQueries, NEW step
    PROVE  Charts!Window(kept, q) \subseteq kept /\ Charts!Sampled(kept, q, step) \subseteq kept
<1>1. q.kind \in {"range", "days", "max"}
    BY PlaneAssumption DEF PlaneAssumption, Charts!HistoryAssumption
<1>2. Charts!Window(kept, q) \subseteq kept
    BY <1>1 DEF Charts!Window
<1>3. \A of : Charts!downsampleTimeSeries(of, step) \subseteq of
    BY DEF Charts!downsampleTimeSeries
<1> QED
    BY <1>2, <1>3 DEF Charts!Sampled

\* The rows that count have the days of all rows.
LEMMA SameDays ==
    ASSUME NEW kept, RowsFine(kept), NEW q \in ChartQueries
    PROVE  /\ Charts!Step(Latest(kept), q) = Charts!Step(kept, q)
           /\ \A r \in Charts!Window(kept, q) : \E s \in Charts!Window(Latest(kept), q) : s.at = r.at
<1>1. Charts!Newest(Latest(kept)) = Charts!Newest(kept) /\ Charts!Oldest(Latest(kept)) = Charts!Oldest(kept)
    BY LatestAre DEF Charts!Newest, Charts!Oldest
<1>2. q.kind \in {"range", "days", "max"}
    BY PlaneAssumption DEF PlaneAssumption, Charts!HistoryAssumption
<1>3. Charts!Step(Latest(kept), q) = Charts!Step(kept, q)
    BY <1>1, <1>2 DEF Charts!Step
<1>4. ASSUME NEW r \in Charts!Window(kept, q)
      PROVE  \E s \in Charts!Window(Latest(kept), q) : s.at = r.at
    <2>1. r \in kept
        BY <1>2 DEF Charts!Window
    <2>2. r.at \in {s.at : s \in Latest(kept)}
        BY <2>1, LatestAre
    <2>3. PICK s \in Latest(kept) : s.at = r.at
        BY <2>2
    <2>4. s \in Charts!Window(Latest(kept), q)
        BY <1>1, <1>2, <2>3 DEF Charts!Window
    <2> QED
        BY <2>3, <2>4
<1> QED
    BY <1>3, <1>4

LEMMA StepOfQuery ==
    ASSUME NEW kept, NEW q \in ChartQueries
    PROVE  Charts!Step(kept, q) \in Int
<1>1. Coarsest \in Int
    BY PlaneAssumption DEF PlaneAssumption, Charts!HistoryAssumption
<1> QED
    BY <1>1, StepIsNumber DEF Charts!Step

LEMMA ChartIsTrue ==
    ASSUME NEW q \in ChartQueries, RowsFine(points["chart"]), points["chart"] # {}
    PROVE  /\ Tells(Charts!SourceRows(q), points["chart"])
           /\ \A r \in Charts!Window(points["chart"], q) :
                 \E s \in Charts!SourceRows(q) :
                     s.at <= r.at /\ (s.at = r.at \/ r.at - s.at < Charts!Step(points["chart"], q))
<1> DEFINE kept == points["chart"]
           latest == Latest(kept)
           step == Charts!Step(kept, q)
           window == Charts!Window(latest, q)
<1>1. Charts!SourceRows(q) = Charts!Sampled(latest, q, step)
    BY SameDays DEF Charts!SourceRows, Latest
<1>2. latest # {} /\ latest \subseteq kept
    BY LatestAre
<1>3. Charts!SourceRows(q) = Charts!downsampleTimeSeries(window, step)
    <2> HIDE DEF latest, step
    <2> QED
        BY <1>1, <1>2 DEF Charts!Sampled
<1>4. Tells(Charts!SourceRows(q), kept)
    <2>1. Charts!SourceRows(q) \subseteq latest
        BY <1>1, SampledArePart
    <2> QED
        BY <2>1, PartOfLatestTells
<1>5. IsFiniteSet(window) /\ \A s \in window : s.at \in Int
    <2>1. window \subseteq kept
        BY <1>2, SampledArePart
    <2> HIDE DEF window
    <2> QED
        BY <2>1, FS_Subset DEF RowsFine
<1>6. step \in Int
    BY StepOfQuery
<1>7. ASSUME NEW r \in Charts!Window(kept, q)
      PROVE  \E s \in Charts!SourceRows(q) : s.at <= r.at /\ (s.at = r.at \/ r.at - s.at < step)
    <2>1. PICK u \in window : u.at = r.at
        BY SameDays
    <2>2. \E s \in Charts!downsampleTimeSeries(window, step) : s.at <= u.at /\ (s.at = u.at \/ u.at - s.at < step)
        <3> HIDE DEF window, step
        <3> QED
            BY <1>5, <1>6, SampledIsNear
    <2> HIDE DEF window, step
    <2> QED
        BY <1>3, <2>1, <2>2
<1> QED
    BY <1>4, <1>7

LEMMA SupplyIsTrue ==
    ASSUME NEW q \in ChartQueries, RowsFine(points["supply"])
    PROVE  Tells(Charts!SupplyRows(q), points["supply"])
<1>1. Charts!SupplyRows(q) \subseteq Latest(points["supply"])
    BY SampledArePart DEF Charts!SupplyRows, Latest
<1> QED
    BY <1>1, PartOfLatestTells

LEMMA SnapshotIsTrue ==
    ASSUME NEW at, RowsFine(points["history"])
    PROVE  Tells({r \in Charts!getHistorySnapshot(at) : r \notin chartCandles}, points["history"])
<1>1. {r \in Charts!getHistorySnapshot(at) : r \notin chartCandles} \subseteq Latest(points["history"])
    BY DEF Charts!getHistorySnapshot, Charts!SourceBackedSnapshot, Latest
<1> QED
    BY <1>1, PartOfLatestTells

LEMMA LabelIsTrue ==
    ASSUME NEW q
    PROVE  Charts!Label(q) = "empty" <=> Charts!buildChartPayload(q) = {}
<1>1. Charts!Label(q) = "empty" <=> Charts!RowsOf(q) = {}
    BY DEF Charts!Label, Charts!RowsOf
<1>2. ASSUME NEW S PROVE Charts!deriveSparseChartFields(S) = {} <=> S = {}
    <2> DEFINE filled(r) == [r EXCEPT !.cap = IF @ # Charts!Nothing THEN @ ELSE
                                IF Ratio = Charts!Nothing THEN Charts!Nothing ELSE r.price * Ratio]
    <2>1. Charts!deriveSparseChartFields(S) = {filled(r) : r \in S}
        BY DEF Charts!deriveSparseChartFields
    <2> HIDE DEF filled
    <2> QED
        BY <2>1
<1> QED
    BY <1>1, <1>2 DEF Charts!buildChartPayload

LEMMA ChartsAreTrue == FamiliesFine => Charts!ChartsTrue
<1> SUFFICES ASSUME FamiliesFine, NEW q \in ChartQueries
             PROVE  /\ points["chart"] # {} =>
                         /\ Tells(Charts!SourceRows(q), points["chart"])
                         /\ \A r \in Charts!Window(points["chart"], q) :
                               \E s \in Charts!SourceRows(q) :
                                   s.at <= r.at /\ (s.at = r.at \/ r.at - s.at < Charts!Step(points["chart"], q))
                    /\ Tells(Charts!SupplyRows(q), points["supply"])
                    /\ Tells({r \in Charts!getHistorySnapshot(q.to) : r \notin chartCandles}, points["history"])
                    /\ Charts!Label(q) = "empty" <=> Charts!buildChartPayload(q) = {}
    BY DEF Charts!ChartsTrue, Tells
<1>1. RowsFine(points["chart"]) /\ RowsFine(points["supply"]) /\ RowsFine(points["history"])
    BY DEF FamiliesFine, Charts!Families
<1> QED
    BY <1>1, ChartIsTrue, SupplyIsTrue, SnapshotIsTrue, LabelIsTrue

-----------------------------------------------------------------------------

\* A chart, a supply chart and the snapshot of a past day tell one thing of a day that
\* no stored row outranks, no stretch of a history is left out by the sampling, and an
\* answer is labelled empty if and only if it is, for any rows, requests and steps
\* (services/market-chart-ingestion.ts, modules/chart-semantics.ts).
THEOREM ChartsTellTheTruth == PlaneSpec => []ChartsTrue
<1>1. PlaneInit => ChartsInv /\ FamiliesFine
    BY ChartsBegin, FamiliesBegin DEF PlaneInit
<1>2. ChartsInv /\ FamiliesFine /\ [PlaneNext]_planeVars => (ChartsInv /\ FamiliesFine)'
    BY PlaneTakesChartSteps, ChartsStep, FamiliesStep
<1>3. FamiliesFine => ChartsTrue
    BY ChartsAreTrue DEF ChartsTrue
<1> QED
    BY <1>1, <1>2, <1>3, PTL DEF PlaneSpec

-----------------------------------------------------------------------------
(***************************************************************************)
(* Lists: the pools and the pairs are in the one order of RowOrder.        *)
(***************************************************************************)

LEMMA PoolsCount ==
    \A S : Listing!Cardinality(S) = Cardinality(S) /\ Listing!IsFiniteSet(S) = IsFiniteSet(S)
BY DEF Listing!Cardinality, Cardinality, Listing!IsFiniteSet, IsFiniteSet

LEMMA PoolsAreOrdered == \A S, rank : Listing!Ordered(S, rank) = Ordered(S, rank)
<1>1. \A a, b : Listing!Before(a, b) = Before(a, b)
    BY DEF Listing!Before, Before
<1>2. \A r, S, rank : Listing!NumberBefore(r, S, rank) = NumberBefore(r, S, rank)
    BY <1>1, PoolsCount DEF Listing!NumberBefore, NumberBefore
<1> QED
    BY <1>2, PoolsCount DEF Listing!Ordered, Ordered

LEMMA SpotsCount ==
    \A S : Spots!Cardinality(S) = Cardinality(S) /\ Spots!IsFiniteSet(S) = IsFiniteSet(S)
BY DEF Spots!Cardinality, Cardinality, Spots!IsFiniteSet, IsFiniteSet

LEMMA PairsAreOrdered == \A S, rank : Spots!Ordered(S, rank) = Ordered(S, rank)
<1>1. \A a, b : Spots!Before(a, b) = Before(a, b)
    BY DEF Spots!Before, Before
<1>2. \A r, S, rank : Spots!NumberBefore(r, S, rank) = NumberBefore(r, S, rank)
    BY <1>1, SpotsCount DEF Spots!NumberBefore, NumberBefore
<1> QED
    BY <1>2, SpotsCount DEF Spots!Ordered, Ordered

-----------------------------------------------------------------------------
(***************************************************************************)
(* Lists of pools.  A sweep inserts and replaces rows, and yet every row   *)
(* stays under its address with its network and its exchange, so that what *)
(* was there when a request came is there when it is answered.             *)
(***************************************************************************)

PoolNumbers(r) ==
    /\ r.address \in Nat /\ r.reserve \in Int /\ r.volume \in Int /\ r.tx \in Int
    /\ r.created \in Int /\ r.updated \in Int

PoolRows ==
    /\ IsFiniteSet(pools)
    /\ \A r \in pools : r = PoolColumns(r) /\ PoolNumbers(r)
    /\ \A r, s \in pools : r.address = s.address => r = s
    /\ \A r \in pools, e \in UNION Tellings :
          r.address = AddressOf[e.id] => r.network = e.network /\ r.dex = e.dex

SweepsTimed ==
    /\ poolNow \in Nat
    /\ poolSweep # Listing!Idle => poolSweep.at \in Nat
    /\ tokenSweep # Listing!Idle => tokenSweep.at \in Nat

\* What a step makes of a row is found as it was.
RowsFollow ==
    \A r \in pools : \E s \in pools' : s.address = r.address /\ s.network = r.network /\ s.dex = r.dex

LEMMA PoolConstants ==
    /\ \A es \in Tellings :
          /\ IsFiniteSet(es) /\ \A a, b \in es : AddressOf[a.id] = AddressOf[b.id] => a = b
          /\ \A e \in es : AddressOf[e.id] \in Nat /\ e.tvl \in Nat /\ e.volume \in Nat
    /\ \A a, b \in UNION Tellings : AddressOf[a.id] = AddressOf[b.id] => a.network = b.network /\ a.dex = b.dex
    /\ \A r \in PoolSeeds, e \in UNION Tellings :
          r.address = AddressOf[e.id] => r.network = e.network /\ r.dex = e.dex
    /\ IsFiniteSet(PoolSeeds) /\ \A r, s \in PoolSeeds : r.address = s.address => r = s
    /\ \A r \in PoolSeeds : PoolNumbers(r)
    /\ MaxTargets \in Nat
<1>1. \A r \in PoolSeeds : PoolNumbers(r)
    <2> SUFFICES ASSUME NEW r \in PoolSeeds PROVE PoolNumbers(r)
        OBVIOUS
    <2>1. r \in [network : {r.network}, address : Nat, dex : {r.dex}, tokens : {r.tokens},
                 priceOf : {r.priceOf}, reserve : Nat, volume : Nat, tx : Nat,
                 created : Nat, updated : Nat]
        BY PlaneAssumption DEF PlaneAssumption, Listing!PoolsAssumption
    <2> QED
        BY <2>1 DEF PoolNumbers
<1> QED
    BY <1>1, PlaneAssumption, PoolsCount DEF PlaneAssumption, Listing!PoolsAssumption

LEMMA PoolRowsBegin == Listing!Init => PoolRows /\ SweepsTimed
<1> SUFFICES ASSUME Listing!Init PROVE PoolRows /\ SweepsTimed
    OBVIOUS
<1>1. pools = PoolSeeds /\ poolNow = 0 /\ poolSweep = Listing!Idle /\ tokenSweep = Listing!Idle
    BY DEF Listing!Init
<1>2. \A r \in pools : r = PoolColumns(r)
    BY PoolsBegin DEF PoolsInv
<1> QED
    BY <1>1, <1>2, PoolConstants DEF PoolRows, SweepsTimed

LEMMA UpsertedIs ==
    ASSUME PoolRows, NEW e \in UNION Tellings, NEW at \in Nat
    PROVE  LET r == Listing!upsertPool(e, at) IN
           /\ r = PoolColumns(r) /\ PoolNumbers(r)
           /\ r.address = AddressOf[e.id] /\ r.network = e.network /\ r.dex = e.dex
<1> DEFINE old == {r \in pools : Listing!Told(e, r)}
           new == Listing!Row(e.network, AddressOf[e.id], e.dex, e.tokens)
           base == IF old = {} THEN new ELSE CHOOSE r \in old : TRUE
           r == Listing!upsertPool(e, at)
<1>1. r = [base EXCEPT !.dex = e.dex, !.tokens = e.tokens, !.reserve = e.tvl, !.volume = e.volume, !.updated = at]
    BY DEF Listing!upsertPool
<1>2. AddressOf[e.id] \in Nat /\ e.tvl \in Nat /\ e.volume \in Nat
    BY PoolConstants
<1>3. new = PoolColumns(new) /\ PoolNumbers(new) /\ new.network = e.network /\ new.address = AddressOf[e.id]
    BY <1>2 DEF PoolColumns, PoolNumbers, Listing!Row
<1>4. \A s \in old : s \in pools /\ s.network = e.network /\ s.address = AddressOf[e.id]
    BY DEF Listing!Told, Listing!Key
<1>5. \A s \in old : s = PoolColumns(s) /\ PoolNumbers(s)
    BY <1>4 DEF PoolRows
<1>6. old = {} => base = new
    OBVIOUS
<1>7. old # {} => base \in old
    OBVIOUS
<1> HIDE DEF old, new, base, r
<1>8. base = PoolColumns(base) /\ PoolNumbers(base) /\ base.network = e.network /\ base.address = AddressOf[e.id]
    BY <1>3, <1>4, <1>5, <1>6, <1>7
<1>9. r = [network |-> base.network, address |-> base.address, dex |-> e.dex, tokens |-> e.tokens,
           priceOf |-> base.priceOf, reserve |-> e.tvl, volume |-> e.volume, tx |-> base.tx,
           created |-> base.created, updated |-> at]
    BY <1>1, <1>8 DEF PoolColumns
<1>10. r = PoolColumns(r) /\ PoolNumbers(r)
    BY <1>2, <1>8, <1>9 DEF PoolColumns, PoolNumbers
<1>11. r.address = AddressOf[e.id] /\ r.network = e.network /\ r.dex = e.dex
    BY <1>8, <1>9
<1> QED
    BY <1>10, <1>11 DEF r

LEMMA PoolSweepKeepsRows ==
    ASSUME PoolRows, SweepsTimed, NEW es \in Tellings, Listing!PoolSweepAnswered(es)
    PROVE  PoolRows' /\ RowsFollow
<1> DEFINE at == poolSweep.at
           written == {e \in Listing!SweepCandidates(es) : e.network \in PoolNetworks}
           kept == {r \in pools : \A e \in written : ~Listing!Told(e, r)}
           upserted == [e \in written |-> Listing!upsertPool(e, at)]
           news == {upserted[e] : e \in written}
<1>1. pools' = kept \cup news /\ at \in Nat
    BY DEF Listing!PoolSweepAnswered, SweepsTimed
<1>2. written \subseteq es
    BY DEF Listing!SweepCandidates, Listing!Leading, Listing!Large
<1>3. \A e \in written : e \in UNION Tellings /\ e \in es
    BY <1>2
<1>4. \A e \in written :
          LET r == upserted[e] IN
          /\ r = PoolColumns(r) /\ PoolNumbers(r)
          /\ r.address = AddressOf[e.id] /\ r.network = e.network /\ r.dex = e.dex
    BY <1>1, <1>3, UpsertedIs
<1>5. IsFiniteSet(written)
    <2>1. written \in SUBSET es
        BY <1>2
    <2> QED
        BY <2>1, PoolConstants, FS_Subset
<1>6. upserted = [e \in written |-> upserted[e]]
    OBVIOUS
<1>7. kept \in SUBSET pools /\ \A r \in kept, e \in written : ~Listing!Told(e, r)
    OBVIOUS
<1>7a. \A r \in pools : r \in kept \/ \E e \in written : Listing!Told(e, r)
    OBVIOUS
<1>7b. \A e \in written : upserted[e] \in news
    OBVIOUS
<1> HIDE DEF written, upserted, at, kept
<1>8. IsFiniteSet(news) /\ IsFiniteSet(kept)
    BY <1>5, <1>6, <1>7, ImageIsFinite, FS_Subset DEF PoolRows
<1>9. \A r \in news : \E e \in written : r = upserted[e]
    OBVIOUS
<1> HIDE DEF news
<1>10. \A r \in news :
           /\ r = PoolColumns(r) /\ PoolNumbers(r)
           /\ \E e \in written : r = upserted[e] /\ r.address = AddressOf[e.id] /\ r.network = e.network /\ r.dex = e.dex
    BY <1>4, <1>9
<1>11. IsFiniteSet(pools')
    BY <1>1, <1>8, FS_Union
<1>12. \A r \in pools' : r = PoolColumns(r) /\ PoolNumbers(r)
    BY <1>1, <1>7, <1>10 DEF PoolRows
<1>13. ASSUME NEW r \in pools', NEW e \in UNION Tellings, r.address = AddressOf[e.id]
       PROVE  r.network = e.network /\ r.dex = e.dex
    <2>1. CASE r \in kept
        BY <1>7, <1>13, <2>1 DEF PoolRows
    <2>2. CASE r \in news
        <3>1. PICK d \in written : r.address = AddressOf[d.id] /\ r.network = d.network /\ r.dex = d.dex
            BY <1>10, <2>2
        <3>2. d \in UNION Tellings /\ AddressOf[d.id] = AddressOf[e.id]
            BY <1>3, <1>13, <3>1
        <3>3. d.network = e.network /\ d.dex = e.dex
            BY <3>2, PoolConstants
        <3> QED
            BY <3>1, <3>3
    <2> QED
        BY <1>1, <2>1, <2>2
<1>14. ASSUME NEW r \in kept, NEW s \in news PROVE r.address # s.address
    <2>1. PICK e \in written : s.address = AddressOf[e.id]
        BY <1>10
    <2>2. r \in pools /\ e \in UNION Tellings
        BY <1>3, <1>7
    <2>3. r.address = AddressOf[e.id] => Listing!Told(e, r)
        BY <2>2 DEF PoolRows, Listing!Told, Listing!Key
    <2> QED
        BY <1>7, <2>1, <2>3
<1>15. ASSUME NEW r \in news, NEW s \in news, r.address = s.address PROVE r = s
    <2>1. PICK d \in written : r = upserted[d] /\ r.address = AddressOf[d.id]
        BY <1>10
    <2>2. PICK e \in written : s = upserted[e] /\ s.address = AddressOf[e.id]
        BY <1>10
    <2>3. d = e
        BY <1>3, <1>15, <2>1, <2>2, PoolConstants
    <2> QED
        BY <2>1, <2>2, <2>3
<1>16. \A r, s \in pools' : r.address = s.address => r = s
    BY <1>1, <1>7, <1>14, <1>15 DEF PoolRows
<1>17. ASSUME NEW r \in pools
       PROVE  \E s \in pools' : s.address = r.address /\ s.network = r.network /\ s.dex = r.dex
    <2>1. CASE r \in kept
        BY <1>1, <2>1
    <2>2. ASSUME NEW e \in written, Listing!Told(e, r)
          PROVE  \E s \in pools' : s.address = r.address /\ s.network = r.network /\ s.dex = r.dex
        <3>1. r.address = AddressOf[e.id] /\ r.network = e.network
            BY <2>2 DEF Listing!Told, Listing!Key
        <3>2. r.dex = e.dex
            BY <1>3, <3>1 DEF PoolRows
        <3>3. upserted[e] \in pools'
            BY <1>1, <1>7b
        <3> QED
            BY <1>4, <3>1, <3>2, <3>3
    <2> QED
        BY <1>7a, <2>1, <2>2
<1>18. PoolRows'
    BY <1>11, <1>12, <1>13, <1>16 DEF PoolRows
<1> QED
    BY <1>17, <1>18 DEF RowsFollow

LEMMA TokenSweepKeepsRows ==
    ASSUME PoolRows, SweepsTimed, NEW told, Listing!TokenSweepAnswered(told)
    PROVE  PoolRows' /\ RowsFollow
<1> DEFINE at == tokenSweep.at
           asks(s) == {t \in tokenSweep.targets \cap told : Listing!Priced(s, t)}
           next == [s \in pools |->
                      IF asks(s) # {} THEN [s EXCEPT !.priceOf = CHOOSE t \in asks(s) : TRUE, !.updated = at]
                      ELSE IF s.network = "eth" /\ s.tokens[2] \in tokenSweep.targets \cap told
                      THEN [s EXCEPT !.updated = at] ELSE s]
<1>1. pools' = {next[s] : s \in pools}
    BY DEF Listing!TokenSweepAnswered
<1>2. at \in Nat
    BY DEF Listing!TokenSweepAnswered, SweepsTimed
<1>3. next = [s \in pools |-> next[s]]
    OBVIOUS
<1>4. ASSUME NEW s \in pools
      PROVE  LET r == next[s] IN
             /\ r = PoolColumns(r) /\ PoolNumbers(r)
             /\ r.address = s.address /\ r.network = s.network /\ r.dex = s.dex
    <2>1. s = PoolColumns(s) /\ PoolNumbers(s)
        BY DEF PoolRows
    <2>2. \/ \E t : next[s] = [s EXCEPT !.priceOf = t, !.updated = at]
          \/ next[s] = [s EXCEPT !.updated = at]
          \/ next[s] = s
        OBVIOUS
    <2> HIDE DEF next, at
    <2>3. ASSUME NEW t, next[s] = [s EXCEPT !.priceOf = t, !.updated = at]
          PROVE  next[s] = [network |-> s.network, address |-> s.address, dex |-> s.dex, tokens |-> s.tokens,
                            priceOf |-> t, reserve |-> s.reserve, volume |-> s.volume, tx |-> s.tx,
                            created |-> s.created, updated |-> at]
        BY <2>1, <2>3 DEF PoolColumns
    <2>4. ASSUME next[s] = [s EXCEPT !.updated = at]
          PROVE  next[s] = [network |-> s.network, address |-> s.address, dex |-> s.dex, tokens |-> s.tokens,
                            priceOf |-> s.priceOf, reserve |-> s.reserve, volume |-> s.volume, tx |-> s.tx,
                            created |-> s.created, updated |-> at]
        BY <2>1, <2>4 DEF PoolColumns
    <2>5. \/ next[s] = s
          \/ \E t : next[s] = [network |-> s.network, address |-> s.address, dex |-> s.dex, tokens |-> s.tokens,
                            priceOf |-> t, reserve |-> s.reserve, volume |-> s.volume, tx |-> s.tx,
                            created |-> s.created, updated |-> at]
        BY <2>2, <2>3, <2>4
    <2>6. CASE next[s] = s
        BY <2>1, <2>6
    <2>7. ASSUME NEW t, next[s] = [network |-> s.network, address |-> s.address, dex |-> s.dex, tokens |-> s.tokens,
                            priceOf |-> t, reserve |-> s.reserve, volume |-> s.volume, tx |-> s.tx,
                            created |-> s.created, updated |-> at]
          PROVE  /\ next[s] = PoolColumns(next[s]) /\ PoolNumbers(next[s])
                 /\ next[s].address = s.address /\ next[s].network = s.network /\ next[s].dex = s.dex
        BY <1>2, <2>1, <2>7 DEF PoolColumns, PoolNumbers
    <2> QED
        BY <2>5, <2>6, <2>7
<1> HIDE DEF next, at
<1>5. IsFiniteSet(pools')
    BY <1>1, <1>3, ImageIsFinite DEF PoolRows
<1>6. \A r \in pools' : \E s \in pools : r = next[s]
    BY <1>1
<1>7. \A s \in pools : next[s] \in pools'
    BY <1>1
<1>8. \A r \in pools' : r = PoolColumns(r) /\ PoolNumbers(r)
    BY <1>4, <1>6
<1>9. ASSUME NEW r \in pools', NEW s \in pools', r.address = s.address PROVE r = s
    <2>1. PICK q \in pools : r = next[q]
        BY <1>6
    <2>2. PICK p \in pools : s = next[p]
        BY <1>6
    <2>3. q.address = p.address
        BY <1>4, <1>9, <2>1, <2>2
    <2>4. q = p
        BY <2>3 DEF PoolRows
    <2> QED
        BY <2>1, <2>2, <2>4
<1>10. ASSUME NEW r \in pools', NEW e \in UNION Tellings, r.address = AddressOf[e.id]
       PROVE  r.network = e.network /\ r.dex = e.dex
    <2>1. PICK q \in pools : r = next[q]
        BY <1>6
    <2> QED
        BY <1>4, <1>10, <2>1 DEF PoolRows
<1>11. RowsFollow
    BY <1>4, <1>7 DEF RowsFollow
<1>12. PoolRows'
    BY <1>5, <1>8, <1>9, <1>10 DEF PoolRows
<1> QED
    BY <1>11, <1>12

LEMMA PoolsUnchanged == PoolRows /\ UNCHANGED pools => PoolRows' /\ RowsFollow
BY DEF PoolRows, RowsFollow

\* A set made a sequence has every member once.
LEMMA SequencesAreLists == \A S : IsFiniteSet(S) => ListOf(Listing!SetToSeq(S), S)
<1> SUFFICES ASSUME NEW S, IsFiniteSet(S) PROVE ListOf(Listing!SetToSeq(S), S)
    OBVIOUS
<1> DEFINE n == Cardinality(S)
           list == Listing!SetToSeq(S)
           once(f) == \A i, j \in DOMAIN f : f[i] = f[j] => i = j
<1>1. n \in Nat /\ ExistsBijection(1..n, S)
    BY FS_CardinalityType
<1>2. IsFiniteSet(1..n) /\ Cardinality(1..n) = n
    BY <1>1, FS_Interval
<1>3. list = CHOOSE f \in [1..n -> S] : once(f)
    BY PoolsCount DEF Listing!SetToSeq, Listing!IsInjective
<1> HIDE DEF n, list
<1>4. \E f \in [1..n -> S] : once(f)
    BY <1>1 DEF ExistsBijection, Bijection, Injection, Surjection, IsInjective
<1>5. list \in [1..n -> S] /\ once(list)
    BY <1>3, <1>4
<1>6. list \in Injection(1..n, S)
    BY <1>5 DEF Injection, IsInjective
<1>7. list \in Surjection(1..n, S)
    BY <1>2, <1>6, FS_Injection DEF n
<1>8. \A r \in S : \E i \in 1..n : list[i] = r
    BY <1>7 DEF Surjection
<1> QED
    BY <1>1, <1>5, <1>8 DEF ListOf, n, list

\* A list of own whose addresses differ is a list of addresses that differ.
RowsOnce(list) == \A i, j \in DOMAIN list : list[i].address = list[j].address => i = j

LEMMA OnceIs == \A list : Listing!Once(list) <=> RowsOnce(list)
BY DEF Listing!Once, Listing!IsInjective, Listing!Addresses, RowsOnce

LEMMA AddressesAre ==
    \A list : Listing!ToSet(Listing!Addresses(list)) = {list[i].address : i \in DOMAIN list}
BY DEF Listing!ToSet, Listing!Addresses

\* The order of an answer.
LEMMA OrderOfPools ==
    ASSUME PoolRows, NEW own, own \subseteq pools, NEW sort \in {"tx", "reserve", "volume"}
    PROVE  ListOf(Ordered(own, [r \in own |-> Listing!resolvePoolOrder(sort, r)]), own)
<1> DEFINE rank == [r \in own |-> Listing!resolvePoolOrder(sort, r)]
<1>1. IsFiniteSet(own)
    <2>1. own \in SUBSET pools
        OBVIOUS
    <2> QED
        BY <2>1, FS_Subset DEF PoolRows
<1>2. \A r \in own : r \in pools /\ PoolNumbers(r)
    BY DEF PoolRows
<1>3. CASE sort = "volume"
    <2>1. \A r \in own : rank[r] = <<r.volume, r.reserve, -r.address>>
        BY <1>3 DEF Listing!resolvePoolOrder
    <2>2. \A r \in own : rank[r] \in [1..3 -> Int]
        BY <1>2, <2>1 DEF PoolNumbers
    <2>3. \A r, s \in own : rank[r] = rank[s] => r.address = s.address
        BY <1>2, <2>1 DEF PoolNumbers
    <2> HIDE DEF rank
    <2>4. RankedBy(own, 3, rank)
        BY <1>1, <1>2, <2>2, <2>3 DEF RankedBy, PoolRows
    <2> QED
        BY <2>4, OrderedIsList DEF rank
<1>4. CASE sort \in {"tx", "reserve"}
    <2>1. \A r \in own : rank[r] = <<r.tx, -r.address>> \/ rank[r] = <<r.reserve, -r.address>>
        BY <1>4 DEF Listing!resolvePoolOrder
    <2>2. \A r \in own : rank[r] \in [1..2 -> Int]
        BY <1>2, <2>1 DEF PoolNumbers
    <2>3. \A r, s \in own : rank[r] = rank[s] => r.address = s.address
        BY <1>2, <2>1 DEF PoolNumbers
    <2> HIDE DEF rank
    <2>4. RankedBy(own, 2, rank)
        BY <1>1, <1>2, <2>2, <2>3 DEF RankedBy, PoolRows
    <2> QED
        BY <2>4, OrderedIsList DEF rank
<1> QED
    BY <1>3, <1>4

\* What the catalog patches of a row are its price, its reserve and its volume.
LEMMA PatchedIs ==
    ASSUME PoolRows, NEW r \in pools, NEW live
    PROVE  Listing!patchPoolRow(r, live).address = r.address
<1> DEFINE ps == {p \in live.patches : p.address = r.address}
           p == CHOOSE p \in ps : TRUE
<1>1. r = PoolColumns(r)
    BY DEF PoolRows
<1>2. CASE ps = {}
    <2>1. Listing!patchPoolRow(r, live) = r
        BY <1>2 DEF Listing!patchPoolRow
    <2> QED
        BY <2>1
<1>3. CASE ps # {}
    <2> DEFINE v == IF p.priceOf = Listing!Null THEN r.priceOf ELSE p.priceOf
               w == IF p.reserve = 0 THEN r.reserve ELSE p.reserve
               x == IF p.volume = 0 THEN r.volume ELSE p.volume
    <2>1. Listing!patchPoolRow(r, live) = [r EXCEPT !.priceOf = v, !.reserve = w, !.volume = x]
        BY <1>3, <1>1 DEF Listing!patchPoolRow, PoolColumns
    <2> HIDE DEF v, w, x
    <2>2. [r EXCEPT !.priceOf = v, !.reserve = w, !.volume = x].address = r.address
        OBVIOUS
    <2> QED
        BY <2>1, <2>2
<1> QED
    BY <1>2, <1>3

LiveOnce(live) == IsFiniteSet(live.found) /\ \A p, q \in live.found : p.address = q.address => p = q

\* Rows that are there are listed, own and discoveries once.
LEMMA PoolListIsWhole ==
    ASSUME PoolRows, NEW live, LiveOnce(live), NEW network, NEW shown, NEW sort \in {"tx", "reserve", "volume"}
    PROVE  LET list == Listing!PoolList(live, network, shown, sort).list IN
           /\ RowsOnce(list)
           /\ \A r \in pools \cap shown : r.network = network => \E i \in DOMAIN list : list[i].address = r.address
<1> DEFINE own == {r \in pools \cap shown : r.network = network}
           more == {p \in Listing!UnlistedDiscoveries(live, own) \cap shown : p.network = network}
           order == Ordered(own, [r \in own |-> Listing!resolvePoolOrder(sort, r)])
           n == Cardinality(own)
           m == Cardinality(more)
           first == [i \in 1..n |-> Listing!patchPoolRow(order[i], live)]
           last == Listing!SetToSeq(more)
           list == Listing!PoolList(live, network, shown, sort).list
<1>1. list = first \o last
    BY PoolsCount, PoolsAreOrdered DEF Listing!PoolList, Listing!Of
<1>2. own \subseteq pools
    OBVIOUS
<1>3. more \in SUBSET live.found /\ \A p \in more, r \in own : r.address # p.address
    BY DEF Listing!UnlistedDiscoveries
<1>4. ListOf(order, own)
    BY <1>2, OrderOfPools
<1>5. IsFiniteSet(more)
    BY <1>3, FS_Subset DEF LiveOnce
<1>6. ListOf(last, more)
    BY <1>5, SequencesAreLists
<1>7. \A r \in pools \cap shown : r.network = network => r \in own
    OBVIOUS
<1>8. first = [i \in 1..n |-> Listing!patchPoolRow(order[i], live)]
    OBVIOUS
<1> HIDE DEF own, more, order, first, last, list
<1>9. \A i \in 1..n : order[i] \in own /\ first[i].address = order[i].address
    BY <1>2, <1>4, <1>8, PatchedIs DEF ListOf
<1>10. n \in Nat /\ m \in Nat
    BY <1>4, <1>6 DEF ListOf
<1> DEFINE S == {first[i] : i \in 1..n} \cup {last[i] : i \in 1..m}
<1>11. first \in [1..n -> S] /\ last \in [1..m -> S]
    BY <1>6, <1>8 DEF ListOf
<1> HIDE DEF S, n, m
<1>12. /\ DOMAIN list = 1..(n + m)
       /\ \A i \in 1..n : list[i] = first[i]
       /\ \A i \in 1..m : list[n + i] = last[i]
       /\ \A i \in 1..(n + m) : i \in 1..n \/ \E j \in 1..m : i = n + j
    <2>1. Follows(first \o last, first, n, last, m)
        BY <1>10, <1>11, JoinedSequences, Zenon
    <2> QED
        BY <1>1, <2>1 DEF Follows
<1>13. \A i, j \in 1..n : first[i].address = first[j].address => i = j
    <2> SUFFICES ASSUME NEW i \in 1..n, NEW j \in 1..n, first[i].address = first[j].address PROVE i = j
        OBVIOUS
    <2>1. order[i] = order[j]
        BY <1>2, <1>9 DEF PoolRows
    <2> QED
        BY <1>4, <2>1 DEF ListOf, n
<1>14. \A i, j \in 1..m : last[i].address = last[j].address => i = j
    <2> SUFFICES ASSUME NEW i \in 1..m, NEW j \in 1..m, last[i].address = last[j].address PROVE i = j
        OBVIOUS
    <2>1. last[i] \in more /\ last[j] \in more
        BY <1>6 DEF ListOf, m
    <2>2. last[i] = last[j]
        BY <1>3, <2>1 DEF LiveOnce
    <2> QED
        BY <1>6, <2>2 DEF ListOf, m
<1>15. \A i \in 1..n, j \in 1..m : first[i].address # last[j].address
    BY <1>3, <1>6, <1>9 DEF ListOf, m
<1>16. RowsOnce(list)
    <2> SUFFICES ASSUME NEW i \in DOMAIN list, NEW j \in DOMAIN list, list[i].address = list[j].address
                 PROVE  i = j
        BY DEF RowsOnce
    <2>1. i \in 1..n \/ \E k \in 1..m : i = n + k
        BY <1>12
    <2>2. j \in 1..n \/ \E k \in 1..m : j = n + k
        BY <1>12
    <2>3. CASE i \in 1..n /\ j \in 1..n
        BY <1>12, <1>13, <2>3
    <2>4. ASSUME i \in 1..n, NEW k \in 1..m, j = n + k PROVE FALSE
        BY <1>12, <1>15, <2>4
    <2>5. ASSUME NEW k \in 1..m, i = n + k, j \in 1..n PROVE FALSE
        BY <1>12, <1>15, <2>5
    <2>6. ASSUME NEW k \in 1..m, i = n + k, NEW l \in 1..m, j = n + l PROVE i = j
        <3>1. last[k].address = last[l].address
            BY <1>12, <2>6
        <3> QED
            BY <1>14, <2>6, <3>1
    <2> QED
        BY <2>1, <2>2, <2>3, <2>4, <2>5, <2>6
<1>17. ASSUME NEW r \in pools \cap shown, r.network = network
       PROVE  \E i \in DOMAIN list : list[i].address = r.address
    <2>1. r \in own
        BY <1>7, <1>17
    <2>2. PICK i \in 1..n : order[i] = r
        BY <1>4, <2>1 DEF ListOf, n
    <2>3. i \in 1..(n + m)
        BY <1>10
    <2> QED
        BY <1>9, <1>12, <2>2, <2>3
<1> QED
    BY <1>16, <1>17 DEF list

\* A catalog tells of every address once, whatever rows it was made for.
LEMMA CatalogIsOnce ==
    ASSUME NEW live \in {Listing!NoCatalog}
                        \cup {Listing!LiveCatalog(es, told) : es \in Tellings, told \in Listing!DexVolumes}
    PROVE  LiveOnce(live)
<1>1. CASE live = Listing!NoCatalog
    <2>1. live.found = {}
        BY <1>1 DEF Listing!NoCatalog
    <2> QED
        BY <2>1, FS_EmptySet DEF LiveOnce
<1>2. ASSUME NEW es \in Tellings, NEW told, live = Listing!LiveCatalog(es, told) PROVE LiveOnce(live)
    <2> DEFINE far == {f \in Listing!Large(es) : f.network \in PoolNetworks /\ ~ \E r \in catalog.pools : Listing!Matches(r, f)}
               row(e) == [Listing!Row(e.network, AddressOf[e.id], e.dex, e.tokens)
                            EXCEPT !.reserve = e.tvl, !.volume = e.volume]
               new == [e \in far |-> row(e)]
               all == {new[e] : e \in far}
    <2>a. \A e : row(e).address = AddressOf[e.id]
        BY DEF Listing!Row
    <2>b. Listing!Discovered(catalog.pools, es) = {row(e) : e \in far}
        BY DEF Listing!Discovered
    <2>c. Listing!LiveCatalog(es, told).found \in SUBSET Listing!Discovered(catalog.pools, es)
        BY DEF Listing!LiveCatalog
    <2>3. far \in SUBSET es
        BY DEF Listing!Large
    <2> HIDE DEF row, far
    <2>1. all = Listing!Discovered(catalog.pools, es)
        BY <2>b
    <2>2. live.found \in SUBSET all
        BY <1>2, <2>1, <2>c
    <2>4. \A e \in far : new[e].address = AddressOf[e.id]
        BY <2>a
    <2>5. new = [e \in far |-> new[e]]
        OBVIOUS
    <2> HIDE DEF far, new
    <2>6. IsFiniteSet(far)
        BY <2>3, PoolConstants, FS_Subset
    <2>7. IsFiniteSet(all)
        BY <2>5, <2>6, ImageIsFinite
    <2>8. \A p \in all : \E e \in far : p = new[e]
        OBVIOUS
    <2> HIDE DEF all
    <2>9. ASSUME NEW p \in all, NEW q \in all, p.address = q.address PROVE p = q
        <3>1. PICK d \in far : p = new[d]
            BY <2>8
        <3>2. PICK e \in far : q = new[e]
            BY <2>8
        <3>3. AddressOf[d.id] = AddressOf[e.id] /\ d \in es /\ e \in es
            BY <2>3, <2>4, <2>9, <3>1, <3>2
        <3>4. d = e
            BY <3>3, PoolConstants
        <3> QED
            BY <3>1, <3>2, <3>4
    <2>10. IsFiniteSet(live.found)
        BY <2>2, <2>7, FS_Subset
    <2> QED
        BY <2>2, <2>9, <2>10 DEF LiveOnce
<1> QED
    BY <1>1, <1>2

ListRequest(q) == q # Listing!Idle /\ q.kind \in {"pools", "dex"}

\* What was there when the request came is there still.
DueKept(q) ==
    \A a \in q.due : \E r \in pools :
        r.address = a /\ r.network = q.network /\ (q.kind = "dex" => r.dex = q.of)

RequestKept(q) ==
    /\ ListRequest(q) => (q.kind = "pools" => q.of = "volume") /\ DueKept(q)
    /\ q # Listing!Idle /\ ~q.waits =>
          \E known : q = [kind |-> "token", network |-> "eth", rows |-> known, waits |-> FALSE]

AskedKept ==
    /\ poolAsked = [c \in Client |-> poolAsked[c]]
    /\ \A c \in Client : RequestKept(poolAsked[c])

WholeAnswer(q, told) ==
    q.kind \in {"pools", "dex"} /\ told.found =>
        Listing!Once(told.list) /\ q.due \subseteq Listing!ToSet(Listing!Addresses(told.list))

AnswerWhole == poolAnswer # Listing!Idle => WholeAnswer(poolAnswer.of, poolAnswer.told)

LEMMA AnsweredIsWhole ==
    ASSUME PoolRows, NEW live, LiveOnce(live), NEW q, q # Listing!Idle, RequestKept(q)
    PROVE  WholeAnswer(q, Listing!Answered(q, live))
<1> DEFINE told == Listing!Answered(q, live)
<1> SUFFICES ASSUME q.kind \in {"pools", "dex"}, told.found
             PROVE  Listing!Once(told.list) /\ q.due \subseteq Listing!ToSet(Listing!Addresses(told.list))
    BY DEF WholeAnswer
<1>1. (q.kind = "pools" => q.of = "volume") /\ DueKept(q)
    BY DEF RequestKept, ListRequest
<1>2. \E shown :
          /\ told = Listing!PoolList(live, q.network, shown, "volume")
          /\ \A r \in pools : (q.kind = "dex" => r.dex = q.of) => r \in shown
    <2>1. ~Listing!NotFound.found
        BY DEF Listing!NotFound
    <2>2. CASE q.kind = "pools"
        <3>1. told = IF q.network \notin Listing!NetworksOf(live.dexes) THEN Listing!NotFound
                     ELSE Listing!PoolList(live, q.network, pools \cup live.found, "volume")
            BY <1>1, <2>2 DEF Listing!Answered
        <3>2. told = Listing!PoolList(live, q.network, pools \cup live.found, "volume")
            BY <2>1, <3>1
        <3> HIDE DEF told
        <3> QED
            BY <3>2
    <2>3. CASE q.kind = "dex"
        <3> DEFINE shown == {r \in pools \cup live.found : r.dex = q.of}
        <3>1. told = IF <<q.network, q.of>> \notin dexes \cup live.dexes THEN Listing!NotFound
                     ELSE Listing!PoolList(live, q.network, shown, "volume")
            BY <2>3 DEF Listing!Answered
        <3>2. told = Listing!PoolList(live, q.network, shown, "volume")
            BY <2>1, <3>1
        <3>3. \A r \in pools : r.dex = q.of => r \in shown
            OBVIOUS
        <3> HIDE DEF told, shown
        <3> QED
            BY <2>3, <3>2, <3>3
    <2> QED
        BY <2>2, <2>3
<1> HIDE DEF told
<1>3. PICK shown :
          /\ told = Listing!PoolList(live, q.network, shown, "volume")
          /\ \A r \in pools : (q.kind = "dex" => r.dex = q.of) => r \in shown
    BY <1>2
<1>4. /\ RowsOnce(told.list)
      /\ \A r \in pools \cap shown : r.network = q.network =>
             \E i \in DOMAIN told.list : told.list[i].address = r.address
    BY <1>3, PoolListIsWhole
<1>5. ASSUME NEW a \in q.due PROVE a \in Listing!ToSet(Listing!Addresses(told.list))
    <2>1. PICK r \in pools : r.address = a /\ r.network = q.network /\ (q.kind = "dex" => r.dex = q.of)
        BY <1>1 DEF DueKept
    <2>2. r \in pools \cap shown
        BY <1>3, <2>1
    <2>3. PICK i \in DOMAIN told.list : told.list[i].address = a
        BY <1>4, <2>1, <2>2
    <2> QED
        BY <2>3, AddressesAre
<1>6. Listing!Once(told.list)
    BY <1>4, OnceIs
<1> QED
    BY <1>5, <1>6

\* A step that keeps the rows keeps what is due to a request.
LEMMA RequestStays == \A q : RequestKept(q) /\ RowsFollow =>
    /\ ListRequest(q) => (q.kind = "pools" => q.of = "volume")
    /\ ListRequest(q) =>
          \A a \in q.due : \E r \in pools' :
              r.address = a /\ r.network = q.network /\ (q.kind = "dex" => r.dex = q.of)
    /\ q # Listing!Idle /\ ~q.waits =>
          \E known : q = [kind |-> "token", network |-> "eth", rows |-> known, waits |-> FALSE]
BY DEF RequestKept, DueKept, RowsFollow

\* Of one request that stays as it was.
LEMMA RequestIsKept ==
    ASSUME AskedKept, RowsFollow, NEW d \in Client, poolAsked'[d] = poolAsked[d]
    PROVE  RequestKept(poolAsked[d])'
<1>1. poolAsked'[d] = poolAsked[d]
    OBVIOUS
<1>2. RequestKept(poolAsked[d])
    BY DEF AskedKept
<1>3. ListRequest(poolAsked[d])' => (poolAsked'[d].kind = "pools" => poolAsked'[d].of = "volume")
    BY <1>1, <1>2, RequestStays DEF ListRequest
<1>4. ListRequest(poolAsked[d])' => DueKept(poolAsked[d])'
    BY <1>1, <1>2, RequestStays DEF ListRequest, DueKept
<1> QED
    BY <1>1, <1>2, <1>3, <1>4 DEF RequestKept

LEMMA AskedStay ==
    ASSUME AskedKept, RowsFollow, UNCHANGED poolAsked
    PROVE  AskedKept'
BY RequestStays DEF AskedKept, RequestKept, DueKept

\* A request that came, went on or was answered, the others as they were.
LEMMA OneAsked ==
    ASSUME AskedKept, RowsFollow, NEW c \in Client, NEW q, poolAsked' = [poolAsked EXCEPT ![c] = q],
           /\ ListRequest(q) => (q.kind = "pools" => q.of = "volume")
           /\ ListRequest(q) =>
                \A a \in q.due : \E r \in pools' :
                    r.address = a /\ r.network = q.network /\ (q.kind = "dex" => r.dex = q.of)
           /\ q # Listing!Idle /\ ~q.waits =>
                \E known : q = [kind |-> "token", network |-> "eth", rows |-> known, waits |-> FALSE]
    PROVE  AskedKept'
<1>1. poolAsked' = [d \in Client |-> IF d = c THEN q ELSE poolAsked[d]]
    BY DEF AskedKept
<1>2. poolAsked' = [d \in Client |-> poolAsked'[d]]
    BY <1>1
<1>3. ASSUME NEW d \in Client PROVE RequestKept(poolAsked[d])'
    <2>1. CASE d = c
        <3>1. poolAsked'[d] = q
            BY <1>1, <2>1
        <3>2. ListRequest(poolAsked[d])' => (poolAsked'[d].kind = "pools" => poolAsked'[d].of = "volume")
            BY <3>1 DEF ListRequest
        <3>3. ListRequest(poolAsked[d])' => DueKept(poolAsked[d])'
            BY <3>1 DEF ListRequest, DueKept
        <3> QED
            BY <3>1, <3>2, <3>3 DEF RequestKept
    <2>2. CASE d # c
        <3>1. poolAsked'[d] = poolAsked[d]
            BY <1>1, <2>2
        <3> QED
            BY <3>1, RequestIsKept
    <2> QED
        BY <2>1, <2>2
<1> QED
    BY <1>2, <1>3 DEF AskedKept

RequestsInv == PoolRows /\ SweepsTimed /\ AskedKept /\ AnswerWhole

LEMMA RequestsBegin == Listing!Init => RequestsInv
<1> SUFFICES ASSUME Listing!Init PROVE RequestsInv
    OBVIOUS
<1>1. poolAsked = [c \in Client |-> Listing!Idle] /\ poolAnswer = Listing!Idle
    BY DEF Listing!Init
<1>2. poolAsked = [c \in Client |-> poolAsked[c]] /\ \A c \in Client : poolAsked[c] = Listing!Idle
    BY <1>1
<1>3. AskedKept
    BY <1>2 DEF AskedKept, RequestKept, ListRequest
<1>4. AnswerWhole
    BY <1>1 DEF AnswerWhole
<1> QED
    BY <1>3, <1>4, PoolRowsBegin DEF RequestsInv

LEMMA NoAnswerIsWhole == poolAnswer' = Listing!Idle => AnswerWhole'
BY DEF AnswerWhole

LEMMA SweepsKeepRequests ==
    ASSUME RequestsInv,
           \/ Listing!PoolSweepBegins \/ Listing!PoolSweepFails \/ Listing!TokenSweepBegins
           \/ Listing!TokenSweepFails \/ Listing!BackoffEnds
    PROVE  RequestsInv'
<1>1. UNCHANGED pools /\ UNCHANGED poolAsked /\ poolAnswer' = Listing!Idle
    BY DEF Listing!PoolSweepBegins, Listing!PoolSweepFails, Listing!TokenSweepBegins,
        Listing!TokenSweepFails, Listing!BackoffEnds
<1>2. PoolRows' /\ RowsFollow
    BY <1>1, PoolsUnchanged DEF RequestsInv
<1>3. AskedKept'
    BY <1>1, <1>2, AskedStay DEF RequestsInv
<1>4. AnswerWhole'
    BY <1>1, NoAnswerIsWhole
<1>5. SweepsTimed'
    <2>1. poolNow' \in {poolNow, poolNow + 1}
        BY DEF Listing!PoolSweepBegins, Listing!PoolSweepFails, Listing!TokenSweepBegins,
            Listing!TokenSweepFails, Listing!BackoffEnds, Listing!AttemptBegins
    <2>2. poolSweep' \in {poolSweep, Listing!Idle} \/ poolSweep' = [at |-> poolNow + 1]
        BY DEF Listing!PoolSweepBegins, Listing!PoolSweepFails, Listing!TokenSweepBegins,
            Listing!TokenSweepFails, Listing!BackoffEnds
    <2>3. \/ tokenSweep' \in {tokenSweep, Listing!Idle}
          \/ tokenSweep' = [at |-> poolNow + 1, targets |-> Listing!readTokenSweepTargets]
        BY DEF Listing!PoolSweepBegins, Listing!PoolSweepFails, Listing!TokenSweepBegins,
            Listing!TokenSweepFails, Listing!BackoffEnds
    <2> QED
        BY <2>1, <2>2, <2>3 DEF RequestsInv, SweepsTimed
<1> QED
    BY <1>2, <1>3, <1>4, <1>5 DEF RequestsInv

LEMMA PoolSweepKeepsRequests ==
    ASSUME RequestsInv, NEW es \in Tellings, Listing!PoolSweepAnswered(es)
    PROVE  RequestsInv'
<1>1. PoolRows' /\ RowsFollow
    BY PoolSweepKeepsRows DEF RequestsInv
<1>2. /\ UNCHANGED poolAsked /\ poolAnswer' = Listing!Idle /\ UNCHANGED poolNow /\ UNCHANGED tokenSweep
      /\ poolSweep' = Listing!Idle
    BY DEF Listing!PoolSweepAnswered
<1>3. SweepsTimed'
    BY <1>2 DEF RequestsInv, SweepsTimed
<1> QED
    BY <1>1, <1>2, <1>3, AskedStay, NoAnswerIsWhole DEF RequestsInv

LEMMA TokenSweepKeepsRequests ==
    ASSUME RequestsInv, NEW told, Listing!TokenSweepAnswered(told)
    PROVE  RequestsInv'
<1>1. PoolRows' /\ RowsFollow
    BY TokenSweepKeepsRows DEF RequestsInv
<1>2. /\ UNCHANGED poolAsked /\ poolAnswer' = Listing!Idle /\ UNCHANGED poolNow /\ UNCHANGED poolSweep
      /\ tokenSweep' = Listing!Idle
    BY DEF Listing!TokenSweepAnswered
<1>3. SweepsTimed'
    BY <1>2 DEF RequestsInv, SweepsTimed
<1> QED
    BY <1>1, <1>2, <1>3, AskedStay, NoAnswerIsWhole DEF RequestsInv

\* Steps of requests leave rows and sweeps.
LEMMA RowsAsTheyWere ==
    ASSUME RequestsInv, UNCHANGED <<pools, poolNow, poolSweep, tokenSweep>>
    PROVE  PoolRows' /\ SweepsTimed' /\ RowsFollow
<1>1. PoolRows' /\ RowsFollow
    BY PoolsUnchanged DEF RequestsInv
<1>2. SweepsTimed'
    BY DEF RequestsInv, SweepsTimed
<1> QED
    BY <1>1, <1>2

LEMMA RequestWaitsKeeps ==
    ASSUME RequestsInv, NEW c \in Client, NEW q \in Listing!Requests,
           Listing!RequestWaits(c, q.kind, q.network, q.of)
    PROVE  RequestsInv'
<1> DEFINE found == {s \in pools : s.network = q.network /\ (q.kind = "dex" => s.dex = q.of)}
           new == [kind |-> q.kind, network |-> q.network, of |-> q.of, waits |-> TRUE,
                   due |-> {r.address : r \in found}]
<1>1. /\ UNCHANGED <<pools, poolNow, poolSweep, tokenSweep>> /\ poolAnswer' = Listing!Idle
      /\ poolAsked' = [poolAsked EXCEPT ![c] = new]
    BY DEF Listing!RequestWaits
<1>2. PoolRows' /\ SweepsTimed' /\ RowsFollow
    BY <1>1, RowsAsTheyWere
<1>3. q.kind = "pools" => q.of = "volume"
    BY DEF Listing!Requests
<1>4. \A a \in new.due : \E r \in pools' :
          r.address = a /\ r.network = new.network /\ (new.kind = "dex" => r.dex = new.of)
    BY <1>1
<1>5. new.waits /\ new.kind = q.kind /\ new.of = q.of
    OBVIOUS
<1> HIDE DEF new
<1>6. AskedKept'
    BY <1>1, <1>2, <1>3, <1>4, <1>5, OneAsked DEF RequestsInv
<1> QED
    BY <1>1, <1>2, <1>6, NoAnswerIsWhole DEF RequestsInv

LEMMA TokenRequestedKeeps ==
    ASSUME RequestsInv, NEW c \in Client, NEW t, Listing!TokenRequested(c, t)
    PROVE  RequestsInv'
<1> DEFINE known == Listing!ToSet(Listing!collectTokenPools("eth", t))
           new == [kind |-> "token", network |-> "eth", rows |-> known, waits |-> FALSE]
<1>1. /\ UNCHANGED <<pools, poolNow, poolSweep, tokenSweep>> /\ poolAnswer' = Listing!Idle
      /\ poolAsked' = [poolAsked EXCEPT ![c] = new]
    BY DEF Listing!TokenRequested
<1>2. PoolRows' /\ SweepsTimed' /\ RowsFollow
    BY <1>1, RowsAsTheyWere
<1> HIDE DEF known
<1>3. ~ListRequest(new)
    BY DEF ListRequest
<1>4. \E own : new = [kind |-> "token", network |-> "eth", rows |-> own, waits |-> FALSE]
    OBVIOUS
<1> HIDE DEF new
<1>5. AskedKept'
    BY <1>1, <1>2, <1>3, <1>4, OneAsked DEF RequestsInv
<1> QED
    BY <1>1, <1>2, <1>5, NoAnswerIsWhole DEF RequestsInv

LEMMA WaitsAs ==
    ASSUME NEW q, NEW kind, NEW network, NEW own, NEW before, NEW after,
           q = [kind |-> kind, network |-> network, rows |-> own, waits |-> before]
    PROVE  [q EXCEPT !.waits = after] = [kind |-> kind, network |-> network, rows |-> own, waits |-> after]
OBVIOUS

LEMMA TokenPricedKeeps ==
    ASSUME RequestsInv, NEW c \in Client, Listing!fetchLiveSimpleTokenPrice(c)
    PROVE  RequestsInv'
<1>1. UNCHANGED <<pools, poolNow, poolSweep, tokenSweep>> /\ poolAsked[c] # Listing!Idle /\ ~poolAsked[c].waits
    BY DEF Listing!fetchLiveSimpleTokenPrice
<1>2. PoolRows' /\ SweepsTimed' /\ RowsFollow
    BY <1>1, RowsAsTheyWere
<1>3. PICK own : poolAsked[c] = [kind |-> "token", network |-> "eth", rows |-> own, waits |-> FALSE]
    BY <1>1 DEF RequestsInv, AskedKept, RequestKept
<1>4. CASE poolAsked' = [poolAsked EXCEPT ![c].waits = TRUE] /\ poolAnswer' = Listing!Idle
    <2> DEFINE new == [kind |-> "token", network |-> "eth", rows |-> own, waits |-> TRUE]
    <2>1. [poolAsked[c] EXCEPT !.waits = TRUE] = new
        <3> DEFINE yes == TRUE
                   no == FALSE
        <3>1. poolAsked[c] = [kind |-> "token", network |-> "eth", rows |-> own, waits |-> no]
            BY <1>3
        <3>2. new = [kind |-> "token", network |-> "eth", rows |-> own, waits |-> yes]
            OBVIOUS
        <3> HIDE DEF yes, no, new
        <3>3. [poolAsked[c] EXCEPT !.waits = yes] = new
            BY <3>1, <3>2, WaitsAs
        <3> QED
            BY <3>3 DEF yes
    <2>a. poolAsked' = [poolAsked EXCEPT ![c] = [poolAsked[c] EXCEPT !.waits = TRUE]]
        BY <1>4
    <2> HIDE DEF new
    <2>2. poolAsked' = [poolAsked EXCEPT ![c] = new]
        BY <2>1, <2>a
    <2> USE DEF new
    <2>3. ~ListRequest(new) /\ new.waits
        BY DEF ListRequest
    <2> HIDE DEF new
    <2>4. AskedKept'
        BY <1>2, <2>2, <2>3, OneAsked DEF RequestsInv
    <2> QED
        BY <1>2, <1>4, <2>4, NoAnswerIsWhole DEF RequestsInv
<1>5. ASSUME NEW told, poolAnswer' = [of |-> poolAsked[c], told |-> told],
             poolAsked' = [poolAsked EXCEPT ![c] = Listing!Idle]
      PROVE  RequestsInv'
    <2>1. ~ListRequest(Listing!Idle)
        BY DEF ListRequest
    <2>2. AskedKept'
        BY <1>2, <1>5, <2>1, OneAsked DEF RequestsInv
    <2>3. poolAnswer'.of.kind = "token"
        BY <1>3, <1>5
    <2>4. AnswerWhole'
        BY <2>3 DEF AnswerWhole, WholeAnswer
    <2> QED
        BY <1>2, <2>2, <2>4 DEF RequestsInv
<1> QED
    BY <1>4, <1>5 DEF Listing!fetchLiveSimpleTokenPrice

LEMMA CatalogAnsweredKeeps ==
    ASSUME RequestsInv,
           NEW live \in {Listing!NoCatalog}
                        \cup {Listing!LiveCatalog(es, told) : es \in Tellings, told \in Listing!DexVolumes},
           Listing!CatalogAnswered(live)
    PROVE  RequestsInv'
<1>1. /\ UNCHANGED <<pools, poolNow, poolSweep, tokenSweep>>
      /\ poolAsked' = [c \in Client |-> IF poolAsked[c] # Listing!Idle /\ poolAsked[c].waits THEN Listing!Idle
                                        ELSE poolAsked[c]]
    BY DEF Listing!CatalogAnswered
<1>2. PoolRows' /\ SweepsTimed' /\ RowsFollow
    BY <1>1, RowsAsTheyWere
<1>3. PICK c \in Client : /\ poolAsked[c] # Listing!Idle
                          /\ poolAnswer' = [of |-> poolAsked[c], told |-> Listing!Answered(poolAsked[c], live)]
    BY DEF Listing!CatalogAnswered
<1>4. WholeAnswer(poolAsked[c], Listing!Answered(poolAsked[c], live))
    BY <1>3, CatalogIsOnce, AnsweredIsWhole DEF RequestsInv, AskedKept
<1>5. AnswerWhole'
    <2>1. poolAnswer'.of = poolAsked[c] /\ poolAnswer'.told = Listing!Answered(poolAsked[c], live)
        BY <1>3
    <2>2. WholeAnswer(poolAnswer.of, poolAnswer.told)'
        BY <1>4, <2>1 DEF WholeAnswer
    <2> QED
        BY <2>2 DEF AnswerWhole
<1>6. poolAsked' = [d \in Client |-> poolAsked'[d]]
    BY <1>1
<1>7. ASSUME NEW d \in Client PROVE RequestKept(poolAsked[d])'
    <2>2. CASE poolAsked'[d] = Listing!Idle
        BY <2>2 DEF RequestKept, ListRequest
    <2>3. CASE poolAsked'[d] = poolAsked[d]
        BY <1>2, <2>3, RequestIsKept DEF RequestsInv
    <2> QED
        BY <1>1, <2>2, <2>3
<1>8. AskedKept'
    BY <1>6, <1>7 DEF AskedKept
<1> QED
    BY <1>2, <1>5, <1>8 DEF RequestsInv

LEMMA RequestsStep == RequestsInv /\ [Listing!Next]_poolVars => RequestsInv'
<1> SUFFICES ASSUME RequestsInv, [Listing!Next]_poolVars PROVE RequestsInv'
    OBVIOUS
<1>1. CASE UNCHANGED poolVars
    <2>1. UNCHANGED <<pools, poolNow, poolSweep, tokenSweep>> /\ UNCHANGED poolAsked /\ UNCHANGED poolAnswer
        BY <1>1 DEF poolVars
    <2>2. PoolRows' /\ SweepsTimed' /\ RowsFollow
        BY <2>1, RowsAsTheyWere
    <2>3. AnswerWhole'
        BY <2>1 DEF RequestsInv, AnswerWhole, WholeAnswer
    <2> QED
        BY <2>1, <2>2, <2>3, AskedStay DEF RequestsInv
<1>2. CASE Listing!Next
    BY <1>2, SweepsKeepRequests, PoolSweepKeepsRequests, TokenSweepKeepsRequests, RequestWaitsKeeps,
        TokenRequestedKeeps, TokenPricedKeeps, CatalogAnsweredKeeps DEF Listing!Next
<1> QED
    BY <1>1, <1>2

-----------------------------------------------------------------------------
(* What the rows of pools answer. *)

\* A finite set of numbers has a largest one.
LEMMA LargestOf ==
    ASSUME NEW T, T \subseteq Int, IsFiniteSet(T), T # {}
    PROVE  Listing!Max(T) \in T /\ \A k \in T : Listing!Max(T) >= k
<1> DEFINE above == [c \in T |-> {d \in T : d > c}]
<1>1. above \in [T -> SUBSET T]
    OBVIOUS
<1>2. \A c, d \in T : c \in above[d] <=> c > d
    OBVIOUS
<1>3. \A c \in T : c \in Int
    OBVIOUS
<1> HIDE DEF above
<1>4. ASSUME NEW c \in T PROVE c \notin above[c]
    <2>1. c \in above[c] <=> c > c
        BY <1>2
    <2>2. c \in Int
        BY <1>3
    <2>3. ~(c > c)
        BY ONLY <2>2
    <2> QED
        BY <2>1, <2>3
<1>5. \A c, d \in T : c \in above[d] => above[c] \subseteq above[d]
    <2> SUFFICES ASSUME NEW c \in T, NEW d \in T, c \in above[d], NEW e \in above[c] PROVE e \in above[d]
        OBVIOUS
    <2>1. e \in T
        BY <1>1
    <2>2. e > c /\ c > d
        BY <1>2, <2>1
    <2>3. e \in Int /\ c \in Int /\ d \in Int
        BY <1>3, <2>1
    <2>4. \A i, j, k \in Int : i > j /\ j > k => i > k
        OBVIOUS
    <2>5. e > d
        BY <2>2, <2>3, <2>4, Zenon
    <2> QED
        BY <1>2, <2>1, <2>5
<1>6. \A c, d \in T : c # d => c \in above[d] \/ d \in above[c]
    BY <1>2, <1>3
<1>7. PICK c \in T : above[c] = {}
    BY <1>1, <1>4, <1>5, <1>6, FirstOf, Zenon
<1>8. \A k \in T : c >= k
    BY <1>2, <1>3, <1>7
<1> QED
    BY <1>8 DEF Listing!Max

\* Each member of own once, under its own address.
PoolsOf(list, own) ==
    /\ ListOf(list, own) /\ Listing!Once(list)
    /\ Listing!ToSet(list) = own /\ Len(list) = Cardinality(own)

LEMMA RankedPools ==
    ASSUME PoolRows, NEW own, own \subseteq pools, NEW k \in Nat, NEW rank,
           \A r \in own : rank[r] \in [1..k -> Int],
           \A r, s \in own : rank[r] = rank[s] => r.address = s.address
    PROVE  /\ PoolsOf(Listing!Ordered(own, rank), own)
           /\ LET list == Listing!Ordered(own, rank) IN
              \A i, j \in 1..Cardinality(own) : i < j => Before(rank[list[i]], rank[list[j]])
<1> DEFINE list == Listing!Ordered(own, rank)
           n == Cardinality(own)
<1>1. IsFiniteSet(own)
    <2>1. own \in SUBSET pools
        OBVIOUS
    <2> QED
        BY <2>1, FS_Subset DEF PoolRows
<1>2. \A r, s \in own : r.address = s.address => r = s
    BY DEF PoolRows
<1>3. RankedBy(own, k, rank)
    BY <1>1, <1>2 DEF RankedBy
<1>4. list = Ordered(own, rank)
    BY PoolsAreOrdered
<1>5. ListOf(list, own) /\ \A i, j \in 1..n : i < j => Before(rank[list[i]], rank[list[j]])
    BY <1>3, <1>4, OrderedIsList
<1> HIDE DEF list, n
<1>6. n \in Nat /\ list \in [1..n -> own] /\ (\A i, j \in 1..n : list[i] = list[j] => i = j)
      /\ \A r \in own : \E i \in 1..n : list[i] = r
    BY <1>5 DEF ListOf, n
<1>7. DOMAIN list = 1..n /\ Len(list) = n
    BY <1>6
<1>8. RowsOnce(list)
    BY <1>2, <1>6, <1>7 DEF RowsOnce
<1>9. {list[i] : i \in 1..n} = own
    BY <1>6
<1>10. Listing!ToSet(list) = own
    BY <1>7, <1>9 DEF Listing!ToSet
<1>11. PoolsOf(list, own)
    BY <1>5, <1>7, <1>8, <1>10, OnceIs DEF PoolsOf, n
<1> QED
    BY <1>5, <1>11 DEF list, n

LEMMA NumbersOf ==
    ASSUME PoolRows, NEW own, own \subseteq pools
    PROVE  \A r \in own :
               /\ r.address \in Int /\ -r.address \in Int /\ r.reserve \in Int /\ r.volume \in Int
               /\ r.tx \in Int /\ r.created \in Int /\ r.updated \in Int
<1>1. \A r \in own : PoolNumbers(r)
    BY DEF PoolRows
<1> QED
    BY <1>1 DEF PoolNumbers

\* The address is the last number of most ranks: pools of one rank are of one address.
EndsInAddress(own, k, rank) == \A r \in own : rank[r][k] = -r.address

LEMMA AddressLast ==
    ASSUME PoolRows, NEW own, own \subseteq pools, NEW k, NEW rank, EndsInAddress(own, k, rank)
    PROVE  \A r, s \in own : rank[r] = rank[s] => r.address = s.address
<1> SUFFICES ASSUME NEW r \in own, NEW s \in own, rank[r] = rank[s] PROVE r.address = s.address
    OBVIOUS
<1>1. -r.address = -s.address
    BY DEF EndsInAddress
<1>2. r.address \in Int /\ s.address \in Int
    BY NumbersOf
<1> QED
    BY <1>1, <1>2

LEMMA RanksAreNumbers ==
    /\ \A a \in Int : <<a>> \in [1..1 -> Int]
    /\ \A a, b \in Int : <<a, b>> \in [1..2 -> Int]
    /\ \A a, b, c \in Int : <<a, b, c>> \in [1..3 -> Int]
    /\ \A a, b, c, d \in Int : <<a, b, c, d>> \in [1..4 -> Int]
<1>1. \A a \in Int : <<a>> \in [1..1 -> Int]
    OBVIOUS
<1>2. \A a, b \in Int : <<a, b>> \in [1..2 -> Int]
    OBVIOUS
<1>3. \A a, b, c \in Int : <<a, b, c>> \in [1..3 -> Int]
    OBVIOUS
<1>4. \A a, b, c, d \in Int : <<a, b, c, d>> \in [1..4 -> Int]
    OBVIOUS
<1> QED
    BY <1>1, <1>2, <1>3, <1>4

LEMMA RichestPools ==
    ASSUME PoolRows, NEW own, own \subseteq pools
    PROVE  PoolsOf(Listing!Richest(own), own)
<1> DEFINE rank == [r \in own |-> <<r.reserve, -r.address>>]
<1>1. \A r \in own : rank[r] = <<r.reserve, -r.address>>
    OBVIOUS
<1>2. Listing!Richest(own) = Listing!Ordered(own, rank)
    BY DEF Listing!Richest
<1>3. ASSUME NEW r \in own PROVE rank[r] \in [1..2 -> Int]
    <2>1. r.address \in Int /\ -r.address \in Int /\ r.reserve \in Int /\ r.volume \in Int
          /\ r.created \in Int /\ r.updated \in Int
        BY <1>1, NumbersOf
    <2> QED
        BY <1>1, <2>1, RanksAreNumbers
<1>k. EndsInAddress(own, 2, rank)
    BY DEF EndsInAddress
<1> HIDE DEF rank
<1>4. \A r, s \in own : rank[r] = rank[s] => r.address = s.address
    BY <1>k, AddressLast
<1> QED
    BY <1>2, <1>3, <1>4, RankedPools

LEMMA DiscoveredPools ==
    ASSUME PoolRows, NEW own, own \subseteq pools, NEW preferred, NEW mode \in {"new", "1h", "6h", "24h"}
    PROVE  PoolsOf(Listing!buildPoolDiscoveryRows(own, mode, preferred), own)
<1>1. CASE mode = "new"
    <2> DEFINE rank == [r \in own |-> <<r.created, r.updated, -r.address>>]
    <2>1. \A r \in own : rank[r] = <<r.created, r.updated, -r.address>>
        OBVIOUS
    <2>2. Listing!buildPoolDiscoveryRows(own, mode, preferred) = Listing!Ordered(own, rank)
        BY <1>1 DEF Listing!buildPoolDiscoveryRows
    <2>3. ASSUME NEW r \in own PROVE rank[r] \in [1..3 -> Int]
        <3>1. r.address \in Int /\ -r.address \in Int /\ r.reserve \in Int /\ r.volume \in Int
              /\ r.created \in Int /\ r.updated \in Int
            BY <2>1, NumbersOf
        <3> QED
            BY <2>1, <3>1, RanksAreNumbers
    <2>k. EndsInAddress(own, 3, rank)
        BY DEF EndsInAddress
    <2> HIDE DEF rank
    <2>4. \A r, s \in own : rank[r] = rank[s] => r.address = s.address
        BY <2>k, AddressLast
    <2> QED
        BY <2>2, <2>3, <2>4, RankedPools
<1>2. CASE mode = "6h"
    <2> DEFINE rank == [r \in own |-> <<IF r.address \in preferred THEN 1 ELSE 0, -r.address>>]
    <2>1. \A r \in own : rank[r] = <<IF r.address \in preferred THEN 1 ELSE 0, -r.address>>
        OBVIOUS
    <2>2. Listing!buildPoolDiscoveryRows(own, mode, preferred) = Listing!Ordered(own, rank)
        BY <1>2 DEF Listing!buildPoolDiscoveryRows
    <2>3. ASSUME NEW r \in own PROVE rank[r] \in [1..2 -> Int]
        <3>1. r.address \in Int /\ -r.address \in Int /\ r.reserve \in Int /\ r.volume \in Int
              /\ r.created \in Int /\ r.updated \in Int
            BY <2>1, NumbersOf
        <3> QED
            BY <2>1, <3>1, RanksAreNumbers
    <2>k. EndsInAddress(own, 2, rank)
        BY DEF EndsInAddress
    <2> HIDE DEF rank
    <2>4. \A r, s \in own : rank[r] = rank[s] => r.address = s.address
        BY <2>k, AddressLast
    <2> QED
        BY <2>2, <2>3, <2>4, RankedPools
<1>3. CASE mode \in {"1h", "24h"}
    <2> DEFINE rank == [r \in own |-> <<Listing!TrendingScore(r, mode), r.volume, r.reserve, -r.address>>]
    <2>1. \A r \in own : rank[r] = <<Listing!TrendingScore(r, mode), r.volume, r.reserve, -r.address>>
        OBVIOUS
    <2>2. Listing!buildPoolDiscoveryRows(own, mode, preferred) = Listing!Ordered(own, rank)
        BY <1>3 DEF Listing!buildPoolDiscoveryRows
    <2>a. \A r \in own : Listing!TrendingScore(r, mode) \in Int
        BY NumbersOf DEF PoolNumbers, Listing!TrendingScore
    <2>3. ASSUME NEW r \in own PROVE rank[r] \in [1..4 -> Int]
        <3>1. r.address \in Int /\ -r.address \in Int /\ r.reserve \in Int /\ r.volume \in Int
              /\ r.created \in Int /\ r.updated \in Int
            BY <2>1, <2>a, NumbersOf
        <3> QED
            BY <2>1, <2>a, <3>1, RanksAreNumbers
    <2>k. EndsInAddress(own, 4, rank)
        BY DEF EndsInAddress
    <2> HIDE DEF rank
    <2>4. \A r, s \in own : rank[r] = rank[s] => r.address = s.address
        BY <2>k, AddressLast
    <2> QED
        BY <2>2, <2>3, <2>4, RankedPools
<1> QED
    BY <1>1, <1>2, <1>3

LEMMA FilteredPools ==
    ASSUME PoolRows, NEW own, own \subseteq pools, NEW sort \in {"reserve", "volume", "tx"},
           NEW descending \in BOOLEAN
    PROVE  PoolsOf(Listing!sortMegafilterRows(own, sort, descending), own)
<1> DEFINE metric(r) == IF descending THEN Listing!Metric(r, sort) ELSE -Listing!Metric(r, sort)
           rank == [r \in own |-> <<metric(r), r.reserve, -r.address>>]
<1>1. \A r \in own : rank[r] = <<metric(r), r.reserve, -r.address>>
    OBVIOUS
<1>2. Listing!sortMegafilterRows(own, sort, descending) = Listing!Ordered(own, rank)
    BY DEF Listing!sortMegafilterRows
<1>a. \A r \in own : metric(r) \in Int
    BY NumbersOf DEF PoolNumbers, Listing!Metric
<1>3. ASSUME NEW r \in own PROVE rank[r] \in [1..3 -> Int]
    <2>1. r.address \in Int /\ -r.address \in Int /\ r.reserve \in Int /\ r.volume \in Int
          /\ r.created \in Int /\ r.updated \in Int
        BY <1>1, <1>a, NumbersOf
    <2> QED
        BY <1>1, <1>a, <2>1, RanksAreNumbers
<1>k. EndsInAddress(own, 3, rank)
    BY DEF EndsInAddress
<1> HIDE DEF rank, metric
<1>4. \A r, s \in own : rank[r] = rank[s] => r.address = s.address
    BY <1>k, AddressLast
<1> QED
    BY <1>2, <1>3, <1>4, RankedPools

LEMMA CategoryPools ==
    ASSUME PoolRows, NEW members, NEW sort \in {"reserve", "volume", "tx"}
    PROVE  PoolsOf(Listing!sortOnchainCategoryPools(members, sort), Listing!getPoolsForOnchainCategory(members))
<1> DEFINE own == Listing!getPoolsForOnchainCategory(members)
           rank == [r \in own |-> <<Listing!Metric(r, sort), r.reserve, -r.address>>]
<1>1. \A r \in own : rank[r] = <<Listing!Metric(r, sort), r.reserve, -r.address>>
    OBVIOUS
<1>2. Listing!sortOnchainCategoryPools(members, sort) = Listing!Ordered(own, rank)
    BY DEF Listing!sortOnchainCategoryPools
<1>3. own \subseteq pools
    BY DEF Listing!getPoolsForOnchainCategory
<1>a. \A r \in own : Listing!Metric(r, sort) \in Int
    BY <1>3, NumbersOf DEF Listing!Metric
<1>4. ASSUME NEW r \in own PROVE rank[r] \in [1..3 -> Int]
    <2>1. r.address \in Int /\ -r.address \in Int /\ r.reserve \in Int /\ r.volume \in Int
          /\ r.created \in Int /\ r.updated \in Int
        BY <1>1, <1>3, <1>a, NumbersOf
    <2> QED
        BY <1>1, <1>3, <1>a, <2>1, RanksAreNumbers
<1>k. EndsInAddress(own, 3, rank)
    BY DEF EndsInAddress
<1> HIDE DEF rank, own
<1>5. \A r, s \in own : rank[r] = rank[s] => r.address = s.address
    BY <1>k, <1>3, AddressLast
<1> QED
    BY <1>2, <1>3, <1>4, <1>5, RankedPools DEF own

\* The first place of an address is its own.
LEMMA PoolsAskedFor ==
    ASSUME PoolRows, NEW own, own \subseteq pools, NEW a, NEW b
    PROVE  Listing!Once(Listing!AskedFor(own, <<a, b>>))
<1> DEFINE addresses == <<a, b>>
           found == {r \in own : r.address \in Listing!ToSet(addresses)}
           place(r) == {i \in DOMAIN addresses : addresses[i] = r.address}
           rank == [r \in found |-> <<-Listing!Min(place(r))>>]
<1>1. Listing!AskedFor(own, <<a, b>>) = Listing!Ordered(found, rank)
    BY DEF Listing!AskedFor
<1>2. ASSUME NEW r \in found
      PROVE  Listing!Min(place(r)) \in Int /\ addresses[Listing!Min(place(r))] = r.address
    <2>1. place(r) # {} /\ place(r) \subseteq Nat
        BY DEF Listing!ToSet
    <2>2. \A i \in place(r) : i \in Int /\ addresses[i] = r.address
        OBVIOUS
    <2> HIDE DEF place
    <2>3. \E i \in place(r) : \A j \in place(r) : i <= j
        BY <2>1, LeastNumber
    <2>4. Listing!Min(place(r)) \in place(r)
        BY <2>3 DEF Listing!Min
    <2> QED
        BY <2>2, <2>4
<1>3. found \subseteq pools
    OBVIOUS
<1>4. \A r \in found : rank[r] = <<-Listing!Min(place(r))>>
    OBVIOUS
<1> HIDE DEF found, rank, place, addresses
<1>5. \A r \in found : rank[r] \in [1..1 -> Int]
    <2>1. \A r \in found : -Listing!Min(place(r)) \in Int
        BY <1>2
    <2> QED
        BY <1>4, <2>1, RanksAreNumbers
<1>6. ASSUME NEW r \in found, NEW s \in found, rank[r] = rank[s] PROVE r.address = s.address
    <2>1. -Listing!Min(place(r)) = -Listing!Min(place(s))
        BY <1>4, <1>6
    <2>2. Listing!Min(place(r)) = Listing!Min(place(s))
        BY <1>2, <2>1
    <2> QED
        BY <1>2, <2>2
<1>7. PoolsOf(Listing!Ordered(found, rank), found)
    BY <1>3, <1>5, <1>6, RankedPools
<1> QED
    BY <1>1, <1>7 DEF PoolsOf

LEMMA CollectedPools ==
    ASSUME PoolRows, NEW n, NEW t
    PROVE  PoolsOf(Listing!collectTokenPools(n, t), {s \in pools : s.network = n /\ t \in Listing!Tokens(s)})
<1> DEFINE own == {s \in pools : s.network = n /\ t \in Listing!Tokens(s)}
<1>1. Listing!collectTokenPools(n, t) = Listing!Richest(own) /\ own \subseteq pools
    BY DEF Listing!collectTokenPools
<1> HIDE DEF own
<1>2. PoolsOf(Listing!collectTokenPools(n, t), own)
    BY <1>1, RichestPools
<1> QED
    BY <1>2 DEF own

LEMMA SearchedPools ==
    ASSUME PoolRows, NEW a, NEW t
    PROVE  LET query == [address |-> a, token |-> t]
               own == {s \in pools : Listing!scorePoolSearchMatch(s, query) > 0}
               rank == [s \in own |-> <<Listing!scorePoolSearchMatch(s, query), s.volume, s.reserve, -s.address>>]
               list == Listing!Ordered(own, rank) IN
           /\ PoolsOf(list, own)
           /\ \A i, j \in 1..Cardinality(own) : i < j => Before(rank[list[i]], rank[list[j]])
<1> DEFINE query == [address |-> a, token |-> t]
           score(s) == Listing!scorePoolSearchMatch(s, query)
           own == {s \in pools : score(s) > 0}
           rank == [s \in own |-> <<score(s), s.volume, s.reserve, -s.address>>]
<1>1. \A s \in own : rank[s] = <<score(s), s.volume, s.reserve, -s.address>>
    OBVIOUS
<1>2. own \subseteq pools
    OBVIOUS
<1>3. \A s \in own : score(s) \in Int
    BY DEF Listing!scorePoolSearchMatch
<1> HIDE DEF score, own
<1>4. ASSUME NEW s \in own PROVE rank[s] \in [1..4 -> Int]
    <2>1. s.volume \in Int /\ s.reserve \in Int /\ -s.address \in Int
        BY <1>2, NumbersOf
    <2> QED
        BY <1>3, <2>1
<1>k. EndsInAddress(own, 4, rank)
    BY DEF EndsInAddress
<1> HIDE DEF rank
<1>5. \A r, s \in own : rank[r] = rank[s] => r.address = s.address
    BY <1>k, <1>2, AddressLast
<1>6. /\ PoolsOf(Listing!Ordered(own, rank), own)
      /\ \A i, j \in 1..Cardinality(own) : i < j =>
            Before(rank[Listing!Ordered(own, rank)[i]], rank[Listing!Ordered(own, rank)[j]])
    BY <1>2, <1>4, <1>5, RankedPools
<1> QED
    BY <1>6 DEF own, rank, score

LEMMA ReadsAreOnce == PoolRows => \A list \in Listing!ReadAnswers : Listing!Once(list)
<1> SUFFICES ASSUME PoolRows, NEW list \in Listing!ReadAnswers PROVE Listing!Once(list)
    OBVIOUS
<1> DEFINE rowsOf(n) == {r \in pools : r.network = n}
<1>1. \A n : rowsOf(n) \subseteq pools
    OBVIOUS
<1>2. ASSUME NEW n, list = Listing!NewPools(n) PROVE Listing!Once(list)
    <2>1. list = Listing!buildPoolDiscoveryRows(rowsOf(n), "new", {})
        BY <1>2 DEF Listing!NewPools
    <2> HIDE DEF rowsOf
    <2>2. PoolsOf(list, rowsOf(n))
        BY <1>1, <2>1, DiscoveredPools
    <2> QED
        BY <2>2 DEF PoolsOf
<1>3. ASSUME NEW n, NEW d \in {"1h", "6h", "24h"}, list = Listing!TrendingPools(n, d) PROVE Listing!Once(list)
    <2>1. list = Listing!buildPoolDiscoveryRows(rowsOf(n), d, {1})
        BY <1>3 DEF Listing!TrendingPools
    <2> HIDE DEF rowsOf
    <2>2. PoolsOf(list, rowsOf(n))
        BY <1>1, <2>1, DiscoveredPools
    <2> QED
        BY <2>2 DEF PoolsOf
<1>4. ASSUME NEW a, NEW t, list = Listing!SearchPools(a, t) PROVE Listing!Once(list)
    <2> DEFINE query == [address |-> a, token |-> t]
               own == {r \in pools : Listing!scorePoolSearchMatch(r, query) > 0}
               rank == [r \in own |-> <<Listing!scorePoolSearchMatch(r, query), r.volume, r.reserve, -r.address>>]
    <2>1. list = Listing!Ordered(own, rank)
        BY <1>4 DEF Listing!SearchPools, Listing!searchPoolRows
    <2>2. PoolsOf(list, own)
        BY <2>1, SearchedPools
    <2> QED
        BY <2>2 DEF PoolsOf
<1>5. ASSUME NEW least, NEW most, NEW s \in {"reserve", "volume", "tx"}, NEW d \in BOOLEAN,
             list = Listing!megafilter(least, most, s, d)
      PROVE  Listing!Once(list)
    <2> DEFINE own == {r \in pools : least <= Listing!Metric(r, s) /\ Listing!Metric(r, s) <= most}
    <2>1. list = Listing!sortMegafilterRows(own, s, d) /\ own \subseteq pools
        BY <1>5 DEF Listing!megafilter
    <2> HIDE DEF own
    <2>2. PoolsOf(list, own)
        BY <2>1, FilteredPools
    <2> QED
        BY <2>2 DEF PoolsOf
<1>6. ASSUME list = Listing!parseTrendingSearchCandidates(<<>>) PROVE Listing!Once(list)
    <2>1. list = Listing!buildPoolDiscoveryRows(pools, "24h", {})
        BY <1>6 DEF Listing!parseTrendingSearchCandidates
    <2>2. PoolsOf(list, pools)
        BY <2>1, DiscoveredPools
    <2> QED
        BY <2>2 DEF PoolsOf
<1>7. ASSUME NEW a, NEW b, list = Listing!parseTrendingSearchCandidates(<<a, b>>) PROVE Listing!Once(list)
    <2>1. list = Listing!AskedFor(pools, <<a, b>>)
        BY <1>7 DEF Listing!parseTrendingSearchCandidates
    <2> QED
        BY <2>1, PoolsAskedFor
<1>8. ASSUME NEW t, NEW s \in {"reserve", "volume", "tx"}, list = Listing!sortOnchainCategoryPools({t}, s)
      PROVE  Listing!Once(list)
    BY <1>8, CategoryPools DEF PoolsOf
<1>9. ASSUME NEW n, NEW a, NEW b, list = Listing!PoolsMulti(n, <<a, b>>) PROVE Listing!Once(list)
    <2>1. list = Listing!AskedFor(rowsOf(n), <<a, b>>)
        BY <1>9 DEF Listing!PoolsMulti
    <2> HIDE DEF rowsOf
    <2> QED
        BY <1>1, <2>1, PoolsAskedFor
<1>10. ASSUME NEW n, NEW t, list = Listing!collectTokenPools(n, t) PROVE Listing!Once(list)
    BY <1>10, CollectedPools DEF PoolsOf
<1> DEFINE A1 == {Listing!NewPools(n) : n \in PoolNetworks}
           A2 == {Listing!TrendingPools(n, d) : n \in PoolNetworks, d \in {"1h", "6h", "24h"}}
           A3 == {Listing!SearchPools(a, t) : a \in Listing!Listed, t \in Listing!Token}
           A4 == {Listing!megafilter(0, 200, s, d) : s \in {"reserve", "volume", "tx"}, d \in BOOLEAN}
           pairs == {<<a, b>> : a, b \in Listing!Listed}
           A5 == {Listing!parseTrendingSearchCandidates(s) : s \in {<<>>} \cup pairs}
           A6 == {Listing!sortOnchainCategoryPools({t}, s) : t \in Listing!Token, s \in {"reserve", "volume", "tx"}}
           A7 == {Listing!PoolsMulti(n, <<a, b>>) : n \in PoolNetworks, a, b \in Listing!Listed}
           A8 == {Listing!collectTokenPools(n, t) : n \in PoolNetworks, t \in Listing!Token}
<1>11. Listing!ReadAnswers = A1 \cup A2 \cup A3 \cup A4 \cup A5 \cup A6 \cup A7 \cup A8
    BY DEF Listing!ReadAnswers
<1> HIDE DEF A1, A2, A3, A4, A5, A6, A7, A8
<1>12. CASE list \in A1
    BY <1>2, <1>12 DEF A1
<1>13. CASE list \in A2
    BY <1>3, <1>13 DEF A2
<1>14. CASE list \in A3
    BY <1>4, <1>14 DEF A3
<1>15. CASE list \in A4
    BY <1>5, <1>15 DEF A4
<1>16. CASE list \in A5
    <2>1. PICK s \in {<<>>} \cup pairs : list = Listing!parseTrendingSearchCandidates(s)
        BY <1>16 DEF A5
    <2> QED
        BY <1>6, <1>7, <2>1
<1>17. CASE list \in A6
    <2>1. PICK t \in Listing!Token, s \in {"reserve", "volume", "tx"} :
              list = Listing!sortOnchainCategoryPools({t}, s)
        BY <1>17 DEF A6
    <2> QED
        BY <1>8, <2>1
<1>18. CASE list \in A7
    <2>1. PICK n \in PoolNetworks, a, b \in Listing!Listed : list = Listing!PoolsMulti(n, <<a, b>>)
        BY <1>18 DEF A7
    <2> QED
        BY <1>9, <2>1
<1>19. CASE list \in A8
    BY <1>10, <1>19 DEF A8
<1> QED
    BY <1>11, <1>12, <1>13, <1>14, <1>15, <1>16, <1>17, <1>18, <1>19

LEMMA ReadsTellTheSame ==
    ASSUME PoolRows, NEW r \in pools, NEW t
    PROVE  /\ Listing!SearchPools(r.address, t)[1].address = r.address
           /\ \A ps \in Listing!PoolInfo(r) : r \in ps
           /\ r \in UNION Listing!TokensMulti(r.network, Listing!Tokens(r))
           /\ t \in Listing!Tokens(r) =>
                 /\ r \in Listing!ToSet(Listing!collectTokenPools(r.network, t))
                 /\ \E i \in Listing!infoRecentlyUpdated :
                       i.network = r.network /\ i.token = t /\ i.updated >= r.updated
           /\ Listing!buildOnchainCategorySummaries({t}).poolCount = Len(Listing!sortOnchainCategoryPools({t}, "tx"))
<1>1. Listing!SearchPools(r.address, t)[1].address = r.address
    <2> DEFINE query == [address |-> r.address, token |-> t]
               score(s) == Listing!scorePoolSearchMatch(s, query)
               own == {s \in pools : score(s) > 0}
               rank == [s \in own |-> <<score(s), s.volume, s.reserve, -s.address>>]
               list == Listing!Ordered(own, rank)
    <2>1. list = Listing!SearchPools(r.address, t)
        BY DEF Listing!SearchPools, Listing!searchPoolRows
    <2>2. \A s \in pools : score(s) \in Int /\ score(s) <= 10000 /\ (score(s) = 10000 <=> s.address = r.address)
        BY DEF Listing!scorePoolSearchMatch
    <2>3. r \in own
        BY <2>2
    <2>4. PoolsOf(list, own)
          /\ \A i, j \in 1..Cardinality(own) : i < j => Before(rank[list[i]], rank[list[j]])
        BY SearchedPools
    <2>5. \A s \in own : s \in pools /\ rank[s] = <<score(s), s.volume, s.reserve, -s.address>>
        OBVIOUS
    <2> HIDE DEF own, rank, list, score
    <2>6. Cardinality(own) \in Nat /\ list \in [1..Cardinality(own) -> own]
          /\ \E i \in 1..Cardinality(own) : list[i] = r
        BY <2>3, <2>4 DEF PoolsOf, ListOf
    <2>7. PICK i \in 1..Cardinality(own) : list[i] = r
        BY <2>6
    <2>8. CASE i = 1
        BY <2>1, <2>7, <2>8
    <2>9. CASE i # 1
        <3> DEFINE s == list[1]
        <3>1. 1 \in 1..Cardinality(own) /\ 1 < i
            BY <2>6, <2>7, <2>9
        <3>2. s \in own
            BY <2>6, <3>1
        <3> HIDE DEF s
        <3>3. Before(rank[s], rank[r])
            BY <2>4, <2>7, <3>1 DEF s
        <3>4. rank[s] = <<score(s), s.volume, s.reserve, -s.address>>
              /\ rank[r] = <<score(r), r.volume, r.reserve, -r.address>>
            BY <2>3, <2>5, <3>2
        <3>5. PICK k \in 1..4 : rank[s][k] > rank[r][k] /\ \A j \in 1..k - 1 : rank[s][j] = rank[r][j]
            BY <3>3, <3>4 DEF Before
        <3>6. score(s) \in Int /\ score(s) <= 10000 /\ score(r) = 10000
            BY <2>2, <2>5, <3>2
        <3>a. rank[s][1] = score(s) /\ rank[r][1] = score(r)
            BY <3>4
        <3>7. k # 1
            <4> SUFFICES ASSUME k = 1 PROVE FALSE
                OBVIOUS
            <4>1. rank[s][1] > rank[r][1]
                BY <3>5
            <4>2. score(s) > score(r)
                BY <3>a, <4>1
            <4> QED
                BY <3>6, <4>2
        <3>8. 1 \in 1..k - 1
            BY <3>7
        <3>9. score(s) = score(r)
            BY <3>5, <3>8, <3>a
        <3>10. s.address = r.address
            BY <2>2, <2>5, <3>2, <3>6, <3>9
        <3> QED
            BY <2>1, <3>10 DEF s
    <2> QED
        BY <2>8, <2>9
<1>2. \A u \in Listing!Tokens(r) : r \in Listing!ToSet(Listing!collectTokenPools(r.network, u))
    <2> SUFFICES ASSUME NEW u \in Listing!Tokens(r)
                 PROVE  r \in Listing!ToSet(Listing!collectTokenPools(r.network, u))
        OBVIOUS
    <2>1. r \in {s \in pools : s.network = r.network /\ u \in Listing!Tokens(s)}
        OBVIOUS
    <2> QED
        BY <2>1, CollectedPools DEF PoolsOf
<1>3. \A ps \in Listing!PoolInfo(r) : r \in ps
    BY <1>2 DEF Listing!PoolInfo
<1>4. r \in UNION Listing!TokensMulti(r.network, Listing!Tokens(r))
    <2> DEFINE u == r.tokens[1]
               list == Listing!collectTokenPools(r.network, u)
    <2>1. u \in Listing!Tokens(r)
        BY DEF Listing!Tokens
    <2>2. r \in Listing!ToSet(list)
        BY <1>2, <2>1
    <2>3. list # <<>>
        BY <2>2 DEF Listing!ToSet
    <2>4. Listing!ToSet(list) \in Listing!TokensMulti(r.network, Listing!Tokens(r))
        BY <2>1, <2>3 DEF Listing!TokensMulti
    <2> QED
        BY <2>2, <2>4
<1>5. ASSUME t \in Listing!Tokens(r)
      PROVE  \E i \in Listing!infoRecentlyUpdated :
                 i.network = r.network /\ i.token = t /\ i.updated >= r.updated
    <2> DEFINE own == {s \in pools : s.network = r.network /\ t \in Listing!Tokens(s)}
               when == [s \in own |-> s.updated]
               T == {s.updated : s \in own}
               i == [network |-> r.network, token |-> t, updated |-> Listing!Max(T)]
           told(q, u) == [network |-> q.network, token |-> u,
                          updated |-> Listing!Max({s.updated : s \in {p \in pools : p.network = q.network
                                                                                   /\ u \in Listing!Tokens(p)}})]
    <2>a. Listing!infoRecentlyUpdated = UNION {{told(q, u) : u \in Listing!Tokens(q)} : q \in pools}
        BY DEF Listing!infoRecentlyUpdated
    <2>1. i = told(r, t)
        OBVIOUS
    <2>2. i \in Listing!infoRecentlyUpdated
        <3> HIDE DEF told, i
        <3>1. i \in {told(r, u) : u \in Listing!Tokens(r)}
            BY <1>5, <2>1
        <3> QED
            BY <2>a, <3>1
    <2>3. own \in SUBSET pools /\ r \in own
        BY <1>5
    <2>4. IsFiniteSet(own)
        BY <2>3, FS_Subset DEF PoolRows
    <2>5. T = {when[s] : s \in own} /\ when = [s \in own |-> when[s]] /\ r.updated \in T
        BY <2>3
    <2>6. T \subseteq Int
        BY <2>3, NumbersOf
    <2> HIDE DEF own, when
    <2>7. IsFiniteSet(T)
        BY <2>4, <2>5, ImageIsFinite
    <2> HIDE DEF T
    <2>8. Listing!Max(T) >= r.updated
        BY <2>5, <2>6, <2>7, LargestOf
    <2> QED
        BY <2>2, <2>8
<1>6. Listing!buildOnchainCategorySummaries({t}).poolCount = Len(Listing!sortOnchainCategoryPools({t}, "tx"))
    <2>1. Listing!buildOnchainCategorySummaries({t}).poolCount
              = Listing!Cardinality(Listing!getPoolsForOnchainCategory({t}))
        BY DEF Listing!buildOnchainCategorySummaries
    <2>2. Len(Listing!sortOnchainCategoryPools({t}, "tx")) = Cardinality(Listing!getPoolsForOnchainCategory({t}))
        BY CategoryPools DEF PoolsOf
    <2> QED
        BY <2>1, <2>2, PoolsCount
<1> QED
    BY <1>1, <1>2, <1>3, <1>4, <1>5, <1>6

\* What was asked for is listed, and the lists agree.
LEMMA PoolsAreListedOnce == RequestsInv => Listing!PoolsListedOnce
<1> SUFFICES ASSUME RequestsInv PROVE Listing!PoolsListedOnce
    OBVIOUS
<1>1. PoolRows
    BY DEF RequestsInv
<1>2. Listing!ReadsAgree
    BY <1>1, ReadsAreOnce, ReadsTellTheSame DEF Listing!ReadsAgree
<1>3. poolAnswer # Listing!Idle => WholeAnswer(poolAnswer.of, poolAnswer.told)
    BY DEF RequestsInv, AnswerWhole
<1> QED
    BY <1>2, <1>3 DEF Listing!PoolsListedOnce, WholeAnswer

-----------------------------------------------------------------------------
(***************************************************************************)
(* Pages of pairs.                                                         *)
(***************************************************************************)

LEMMA SpotConstants ==
    /\ PerPage \in Nat \ {0} /\ MaxSafeInteger \in Nat
    /\ \A all \in Claims :
          /\ IsFiniteSet(all) /\ \A t, u \in all : Spots!SameTicker(t, u) => t = u
          /\ \A t \in all : t.coin \in Int /\ t.pair \in Int /\ t.volume \in {-1} \cup 0..(MaxSafeInteger - 1)
BY PlaneAssumption, SpotsCount DEF PlaneAssumption, Spots!ExchangesAssumption, Spots!Unknown

\* A page of a list.
LEMMA PageIs ==
    ASSUME NEW S, NEW n \in Nat, NEW list \in [1..n -> S], NEW p \in Nat \ {0}
    PROVE  LET start == (p - 1) * PerPage
               page == SubSeq(list, start + 1, Spots!Min({start + PerPage, Len(list)})) IN
           /\ \A i \in DOMAIN page : i \in 1..PerPage /\ start + i \in 1..n /\ page[i] = list[start + i]
           /\ \A i \in 1..PerPage : start + i <= n => i \in DOMAIN page
<1> DEFINE start == (p - 1) * PerPage
<1>1. PerPage \in Nat \ {0}
    BY SpotConstants
<1>2. start \in Nat
    BY <1>1
<1>3. Len(list) = n
    OBVIOUS
<1> HIDE DEF start
<1> DEFINE m == Spots!Min({start + PerPage, n})
           page == SubSeq(list, start + 1, m)
<1>4. m \in {start + PerPage, n} /\ m <= start + PerPage /\ m <= n
    <2>1. \E x \in {start + PerPage, n} : \A y \in {start + PerPage, n} : x <= y
        <3>1. start + PerPage \in Int /\ n \in Int
            BY <1>1, <1>2
        <3> QED
            BY <3>1
    <2> QED
        BY <2>1 DEF Spots!Min
<1>5. m \in Int
    BY <1>1, <1>2, <1>4
<1> HIDE DEF m
<1>6. \A i \in (start + 1)..m : list[i] \in S
    BY <1>1, <1>2, <1>4, <1>5
<1>7. start + 1 \in Int
    BY <1>2
<1>8. /\ SubSeq(list, start + 1, m) \in Seq(S)
      /\ Len(SubSeq(list, start + 1, m)) = IF start + 1 <= m THEN m - (start + 1) + 1 ELSE 0
      /\ \A i \in 1..(m - (start + 1) + 1) : SubSeq(list, start + 1, m)[i] = list[(start + 1) + i - 1]
    BY <1>5, <1>6, <1>7, SubSeqProperties
<1>a. /\ page \in Seq(S)
      /\ Len(page) = IF start + 1 <= m THEN m - (start + 1) + 1 ELSE 0
      /\ \A i \in 1..(m - (start + 1) + 1) : page[i] = list[(start + 1) + i - 1]
    BY <1>8
<1> HIDE DEF page
<1>9. page \in Seq(S) /\ Len(page) = (IF start + 1 <= m THEN m - start ELSE 0)
      /\ \A i \in 1..(m - start) : page[i] = list[start + i]
    <2>1. m - (start + 1) + 1 = m - start
        BY <1>2, <1>5
    <2>2. Len(page) = (IF start + 1 <= m THEN m - start ELSE 0)
        BY <1>a, <2>1
    <2>3. ASSUME NEW i \in 1..(m - start) PROVE page[i] = list[start + i]
        <3>1. (start + 1) + i - 1 = start + i
            BY <1>2, <1>5
        <3>2. i \in 1..(m - (start + 1) + 1)
            BY <2>1
        <3>3. page[i] = list[(start + 1) + i - 1]
            BY <1>a, <3>2
        <3> QED
            BY <3>1, <3>3
    <2> QED
        BY <1>a, <2>2, <2>3
<1>10. DOMAIN page = 1..Len(page)
    BY <1>9
<1>11. ASSUME NEW i \in DOMAIN page PROVE i \in 1..PerPage /\ start + i \in 1..n /\ page[i] = list[start + i]
    <2>1. i \in 1..(m - start) /\ i \in Int
        BY <1>2, <1>5, <1>9, <1>10
    <2> QED
        BY <1>1, <1>2, <1>4, <1>5, <1>9, <2>1
<1>12. ASSUME NEW i \in 1..PerPage, start + i <= n PROVE i \in DOMAIN page
    <2>1. start + i <= m
        BY <1>1, <1>2, <1>4, <1>12
    <2>2. i <= m - start /\ start + 1 <= m
        BY <1>1, <1>2, <1>5, <2>1
    <2> QED
        BY <1>1, <1>9, <1>10, <2>2
<1> QED
    BY <1>3, <1>11, <1>12 DEF page, m, start

-----------------------------------------------------------------------------
(* A ticker is of a known exchange, and a coin has one of a pair. *)

PairsInv ==
    /\ IsFiniteSet(spotTickers) /\ \A t, u \in spotTickers : Spots!SameTicker(t, u) => t = u
    /\ \A t \in spotTickers :
          /\ t.coin \in Int /\ t.pair \in Int /\ t.volume \in {-1} \cup 0..(MaxSafeInteger - 1)
          /\ t.exchange \in spot

LEMMA PairsBegin == Spots!Init => PairsInv
BY FS_EmptySet DEF Spots!Init, PairsInv

LEMMA PairsRefreshed == PairsInv /\ Spots!Refreshed => PairsInv'
<1> SUFFICES ASSUME PairsInv, Spots!Refreshed PROVE PairsInv'
    OBVIOUS
<1>1. PICK all \in Claims :
          spotTickers' = {t \in all : t.exchange \in spot}
                         \cup {t \in spotTickers : \A u \in {s \in all : s.exchange \in spot} : ~Spots!SameTicker(t, u)}
    BY DEF Spots!Refreshed
<1>2. UNCHANGED spot
    BY DEF Spots!Refreshed
<1> DEFINE told == {t \in all : t.exchange \in spot}
           kept == {t \in spotTickers : \A u \in told : ~Spots!SameTicker(t, u)}
<1>3. spotTickers' = told \cup kept
    BY <1>1
<1>4. told \in SUBSET all /\ kept \in SUBSET spotTickers /\ \A t \in told : t.exchange \in spot
    OBVIOUS
<1>5. \A t \in kept, u \in told : ~Spots!SameTicker(t, u)
    OBVIOUS
<1> HIDE DEF told, kept
<1>6. IsFiniteSet(told) /\ IsFiniteSet(kept)
    BY <1>4, SpotConstants, FS_Subset DEF PairsInv
<1>7. IsFiniteSet(spotTickers')
    BY <1>3, <1>6, FS_Union
<1>8. \A t, u : Spots!SameTicker(t, u) => Spots!SameTicker(u, t)
    BY DEF Spots!SameTicker
<1>9. ASSUME NEW t \in spotTickers', NEW u \in spotTickers', Spots!SameTicker(t, u) PROVE t = u
    BY <1>3, <1>4, <1>5, <1>8, <1>9, SpotConstants DEF PairsInv
<1>a. (\A t, u \in spotTickers : Spots!SameTicker(t, u) => t = u)'
    BY <1>9 DEF Spots!SameTicker
<1>10. \A t \in spotTickers' :
          /\ t.coin \in Int /\ t.pair \in Int /\ t.volume \in {-1} \cup 0..(MaxSafeInteger - 1)
          /\ t.exchange \in spot'
    BY <1>2, <1>3, <1>4, SpotConstants DEF PairsInv
<1> QED
    BY <1>7, <1>a, <1>10 DEF PairsInv

LEMMA PairsStep == PairsInv /\ [Spots!Next]_spotVars => PairsInv'
<1> SUFFICES ASSUME PairsInv, [Spots!Next]_spotVars PROVE PairsInv'
    OBVIOUS
<1>1. CASE Spots!Refreshed
    BY <1>1, PairsRefreshed
<1>2. CASE Spots!ExchangeSynced
    <2>1. UNCHANGED spotTickers /\ spot \subseteq spot'
        BY <1>2 DEF Spots!ExchangeSynced
    <2> QED
        BY <2>1 DEF PairsInv, Spots!SameTicker
<1>3. CASE UNCHANGED <<spotTickers, spot>>
    BY <1>3 DEF PairsInv, Spots!SameTicker
<1>4. CASE ~Spots!Refreshed /\ ~Spots!ExchangeSynced
    <2>1. UNCHANGED <<spotTickers, spot>>
        BY <1>4 DEF Spots!Next, spotVars, Spots!PassBegins, Spots!TargetAnswered, Spots!PassFails,
            Spots!PassEnds, Spots!OthersRetain, Spots!Tick
    <2> QED
        BY <1>3, <2>1
<1> QED
    BY <1>1, <1>2, <1>4

-----------------------------------------------------------------------------
(* Of the claims to a pair one is shown. *)

LEMMA OneClaimIsShown ==
    ASSUME PairsInv, NEW e, NEW own, own \subseteq {t \in spotTickers : t.exchange = e}
    PROVE  LET shown == Spots!dedupeExchangeTickerRows(own) IN
           /\ shown \in SUBSET own
           /\ \A t, u \in shown : t.pair = u.pair => t = u
           /\ \A u \in own : \E t \in shown : t.pair = u.pair
           /\ \A t \in shown, u \in own : u.pair = t.pair => u.volume <= t.volume
<1> DEFINE shown == Spots!dedupeExchangeTickerRows(own)
           wins(t, u) == t.volume > u.volume \/ (t.volume = u.volume /\ t.coin <= u.coin)
<1>1. shown = {t \in own : \A u \in own : u.pair = t.pair => wins(t, u)}
    BY DEF Spots!dedupeExchangeTickerRows
<1>2. \A t \in own : t \in spotTickers /\ t.exchange = e /\ t.coin \in Int /\ t.volume \in Int
    BY SpotConstants DEF PairsInv
<1>3. \A t \in own : t \in shown <=> \A u \in own : u.pair = t.pair => wins(t, u)
    BY <1>1
<1>4. shown \in SUBSET own
    BY <1>1
<1> HIDE DEF shown
<1>5. ASSUME NEW t \in shown, NEW u \in shown, t.pair = u.pair PROVE t = u
    <2>1. t \in own /\ u \in own
        BY <1>4
    <2>2. wins(t, u) /\ wins(u, t)
        BY <1>3, <1>5, <2>1
    <2>3. t.coin = u.coin
        BY <1>2, <2>1, <2>2
    <2>4. Spots!SameTicker(t, u)
        BY <1>2, <1>5, <2>1, <2>3 DEF Spots!SameTicker
    <2> QED
        BY <1>2, <2>1, <2>4 DEF PairsInv
<1>6. ASSUME NEW u \in own PROVE \E t \in shown : t.pair = u.pair
    <2> DEFINE S == {s \in own : s.pair = u.pair}
               below == [c \in S |-> {d \in S : ~wins(c, d)}]
    <2>1. S \subseteq own /\ u \in S /\ \A s \in S : s.pair = u.pair
        OBVIOUS
    <2>2. IsFiniteSet(S)
        <3>1. S \in SUBSET spotTickers
            BY <1>2, <2>1
        <3> QED
            BY <3>1, FS_Subset DEF PairsInv
    <2>3. below \in [S -> SUBSET S]
        OBVIOUS
    <2>4. \A c, d \in S : c \in below[d] <=> ~wins(d, c)
        OBVIOUS
    <2>5. \A s \in own : s.pair = u.pair => s \in S
        OBVIOUS
    <2> HIDE DEF below, S
    <2>6. \A c, d \in S : c \in below[d] <=>
              d.volume < c.volume \/ (d.volume = c.volume /\ c.coin < d.coin)
        BY <1>2, <2>1, <2>4
    <2>7. \A c \in S : c \notin below[c]
        BY <1>2, <2>1, <2>6
    <2>8. \A c, d \in S : c \in below[d] => below[c] \subseteq below[d]
        <3> SUFFICES ASSUME NEW c \in S, NEW d \in S, c \in below[d], NEW s \in below[c] PROVE s \in below[d]
            OBVIOUS
        <3>1. s \in S
            BY <2>3
        <3>2. c.volume \in Int /\ d.volume \in Int /\ s.volume \in Int /\ c.coin \in Int /\ d.coin \in Int /\ s.coin \in Int
            BY <1>2, <2>1, <3>1
        <3>3. (d.volume < c.volume \/ (d.volume = c.volume /\ c.coin < d.coin))
              /\ (c.volume < s.volume \/ (c.volume = s.volume /\ s.coin < c.coin))
            BY <2>6, <3>1
        <3>4. d.volume < s.volume \/ (d.volume = s.volume /\ s.coin < d.coin)
            BY <3>2, <3>3
        <3> QED
            BY <2>6, <3>1, <3>4
    <2>9. ASSUME NEW c \in S, NEW d \in S, c # d PROVE c \in below[d] \/ d \in below[c]
        <3>1. c \in own /\ d \in own /\ c.pair = d.pair
            BY <2>1
        <3>2. c.coin # d.coin
            BY <1>2, <2>9, <3>1 DEF PairsInv, Spots!SameTicker
        <3>3. c.volume \in Int /\ d.volume \in Int /\ c.coin \in Int /\ d.coin \in Int
            BY <1>2, <3>1
        <3> QED
            BY <2>6, <3>2, <3>3
    <2>10. PICK t \in S : below[t] = {}
        BY <2>1, <2>2, <2>3, <2>7, <2>8, <2>9, FirstOf, Zenon
    <2>11. \A d \in S : wins(t, d)
        BY <2>4, <2>10
    <2>12. t \in shown
        BY <1>3, <2>1, <2>5, <2>11
    <2> QED
        BY <2>1, <2>12
<1>7. ASSUME NEW t \in shown, NEW u \in own, u.pair = t.pair PROVE u.volume <= t.volume
    <2>1. t \in own
        BY <1>4
    <2>2. wins(t, u)
        BY <1>3, <1>7, <2>1
    <2> QED
        BY <1>2, <2>1, <2>2
<1> QED
    BY <1>4, <1>5, <1>6, <1>7 DEF shown

LEMMA SortedPairs ==
    ASSUME PairsInv, NEW own, own \subseteq spotTickers, \A t, u \in own : t.pair = u.pair => t = u,
           NEW order \in {"volume_desc", "volume_asc"}
    PROVE  LET list == Spots!sortExchangeTickerRows(own, order) IN
           /\ ListOf(list, own)
           /\ \A i, j \in 1..Cardinality(own) : i < j /\ list[i].volume = -1 => list[j].volume = -1
<1> DEFINE number(t, unknown) == IF t.volume = -1 THEN unknown ELSE t.volume
           first(t) == IF order = "volume_asc" THEN -number(t, MaxSafeInteger) ELSE number(t, -1)
           rank == [t \in own |-> <<first(t), -t.pair>>]
           list == Spots!sortExchangeTickerRows(own, order)
<1>1. list = Ordered(own, rank)
    <2>1. list = Spots!Ordered(own, rank)
        BY DEF Spots!sortExchangeTickerRows, Spots!Unknown
    <2> QED
        BY <2>1, PairsAreOrdered
<1>2. \A t \in own : t.volume \in {-1} \cup 0..(MaxSafeInteger - 1) /\ t.pair \in Int
    BY DEF PairsInv
<1>3. MaxSafeInteger \in Nat
    BY SpotConstants
<1>4. \A t \in own : first(t) \in Int
    BY <1>2, <1>3
<1>5. \A t, u \in own : first(t) >= first(u) /\ t.volume = -1 => u.volume = -1
    BY <1>2, <1>3
<1>6. \A t \in own : rank[t] = <<first(t), -t.pair>>
    OBVIOUS
<1> HIDE DEF first, list
<1>7. ASSUME NEW t \in own PROVE rank[t] \in [1..2 -> Int]
    <2>1. -t.pair \in Int
        BY <1>2
    <2> QED
        BY <1>4, <2>1
<1> HIDE DEF rank
<1>8. ASSUME NEW t \in own, NEW u \in own, rank[t] = rank[u] PROVE t = u
    <2>1. -t.pair = -u.pair
        BY <1>6, <1>8
    <2> QED
        BY <1>2, <2>1
<1>9. IsFiniteSet(own)
    <2>1. own \in SUBSET spotTickers
        OBVIOUS
    <2> QED
        BY <2>1, FS_Subset DEF PairsInv
<1>10. RankedBy(own, 2, rank)
    BY <1>7, <1>8, <1>9 DEF RankedBy
<1>11. ListOf(list, own) /\ \A i, j \in 1..Cardinality(own) : i < j => Before(rank[list[i]], rank[list[j]])
    BY <1>1, <1>10, OrderedIsList
<1>12. ASSUME NEW i \in 1..Cardinality(own), NEW j \in 1..Cardinality(own), i < j, list[i].volume = -1
       PROVE  list[j].volume = -1
    <2> DEFINE t == list[i]
               u == list[j]
    <2>1. t \in own /\ u \in own
        BY <1>11 DEF ListOf
    <2>2. Before(rank[t], rank[u])
        BY <1>11, <1>12
    <2> HIDE DEF t, u
    <2>3. rank[t] = <<first(t), -t.pair>> /\ rank[u] = <<first(u), -u.pair>>
        BY <1>6, <2>1
    <2>4. PICK k \in 1..2 : rank[t][k] > rank[u][k] /\ \A l \in 1..k - 1 : rank[t][l] = rank[u][l]
        BY <2>2, <2>3 DEF Before
    <2>5. rank[t][1] = first(t) /\ rank[u][1] = first(u)
        BY <2>3
    <2>6. first(t) >= first(u)
        <3>1. CASE k = 1
            BY <1>4, <2>1, <2>4, <2>5, <3>1
        <3>2. CASE k = 2
            <4>1. 1 \in 1..k - 1
                BY <3>2
            <4>2. first(t) = first(u)
                BY <2>4, <2>5, <4>1
            <4> QED
                BY <1>4, <2>1, <4>2
        <3> QED
            BY <3>1, <3>2
    <2>7. t.volume = -1
        BY <1>12 DEF t
    <2> QED
        BY <1>5, <2>1, <2>6, <2>7 DEF u
<1> QED
    BY <1>11, <1>12 DEF list

\* What the pages of a list show.
PageOf(e, coins, order, p) == Spots!getExchangeTickers(e, coins, order, p)
RawOf(e, coins) == Spots!getRawExchangeTickerRows(e, coins)
ShownOf(e, coins) == Spots!dedupeExchangeTickerRows(RawOf(e, coins))
ListShown(e, coins, order) == Spots!sortExchangeTickerRows(ShownOf(e, coins), order)

LEMMA RawIs ==
    ASSUME NEW e, NEW coins
    PROVE  RawOf(e, coins) = {t \in spotTickers : t.exchange = e /\ (coins # {} => t.coin \in coins)}
BY DEF RawOf, Spots!getRawExchangeTickerRows

LEMMA ListShownIs ==
    ASSUME PairsInv, NEW e, NEW coins, NEW order \in {"volume_desc", "volume_asc"}
    PROVE  LET list == ListShown(e, coins, order) IN
           /\ ListOf(list, ShownOf(e, coins))
           /\ \A i, j \in 1..Cardinality(ShownOf(e, coins)) :
                 i < j /\ list[i].volume = -1 => list[j].volume = -1
<1>1. RawOf(e, coins) \subseteq {t \in spotTickers : t.exchange = e}
    BY RawIs
<1>2. /\ ShownOf(e, coins) \in SUBSET RawOf(e, coins)
      /\ \A t, u \in ShownOf(e, coins) : t.pair = u.pair => t = u
    BY <1>1, OneClaimIsShown DEF ShownOf
<1>3. ShownOf(e, coins) \subseteq spotTickers
    BY <1>1, <1>2
<1> QED
    BY <1>2, <1>3, SortedPairs DEF ListShown

LEMMA PagesAre ==
    ASSUME PairsInv, NEW e, NEW coins, NEW order \in {"volume_desc", "volume_asc"}, NEW p \in Nat \ {0}
    PROVE  LET list == ListShown(e, coins, order)
               n == Cardinality(ShownOf(e, coins))
               page == PageOf(e, coins, order, p)
               start == (p - 1) * PerPage IN
           /\ \A i \in DOMAIN page : i \in 1..PerPage /\ start + i \in 1..n /\ page[i] = list[start + i]
           /\ \A i \in 1..PerPage : start + i <= n => i \in DOMAIN page
<1> DEFINE list == ListShown(e, coins, order)
           n == Cardinality(ShownOf(e, coins))
           start == (p - 1) * PerPage
<1>1. PageOf(e, coins, order, p) = SubSeq(list, start + 1, Spots!Min({start + PerPage, Len(list)}))
    BY DEF PageOf, ListShown, ShownOf, RawOf, Spots!getExchangeTickers
<1>2. n \in Nat /\ list \in [1..n -> ShownOf(e, coins)]
    BY ListShownIs DEF ListOf
<1> HIDE DEF list, n
<1>3. LET page == SubSeq(list, start + 1, Spots!Min({start + PerPage, Len(list)})) IN
      /\ \A i \in DOMAIN page : i \in 1..PerPage /\ start + i \in 1..n /\ page[i] = list[start + i]
      /\ \A i \in 1..PerPage : start + i <= n => i \in DOMAIN page
    BY <1>2, PageIs
<1> QED
    BY <1>1, <1>3 DEF list, n

LEMMA PagesShowAll ==
    ASSUME PairsInv, NEW e, NEW coins, NEW order \in {"volume_desc", "volume_asc"},
           NEW N \in Nat, Cardinality(ShownOf(e, coins)) <= N
    PROVE  UNION {Spots!ToSet(PageOf(e, coins, order, p)) : p \in 1..N} = ShownOf(e, coins)
<1> DEFINE list == ListShown(e, coins, order)
           shown == ShownOf(e, coins)
           n == Cardinality(shown)
           page(p) == PageOf(e, coins, order, p)
<1>1. \A p : Spots!ToSet(page(p)) = {page(p)[i] : i \in DOMAIN page(p)}
    BY DEF Spots!ToSet
<1>2. /\ n \in Nat /\ list \in [1..n -> shown]
      /\ \A r \in shown : \E i \in 1..n : list[i] = r
    <2>1. ListOf(list, shown)
        BY ListShownIs
    <2> QED
        BY <2>1 DEF ListOf
<1>3. \A p \in Nat \ {0} :
        /\ \A i \in DOMAIN page(p) : i \in 1..PerPage /\ (p - 1) * PerPage + i \in 1..n
                                     /\ page(p)[i] = list[(p - 1) * PerPage + i]
        /\ \A i \in 1..PerPage : (p - 1) * PerPage + i <= n => i \in DOMAIN page(p)
    BY PagesAre
<1>a. n <= N
    OBVIOUS
<1> HIDE DEF list, shown, n, page
<1>4. ASSUME NEW p \in 1..N, NEW t \in Spots!ToSet(page(p)) PROVE t \in shown
    <2>1. PICK i \in DOMAIN page(p) : t = page(p)[i]
        BY <1>1
    <2>2. p \in Nat \ {0}
        OBVIOUS
    <2>3. (p - 1) * PerPage + i \in 1..n /\ t = list[(p - 1) * PerPage + i]
        BY <1>3, <2>1, <2>2
    <2> QED
        BY <1>2, <2>3
<1>5. ASSUME NEW t \in shown PROVE \E p \in 1..N : t \in Spots!ToSet(page(p))
    <2>1. PICK k \in 1..n : list[k] = t
        BY <1>2
    <2>2. k \in Nat \ {0} /\ PerPage \in Nat \ {0}
        BY <1>2, SpotConstants
    <2>3. PICK p \in 1..k, i \in 1..PerPage : (p - 1) * PerPage + i = k
        BY <2>2, EveryPlaceHasPage
    <2>4. p \in Nat \ {0} /\ p \in 1..N
        BY <1>2, <1>a, <2>2
    <2>5. (p - 1) * PerPage + i <= n
        BY <1>2, <2>3
    <2>6. i \in DOMAIN page(p)
        BY <1>3, <2>4, <2>5
    <2>7. page(p)[i] = t
        BY <1>3, <2>1, <2>3, <2>4, <2>6
    <2> QED
        BY <1>1, <2>4, <2>6, <2>7
<1>6. UNION {Spots!ToSet(page(p)) : p \in 1..N} = shown
    BY <1>4, <1>5
<1> QED
    BY <1>6 DEF page, shown

LEMMA PlacesAreApart ==
    ASSUME NEW p \in Nat \ {0}, NEW q \in Nat \ {0}, NEW i \in 1..PerPage, NEW j \in 1..PerPage
    PROVE  LET k == (p - 1) * PerPage + i
               l == (q - 1) * PerPage + j IN
           /\ k = l => p = q /\ i = j
           /\ p < q \/ (p = q /\ i < j) => k < l
<1>1. PerPage \in Nat \ {0}
    BY SpotConstants
<1>2. p < q => (p - 1) * PerPage + i < (q - 1) * PerPage + j
    BY <1>1, PlacesFollow
<1>3. q < p => (q - 1) * PerPage + j < (p - 1) * PerPage + i
    BY <1>1, PlacesFollow
<1> DEFINE x == (p - 1) * PerPage
           y == (q - 1) * PerPage
<1>4. x \in Int /\ y \in Int
    BY <1>1
<1>5. p = q => x = y
    OBVIOUS
<1>6. (p < q => x + i < y + j) /\ (q < p => y + j < x + i)
    BY <1>2, <1>3
<1> HIDE DEF x, y
<1>7. /\ x + i = y + j => p = q /\ i = j
      /\ p < q \/ (p = q /\ i < j) => x + i < y + j
    BY <1>1, <1>4, <1>5, <1>6
<1> QED
    BY <1>7 DEF x, y

\* Pages have every pair once, unknown volumes last.
LEMMA PairsAreListedOnce ==
    ASSUME PairsInv, NEW e, NEW order \in {"volume_desc", "volume_asc"},
           NEW p \in Nat \ {0}, NEW q \in Nat \ {0},
           NEW i \in DOMAIN PageOf(e, {}, order, p), NEW j \in DOMAIN PageOf(e, {}, order, q)
    PROVE  LET t == PageOf(e, {}, order, p)[i]
               u == PageOf(e, {}, order, q)[j] IN
           /\ t.pair = u.pair => p = q /\ i = j
           /\ (p < q \/ (p = q /\ i < j)) /\ t.volume = Spots!Unknown => u.volume = Spots!Unknown
<1> DEFINE list == ListShown(e, {}, order)
           own == ShownOf(e, {})
           n == Cardinality(own)
           t == PageOf(e, {}, order, p)[i]
           u == PageOf(e, {}, order, q)[j]
           k == (p - 1) * PerPage + i
           l == (q - 1) * PerPage + j
<1>1. i \in 1..PerPage /\ k \in 1..n /\ t = list[k]
    BY PagesAre
<1>2. j \in 1..PerPage /\ l \in 1..n /\ u = list[l]
    BY PagesAre
<1>3. (k = l => p = q /\ i = j) /\ (p < q \/ (p = q /\ i < j) => k < l)
    BY <1>1, <1>2, PlacesAreApart
<1>4. ListOf(list, own) /\ \A a, b \in 1..n : a < b /\ list[a].volume = -1 => list[b].volume = -1
    BY ListShownIs
<1>5. \A a, b \in own : a.pair = b.pair => a = b
    <2>1. RawOf(e, {}) \subseteq {s \in spotTickers : s.exchange = e}
        BY RawIs
    <2> QED
        BY <2>1, OneClaimIsShown DEF ShownOf
<1> HIDE DEF list, own, n, t, u, k, l
<1>6. t.pair = u.pair => p = q /\ i = j
    <2> SUFFICES ASSUME t.pair = u.pair PROVE k = l
        BY <1>3
    <2>1. t \in own /\ u \in own
        BY <1>1, <1>2, <1>4 DEF ListOf, n
    <2>2. list[k] = list[l]
        BY <1>1, <1>2, <1>5, <2>1
    <2> QED
        BY <1>1, <1>2, <1>4, <2>2 DEF ListOf, n
<1>7. (p < q \/ (p = q /\ i < j)) /\ t.volume = -1 => u.volume = -1
    BY <1>1, <1>2, <1>3, <1>4
<1> QED
    BY <1>6, <1>7 DEF t, u, Spots!Unknown

\* What all pages show.
ListedOn(e, coins, order) ==
    UNION {Spots!ToSet(PageOf(e, coins, order, p)) : p \in 1..Cardinality(RawOf(e, {}))}

LEMMA ListsTellTheSame ==
    ASSUME PairsInv, NEW e \in {t.exchange : t \in spotTickers}
    PROVE  /\ \A order \in {"volume_desc", "volume_asc"} :
                 {t.pair : t \in ListedOn(e, {}, order)} = {t.pair : t \in RawOf(e, {})}
           /\ \A t \in ListedOn(e, {}, "volume_desc"), u \in RawOf(e, {}) :
                 u.pair = t.pair => u.volume <= t.volume
           /\ \A c : {t \in ListedOn(e, {}, "volume_desc") : t.coin = c} \subseteq ListedOn(e, {c}, "volume_desc")
           /\ Spots!Detail(e).pairs >= Cardinality(ListedOn(e, {}, "volume_desc"))
           /\ Spots!Detail(e).coins >= Cardinality({t.coin : t \in ListedOn(e, {}, "volume_desc")})
           /\ Spots!resolveExchangeRouteId(e) = e
<1> DEFINE raw == RawOf(e, {})
           N == Cardinality(raw)
           own == ShownOf(e, {})
           listed(coins, order) == ListedOn(e, coins, order)
<1>1. Spots!Cardinality(raw) = N /\ \A S : Spots!Cardinality(S) = Cardinality(S)
    BY SpotsCount
<1>2. raw = {t \in spotTickers : t.exchange = e}
    BY RawIs
<1>3. /\ own \in SUBSET raw
      /\ \A t, u \in own : t.pair = u.pair => t = u
      /\ \A u \in raw : \E t \in own : t.pair = u.pair
      /\ \A t \in own, u \in raw : u.pair = t.pair => u.volume <= t.volume
    <2>1. raw \subseteq {t \in spotTickers : t.exchange = e} /\ own = Spots!dedupeExchangeTickerRows(raw)
        BY <1>2 DEF ShownOf
    <2> HIDE DEF raw, own
    <2> QED
        BY <2>1, OneClaimIsShown
<1>4. IsFiniteSet(raw)
    <2>1. raw \in SUBSET spotTickers
        BY <1>2
    <2> QED
        BY <2>1, FS_Subset DEF PairsInv
<1>5. N \in Nat
    BY <1>4, FS_CardinalityType
<1>6. IsFiniteSet(own) /\ Cardinality(own) <= N
    BY <1>3, <1>4, FS_Subset
<1>7. \A order \in {"volume_desc", "volume_asc"} : listed({}, order) = own
    BY <1>5, <1>6, PagesShowAll DEF ListedOn
<1>8. ASSUME NEW c, NEW t \in own, t.coin = c PROVE t \in listed({c}, "volume_desc")
    <2> DEFINE few == RawOf(e, {c})
               some == ShownOf(e, {c})
    <2>1. few \in SUBSET raw /\ few \subseteq {s \in spotTickers : s.exchange = e} /\ (t \in raw => t \in few)
        BY <1>2, <1>8, RawIs
    <2>2. some = {s \in few : \A u \in few :
              u.pair = s.pair => s.volume > u.volume \/ (s.volume = u.volume /\ s.coin <= u.coin)}
        BY DEF ShownOf, Spots!dedupeExchangeTickerRows
    <2>3. own = {s \in raw : \A u \in raw :
              u.pair = s.pair => s.volume > u.volume \/ (s.volume = u.volume /\ s.coin <= u.coin)}
        BY DEF ShownOf, Spots!dedupeExchangeTickerRows
    <2> HIDE DEF few, raw
    <2>4. t \in some
        BY <2>1, <2>2, <2>3
    <2>5. some \in SUBSET raw
        BY <2>1, <2>2
    <2>6. Cardinality(some) <= N
        BY <1>4, <2>5, FS_Subset
    <2>7. listed({c}, "volume_desc") = some
        BY <1>5, <2>6, PagesShowAll DEF ListedOn, raw
    <2> QED
        BY <2>4, <2>7
<1>9. Spots!Detail(e).pairs = Cardinality(raw)
    BY <1>1 DEF Spots!Detail, RawOf
<1>10. Spots!Detail(e).coins = Cardinality({t.coin : t \in raw})
    BY <1>1 DEF Spots!Detail, RawOf
<1>11. Cardinality({t.coin : t \in raw}) >= Cardinality({t.coin : t \in own})
    <2> DEFINE coin == [t \in raw |-> t.coin]
               T == {coin[t] : t \in raw}
    <2>a. coin = [t \in raw |-> coin[t]]
        OBVIOUS
    <2>1. IsFiniteSet(T)
        <3> HIDE DEF coin, raw
        <3> QED
            BY <1>4, <2>a, ImageIsFinite
    <2>2. T = {t.coin : t \in raw}
        OBVIOUS
    <2>3. {t.coin : t \in own} \in SUBSET T
        BY <1>3, <2>2
    <2> HIDE DEF T
    <2>4. Cardinality({t.coin : t \in own}) <= Cardinality(T)
          /\ Cardinality({t.coin : t \in own}) \in Nat /\ Cardinality(T) \in Nat
        BY <2>1, <2>3, FS_Subset, FS_CardinalityType
    <2> QED
        BY <2>2, <2>4
<1>12. Spots!resolveExchangeRouteId(e) = e
    <2>1. e \in spot
        BY DEF PairsInv
    <2> QED
        BY <2>1 DEF Spots!resolveExchangeRouteId
<1>13. {t.pair : t \in own} = {t.pair : t \in raw}
    BY <1>3
<1>14. Cardinality(own) \in Nat
    BY <1>6, FS_CardinalityType
<1> HIDE DEF raw, own, listed, N
<1>15. \A order \in {"volume_desc", "volume_asc"} : {t.pair : t \in listed({}, order)} = {t.pair : t \in raw}
    BY <1>7, <1>13
<1>16. listed({}, "volume_desc") = own
    BY <1>7
<1>17. \A c : {t \in own : t.coin = c} \subseteq listed({c}, "volume_desc")
    BY <1>8
<1>18. Spots!Detail(e).pairs >= Cardinality(own) /\ Spots!Detail(e).coins >= Cardinality({t.coin : t \in own})
    BY <1>5, <1>6, <1>9, <1>10, <1>11, <1>14 DEF N
<1> QED
    BY <1>3, <1>12, <1>15, <1>16, <1>17, <1>18 DEF raw, listed

LEMMA PairsAgree == PairsInv => Spots!ListsAgree
<1> SUFFICES ASSUME PairsInv, NEW e \in {t.exchange : t \in spotTickers}
    PROVE  LET raw == Spots!getRawExchangeTickerRows(e, {})
               pages == 1..Spots!Cardinality(raw)
               listed(coins, order) == UNION {Spots!ToSet(Spots!getExchangeTickers(e, coins, order, p)) : p \in pages}
               all == listed({}, "volume_desc")
               detail == Spots!Detail(e) IN
           /\ \A order \in {"volume_desc", "volume_asc"} :
                LET page == [p \in pages |-> Spots!getExchangeTickers(e, {}, order, p)] IN
                /\ {t.pair : t \in listed({}, order)} = {t.pair : t \in raw}
                /\ \A p, q \in pages : \A i \in DOMAIN page[p], j \in DOMAIN page[q] :
                     LET t == page[p][i]  u == page[q][j] IN
                     /\ t.pair = u.pair => p = q /\ i = j
                     /\ (p < q \/ (p = q /\ i < j)) /\ t.volume = Spots!Unknown => u.volume = Spots!Unknown
           /\ \A t \in all, u \in raw : u.pair = t.pair => u.volume <= t.volume
           /\ \A c \in {t.coin : t \in all} : {t \in all : t.coin = c} \subseteq listed({c}, "volume_desc")
           /\ detail.pairs >= Spots!Cardinality(all) /\ detail.coins >= Spots!Cardinality({t.coin : t \in all})
           /\ Spots!resolveExchangeRouteId(e) = e
    BY DEF Spots!ListsAgree
<1> DEFINE raw == Spots!getRawExchangeTickerRows(e, {})
           pages == 1..Spots!Cardinality(raw)
           listed(coins, order) == UNION {Spots!ToSet(Spots!getExchangeTickers(e, coins, order, p)) : p \in pages}
           page(order) == [p \in pages |-> Spots!getExchangeTickers(e, {}, order, p)]
<1>1. raw = RawOf(e, {}) /\ pages = 1..Cardinality(RawOf(e, {}))
    BY SpotsCount DEF RawOf
<1>2. \A coins, order : listed(coins, order) = ListedOn(e, coins, order)
    BY <1>1 DEF ListedOn, PageOf
<1>3. \A p \in pages : p \in Nat \ {0}
    BY <1>1
<1>4. \A order : \A p \in pages : page(order)[p] = PageOf(e, {}, order, p)
    BY DEF PageOf
<1> HIDE DEF raw, pages, listed, page
<1>5. \A order \in {"volume_desc", "volume_asc"} : {t.pair : t \in listed({}, order)} = {t.pair : t \in raw}
    BY <1>1, <1>2, ListsTellTheSame
<1>6. ASSUME NEW order \in {"volume_desc", "volume_asc"}, NEW p \in pages, NEW q \in pages,
             NEW i \in DOMAIN page(order)[p], NEW j \in DOMAIN page(order)[q]
      PROVE  LET t == page(order)[p][i]  u == page(order)[q][j] IN
             /\ t.pair = u.pair => p = q /\ i = j
             /\ (p < q \/ (p = q /\ i < j)) /\ t.volume = Spots!Unknown => u.volume = Spots!Unknown
    BY <1>3, <1>4, PairsAreListedOnce
<1>7. \A t \in listed({}, "volume_desc"), u \in raw : u.pair = t.pair => u.volume <= t.volume
    BY <1>1, <1>2, ListsTellTheSame
<1>8. \A c \in {t.coin : t \in listed({}, "volume_desc")} :
          {t \in listed({}, "volume_desc") : t.coin = c} \subseteq listed({c}, "volume_desc")
    BY <1>2, ListsTellTheSame
<1>9. /\ Spots!Detail(e).pairs >= Spots!Cardinality(listed({}, "volume_desc"))
      /\ Spots!Detail(e).coins >= Spots!Cardinality({t.coin : t \in listed({}, "volume_desc")})
    BY <1>2, SpotsCount, ListsTellTheSame
<1>10. Spots!resolveExchangeRouteId(e) = e
    BY ListsTellTheSame
<1>11. \A order \in {"volume_desc", "volume_asc"} : \A p, q \in pages :
          \A i \in DOMAIN page(order)[p], j \in DOMAIN page(order)[q] :
             LET t == page(order)[p][i]  u == page(order)[q][j] IN
             /\ t.pair = u.pair => p = q /\ i = j
             /\ (p < q \/ (p = q /\ i < j)) /\ t.volume = Spots!Unknown => u.volume = Spots!Unknown
    BY <1>6
<1> QED
    BY <1>5, <1>7, <1>8, <1>9, <1>10, <1>11 DEF raw, pages, listed, page

-----------------------------------------------------------------------------

LEMMA PlaneTakesPoolSteps == [PlaneNext]_planeVars => [Listing!Next]_poolVars
BY DEF PlaneNext, planeVars

\* Every list has each pool, or each pair of an exchange, that is due, once, whatever
\* sweeps write while a request waits, for any tellings, claims and sizes of a page
\* (modules/onchain/pool-routes.ts, modules/exchange-tickers.ts).
THEOREM ListsHaveAllOnce == PlaneSpec => []ListsOnce
<1>1. PlaneInit => RequestsInv /\ PairsInv
    BY RequestsBegin, PairsBegin DEF PlaneInit
<1>2. RequestsInv /\ PairsInv /\ [PlaneNext]_planeVars => (RequestsInv /\ PairsInv)'
    BY PlaneTakesPoolSteps, PlaneTakesSpotSteps, RequestsStep, PairsStep
<1>3. RequestsInv /\ PairsInv => ListsOnce
    BY PoolsAreListedOnce, PairsAgree DEF ListsOnce
<1> QED
    BY <1>1, <1>2, <1>3, PTL DEF PlaneSpec
=================================================================================
