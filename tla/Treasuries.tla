------------------------------ MODULE Treasuries ------------------------------
(***************************************************************************)
(* Public treasuries of one coin: disclosures that a sweep reads from a    *)
(* file, write by write; the holdings and transactions of entities, some   *)
(* of them seeded; the documents that back them, until retention; and the  *)
(* lists, details, charts and histories of the routes with their labels.   *)
(***************************************************************************)
EXTENDS Integers, Sequences, FiniteSets, FiniteSetsExt, SequencesExt

CONSTANTS
    Seeded,                 \* entities there from the start
    SeededHoldings, SeededTransactions,
    Files,                  \* contents the replay file may have
    Prices,                 \* chart_points of the coin: day and price
    CurrentPrice,           \* that of its snapshot, or Unknown
    Retention,              \* DEFAULT_SNAPSHOT_RETENTION_DAYS
    Windows,                \* days a chart is asked for
    MaxSafeInteger,         \* stands for an unknown value where the least come first
    MaxTime, MaxSweeps      \* bounds

Unknown == -1
Value == {Unknown} \cup 0..(MaxSafeInteger - 1)

TreasuriesAssumption ==
    /\ MaxSafeInteger \in Nat /\ CurrentPrice \in {Unknown} \cup Nat
    /\ IsFiniteSet(Seeded) /\ IsFiniteSet(SeededHoldings) /\ IsFiniteSet(SeededTransactions)
    /\ \A h \in SeededHoldings : h.entity \in Seeded /\ h.amount \in Nat
    /\ \A t \in SeededTransactions : t.id \in Nat /\ t.at \in Nat /\ t.value \in Value
    /\ \A file \in Files :
          /\ file \in Seq(ToSet(file)) \ {<<>>}
          /\ \A d \in ToSet(file) :
                /\ d.amount \in Nat
                /\ d.transactions \in Seq([id : Nat, balance : Nat, at : Nat, value : Value])
    /\ \A p \in Prices : p.at \in Nat
    /\ Retention \in Nat \ {0}

VARIABLES
    entities, documents, holdings, transactions,    \* the tables
    sweep,      \* what a sweep has still to write
    now, sweeps

vars == <<entities, documents, holdings, transactions, sweep, now, sweeps>>

Idle == [queue |-> <<>>, step |-> "none", rest |-> <<>>]

-----------------------------------------------------------------------------
(* A sweep: for each disclosure its entity, its document, its holding, then *)
(* its transactions, each a write of its own.                               *)

Sweeping == sweep.step # "none"

Beginning(queue) == [queue |-> queue, step |-> "entity", rest |-> Head(queue).transactions]

SweepBegins ==
    /\ ~Sweeping /\ sweeps > 0
    /\ \E file \in Files : sweep' = Beginning(file)
    /\ sweeps' = sweeps - 1
    /\ UNCHANGED <<entities, documents, holdings, transactions, now>>

At(step) == sweep.step = step
Disclosure == Head(sweep.queue)

EntityWritten ==
    /\ At("entity")
    /\ entities' = entities \cup {Disclosure.entity}
    /\ sweep' = [sweep EXCEPT !.step = "document"]
    /\ UNCHANGED <<documents, holdings, transactions, now, sweeps>>

\* A document is known by its url: a corrected one takes its place.
DocumentWritten ==
    /\ At("document")
    /\ documents' = {d \in documents : d.url # Disclosure.url}
                    \cup {[url |-> Disclosure.url, entity |-> Disclosure.entity, accepted |-> Disclosure.accepted]}
    /\ sweep' = [sweep EXCEPT !.step = "holding"]
    /\ UNCHANGED <<entities, holdings, transactions, now, sweeps>>

\* The last disclosure of a sweep prevails, whatever its date.
HoldingWritten ==
    /\ At("holding")
    /\ holdings' = {h \in holdings : h.entity # Disclosure.entity}
                   \cup {[entity |-> Disclosure.entity, amount |-> Disclosure.amount, url |-> Disclosure.url]}
    /\ sweep' = [sweep EXCEPT !.step = "transactions"]
    /\ UNCHANGED <<entities, documents, transactions, now, sweeps>>

normalizeTreasuryDisclosure(d, t) ==
    [id |-> t.id, entity |-> d.entity, balance |-> t.balance, at |-> t.at, value |-> t.value, url |-> d.url]

TransactionWritten ==
    /\ At("transactions") /\ sweep.rest # <<>>
    /\ transactions' = {t \in transactions : t.id # Head(sweep.rest).id}
                       \cup {normalizeTreasuryDisclosure(Disclosure, Head(sweep.rest))}
    /\ sweep' = [sweep EXCEPT !.rest = Tail(@)]
    /\ UNCHANGED <<entities, documents, holdings, now, sweeps>>

\* Retention goes by when a document was accepted.
Kept(rows) == {d \in rows : d.accepted > now - Retention}

DisclosureEnds ==
    /\ At("transactions") /\ sweep.rest = <<>>
    /\ IF Len(sweep.queue) > 1
       THEN sweep' = Beginning(Tail(sweep.queue)) /\ UNCHANGED documents
       ELSE sweep' = Idle /\ documents' = Kept(documents)
    /\ UNCHANGED <<entities, holdings, transactions, now, sweeps>>

\* Other jobs end with the same retention.
OthersRetain ==
    /\ documents' = Kept(documents)
    /\ UNCHANGED <<entities, holdings, transactions, sweep, now, sweeps>>

\* The process ends between two writes, or a disclosure is not valid, or a write fails;
\* the next boot leaves the rows as they are.
Crash == Sweeping /\ sweep' = Idle /\ UNCHANGED <<entities, documents, holdings, transactions, now, sweeps>>

Tick == now < MaxTime /\ now' = now + 1 /\ UNCHANGED <<entities, documents, holdings, transactions, sweep, sweeps>>

Init ==
    /\ entities = Seeded /\ documents = {}
    /\ holdings = SeededHoldings /\ transactions = SeededTransactions
    /\ sweep = Idle /\ now = 0 /\ sweeps = MaxSweeps

Next ==
    \/ SweepBegins \/ EntityWritten \/ DocumentWritten \/ HoldingWritten \/ TransactionWritten
    \/ DisclosureEnds \/ OthersRetain \/ Crash \/ Tick

Spec == Init /\ [][Next]_vars

-----------------------------------------------------------------------------
(* Answers. *)

\* Mutant: rows that name a source are counted, documents or not.
buildMetaOfNamed(rows) ==
    LET live == Cardinality({r \in rows : r.url # "none"})
        fallback == Max({Cardinality(rows) - live, 0}) IN
    [fixture |-> rows = {} \/ fallback > 0, live |-> live, fallback |-> fallback]

\* Sources are counted by url, so that rows of one document count once.
buildTreasurySourceMeta(rows) ==
    LET live == Cardinality({r.url : r \in rows} \cap {d.url : d \in documents})
        fallback == Max({Cardinality(rows) - live, 0}) IN
    [fixture |-> rows = {} \/ fallback > 0, live |-> live, fallback |-> fallback]

source(meta) == IF meta.live > 0 /\ meta.fallback > 0 THEN "hybrid"
                ELSE IF meta.live > 0 THEN "disclosure_replay" ELSE "fixture"

ValueOf(h) == IF CurrentPrice = Unknown THEN Unknown ELSE h.amount * CurrentPrice

\* /:entity/public_treasury/:coin_id
ByCoin == {[entity |-> h.entity, amount |-> h.amount, value |-> ValueOf(h), url |-> h.url] : h \in holdings}

sumBigNumber(rows) == MapThenSumSet(LAMBDA r : r.value, rows)

\* What has no value counts for nothing.
TotalValue == IF CurrentPrice = Unknown THEN 0 ELSE sumBigNumber(ByCoin)

\* /public_treasury/:entity_id.  The alias of an entity finds it, but no holdings.
Detail(entity, alias) ==
    [holdings |-> IF alias THEN {} ELSE {r \in ByCoin : r.entity = entity}]

\* /public_treasury/:entity_id/transaction_history
HistoryOf(entity) == {t \in transactions : t.entity = entity}

sortNumber(t, fallback) == IF t.value = Unknown THEN fallback ELSE t.value

\* Whether a history shows t before u.
sortTreasuryTransactions(t, u, order) ==
    CASE order = "value_desc" -> sortNumber(t, -1) > sortNumber(u, -1)
      [] order = "value_asc" -> sortNumber(t, MaxSafeInteger) < sortNumber(u, MaxSafeInteger)
      [] order = "date_desc" -> t.at > u.at

Before(rows, day) == {t \in rows : t.at <= day}

\* Of several that happened at once the last one is taken.
findLatestBalanceAtOrBefore(rows, day) ==
    LET latest == CHOOSE t \in Before(rows, day) :
                      \A u \in Before(rows, day) : u.at < t.at \/ (u.at = t.at /\ u.id <= t.id) IN
    latest.balance

Point(day, balance, price) == [at |-> day, balance |-> balance, value |-> balance * price]

\* /public_treasury/:entity_id/:coin_id/holding_chart: of every day that has a price,
\* or of those of a transaction.  Days end with the last price.
holding_chart(entity, days, include_empty_intervals) ==
    LET rows == HistoryOf(entity)
        shown == {p \in Prices : p.at > Max({q.at : q \in Prices}) - days} IN
    IF rows = {} \/ Prices = {} THEN {}
    ELSE IF include_empty_intervals
    THEN {Point(p.at, findLatestBalanceAtOrBefore(rows, p.at), p.price) :
             p \in {q \in shown : Before(rows, q.at) # {}}}
    ELSE UNION {{Point(p.at, t.balance, p.price) : p \in {q \in shown : q.at = t.at}} : t \in rows}

-----------------------------------------------------------------------------
(* Properties. *)

\* No answer that is not labelled a fixture has a row without a document, whatever
\* sweeps were interrupted and whatever retention took; a detail tells of its entity
\* what the list of the coin does, and the list sums up to what it shows; the chart of
\* every day has the days of the transactions, with the same balances; and histories
\* by value show what is known before what is not (modules/treasury.ts).
DisclosuresTrue ==
    /\ \A rows \in {holdings} \cup {{h \in holdings : h.entity = e} : e \in entities}
                   \cup {{t \in transactions : t.entity = e} : e \in entities} :
         LET meta == buildTreasurySourceMeta(rows) IN
         /\ ~meta.fixture => \A r \in rows : \E d \in documents : d.url = r.url
         /\ source(meta) = "fixture" => \A r \in rows : \A d \in documents : d.url # r.url
    /\ CurrentPrice # Unknown =>
         TotalValue = MapThenSumSet(LAMBDA e : sumBigNumber(Detail(e, FALSE).holdings), entities)
    /\ \A e \in entities, days \in Windows :
         \A p \in holding_chart(e, days, FALSE) :
            LET same == {t \in transactions : t.entity = e /\ t.at = p.at} IN
            \E q \in holding_chart(e, days, TRUE) : q.at = p.at /\ (Cardinality(same) = 1 => q = p)
    /\ \A e \in entities, order \in {"value_asc", "value_desc"} :
         \A t, u \in HistoryOf(e) :
            t.value # Unknown /\ u.value = Unknown => sortTreasuryTransactions(t, u, order)
=============================================================================
