----------------------------- MODULE InitialSync -----------------------------
(***************************************************************************)
(* services/initial-sync.ts: the steps by which a process that starts with *)
(* background jobs fetches its first data, with the market refresh it runs *)
(* as its last step and the rescue refresh it falls back to.  Requests go  *)
(* out through fan-outs, whose answers, failures and budgets interleave    *)
(* with the clock, a validator and another process on the same database.   *)
(***************************************************************************)
EXTENDS ProviderBreaker, ProviderFanout, Sequences, SequencesExt, Functions

CONSTANTS
    Order,          \* config.ccxtExchanges, the valid ones
    Rescuers,       \* PRIORITIZED_STARTUP_TICKER_RESCUE_EXCHANGES
    Concurrency     \* config.providerFanoutConcurrency

ASSUME SyncAssumption ==
    /\ Order \in Seq(ToSet(Order)) /\ Order # <<>>
    /\ Rescuers \in Seq(ToSet(Rescuers))
    /\ Concurrency \in Nat \ {0}
    /\ BaseBackoff <= MaxBackoff

VARIABLES
    stage,      \* the step under way
    items, fan, \* the exchanges that are asked, and how far that is
    chosen,     \* activeExchangeIds
    refused,    \* exchangeMetadataFailures
    known,      \* the exchanges with a row
    rescue,     \* whether the refresh is the rescue
    db,         \* of what age the live tickers and the live snapshots are
    lease,      \* who has the work lease of the market refresh
    breakers, cooling, forced,   \* of the runtime state
    report,     \* runtimeState.exchangeTickerIngestion
    outcome     \* what the sync left: initialSyncCompletedWithoutUsableLiveSnapshots

vars == <<stage, items, fan, chosen, refused, known, rescue, db, lease, breakers, cooling,
          forced, report, outcome>>
work == <<items, fan>>
runtime == <<breakers, cooling, forced>>

Exchange == ToSet(Order)
Ages == {"none", "residual", "fresh"}
NoReport == [attempted |-> {}, successful |-> {}, failed |-> {}, blocked |-> {}, unavailable |-> {}]
Fetching == {"metadata", "coins", "chains", "catalog", "tickers"}
Running == Fetching \cup {"refresh", "persist", "rescue", "count"}

With(r) == {items[i] : i \in {i \in 1..fan.size : fan.results[i] = r}}
Answering == With("ok")

\* Array.filter: the members of S in the order of es.  The k-th of them stands at the
\* kept position that has k kept ones up to it, a form that can be proved about.
Only(es, S) ==
    LET kept == {i \in 1..Len(es) : es[i] \in S}
    IN  [k \in 1..Cardinality(kept) |-> es[CHOOSE i \in kept : Cardinality(kept \cap 1..i) = k]]
In(S) == Only(items, S)

Ask(es) == items' = es /\ fan' = Fanout(Len(es), Concurrency)
Goes(s) == stage' = s
FailedBy(S, b) == [e \in Exchange |-> IF e \in S THEN recordProviderFailure(b[e], BaseBackoff) ELSE b[e]]

\* selectStartupTickerRescueExchange: the first of its list that is among es.
Rescuer(es) ==
    LET listed == {i \in DOMAIN Rescuers : Rescuers[i] \in ToSet(es)} IN
    IF listed # {} THEN Rescuers[CHOOSE i \in listed : \A j \in listed : i <= j] ELSE Head(es)

Init ==
    /\ stage = "metadata"
    /\ items = Order /\ fan = Fanout(Len(Order), Concurrency)
    /\ chosen = <<>> /\ refused = {} /\ rescue = FALSE
    /\ known \in {{}, Exchange}
    /\ db \in [tickers : {"none", "residual"}, snapshots : {"none", "residual"}]
    /\ lease \in {"free", "other"}
    /\ breakers = [e \in Exchange |-> createEntry] /\ cooling = FALSE /\ forced = FALSE
    /\ report = NoReport /\ outcome = "unset"

-----------------------------------------------------------------------------
(* Requests. *)

Answers ==
    /\ stage \in Fetching /\ ~fan.resolved
    /\ \E i \in fan.active, r \in {"ok", "failed"} : fan' = Answered(fan, i, r, Concurrency)
    /\ UNCHANGED <<stage, items, chosen, refused, known, rescue, db, lease, runtime, report, outcome>>

\* startupExchangeMetadataBudgetMs, and startupTickerFetchBudgetMs but for the rescue;
\* catalogs have none.
BudgetExpires ==
    /\ stage = "metadata" \/ (stage = "tickers" /\ ~rescue)
    /\ ~fan.resolved /\ fan' = Expired(fan)
    /\ UNCHANGED <<stage, items, chosen, refused, known, rescue, db, lease, runtime, report, outcome>>

Resolved(s) == stage = s /\ fan.resolved

-----------------------------------------------------------------------------
(* runInitialMarketSync up to its refresh. *)

\* syncExchangesFromCCXT writes a row for who has markets; who has none succeeded as
\* well.  When nobody did, the rescuer gets a closed breaker and all stay in play.
MetadataSynced ==
    /\ Resolved("metadata")
    /\ \E empty \in SUBSET Answering : known' = known \cup (Answering \ empty)
    /\ LET failures == Exchange \ Answering
           broken == FailedBy(failures, breakers) IN
       /\ refused' = failures
       /\ breakers' = IF Answering # {} THEN broken
                      ELSE [broken EXCEPT ![Rescuer(Order)] = recordProviderSuccess(@)]
       /\ chosen' = IF Answering # {} THEN In(Answering) ELSE Order
    /\ Ask(chosen') /\ Goes("coins")
    /\ UNCHANGED <<rescue, db, lease, cooling, forced, report, outcome>>

\* syncCoinCatalogFromExchanges, syncChainCatalogFromExchanges: a failure of an
\* exchange is logged.
CoinsSynced ==
    /\ Resolved("coins") /\ Ask(chosen) /\ Goes("chains")
    /\ UNCHANGED <<chosen, refused, known, rescue, db, lease, runtime, report, outcome>>

ChainsSynced ==
    /\ Resolved("chains") /\ Goes("refresh")
    /\ UNCHANGED <<work, chosen, refused, known, rescue, db, lease, runtime, report, outcome>>

\* A statement may fail in any step; outside the refresh that ends the sync.
StatementFails ==
    /\ \E s \in {"metadata", "coins", "chains"} : Resolved(s)
    /\ Goes("failed")
    /\ UNCHANGED <<work, chosen, refused, known, rescue, db, lease, runtime, report, outcome>>

-----------------------------------------------------------------------------
(* runMarketRefreshOnce, for the chosen exchanges and then for the rescuer. *)

Asked == IF rescue THEN <<Rescuer(chosen)>> ELSE chosen
Returns == Goes("count")

\* The catch of the broad refresh, which goes on at once when there are live tickers
\* of any age; the rescue has none.
ThrowsWith(d) ==
    IF rescue THEN Goes("failed")
    ELSE IF d.tickers # "none" THEN Goes("count") ELSE Goes("rescue")
Throws == ThrowsWith(db)

\* Mutant: the breaker of the rescuer is closed, the cooldown goes on.
StartRescueCooling ==
    /\ stage = "rescue" /\ Goes("refresh") /\ rescue' = TRUE
    /\ breakers' = [breakers EXCEPT ![Rescuer(chosen)] = recordProviderSuccess(@)]
    /\ UNCHANGED <<work, chosen, refused, known, db, lease, cooling, forced, report, outcome>>

StartRescue ==
    /\ stage = "rescue" /\ Goes("refresh") /\ rescue' = TRUE
    /\ breakers' = [breakers EXCEPT ![Rescuer(chosen)] = recordProviderSuccess(@)]
    /\ cooling' = FALSE
    /\ UNCHANGED <<work, chosen, refused, known, db, lease, forced, report, outcome>>

Reported(attempted, failed) ==
    [attempted |-> attempted, successful |-> attempted \ failed, failed |-> failed,
     blocked |-> ToSet(Asked) \ attempted, unavailable |-> failed \cup (ToSet(Asked) \ attempted)]

\* The early returns, in their order; then the lease is taken and the coins are asked for.
RefreshBegins ==
    /\ stage = "refresh"
    /\ LET open == {e \in ToSet(Asked) : canAttemptProvider(breakers[e])} IN
       \/ /\ forced /\ Throws /\ UNCHANGED <<work, lease, breakers, report>>
       \/ /\ ~forced /\ cooling /\ Returns /\ UNCHANGED <<work, lease, breakers, report>>
       \/ /\ ~forced /\ ~cooling
          /\ breakers' = [e \in Exchange |-> IF e \in open THEN Checked(breakers[e]) ELSE breakers[e]]
          /\ \/ /\ open = {} /\ Returns
                /\ report' = Reported({}, {}) /\ UNCHANGED <<work, lease>>
             \/ /\ open # {} /\ lease # "free" /\ Returns
                /\ UNCHANGED <<work, lease, report>>
             \/ /\ open # {} /\ lease = "free" /\ lease' = "mine"
                /\ Ask(Only(Asked, open))
                /\ Goes("catalog") /\ UNCHANGED report
    /\ UNCHANGED <<chosen, refused, known, rescue, db, cooling, forced, outcome>>

CatalogSynced ==
    /\ Resolved("catalog") /\ Ask(items) /\ Goes("tickers")
    /\ UNCHANGED <<chosen, refused, known, rescue, db, lease, runtime, report, outcome>>

\* Each answer moves its breaker; none at all starts the cooldown.
TickersFetched ==
    /\ Resolved("tickers")
    /\ LET failed == ToSet(items) \ Answering IN
       /\ breakers' = FailedBy(failed, [e \in Exchange |->
                          IF e \in Answering THEN recordProviderSuccess(breakers[e]) ELSE breakers[e]])
       /\ IF Answering = {}
          THEN /\ report' = Reported(ToSet(items), failed)
               /\ cooling' = TRUE /\ Throws /\ lease' = "free"
          ELSE cooling' = FALSE /\ Goes("persist") /\ UNCHANGED <<report, lease>>
    /\ UNCHANGED <<work, chosen, refused, known, rescue, db, forced, outcome>>

\* One transaction: snapshots from the accepted quotes, if there are any, tickers of
\* the exchanges that have a row.  The release of the lease may fail afterwards.
Persisted ==
    /\ stage = "persist"
    /\ \E accepted \in SUBSET Answering, released \in BOOLEAN :
         /\ db' = [tickers |-> IF accepted \cap known # {} THEN "fresh" ELSE db.tickers,
                   snapshots |-> IF accepted # {} THEN "fresh" ELSE db.snapshots]
         /\ lease' = IF released THEN "free" ELSE lease
         /\ IF released THEN Returns ELSE ThrowsWith(db')
    /\ report' = Reported(ToSet(items), ToSet(items) \ Answering)
    /\ UNCHANGED <<work, chosen, refused, known, rescue, runtime, outcome>>

\* A throw after the lease was taken, in the catalog or in the transaction.
RefreshFails ==
    /\ Resolved("catalog") \/ stage = "persist"
    /\ Throws /\ lease' = "free"
    /\ UNCHANGED <<work, chosen, refused, known, rescue, db, runtime, report, outcome>>

-----------------------------------------------------------------------------
(* The count of what is new, and the merge of the metadata's failures. *)

CountFreshOfAnyAge == db.snapshots # "none"       \* mutant: the start is not looked at
countFreshLiveMarketSnapshots == db.snapshots = "fresh"

Count ==
    /\ stage = "count" /\ Goes("done")
    /\ report' = IF report = NoReport THEN report
                 ELSE [report EXCEPT !.failed = @ \cup refused,
                                     !.unavailable = @ \cup refused \cup report.blocked]
    /\ outcome' = IF countFreshLiveMarketSnapshots THEN "live" ELSE "without"
    /\ UNCHANGED <<work, chosen, refused, known, rescue, db, lease, runtime>>

-----------------------------------------------------------------------------
(* The world.  A rescue follows its cause without a pause. *)

Between == stage \in Running \ {"rescue"}
Stays == UNCHANGED <<stage, items, fan, chosen, refused, known, rescue, report, outcome>>

Tick ==
    /\ Between
    /\ breakers' = [e \in Exchange |-> [breakers[e] EXCEPT !.openedLeft = IF @ = 0 THEN 0 ELSE @ - 1]]
    /\ cooling' = FALSE
    /\ Stays /\ UNCHANGED <<db, lease, forced>>

recordForcedProviderFailure ==
    /\ Between /\ \E on \in BOOLEAN : forced' = on /\ cooling' = (on /\ cooling)
    /\ Stays /\ UNCHANGED <<db, lease, breakers>>

OtherProcess ==
    /\ Between
    /\ \/ lease = "free" /\ lease' = "other" /\ UNCHANGED db
       \/ /\ lease = "other" /\ lease' = "free"
          /\ db' \in {db, [tickers |-> "fresh", snapshots |-> "fresh"]}
    /\ Stays /\ UNCHANGED runtime

Next ==
    \/ Answers \/ BudgetExpires
    \/ MetadataSynced \/ CoinsSynced \/ ChainsSynced \/ StatementFails
    \/ StartRescue \/ RefreshBegins \/ CatalogSynced \/ TickersFetched
    \/ Persisted \/ RefreshFails \/ Count
    \/ Tick \/ recordForcedProviderFailure \/ OtherProcess

\* A request settles by the timeout of the client, and the event loop goes on.
Fairness ==
    /\ WF_vars(Answers)
    /\ WF_vars(MetadataSynced \/ CoinsSynced \/ ChainsSynced \/ StatementFails)
    /\ WF_vars(StartRescue \/ RefreshBegins \/ CatalogSynced \/ TickersFetched)
    /\ WF_vars(Persisted \/ RefreshFails \/ Count)

Spec == Init /\ [][Next]_vars /\ Fairness

-----------------------------------------------------------------------------
(* Properties. *)

TypeOK ==
    /\ stage \in Running \cup {"done", "failed"}
    /\ items \in Seq(Exchange) /\ chosen \in Seq(Exchange)
    /\ fan.size = Len(items) /\ fan.results \in [1..fan.size -> Result]
    /\ fan.active \subseteq 1..fan.size /\ Cardinality(fan.active) <= Concurrency
    /\ refused \subseteq Exchange /\ known \subseteq Exchange
    /\ db \in [tickers : Ages, snapshots : Ages] /\ lease \in {"free", "mine", "other"}
    /\ breakers \in [Exchange -> BreakerEntry]
    /\ rescue \in BOOLEAN /\ cooling \in BOOLEAN /\ forced \in BOOLEAN
    /\ outcome \in {"unset", "live", "without"}

\* A provider that answered, in whatever order, keeps its answer: neither the budget
\* that expires afterwards nor the answer of another turns it into a failure
\* (settleMissingBudgetResults, the resolved guards of runBudgetedProviderFanout).
AnswersKept ==
    [][ stage' = stage /\ items' = items =>
        \A i \in DOMAIN fan.results : fan.results[i] # "none" => fan'.results[i] = fan.results[i] ]_vars

\* Whatever the failures before it did to breakers and cooldown, the rescue contacts
\* its exchange; only a forced failure or somebody else's lease keeps it from it.
RescueReachesProvider ==
    [][ stage = "refresh" /\ rescue /\ ~forced /\ lease = "free" /\ stage' # stage
        => stage' = "catalog" ]_vars

\* "Residual persisted snapshots ... must not be misclassified as fresh live bootstrap
\* output" (initial-sync.ts:417): with no provider's answer in the report and no
\* commit by somebody else, the sync is reported to be without live snapshots.
LiveMeansFresh ==
    outcome = "live" => report.successful # {} \/ db.tickers = "fresh"

\* Providers that fail, answer late or not at all do not keep the sync from ending.
SyncEnds == <>(stage \in {"done", "failed"})
=============================================================================
