--------------------------- MODULE DerivativeVenues ---------------------------
(***************************************************************************)
(* Derivatives: the passes that ask configured venues for their tickers,   *)
(* what a venue adds up to, the retention of old rows, the state of each   *)
(* venue that the process remembers, and what the routes and diagnostics   *)
(* make of it.  The figures of a venue are sums; what is kept of them here *)
(* is the rows that were summed.                                           *)
(***************************************************************************)
EXTENDS Integers, Sequences, FiniteSets, FiniteSetsExt

CONSTANTS
    Venue, Configured,      \* all there are; DERIVATIVES_CCXT_EXCHANGES, in order
    SeededVenues,           \* venues with seeded figures, which no ticker explains
    SeededTickers,          \* their tickers: venue and symbol
    SeededInterest,
    Symbols, Interest,      \* what a venue may tell of, and the interest in each
    MaxSafeInteger,         \* Number.MAX_SAFE_INTEGER
    Retention,              \* DEFAULT_SNAPSHOT_RETENTION_DAYS
    MaxTime, MaxPasses      \* bounds

\* All contracts there are, at the largest interest of any, stay below MaxSafeInteger.
VenuesAssumption ==
    /\ Configured \in Seq(Venue) /\ SeededVenues \subseteq Venue
    /\ SeededTickers \subseteq [venue : Venue, symbol : Symbols]
    /\ IsFiniteSet(Symbols) /\ \A s \in Symbols : Interest[s] \in Nat
    /\ \A s \in Symbols : Interest[s] * Cardinality(Symbols) < MaxSafeInteger
    /\ MaxSafeInteger \in Nat /\ SeededInterest \in 0..(MaxSafeInteger - 1)
    /\ Retention \in Nat \ {0}

VARIABLES
    tickers,    \* derivative_tickers
    figures,    \* derivatives_exchanges: of which rows, or as seeded
    state,      \* derivativesVenueRefreshState, of this process
    run,        \* a pass of syncDerivativeTickers under way
    now, passes

vars == <<tickers, figures, state, run, now, passes>>

Unlisted == [listed |-> FALSE, seeded |-> FALSE, of |-> {}]
Idle == [queue |-> <<>>, at |-> -1, rest |-> {}, wrote |-> FALSE, written |-> FALSE]

-----------------------------------------------------------------------------
(* Rows. *)

Ticker(venue, symbol, kind, fetched) == [venue |-> venue, symbol |-> symbol, kind |-> kind, fetched |-> fetched]

SeededRows == {Ticker(s.venue, s.symbol, "seed", -1) : s \in SeededTickers}

SameContract(r, s) == r.venue = s.venue /\ r.symbol = s.symbol

\* A row of a source takes the place of a seeded one of the contract, and keeps it.
Upserted(rows, r) == {s \in rows : ~SameContract(r, s)} \cup {r}

SourceBacked(rows) == {r \in rows : r.kind # "seed"}
TickersOf(v) == {r \in tickers : r.venue = v}

\* ensureDerivativesExchange
Ensured(v) == IF figures[v].listed THEN figures[v] ELSE [Unlisted EXCEPT !.listed = TRUE]

\* Mutant: seeded rows are summed with the others.
SummedWithSeeds(rows) == rows

\* updateDerivativesExchangeAggregate: seeded rows count as long as there are no others.
Summed(rows) == IF SourceBacked(rows) # {} THEN SourceBacked(rows) ELSE rows

-----------------------------------------------------------------------------
(* A pass: venue by venue, each awaited. *)

PassBegins ==
    /\ run = Idle /\ passes > 0
    /\ run' = [Idle EXCEPT !.queue = Configured, !.at = now]
    /\ passes' = passes - 1
    /\ UNCHANGED <<tickers, figures, state, now>>

Asking == run.queue # <<>> /\ run.rest = {} /\ ~run.wrote

\* A venue tells of some of its contracts; its row is made sure of first.
VenueAnswered ==
    /\ Asking
    /\ LET v == Head(run.queue) IN
       \E told \in (SUBSET Symbols) \ {{}} :
         /\ figures' = [figures EXCEPT ![v] = Ensured(v)]
         /\ run' = [run EXCEPT !.rest = {Ticker(v, s, "live", run.at) : s \in told}]
    /\ UNCHANGED <<tickers, state, now, passes>>

\* Of nothing, or the call fails: the venue is noted and the next one asked.
VenueWithout ==
    /\ Asking
    /\ \E status \in {"unsupported_or_empty", "error"} : state' = [state EXCEPT ![Head(run.queue)] = status]
    /\ run' = [run EXCEPT !.queue = Tail(@)]
    /\ UNCHANGED <<tickers, figures, now, passes>>

\* Rows are written one by one.
RowWritten ==
    /\ \E r \in run.rest :
         /\ tickers' = Upserted(tickers, r)
         /\ run' = [run EXCEPT !.rest = @ \ {r}, !.wrote = TRUE]
    /\ UNCHANGED <<figures, state, now, passes>>

VenueSummed ==
    /\ run.wrote /\ run.rest = {}
    /\ LET v == Head(run.queue) IN
       /\ figures' = [figures EXCEPT ![v] = [listed |-> TRUE, seeded |-> FALSE, of |-> Summed(TickersOf(v))]]
       /\ state' = [state EXCEPT ![v] = "success"]
    /\ run' = [run EXCEPT !.queue = Tail(@), !.wrote = FALSE, !.written = TRUE]
    /\ UNCHANGED <<tickers, now, passes>>

\* A write that fails ends the venue's part of the pass: its rows so far stay, not summed,
\* and are not counted as written.
IngestionFails ==
    /\ ~Asking /\ run.queue # <<>>
    /\ state' = [state EXCEPT ![Head(run.queue)] = "error"]
    /\ run' = [run EXCEPT !.queue = Tail(@), !.rest = {}, !.wrote = FALSE]
    /\ UNCHANGED <<tickers, figures, now, passes>>

\* enforceSnapshotRetention leaves seeds alone, and figures as they are.
Kept(rows, at) == {r \in rows : r.kind = "seed" \/ r.fetched > at - Retention}

PassEnds ==
    /\ run # Idle /\ run.queue = <<>>
    /\ tickers' = IF run.written THEN Kept(tickers, run.at) ELSE tickers
    /\ run' = Idle
    /\ UNCHANGED <<figures, state, now, passes>>

\* Other jobs end with the same retention.
OthersRetain == tickers' = Kept(tickers, now) /\ UNCHANGED <<figures, state, run, now, passes>>

\* The process ends where it is and boots: seeded contracts that are missing come back.
Restart ==
    /\ tickers' = tickers \cup {s \in SeededRows : \A r \in tickers : ~SameContract(r, s)}
    /\ state' = [v \in Venue |-> "none"] /\ run' = Idle
    /\ UNCHANGED <<figures, now, passes>>

Tick == now < MaxTime /\ now' = now + 1 /\ UNCHANGED <<tickers, figures, state, run, passes>>

Init ==
    /\ tickers = SeededRows
    /\ figures = [v \in Venue |-> [listed |-> v \in SeededVenues, seeded |-> v \in SeededVenues, of |-> {}]]
    /\ state = [v \in Venue |-> "none"]
    /\ run = Idle /\ now = 0 /\ passes = MaxPasses

Next ==
    \/ PassBegins \/ VenueAnswered \/ VenueWithout \/ RowWritten \/ VenueSummed
    \/ IngestionFails \/ PassEnds
    \/ OthersRetain \/ Restart \/ Tick

Spec == Init /\ [][Next]_vars

-----------------------------------------------------------------------------
(* Answers. *)

Listed == {v \in Venue : figures[v].listed}

Unknown == -1

open_interest_btc(v) ==
    IF figures[v].seeded THEN SeededInterest
    ELSE IF figures[v].of = {} THEN Unknown
    ELSE MapThenSumSet(LAMBDA r : Interest[r.symbol], figures[v].of)

\* What is not known counts as less than nothing from the largest on, and as more than
\* anything from the smallest on.
sortNumber(order, v) ==
    IF open_interest_btc(v) # Unknown THEN open_interest_btc(v)
    ELSE IF order = "desc" THEN -1 ELSE MaxSafeInteger

\* Of venues with the same interest either may be first: the lists that are in order.
sortDerivativesExchangeRows(order) ==
    {list \in [1..Cardinality(Listed) -> Listed] :
        \A i, j \in DOMAIN list :
            i < j => /\ list[i] # list[j]
                     /\ IF order = "desc" THEN sortNumber(order, list[i]) >= sortNumber(order, list[j])
                        ELSE sortNumber(order, list[i]) <= sortNumber(order, list[j])}

buildDerivativesMeta(rows) ==
    [fixture |-> SourceBacked(rows) = {}, source_backed |-> Cardinality(SourceBacked(rows)),
     fallback |-> Cardinality(rows) - Cardinality(SourceBacked(rows))]

IsConfigured(v) == \E i \in DOMAIN Configured : Configured[i] = v

\* The last refresh that failed outdoes the rows there are.
resolveConfiguredVenueStatus(v) ==
    CASE state[v] = "error" -> "errored"
      [] state[v] = "unsupported_or_empty" -> "unsupported_or_empty"
      [] OTHER -> IF SourceBacked(TickersOf(v)) # {} THEN "source_backed"
                  ELSE IF IsConfigured(v) THEN "configured_pending"
                  ELSE IF TickersOf(v) # {} THEN "fixture_only" ELSE "missing"

-----------------------------------------------------------------------------
(* Properties. *)

\* The figures of a venue that answered add up exactly what there is of it, seeds
\* left out, or rows that retention removed since; seeds and sources are never summed
\* together, whatever was interrupted.  What diagnostics call source-backed is not
\* answered as a fixture, and what they call a fixture is not answered as live
\* (services/derivatives-ingestion.ts, services/derivatives-venues.ts).
FiguresAddUp ==
    /\ \A v \in Venue :
      LET ingesting == run.queue # <<>> /\ Head(run.queue) = v /\ (run.wrote \/ run.rest # {})
          counted == figures[v].of
          status == resolveConfiguredVenueStatus(v) IN
      /\ state[v] = "success" /\ ~ingesting
         => /\ SourceBacked(TickersOf(v)) \subseteq counted
            /\ \A r \in counted \ tickers : r.fetched <= now - Retention
      /\ SourceBacked(counted) \in {{}, counted}
      /\ status = "source_backed" => ~buildDerivativesMeta(TickersOf(v)).fixture
      /\ status \in {"fixture_only", "configured_pending", "missing"}
         => buildDerivativesMeta(TickersOf(v)).fixture
    /\ \A order \in {"asc", "desc"} : \A list \in sortDerivativesExchangeRows(order) :
      \A i, j \in DOMAIN list :
        i < j /\ open_interest_btc(list[i]) = Unknown => open_interest_btc(list[j]) = Unknown
=============================================================================
