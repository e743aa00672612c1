----------------------------- MODULE ChartHistory -----------------------------
(***************************************************************************)
(* The history of one coin: points that sources tell of (market charts,    *)
(* supplies, snapshots of past days), replayed or synced live, the         *)
(* canonical candles beside them, the passes that backfill the live chart  *)
(* by a plan, the retention of both, and the charts, OHLC rows, supplies   *)
(* and past snapshots the routes answer.  Times are days of the 1d series; *)
(* that of minutes is read and written alike.                              *)
(***************************************************************************)
EXTENDS Integers, Sequences, FiniteSets, FiniteSetsExt, SequencesExt

CONSTANTS
    Depth,                  \* target_history_days
    First, Chunk,           \* FIRST_SYNC_WINDOW_DAYS, HISTORY_BACKFILL_CHUNK_DAYS
    Slo, ProductionSlo,     \* freshness_slo_seconds, production_freshness_slo_seconds
    Retention,              \* DEFAULT_SNAPSHOT_RETENTION_DAYS
    Granularities,          \* up to which duration which step, finest first
    Coarsest,               \* the step of what is longer
    Told,                   \* what the provider knows of each day
    Replays,                \* batches that may be replayed
    Candles,                \* canonical candles the worker may write
    Ratio,                  \* market cap to price of the current snapshot, or Nothing
    Queries, EventLimit,    \* requests; RECENT_EVENT_LIMIT
    Start, MaxTime, MaxChanges, MaxPasses   \* bounds

HistoryAssumption ==
    /\ Depth \in Nat \ {0} /\ First \in Nat \ {0} /\ Chunk \in Nat \ {0}
    /\ Slo \in Nat /\ ProductionSlo \in 0..Slo
    /\ Retention \in Nat \ {0} /\ Start \in Nat
    /\ Granularities \in Seq([upTo : Nat, step : Nat]) /\ Coarsest \in Nat
    /\ \A b \in Replays : /\ b.family \in {"chart", "supply", "history"} /\ b.captured \in Nat
                          /\ IsFiniteSet(DOMAIN b.told) /\ DOMAIN b.told \subseteq Nat
    /\ \A q \in Queries : /\ q.kind \in {"range", "days", "max"}
                          /\ q.days \in Nat /\ q.from \in Nat /\ q.to \in Nat
    /\ DOMAIN Told = 1..MaxTime

VARIABLES
    points,     \* the rows of each family of source points
    candles,    \* canonical ohlcv_candles
    now,
    pass,       \* a pass of syncMarketChartsFromCoveragePlan under way
    counts,     \* the answers of each label
    events,     \* the latest empty answers, newest first
    left, passes

vars == <<points, candles, now, pass, counts, events, left, passes>>

Nothing == -1
Families == {"chart", "supply", "history"}
Labels == {"source_backed", "canonical", "empty"}
NoPass == [at |-> Nothing, planned |-> {}, tasks |-> <<>>, whole |-> TRUE, written |-> 0]

-----------------------------------------------------------------------------
(* Rows of sources: one of a day, kind and provider. *)

SourceRow(at, kind, provider, told, fetched) ==
    [at |-> at, kind |-> kind, provider |-> provider, price |-> told.price, cap |-> told.cap,
     sound |-> told.sound, fetched |-> fetched]

SameKey(r, s) == r.at = s.at /\ r.kind = s.kind /\ r.provider = s.provider

\* The upsert of a replay or of a live answer: the last one to come wins, even one
\* that was captured before.
Upserted(rows, batch) == {r \in rows : \A s \in batch : ~SameKey(r, s)} \cup batch

\* Mutant: the row that was fetched last.
OutranksByAge(r, s) == r.fetched > s.fetched

\* latestRowsByTimestamp: live before replayed, then fetched later.
Outranks(r, s) ==
    \/ r.kind = "live" /\ s.kind # "live"
    \/ r.kind = s.kind /\ r.fetched > s.fetched

\* Of rows that are equal in both the first one.
latestRowsByTimestamp(rows) ==
    {CHOOSE r \in rows : r.at = t /\ \A s \in rows : s.at = t => ~Outranks(s, r) : t \in {r.at : r \in rows}}

-----------------------------------------------------------------------------
(* Windows and steps. *)

Newest(rows) == Max({r.at : r \in rows})
Oldest(rows) == Min({r.at : r \in rows})

getChartGranularity(duration) ==
    LET fitting == {i \in DOMAIN Granularities : duration <= Granularities[i].upTo} IN
    IF fitting = {} THEN Coarsest ELSE Granularities[Min(fitting)].step

\* Whatever is a step or more after all that is taken before it.
Taken(times, step) ==
    CHOOSE T \in SUBSET times : \A t \in times : t \in T <=> \A s \in T : s < t => t - s >= step

\* The first row, then whatever is a step or more after the last one taken, and the
\* last row.
downsampleTimeSeries(rows, step) ==
    IF Cardinality(rows) <= 2 THEN rows
    ELSE {r \in rows : r.at \in Taken({s.at : s \in rows}, step) \cup {Newest(rows)}}

\* A request is for a range of days, the last so many of them, or all (max).  Days
\* end with the newest row.
Window(rows, q) ==
    CASE q.kind = "range" -> {r \in rows : r.at \in q.from..q.to}
      [] q.kind = "days" -> LET first == Newest(rows) - q.days IN {r \in rows : r.at >= first}
      [] q.kind = "max" -> rows

Step(rows, q) ==
    LET duration == CASE q.kind = "range" -> q.to - q.from [] q.kind = "days" -> q.days
                      [] q.kind = "max" -> Newest(rows) - Oldest(rows) IN
    IF q.interval = "weekly" THEN Coarsest ELSE getChartGranularity(duration)

Sampled(rows, q, step) == IF rows = {} THEN {} ELSE downsampleTimeSeries(Window(rows, q), step)

-----------------------------------------------------------------------------
(* Answers. *)

\* What is no price, or no candle, is left out, after the sampling.
normalizeChartRows(rows) == {r \in rows : r.price > 0}
normalizeOhlcRows(rows) == {r \in normalizeChartRows(rows) : r.sound}

Shown(rows, q) == IF q.route = "ohlc" THEN normalizeOhlcRows(rows) ELSE normalizeChartRows(rows)

SourceRows(q) ==
    LET rows == latestRowsByTimestamp(points["chart"]) IN Sampled(rows, q, Step(rows, q))
SourceBacked(q) == Shown(SourceRows(q), q)

\* Canonical candles are sampled for charts and not for OHLC.
CanonicalRows(q) ==
    Shown(IF candles = {} THEN {}
          ELSE IF q.route = "ohlc" THEN Window(candles, q)
          ELSE Sampled(candles, q, Step(candles, q)), q)

Label(q) == IF SourceBacked(q) # {} THEN "source_backed" ELSE IF CanonicalRows(q) # {} THEN "canonical" ELSE "empty"

\* The charts of contracts are those of the coin, without the label.
RowsOf(q) == IF SourceBacked(q) # {} THEN SourceBacked(q) ELSE CanonicalRows(q)

\* What has no market cap gets that of the price, by the current snapshot.
deriveSparseChartFields(rows) ==
    {[r EXCEPT !.cap = IF @ # Nothing THEN @ ELSE IF Ratio = Nothing THEN Nothing ELSE r.price * Ratio] : r \in rows}

buildChartPayload(q) == deriveSparseChartFields(RowsOf(q))

\* Supplies over a range are sampled with the whole range for a step.
SupplyRows(q) ==
    LET rows == latestRowsByTimestamp(points["supply"]) IN
    Sampled(rows, q, IF q.kind = "range" THEN q.to - q.from ELSE Step(rows, q))

\* The label of a supply chart is live as soon as one row is.
SupplyMode(q) ==
    IF SupplyRows(q) = {} THEN "empty"
    ELSE IF \E r \in SupplyRows(q) : r.kind = "live" THEN "live" ELSE "replay"

\* The snapshot of a past day: that of a source for the very day, or the last close
\* up to it.
SourceBackedSnapshot(day) == {r \in latestRowsByTimestamp(points["history"]) : r.at = day}

getHistorySnapshot(day) ==
    LET closes == {c \in candles : c.at <= day} IN
    IF SourceBackedSnapshot(day) # {} THEN SourceBackedSnapshot(day)
    ELSE {c \in closes : c.at = Newest(closes)}

-----------------------------------------------------------------------------
(* The plan of a backfill. *)

Task(from, to, reason) == [from |-> from, to |-> to, reason |-> reason]

\* buildObservedMarketChartStates looks at live rows only, and at no gaps.
Observed == {r \in points["chart"] : r.kind = "live"}

\* Mutant: deeper from the newest row instead of the oldest.
planFromNewest(rows, at) ==
    IF rows = {} THEN {Task(at - Min({Depth, First}), at, "missing")}
    ELSE (IF at - Newest(rows) > ProductionSlo THEN {Task(Newest(rows), at, "stale")} ELSE {})
         \cup (IF Oldest(rows) > at - Depth
               THEN {Task(Max({at - Depth, Newest(rows) - Chunk}), Newest(rows), "shallow")} ELSE {})

planHistoryBackfillTasks(rows, at) ==
    IF rows = {} THEN {Task(at - Min({Depth, First}), at, "missing")}
    ELSE LET age == at - Newest(rows) IN
         (IF age > Slo THEN {Task(Newest(rows), at, "stale")}
          ELSE IF age > ProductionSlo THEN {Task(Newest(rows), at, "production_stale")} ELSE {})
         \cup (IF Oldest(rows) > at - Depth
               THEN {Task(Max({at - Depth, Oldest(rows) - Chunk}), Oldest(rows), "shallow")} ELSE {})

\* compareTasks: of one target, by reason.
Rank(task) == CASE task.reason = "production_stale" -> 0 [] task.reason = "stale" -> 1
                [] task.reason = "missing" -> 2 [] OTHER -> 3

PassBegins ==
    /\ pass = NoPass /\ passes > 0
    /\ LET tasks == planHistoryBackfillTasks(Observed, now) IN
       pass' = [at |-> now, planned |-> tasks,
                tasks |-> [i \in 1..Cardinality(tasks) |->
                              CHOOSE t \in tasks : Cardinality({u \in tasks : Rank(u) < Rank(t)}) = i - 1],
                whole |-> TRUE, written |-> 0]
    /\ passes' = passes - 1
    /\ UNCHANGED <<points, candles, now, counts, events, left>>

LiveRows(days, at) == {SourceRow(t, "live", "custom", Told[t], at) : t \in days}

\* The provider answers the window, the newest day of it only, or nothing; an error
\* is noted and the next task taken.
TaskAnswered ==
    /\ pass.tasks # <<>>
    /\ LET task == Head(pass.tasks) IN
       \E days \in {(task.from)..task.to, {task.to}, {}} :
         /\ points' = [points EXCEPT !["chart"] = Upserted(@, LiveRows(days, pass.at))]
         /\ pass' = [pass EXCEPT !.tasks = Tail(@), !.written = @ + Cardinality(days),
                                 !.whole = @ /\ days = (task.from)..task.to]
    /\ UNCHANGED <<candles, now, counts, events, left, passes>>

\* enforceSnapshotRetention goes by when a row was fetched, not by its day.
Kept(rows, at) == {r \in rows : r.fetched > at - Retention}

\* A pass that wrote something ends with the retention of all families.
PassEnds ==
    /\ pass # NoPass /\ pass.tasks = <<>>
    /\ points' = IF pass.written = 0 THEN points ELSE [f \in Families |-> Kept(points[f], pass.at)]
    /\ pass' = NoPass
    /\ UNCHANGED <<candles, now, counts, events, left, passes>>

\* The process ends where it is.
Crash == pass # NoPass /\ pass' = NoPass /\ UNCHANGED <<points, candles, now, counts, events, left, passes>>

-----------------------------------------------------------------------------
(* Everybody else. *)

Spends == left > 0 /\ left' = left - 1

ReplayRows(b) == {SourceRow(t, "replay", b.provider, b.told[t], b.captured) : t \in DOMAIN b.told}

\* A captured batch is replayed, perhaps long after it was captured.
Replayed ==
    /\ Spends
    /\ \E b \in Replays :
         /\ b.captured <= now
         /\ points' = [points EXCEPT ![b.family] = Upserted(@, ReplayRows(b))]
    /\ UNCHANGED <<candles, now, pass, counts, events, passes>>

\* A sync of a configured target, of any family, gets the days the provider chooses.
TargetSynced ==
    /\ Spends
    /\ \E f \in Families, t \in {now - 1, now} :
         points' = [g \in Families |->
                      Kept(IF g = f THEN Upserted(points[f], LiveRows({t}, now)) ELSE points[g], now)]
    /\ UNCHANGED <<candles, now, pass, counts, events, passes>>

CandleWritten ==
    /\ Spends
    /\ \E c \in Candles : candles' = {d \in candles : d.at # c.at} \cup {c}
    /\ UNCHANGED <<points, now, pass, counts, events, passes>>

Recorded(q) ==
    /\ counts' = [counts EXCEPT ![Label(q)] = @ + 1]
    /\ events' = IF Label(q) # "empty" THEN events
                 ELSE SubSeq(<<q>> \o events, 1, Min({EventLimit, Len(events) + 1}))

\* A route answers, and its label is recorded.
Asked ==
    /\ Spends
    /\ \E q \in Queries : Recorded(q)
    /\ UNCHANGED <<points, candles, now, pass, passes>>

Tick == now < MaxTime /\ now' = now + 1 /\ UNCHANGED <<points, candles, pass, counts, events, left, passes>>

Init ==
    /\ points = [f \in Families |-> {}] /\ candles = {}
    /\ now = Start /\ pass = NoPass
    /\ counts = [l \in Labels |-> 0] /\ events = <<>>
    /\ left = MaxChanges /\ passes = MaxPasses

Next ==
    \/ PassBegins \/ TaskAnswered \/ PassEnds \/ Crash
    \/ Replayed \/ TargetSynced \/ CandleWritten \/ Asked \/ Tick

Spec == Init /\ [][Next]_vars

-----------------------------------------------------------------------------
(* Properties. *)

\* A chart tells one thing of a day, and no stored row outranks it: a replay never
\* displaces what was fetched live, whichever came last.  A row that is left out is
\* less than a step after one that was taken, so that no stretch of a history goes
\* missing; and an answer is labelled empty if and only if it is.  Supplies and past
\* snapshots likewise (market-chart-ingestion.ts, supply-chart-ingestion.ts).
ChartsTrue ==
    \A q \in Queries :
      LET rows == points["chart"]
          outranked(r, s) == \/ r.kind = "replay" /\ s.kind = "live"
                             \/ r.kind = s.kind /\ r.fetched < s.fetched
          true(shown, of) == /\ \A r, s \in shown : r.at = s.at => r = s
                             /\ \A r \in shown, s \in of : s.at = r.at => ~outranked(r, s) IN
      /\ rows # {}
         => LET shown == SourceRows(q)  step == Step(rows, q) IN
            /\ true(shown, rows)
            /\ \A r \in Window(rows, q) :
                 \E s \in shown : s.at <= r.at /\ (s.at = r.at \/ r.at - s.at < step)
      /\ true(SupplyRows(q), points["supply"])
      /\ true({r \in getHistorySnapshot(q.to) : r \notin candles}, points["history"])
      /\ Label(q) = "empty" <=> buildChartPayload(q) = {}

\* A pass whose tasks were all answered has nothing of what it planned to plan again:
\* what is left to do is older than all of it or newer, and older where it planned up to
\* its own day (planHistoryBackfillTasks after syncMarketChartsFromCoveragePlan), unless
\* retention took rows away: its own, or that of others in a pass that lasted as long as
\* rows are kept.
PlanConverges ==
    [][ pass # NoPass /\ PassEnds /\ pass.whole /\ points' = points /\ now < pass.at + Retention
        => \A again \in planHistoryBackfillTasks(Observed, pass.at), task \in pass.planned :
             /\ again.to <= task.from \/ again.from >= task.to
             /\ task.to = pass.at => again.reason = "shallow" ]_vars
=============================================================================
