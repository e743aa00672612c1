---------------------------- MODULE ProviderFanout ----------------------------
(***************************************************************************)
(* services/provider-readiness-coordinator.ts, and mapWithConcurrency of   *)
(* lib/async.ts, which is the same without a budget: some items are worked *)
(* on at a time, in order; each ends with a result; a budget that expires  *)
(* gives the others one and ends the fan-out.  Operators over its record.  *)
(***************************************************************************)
EXTENDS Naturals, FiniteSets

Result == {"none", "ok", "failed", "timeout", "skipped"}

\* normalizeReadinessConcurrency
Slots(concurrency, n) == IF n < concurrency THEN n ELSE concurrency

\* startNext fills the free slots, in the order of the items.
StartNext(f, concurrency) ==
    LET left == f.size + 1 - f.next
        k == Slots(Slots(concurrency, f.size) - Cardinality(f.active), left) IN
    IF f.resolved THEN f
    ELSE [f EXCEPT !.next = @ + k, !.active = @ \cup (f.next .. f.next + k - 1)]

Fanout(n, concurrency) ==
    StartNext([size |-> n, next |-> 1, active |-> {}, resolved |-> n = 0,
               results |-> [i \in 1..n |-> "none"]], concurrency)

Settled(f, i, r) == [f EXCEPT !.results[i] = r, !.active = @ \ {i}]

\* Mutant: who has settled leaves its slot empty.
AnsweredSlotLost(f, i, r, concurrency) ==
    LET g == Settled(f, i, r) IN
    [g EXCEPT !.resolved = \A j \in 1..f.size : g.results[j] # "none"]

\* An item settles; the last one resolves the fan-out, another makes room.
Answered(f, i, r, concurrency) ==
    LET g == Settled(f, i, r) IN
    IF \A j \in 1..f.size : g.results[j] # "none" THEN [g EXCEPT !.resolved = TRUE]
    ELSE StartNext(g, concurrency)

\* Mutant: the budget settles every item, whether it has answered or not.
ExpiredForAll(f) ==
    [f EXCEPT !.resolved = TRUE, !.active = {},
              !.results = [i \in 1..f.size |-> IF i < f.next THEN "timeout" ELSE "skipped"]]

\* settleMissingBudgetResults: what runs is aborted, and what it may still answer
\* is ignored; what never started is skipped.
Expired(f) ==
    [f EXCEPT !.resolved = TRUE, !.active = {},
              !.results = [i \in 1..f.size |-> IF @[i] # "none" THEN @[i]
                                               ELSE IF i < f.next THEN "timeout" ELSE "skipped"]]
=============================================================================
