----------------------------- MODULE MarketRefresh -----------------------------
(***************************************************************************)
(* runMarketRefreshOnce of services/market-refresh.ts as the market-refresh*)
(* job of several API processes and the command                            *)
(* jobs/refresh-market-snapshots.ts run it on one SQLite file, under the   *)
(* work lease and the revisions of db/sqlite-coordination.ts.  An action is*)
(* one statement or transaction, or the code between two awaits.  Instants *)
(* are kept as ticks that remain or have passed.                           *)
(***************************************************************************)
EXTENDS ProviderBreaker, FiniteSets

CONSTANTS
    Process,
    Command,        \* processes that call the refresh without a runtime state
    Exchange,       \* config.ccxtExchanges
    LeaseTtl,       \* DEFAULT_SQLITE_WORK_LEASE_TTL_MS
    Cooldown,       \* PROVIDER_FAILURE_COOLDOWN_MS
    Forcing,        \* processes whose validator routes are open
    NoOne, Lost,    \* lease holders: lease_owner NULL; a token no refresh holds any more
    MaxRevision     \* bound: the revision stays here

ASSUME RefreshAssumption ==
    /\ Command \subseteq Process /\ Forcing \subseteq Process \ Command
    /\ Exchange # {}
    /\ LeaseTtl \in Nat \ {0} /\ Cooldown \in Nat
    /\ {NoOne, Lost} \cap Process = {} /\ NoOne # Lost
    /\ MaxRevision \in Nat \ {0}

VARIABLES
    lease,      \* the market_refresh row of opengecko_sqlite_work_leases
    revision,   \* its row of opengecko_sqlite_refresh_revisions
    runtime,    \* MarketDataRuntimeState, per process: its provider fields
    refresh     \* the refresh in flight, per process

vars == <<lease, revision, runtime, refresh>>

-----------------------------------------------------------------------------
Earlier(a, b) == IF a <= b THEN a ELSE b
Elapsed(n) == IF n = 0 THEN 0 ELSE n - 1
Left(total, passed) == IF passed >= total THEN 0 ELSE total - passed

MaxAge == IF LeaseTtl >= Cooldown THEN LeaseTtl ELSE Cooldown

FreeLease == [holder |-> NoOne, left |-> 0]

FreshRuntime ==
    [cooldown |-> 0, breakers |-> [x \in Exchange |-> createEntry], forced |-> FALSE]

\* age counts from startTime; read is the revision a failure has read.
Idle == [pc |-> "idle", attempted |-> {}, age |-> 0, read |-> 0, ok |-> FALSE]
Down == [Idle EXCEPT !.pc = "down"]

Init ==
    /\ lease = FreeLease
    /\ revision = [number |-> 0, status |-> "absent"]
    /\ runtime = [p \in Process |-> FreshRuntime]
    /\ refresh = [p \in Process |-> Idle]

Goes(p, r) == refresh' = [refresh EXCEPT ![p] = r]

-----------------------------------------------------------------------------
\* Up to the lease, a refresh runs without an await.  A forced failure throws,
\* which changes nothing here.
Begins(p) ==
    /\ refresh[p].pc = "idle"
    /\ ~runtime[p].forced

Attemptable(p) == {x \in Exchange : canAttemptProvider(runtime[p].breakers[x])}

AllChecked(p) == [x \in Exchange |-> Checked(runtime[p].breakers[x])]

\* Mutant: a lease is also taken at its last instant.
LeaseFreeEarly == lease.holder = NoOne \/ lease.left <= 1

\* Mutant: only a released lease may be taken.
LeaseFreeReleased == lease.holder = NoOne

LeaseFree == lease.holder = NoOne \/ lease.left = 0

\* The cooldown is over and some breaker lets its provider through.
Cleared(p) == Begins(p) /\ runtime[p].cooldown = 0 /\ Attemptable(p) # {}

\* The job takes every return for a success: recordMarketRefreshSuccess
\* clears the cooldown.
CooldownSkips(p) ==
    /\ Begins(p)
    /\ runtime[p].cooldown > 0
    /\ runtime' = [runtime EXCEPT ![p].cooldown = 0]
    /\ UNCHANGED <<lease, revision, refresh>>

acquireSqliteWorkLease(p) ==
    /\ Cleared(p)
    /\ LeaseFree
    /\ lease' = [holder |-> p, left |-> LeaseTtl]
    /\ runtime' = [runtime EXCEPT ![p].breakers = AllChecked(p)]
    /\ Goes(p, [Idle EXCEPT !.pc = "catalog", !.attempted = Attemptable(p)])
    /\ UNCHANGED revision

\* Another refresh holds the lease, or the database stays locked: the check of
\* the breakers has happened.
LeaseNotAcquired(p) ==
    /\ Cleared(p)
    /\ runtime' = [runtime EXCEPT ![p].breakers = AllChecked(p)]
    /\ UNCHANGED <<lease, revision, refresh>>

\* syncCoinCatalogFromExchanges: an exchange's failure is logged, a failed
\* write is thrown.
CatalogSynced(p) ==
    /\ refresh[p].pc = "catalog"
    /\ Goes(p, [refresh[p] EXCEPT !.pc = "tickers"])
    /\ UNCHANGED <<lease, revision, runtime>>

CatalogFails(p) ==
    /\ refresh[p].pc = "catalog"
    /\ Goes(p, [refresh[p] EXCEPT !.pc = "release"])
    /\ UNCHANGED <<lease, revision, runtime>>

\* The breakers once the exchanges in failed have failed.
Recorded(p, failed, backoff) ==
    [x \in Exchange |->
        IF x \notin refresh[p].attempted THEN runtime[p].breakers[x]
        ELSE IF x \in failed THEN recordProviderFailure(runtime[p].breakers[x], backoff[x])
        ELSE recordProviderSuccess(runtime[p].breakers[x])]

NextBackoffs(e) == computeBackoffs(recordProviderFailure(e, 0).failureCount)

\* The fan-out is over, and some exchanges failed.
TickersFetched(p) ==
    /\ refresh[p].pc = "tickers"
    /\ \E failed \in SUBSET refresh[p].attempted :
          LET allFailed == failed = refresh[p].attempted
              cooldown == IF allFailed THEN Left(Cooldown, refresh[p].age) ELSE 0
          IN  /\ Goes(p, [refresh[p] EXCEPT !.pc = IF allFailed THEN "release" ELSE "persist"])
              /\ IF p \in Command THEN UNCHANGED runtime
                 ELSE \E backoff \in [Exchange -> 0..MaxBackoff] :
                         /\ \A x \in failed : backoff[x] \in NextBackoffs(runtime[p].breakers[x])
                         /\ \A x \in Exchange \ failed : backoff[x] = 0
                         /\ runtime' = [runtime EXCEPT
                               ![p] = [@ EXCEPT !.cooldown = cooldown,
                                                !.breakers = Recorded(p, failed, backoff)]]
    /\ UNCHANGED <<lease, revision>>

\* The immediate transaction: snapshots, tickers and the revision, or nothing.
PersistCommits(p) ==
    /\ refresh[p].pc = "persist"
    /\ revision' = [number |-> Earlier(revision.number + 1, MaxRevision), status |-> "committed"]
    /\ Goes(p, [refresh[p] EXCEPT !.pc = "release", !.ok = TRUE])
    /\ UNCHANGED <<lease, runtime>>

PersistRollsBack(p) ==
    /\ refresh[p].pc = "persist"
    /\ Goes(p, [refresh[p] EXCEPT !.pc = "failed"])
    /\ UNCHANGED <<lease, revision, runtime>>

\* Mutant: a family that has no revision yet yields none.
RevisionReadUndefined == IF revision.status = "absent" THEN NoOne ELSE revision.number

RevisionRead == IF revision.status = "absent" THEN 0 ELSE revision.number

\* recordSqliteRefreshFailed: a read, then an upsert, each on its own.
ReadRevision(p) ==
    /\ refresh[p].pc = "failed"
    /\ Goes(p, [refresh[p] EXCEPT !.pc = "degrade", !.read = RevisionRead])
    /\ UNCHANGED <<lease, revision, runtime>>

\* Mutant: the upsert writes the revision it has read.
DegradedOverwritten(read) == [number |-> read, status |-> "degraded"]

\* Only an insert writes the revision that was read.
Degraded(read) ==
    [number |-> IF revision.status = "absent" THEN read ELSE revision.number,
     status |-> "degraded"]

RecordFailed(p) ==
    /\ refresh[p].pc = "degrade"
    /\ revision' = Degraded(refresh[p].read)
    /\ Goes(p, [refresh[p] EXCEPT !.pc = "release"])
    /\ UNCHANGED <<lease, runtime>>

RecordFails(p) ==
    /\ refresh[p].pc \in {"failed", "degrade"}
    /\ Goes(p, [refresh[p] EXCEPT !.pc = "release"])
    /\ UNCHANGED <<lease, revision, runtime>>

\* The UPDATE matches the owner and the token of this refresh.
LeaseReleased(p) == IF lease.holder = p THEN FreeLease ELSE lease

\* The finally, and the job's record of how the refresh ended.
releaseSqliteWorkLease(p) ==
    /\ refresh[p].pc = "release"
    /\ lease' = LeaseReleased(p)
    /\ runtime' = [runtime EXCEPT ![p].cooldown = IF refresh[p].ok THEN 0 ELSE @]
    /\ Goes(p, Idle)
    /\ UNCHANGED revision

\* A lease whose refresh is gone.
Abandoned(p) == IF lease.holder = p THEN [lease EXCEPT !.holder = Lost] ELSE lease

\* The database stays locked: the finally throws.
ReleaseFails(p) ==
    /\ refresh[p].pc = "release"
    /\ lease' = Abandoned(p)
    /\ Goes(p, Idle)
    /\ UNCHANGED <<revision, runtime>>

-----------------------------------------------------------------------------
\* A validator's request is served while the process waits.
Waits(p) == refresh[p].pc \in {"idle", "catalog", "tickers"}

recordForcedProviderFailure(p, active) ==
    /\ p \in Forcing
    /\ Waits(p)
    /\ runtime' = [runtime EXCEPT
          ![p] = [@ EXCEPT !.forced = active,
                           !.cooldown = IF active THEN runtime[p].cooldown ELSE 0]]
    /\ UNCHANGED <<lease, revision, refresh>>

Crash(p) ==
    /\ refresh[p].pc # "down"
    /\ lease' = Abandoned(p)
    /\ runtime' = [runtime EXCEPT ![p] = FreshRuntime]
    /\ Goes(p, Down)
    /\ UNCHANGED revision

\* The refresh of the initial sync is the first of the new process.
Restart(p) ==
    /\ refresh[p].pc = "down"
    /\ Goes(p, Idle)
    /\ UNCHANGED <<lease, revision, runtime>>

Cooling(breakers) == [x \in Exchange |-> [breakers[x] EXCEPT !.openedLeft = Elapsed(@)]]

Tick ==
    /\ lease' = [lease EXCEPT !.left = Elapsed(@)]
    /\ runtime' = [p \in Process |->
          [runtime[p] EXCEPT !.cooldown = Elapsed(@), !.breakers = Cooling(@)]]
    /\ refresh' = [p \in Process |->
          IF refresh[p].pc \in {"idle", "down"} THEN refresh[p]
          ELSE [refresh[p] EXCEPT !.age = Earlier(@ + 1, MaxAge)]]
    /\ UNCHANGED revision

Starts(p) == CooldownSkips(p) \/ acquireSqliteWorkLease(p) \/ LeaseNotAcquired(p)

Progress(p) ==
    \/ CatalogSynced(p) \/ CatalogFails(p) \/ TickersFetched(p)
    \/ PersistCommits(p) \/ PersistRollsBack(p) \/ ReadRevision(p)
    \/ RecordFailed(p) \/ RecordFails(p) \/ releaseSqliteWorkLease(p) \/ ReleaseFails(p)

Next ==
    \/ \E p \in Process : Starts(p) \/ Progress(p) \/ Crash(p) \/ Restart(p)
    \/ \E p \in Process, active \in BOOLEAN : recordForcedProviderFailure(p, active)
    \/ Tick

Spec == Init /\ [][Next]_vars

\* Time passes; an await ends; the job runs again and again.  A process may
\* crash at any point but not before every refresh for ever, and the database
\* is not locked at every attempt.
FairSpec ==
    /\ Spec
    /\ WF_vars(Tick)
    /\ \A p \in Process :
          /\ WF_vars(Progress(p)) /\ WF_vars(Restart(p))
          /\ SF_vars(acquireSqliteWorkLease(p)) /\ WF_vars(Starts(p))

-----------------------------------------------------------------------------
LeaseRow == [holder : Process \cup {NoOne, Lost}, left : 0..LeaseTtl]

RevisionRow == [number : 0..MaxRevision, status : {"absent", "committed", "degraded"}]

RuntimeState ==
    [cooldown : 0..Cooldown, breakers : [Exchange -> BreakerEntry], forced : BOOLEAN]

RefreshState ==
    [pc : {"idle", "down", "catalog", "tickers", "persist", "failed", "degrade", "release"},
     attempted : SUBSET Exchange, age : 0..MaxAge, read : 0..MaxRevision, ok : BOOLEAN]

TypeOK ==
    /\ lease \in LeaseRow
    /\ revision \in RevisionRow
    /\ runtime \in [Process -> RuntimeState]
    /\ refresh \in [Process -> RefreshState]

Working(p) == refresh[p].pc \notin {"idle", "down"}

InTime(p) == Working(p) /\ refresh[p].age < LeaseTtl

\* Two refreshes are at work together only when one of them has outlived its
\* lease, whichever crashed, hung or released late.
LiveHoldersAlone == \A p, q \in Process : InTime(p) /\ InTime(q) => p = q

\* The published revision never goes back, although a failure writes the row
\* on the strength of an earlier read.
RevisionNeverRegresses == [][revision'.number >= revision.number]_vars

\* The lease of a crashed refresh, or one whose release failed, is taken over.
AbandonedLeaseRetaken == lease.holder = Lost ~> lease.holder # Lost

\* A breaker that opened lets its provider be tried again, unless a validator
\* forces failures.
OpenBreakerProbed ==
    \A p \in Process, x \in Exchange :
        runtime[p].breakers[x].status = "open"
        ~> runtime[p].breakers[x].status # "open" \/ runtime[p].forced

\* tests/market-refresh.test.ts: after all exchanges failed, refreshes are
\* short-circuited until the cooldown expires or a refresh goes through.
CooldownHeld ==
    [][\A p \in Process :
          runtime[p].cooldown > 1 /\ runtime'[p].cooldown = 0
          => refresh'[p].pc # refresh[p].pc]_vars
=============================================================================
