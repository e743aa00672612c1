-------------------------- MODULE MarketRefreshProofs --------------------------
(***************************************************************************)
(* Proofs about MarketRefresh for any processes, exchanges and durations.  *)
(***************************************************************************)
EXTENDS MarketRefresh, TLAPS

\* A refresh within its time holds the lease, and as much of it is left as
\* the refresh has not used.
HoldsLease(p) ==
    InTime(p) => lease.holder = p /\ lease.left = LeaseTtl - refresh[p].age

Inv == TypeOK /\ \A p \in Process : HoldsLease(p)

LEMMA Constant ==
    /\ LeaseTtl \in Nat \ {0} /\ Cooldown \in Nat /\ MaxAge \in Nat
    /\ LeaseTtl <= MaxAge /\ Cooldown <= MaxAge
    /\ MaxRevision \in Nat \ {0} /\ MaxFailures \in Nat \ {0} /\ MaxBackoff \in Nat
    /\ NoOne \notin Process /\ Lost \notin Process
BY RefreshAssumption, BreakerAssumption DEF MaxAge

LEMMA ElapsedType ==
    ASSUME NEW n \in Nat, NEW m \in 0..n
    PROVE  Elapsed(m) \in 0..n
BY DEF Elapsed

-----------------------------------------------------------------------------
\* The breaker's operators keep the type of an entry.
LEMMA BreakerTypes ==
    /\ createEntry \in BreakerEntry
    /\ \A e \in BreakerEntry : Checked(e) \in BreakerEntry
    /\ \A e \in BreakerEntry : recordProviderSuccess(e) \in BreakerEntry
    /\ \A e \in BreakerEntry, b \in 0..MaxBackoff : recordProviderFailure(e, b) \in BreakerEntry
    /\ \A e \in BreakerEntry : [e EXCEPT !.openedLeft = Elapsed(@)] \in BreakerEntry
<1>1. createEntry \in BreakerEntry
    BY Constant DEF createEntry, BreakerEntry
<1>2. ASSUME NEW e \in BreakerEntry
      PROVE  Checked(e) \in BreakerEntry
    <2>1. [e EXCEPT !.status = "half_open"] \in BreakerEntry
        BY Zenon DEF BreakerEntry
    <2> QED
        BY <2>1 DEF Checked
<1>3. ASSUME NEW e \in BreakerEntry, NEW b \in 0..MaxBackoff
      PROVE  recordProviderFailure(e, b) \in BreakerEntry
    BY Constant DEF recordProviderFailure, BreakerEntry
<1>4. ASSUME NEW e \in BreakerEntry
      PROVE  [e EXCEPT !.openedLeft = Elapsed(@)] \in BreakerEntry
    <2>1. Elapsed(e.openedLeft) \in 0..MaxBackoff
        BY ElapsedType, Constant DEF BreakerEntry
    <2> QED
        BY <2>1, Zenon DEF BreakerEntry
<1> QED
    BY <1>1, <1>2, <1>3, <1>4 DEF recordProviderSuccess

-----------------------------------------------------------------------------
\* The states a refresh is given.
LEMMA RefreshTypes ==
    /\ Idle \in RefreshState /\ Down \in RefreshState
    /\ \A a \in SUBSET Exchange :
          [Idle EXCEPT !.pc = "catalog", !.attempted = a] \in RefreshState
    /\ \A r \in RefreshState :
          /\ \A to \in {"tickers", "persist", "failed", "release"} :
                [r EXCEPT !.pc = to] \in RefreshState
          /\ [r EXCEPT !.pc = "release", !.ok = TRUE] \in RefreshState
          /\ \A n \in 0..MaxRevision : [r EXCEPT !.pc = "degrade", !.read = n] \in RefreshState
          /\ \A n \in 0..MaxAge : [r EXCEPT !.age = n] \in RefreshState
<1>1. Idle \in RefreshState
    BY Constant DEF Idle, RefreshState
<1>2. Down \in RefreshState
    BY <1>1, Zenon DEF Down, RefreshState
<1>3. \A a \in SUBSET Exchange :
        [Idle EXCEPT !.pc = "catalog", !.attempted = a] \in RefreshState
    BY <1>1, Zenon DEF RefreshState
<1>4. ASSUME NEW r \in RefreshState
      PROVE  /\ \A to \in {"tickers", "persist", "failed", "release"} :
                   [r EXCEPT !.pc = to] \in RefreshState
             /\ [r EXCEPT !.pc = "release", !.ok = TRUE] \in RefreshState
             /\ \A n \in 0..MaxRevision : [r EXCEPT !.pc = "degrade", !.read = n] \in RefreshState
             /\ \A n \in 0..MaxAge : [r EXCEPT !.age = n] \in RefreshState
    BY Zenon DEF RefreshState
<1> QED
    BY <1>1, <1>2, <1>3, <1>4

\* Every refresh is typed and holds its lease.
RefreshOK == refresh \in [Process -> RefreshState] /\ \A p \in Process : HoldsLease(p)

\* A refresh goes on under its lease.
LEMMA WorkGoesOn ==
    ASSUME Inv, NEW p \in Process, NEW r \in RefreshState,
           Goes(p, r), lease' = lease, Working(p), r.age = refresh[p].age
    PROVE  RefreshOK'
<1>1. refresh' \in [Process -> RefreshState] /\ refresh'[p] = r
    BY DEF Goes, Inv, TypeOK
<1>2. ASSUME NEW q \in Process
      PROVE  HoldsLease(q)'
    <2>1. CASE q = p
        BY <2>1, <1>1 DEF Inv, HoldsLease, InTime, Working
    <2>2. CASE q # p
        <3>1. refresh'[q] = refresh[q]
            BY <2>2 DEF Goes, Inv, TypeOK
        <3> QED
            BY <3>1 DEF Inv, HoldsLease, InTime, Working
    <2> QED
        BY <2>1, <2>2
<1> QED
    BY <1>1, <1>2 DEF RefreshOK

\* A refresh ends, and the lease changes only if it was its own.
LEMMA WorkEnds ==
    ASSUME Inv, NEW p \in Process, NEW r \in RefreshState,
           Goes(p, r), lease.holder # p => lease' = lease, r.pc \in {"idle", "down"}
    PROVE  RefreshOK'
<1>1. refresh' \in [Process -> RefreshState] /\ refresh'[p] = r
    BY DEF Goes, Inv, TypeOK
<1>2. ASSUME NEW q \in Process
      PROVE  HoldsLease(q)'
    <2>1. CASE q = p
        BY <2>1, <1>1 DEF HoldsLease, InTime, Working
    <2>2. CASE q # p
        <3>1. refresh'[q] = refresh[q]
            BY <2>2 DEF Goes, Inv, TypeOK
        <3> QED
            BY <3>1, <2>2 DEF Inv, HoldsLease, InTime, Working
    <2> QED
        BY <2>1, <2>2
<1> QED
    BY <1>1, <1>2 DEF RefreshOK

\* Nobody is within its time when a lease is taken.
LEMMA LeaseTaken ==
    ASSUME Inv, NEW p \in Process, acquireSqliteWorkLease(p)
    PROVE  RefreshOK'
<1> DEFINE r == [Idle EXCEPT !.pc = "catalog", !.attempted = Attemptable(p)]
<1>1. r \in RefreshState /\ r.age = 0
    <2>1. Attemptable(p) \in SUBSET Exchange
        BY DEF Attemptable
    <2>2. r.age = Idle.age
        BY DEF Idle
    <2> QED
        BY <2>1, <2>2, RefreshTypes DEF Idle
<1>2. Goes(p, r) /\ LeaseFree /\ lease' = [holder |-> p, left |-> LeaseTtl]
    BY DEF acquireSqliteWorkLease
<1> HIDE DEF r
<1>3. refresh' \in [Process -> RefreshState] /\ refresh'[p] = r
    BY <1>1, <1>2 DEF Goes, Inv, TypeOK
<1>4. ASSUME NEW q \in Process
      PROVE  HoldsLease(q)'
    <2>1. CASE q = p
        BY <2>1, <1>1, <1>2, <1>3, Constant DEF HoldsLease
    <2>2. CASE q # p
        <3>1. refresh'[q] = refresh[q]
            BY <2>2, <1>2 DEF Goes, Inv, TypeOK
        <3>2. refresh[q].age \in Nat
            BY DEF Inv, TypeOK, RefreshState
        <3>3. ~InTime(q)
            BY <3>2, <1>2, Constant DEF LeaseFree, Inv, HoldsLease, InTime
        <3> QED
            BY <3>1, <3>3 DEF HoldsLease, InTime, Working
    <2> QED
        BY <2>1, <2>2
<1> QED
    BY <1>3, <1>4 DEF RefreshOK

\* The clock moves the lease and its refresh together.
LEMMA LeaseTicks ==
    ASSUME Inv, Tick
    PROVE  RefreshOK'
<1>1. ASSUME NEW q \in Process
      PROVE  refresh'[q] \in RefreshState /\ HoldsLease(q)'
    <2>1. refresh[q] \in RefreshState
        BY DEF Inv, TypeOK
    <2>2. CASE refresh[q].pc \in {"idle", "down"}
        <3>1. refresh'[q] = refresh[q]
            BY <2>2 DEF Tick
        <3> QED
            BY <2>1, <2>2, <3>1 DEF HoldsLease, InTime, Working
    <2>3. CASE refresh[q].pc \notin {"idle", "down"}
        <3> DEFINE n == Earlier(refresh[q].age + 1, MaxAge)
        <3>1. refresh[q].age \in 0..MaxAge
            BY <2>1 DEF RefreshState
        <3>2. n \in 0..MaxAge /\ (n < LeaseTtl => n = refresh[q].age + 1)
            BY <3>1, Constant DEF Earlier
        <3>3. refresh'[q] = [refresh[q] EXCEPT !.age = n]
            BY <2>3 DEF Tick
        <3> HIDE DEF n
        <3>4. refresh'[q] \in RefreshState
            BY <2>1, <3>2, <3>3, RefreshTypes
        <3>5. refresh'[q].age = n
            BY <2>1, <3>3 DEF RefreshState
        <3>6. lease'.holder = lease.holder /\ lease'.left = Elapsed(lease.left)
            BY DEF Tick, Inv, TypeOK, LeaseRow
        <3>7. HoldsLease(q)'
            <4>1. SUFFICES ASSUME InTime(q)'
                           PROVE  lease'.holder = q /\ lease'.left = LeaseTtl - n
                BY <3>5 DEF HoldsLease
            <4>2. n = refresh[q].age + 1
                BY <4>1, <3>2, <3>5 DEF InTime
            <4>3. InTime(q)
                BY <4>1, <4>2, <3>1, <3>5, <2>3, Constant DEF InTime, Working
            <4>4. lease.holder = q /\ lease.left = LeaseTtl - refresh[q].age
                BY <4>3 DEF Inv, HoldsLease
            <4> QED
                BY <4>1, <4>2, <4>4, <3>1, <3>5, <3>6, Constant DEF Elapsed, InTime
        <3> QED
            BY <3>4, <3>7
    <2> QED
        BY <2>2, <2>3
<1>2. refresh' = [q \in Process |-> refresh'[q]]
    BY DEF Tick
<1> QED
    BY <1>1, <1>2 DEF RefreshOK

-----------------------------------------------------------------------------
\* What the steps write into the lease, the revision and the runtime state.
LEMMA RowTypes ==
    ASSUME Inv, NEW p \in Process
    PROVE  /\ [holder |-> p, left |-> LeaseTtl] \in LeaseRow
           /\ LeaseReleased(p) \in LeaseRow /\ Abandoned(p) \in LeaseRow
           /\ [lease EXCEPT !.left = Elapsed(@)] \in LeaseRow
           /\ [number |-> Earlier(revision.number + 1, MaxRevision), status |-> "committed"]
                 \in RevisionRow
           /\ RevisionRead \in 0..MaxRevision
           /\ \A n \in 0..MaxRevision : Degraded(n) \in RevisionRow
<1>1. lease \in LeaseRow /\ revision \in RevisionRow
    BY DEF Inv, TypeOK
<1>2. [holder |-> p, left |-> LeaseTtl] \in LeaseRow /\ LeaseReleased(p) \in LeaseRow
    BY <1>1, Constant DEF LeaseRow, LeaseReleased, FreeLease
<1>3. Abandoned(p) \in LeaseRow
    BY <1>1, Zenon DEF LeaseRow, Abandoned
<1>4. [lease EXCEPT !.left = Elapsed(@)] \in LeaseRow
    <2>1. Elapsed(lease.left) \in 0..LeaseTtl
        BY <1>1, ElapsedType, Constant DEF LeaseRow
    <2> QED
        BY <1>1, <2>1, Zenon DEF LeaseRow
<1>5. [number |-> Earlier(revision.number + 1, MaxRevision), status |-> "committed"]
        \in RevisionRow
    BY <1>1, Constant DEF RevisionRow, Earlier
<1>6. RevisionRead \in 0..MaxRevision /\ \A n \in 0..MaxRevision : Degraded(n) \in RevisionRow
    BY <1>1, Constant DEF RevisionRow, RevisionRead, Degraded
<1> QED
    BY <1>2, <1>3, <1>4, <1>5, <1>6

\* One runtime state is replaced by another.
LEMMA RuntimeSet ==
    ASSUME Inv, NEW p \in Process, NEW s \in RuntimeState,
           runtime' = [runtime EXCEPT ![p] = s]
    PROVE  runtime' \in [Process -> RuntimeState]
BY DEF Inv, TypeOK

\* The runtime states the steps set.
LEMMA RuntimeTypes ==
    /\ FreshRuntime \in RuntimeState
    /\ \A s \in RuntimeState :
          /\ \A n \in 0..Cooldown : [s EXCEPT !.cooldown = n] \in RuntimeState
          /\ \A b \in [Exchange -> BreakerEntry] : [s EXCEPT !.breakers = b] \in RuntimeState
          /\ \A n \in 0..Cooldown, b \in [Exchange -> BreakerEntry] :
                [s EXCEPT !.cooldown = n, !.breakers = b] \in RuntimeState
          /\ \A n \in 0..Cooldown, f \in BOOLEAN :
                [s EXCEPT !.forced = f, !.cooldown = n] \in RuntimeState
<1>1. FreshRuntime \in RuntimeState
    BY BreakerTypes, Constant DEF FreshRuntime, RuntimeState
<1>2. ASSUME NEW s \in RuntimeState
      PROVE  /\ \A n \in 0..Cooldown : [s EXCEPT !.cooldown = n] \in RuntimeState
             /\ \A b \in [Exchange -> BreakerEntry] : [s EXCEPT !.breakers = b] \in RuntimeState
             /\ \A n \in 0..Cooldown, b \in [Exchange -> BreakerEntry] :
                   [s EXCEPT !.cooldown = n, !.breakers = b] \in RuntimeState
             /\ \A n \in 0..Cooldown, f \in BOOLEAN :
                   [s EXCEPT !.forced = f, !.cooldown = n] \in RuntimeState
    BY Zenon DEF RuntimeState
<1> QED
    BY <1>1, <1>2

LEMMA AllCheckedType ==
    ASSUME Inv, NEW p \in Process
    PROVE  AllChecked(p) \in [Exchange -> BreakerEntry]
<1>1. runtime[p].breakers \in [Exchange -> BreakerEntry]
    BY DEF Inv, TypeOK, RuntimeState
<1>2. \A x \in Exchange : Checked(runtime[p].breakers[x]) \in BreakerEntry
    BY <1>1, BreakerTypes
<1> QED
    BY <1>2 DEF AllChecked

LEMMA RecordedType ==
    ASSUME Inv, NEW p \in Process, NEW failed, NEW backoff \in [Exchange -> 0..MaxBackoff]
    PROVE  Recorded(p, failed, backoff) \in [Exchange -> BreakerEntry]
<1>1. runtime[p].breakers \in [Exchange -> BreakerEntry]
    BY DEF Inv, TypeOK, RuntimeState
<1>2. ASSUME NEW x \in Exchange
      PROVE  /\ runtime[p].breakers[x] \in BreakerEntry
             /\ recordProviderFailure(runtime[p].breakers[x], backoff[x]) \in BreakerEntry
             /\ recordProviderSuccess(runtime[p].breakers[x]) \in BreakerEntry
    BY <1>1, BreakerTypes
<1> QED
    BY <1>2 DEF Recorded

-----------------------------------------------------------------------------
LEMMA InitInv == Init => Inv
<1> SUFFICES ASSUME Init PROVE Inv
    OBVIOUS
<1>1. TypeOK
    <2>1. FreeLease \in LeaseRow
        BY Constant DEF FreeLease, LeaseRow
    <2>2. [number |-> 0, status |-> "absent"] \in RevisionRow
        BY Constant DEF RevisionRow
    <2>3. Idle \in RefreshState /\ FreshRuntime \in RuntimeState
        BY RefreshTypes, RuntimeTypes
    <2> QED
        BY <2>1, <2>2, <2>3 DEF Init, TypeOK
<1>2. \A p \in Process : ~Working(p)
    BY DEF Init, Working, Idle
<1> QED
    BY <1>1, <1>2 DEF Inv, HoldsLease, InTime

\* The steps a refresh starts with.
LEMMA StartsKeep ==
    ASSUME Inv, NEW p \in Process, Starts(p)
    PROVE  Inv'
<1> DEFINE s == runtime[p]
<1>1. s \in RuntimeState
    BY DEF Inv, TypeOK
<1>2. AllChecked(p) \in [Exchange -> BreakerEntry]
    BY AllCheckedType
<1>3. CASE CooldownSkips(p)
    <2>1. runtime' = [runtime EXCEPT ![p] = [s EXCEPT !.cooldown = 0]]
        BY <1>3 DEF CooldownSkips
    <2>2. [s EXCEPT !.cooldown = 0] \in RuntimeState
        <3>1. 0 \in 0..Cooldown
            BY Constant
        <3> HIDE DEF s
        <3> QED
            BY <1>1, <3>1, RuntimeTypes, Zenon
    <2>3. runtime' \in [Process -> RuntimeState]
        BY <2>1, <2>2, RuntimeSet
    <2> QED
        BY <1>3, <2>3 DEF CooldownSkips, Inv, TypeOK, HoldsLease, InTime, Working
<1>4. ASSUME runtime' = [runtime EXCEPT ![p].breakers = AllChecked(p)]
      PROVE  runtime' \in [Process -> RuntimeState]
    <2>1. [s EXCEPT !.breakers = AllChecked(p)] \in RuntimeState
        BY <1>1, <1>2, RuntimeTypes
    <2>2. runtime' = [runtime EXCEPT ![p] = [s EXCEPT !.breakers = AllChecked(p)]]
        BY <1>4
    <2> QED
        BY <2>1, <2>2, RuntimeSet
<1>5. CASE acquireSqliteWorkLease(p)
    <2>1. runtime' \in [Process -> RuntimeState] /\ lease' \in LeaseRow
        BY <1>4, <1>5, RowTypes DEF acquireSqliteWorkLease
    <2> QED
        BY <1>5, <2>1, LeaseTaken DEF acquireSqliteWorkLease, Inv, TypeOK, RefreshOK
<1>6. CASE LeaseNotAcquired(p)
    <2>1. runtime' \in [Process -> RuntimeState]
        BY <1>4, <1>6 DEF LeaseNotAcquired
    <2> QED
        BY <1>6, <2>1 DEF LeaseNotAcquired, Inv, TypeOK, HoldsLease, InTime, Working
<1> QED
    BY <1>3, <1>5, <1>6 DEF Starts

\* The fan-out's end: the breakers and the cooldown are recorded.
LEMMA FetchKeeps ==
    ASSUME Inv, NEW p \in Process, TickersFetched(p)
    PROVE  Inv'
<1> DEFINE s == runtime[p]
<1>1. s \in RuntimeState /\ refresh[p] \in RefreshState
    BY DEF Inv, TypeOK
<1>2. PICK failed \in SUBSET refresh[p].attempted :
        LET allFailed == failed = refresh[p].attempted
            cooldown == IF allFailed THEN Left(Cooldown, refresh[p].age) ELSE 0
        IN  /\ Goes(p, [refresh[p] EXCEPT !.pc = IF allFailed THEN "release" ELSE "persist"])
            /\ IF p \in Command THEN UNCHANGED runtime
               ELSE \E backoff \in [Exchange -> 0..MaxBackoff] :
                       /\ \A x \in failed : backoff[x] \in NextBackoffs(runtime[p].breakers[x])
                       /\ \A x \in Exchange \ failed : backoff[x] = 0
                       /\ runtime' = [runtime EXCEPT
                             ![p] = [@ EXCEPT !.cooldown = cooldown,
                                              !.breakers = Recorded(p, failed, backoff)]]
    BY DEF TickersFetched
<1> DEFINE to == IF failed = refresh[p].attempted THEN "release" ELSE "persist"
           cooldown == IF failed = refresh[p].attempted THEN Left(Cooldown, refresh[p].age) ELSE 0
<1>3. cooldown \in 0..Cooldown
    BY <1>1, Constant DEF Left, RefreshState
<1>4. RefreshOK'
    <2> DEFINE r == [refresh[p] EXCEPT !.pc = to]
    <2>1. r \in RefreshState
        BY <1>1, RefreshTypes
    <2>2. r.age = refresh[p].age
        BY <1>1 DEF RefreshState
    <2>3. Goes(p, r) /\ lease' = lease /\ Working(p)
        BY <1>2 DEF TickersFetched, Working
    <2> HIDE DEF r
    <2> QED
        BY <2>1, <2>2, <2>3, WorkGoesOn
<1>5. runtime' \in [Process -> RuntimeState]
    <2>1. CASE p \in Command
        BY <1>2, <2>1 DEF Inv, TypeOK
    <2>2. CASE p \notin Command
        <3>1. PICK backoff \in [Exchange -> 0..MaxBackoff] :
                runtime' = [runtime EXCEPT
                   ![p] = [@ EXCEPT !.cooldown = cooldown,
                                    !.breakers = Recorded(p, failed, backoff)]]
            BY <1>2, <2>2
        <3>2. Recorded(p, failed, backoff) \in [Exchange -> BreakerEntry]
            BY RecordedType
        <3> HIDE DEF cooldown
        <3>3. [s EXCEPT !.cooldown = cooldown, !.breakers = Recorded(p, failed, backoff)]
                \in RuntimeState
            BY <1>1, <1>3, <3>2, RuntimeTypes
        <3>4. runtime' = [runtime EXCEPT ![p] =
                  [s EXCEPT !.cooldown = cooldown, !.breakers = Recorded(p, failed, backoff)]]
            BY <3>1
        <3> QED
            BY <3>3, <3>4, RuntimeSet
    <2> QED
        BY <2>1, <2>2
<1> QED
    BY <1>4, <1>5 DEF TickersFetched, Inv, TypeOK, RefreshOK

\* The other steps of a refresh at work: the lease is left alone.
LEMMA WorkKeeps ==
    ASSUME Inv, NEW p \in Process,
           \/ CatalogSynced(p) \/ CatalogFails(p) \/ PersistCommits(p) \/ PersistRollsBack(p)
           \/ ReadRevision(p) \/ RecordFailed(p) \/ RecordFails(p)
    PROVE  Inv'
<1>1. refresh[p] \in RefreshState
    BY DEF Inv, TypeOK
<1>2. ASSUME NEW to \in {"tickers", "failed", "release"},
             Goes(p, [refresh[p] EXCEPT !.pc = to]), lease' = lease, Working(p)
      PROVE  RefreshOK'
    <2> DEFINE r == [refresh[p] EXCEPT !.pc = to]
    <2>1. r \in RefreshState /\ r.age = refresh[p].age
        BY <1>1, Zenon DEF RefreshState
    <2>2. Goes(p, r)
        BY <1>2
    <2> HIDE DEF r
    <2> QED
        BY <1>2, <2>1, <2>2, WorkGoesOn
<1>3. CASE CatalogSynced(p)
    BY <1>2, <1>3 DEF CatalogSynced, Working, Inv, TypeOK, RefreshOK
<1>4. CASE CatalogFails(p)
    BY <1>2, <1>4 DEF CatalogFails, Working, Inv, TypeOK, RefreshOK
<1>5. CASE PersistRollsBack(p)
    BY <1>2, <1>5 DEF PersistRollsBack, Working, Inv, TypeOK, RefreshOK
<1>6. CASE RecordFails(p)
    BY <1>2, <1>6 DEF RecordFails, Working, Inv, TypeOK, RefreshOK
<1>7. CASE RecordFailed(p)
    <2>1. revision' \in RevisionRow
        BY <1>1, <1>7, RowTypes DEF RecordFailed, RefreshState
    <2>2. RefreshOK'
        BY <1>2, <1>7 DEF RecordFailed, Working
    <2> QED
        BY <1>7, <2>1, <2>2 DEF RecordFailed, Inv, TypeOK, RefreshOK
<1>8. CASE PersistCommits(p)
    <2> DEFINE r == [refresh[p] EXCEPT !.pc = "release", !.ok = TRUE]
    <2>1. r \in RefreshState /\ r.age = refresh[p].age
        BY <1>1, Zenon DEF RefreshState
    <2>2. Goes(p, r) /\ lease' = lease /\ Working(p)
        BY <1>8 DEF PersistCommits, Working
    <2> HIDE DEF r
    <2>3. RefreshOK'
        BY <2>1, <2>2, WorkGoesOn
    <2>4. revision' \in RevisionRow
        BY <1>8, RowTypes DEF PersistCommits
    <2> QED
        BY <1>8, <2>3, <2>4 DEF PersistCommits, Inv, TypeOK, RefreshOK
<1>9. CASE ReadRevision(p)
    <2> DEFINE r == [refresh[p] EXCEPT !.pc = "degrade", !.read = RevisionRead]
    <2>1. r \in RefreshState /\ r.age = refresh[p].age
        BY <1>1, RowTypes, Zenon DEF RefreshState
    <2>2. Goes(p, r) /\ lease' = lease /\ Working(p)
        BY <1>9 DEF ReadRevision, Working
    <2> HIDE DEF r
    <2>3. RefreshOK'
        BY <2>1, <2>2, WorkGoesOn
    <2> QED
        BY <1>9, <2>3 DEF ReadRevision, Inv, TypeOK, RefreshOK
<1> QED
    BY <1>3, <1>4, <1>5, <1>6, <1>7, <1>8, <1>9

\* A refresh releases its lease, or goes without.
LEMMA EndKeeps ==
    ASSUME Inv, NEW p \in Process,
           releaseSqliteWorkLease(p) \/ ReleaseFails(p) \/ Crash(p) \/ Restart(p)
    PROVE  Inv'
<1> DEFINE s == runtime[p]
<1>1. s \in RuntimeState
    BY DEF Inv, TypeOK
<1>2. Idle \in RefreshState /\ Down \in RefreshState
      /\ Idle.pc = "idle" /\ Down.pc = "down"
    BY RefreshTypes DEF Idle, Down
<1>3. Abandoned(p) \in LeaseRow /\ LeaseReleased(p) \in LeaseRow
    BY RowTypes
<1>4. lease.holder # p => Abandoned(p) = lease /\ LeaseReleased(p) = lease
    BY DEF Abandoned, LeaseReleased
<1>5. CASE releaseSqliteWorkLease(p)
    <2> DEFINE c == IF refresh[p].ok THEN 0 ELSE s.cooldown
    <2>1. c \in 0..Cooldown
        BY <1>1, Constant DEF RuntimeState
    <2>2. runtime' = [runtime EXCEPT ![p] = [s EXCEPT !.cooldown = c]]
        BY <1>5 DEF releaseSqliteWorkLease
    <2> HIDE DEF c
    <2>3. [s EXCEPT !.cooldown = c] \in RuntimeState
        BY <1>1, <2>1, RuntimeTypes
    <2>4. runtime' \in [Process -> RuntimeState]
        BY <2>2, <2>3, RuntimeSet
    <2>5. RefreshOK'
        BY <1>2, <1>4, <1>5, WorkEnds DEF releaseSqliteWorkLease
    <2> QED
        BY <1>3, <1>5, <2>4, <2>5 DEF releaseSqliteWorkLease, Inv, TypeOK, RefreshOK
<1>6. CASE ReleaseFails(p)
    <2>1. RefreshOK'
        BY <1>2, <1>4, <1>6, WorkEnds DEF ReleaseFails
    <2> QED
        BY <1>3, <1>6, <2>1 DEF ReleaseFails, Inv, TypeOK, RefreshOK
<1>7. CASE Crash(p)
    <2>1. RefreshOK'
        BY <1>2, <1>4, <1>7, WorkEnds DEF Crash
    <2>2. runtime' \in [Process -> RuntimeState]
        BY <1>7, RuntimeTypes, RuntimeSet DEF Crash
    <2> QED
        BY <1>3, <1>7, <2>1, <2>2 DEF Crash, Inv, TypeOK, RefreshOK
<1>8. CASE Restart(p)
    <2>1. RefreshOK'
        BY <1>2, <1>8, WorkEnds DEF Restart
    <2> QED
        BY <1>8, <2>1 DEF Restart, Inv, TypeOK, RefreshOK
<1> QED
    BY <1>5, <1>6, <1>7, <1>8

\* Forced failures and the clock.
LEMMA ForcedKeeps ==
    ASSUME Inv, NEW p \in Process, NEW active \in BOOLEAN,
           recordForcedProviderFailure(p, active)
    PROVE  Inv'
<1> DEFINE s == runtime[p]
           c == IF active THEN s.cooldown ELSE 0
<1>1. s \in RuntimeState
    BY DEF Inv, TypeOK
<1>2. c \in 0..Cooldown
    BY <1>1, Constant DEF RuntimeState
<1>3. runtime' = [runtime EXCEPT ![p] = [s EXCEPT !.forced = active, !.cooldown = c]]
    BY Zenon DEF recordForcedProviderFailure
<1> HIDE DEF c, s
<1>4. [s EXCEPT !.forced = active, !.cooldown = c] \in RuntimeState
    BY <1>1, <1>2, RuntimeTypes
<1>5. runtime' \in [Process -> RuntimeState]
    BY <1>3, <1>4, RuntimeSet
<1> QED
    BY <1>5 DEF recordForcedProviderFailure, Inv, TypeOK, HoldsLease, InTime, Working

LEMMA TickKeeps ==
    ASSUME Inv, Tick
    PROVE  Inv'
<1>1. RefreshOK'
    BY LeaseTicks
<1>2. lease' \in LeaseRow
    <2>1. lease \in LeaseRow
        BY DEF Inv, TypeOK
    <2>2. Elapsed(lease.left) \in 0..LeaseTtl
        BY <2>1, ElapsedType, Constant DEF LeaseRow
    <2> QED
        BY <2>1, <2>2, Zenon DEF Tick, LeaseRow
<1>3. ASSUME NEW q \in Process
      PROVE  runtime'[q] \in RuntimeState
    <2> DEFINE s == runtime[q]
               c == Elapsed(s.cooldown)
               b == Cooling(s.breakers)
    <2>1. s \in RuntimeState
        BY DEF Inv, TypeOK
    <2>2. c \in 0..Cooldown
        BY <2>1, ElapsedType, Constant DEF RuntimeState
    <2>3. b \in [Exchange -> BreakerEntry]
        <3>1. \A x \in Exchange : s.breakers[x] \in BreakerEntry
            BY <2>1 DEF RuntimeState
        <3>2. ASSUME NEW x \in Exchange
              PROVE  [s.breakers[x] EXCEPT !.openedLeft = Elapsed(@)] \in BreakerEntry
            BY <3>1, BreakerTypes, Zenon
        <3> QED
            BY <3>2 DEF Cooling
    <2>4. runtime'[q] = [s EXCEPT !.cooldown = c, !.breakers = b]
        BY Zenon DEF Tick
    <2> HIDE DEF s, c, b
    <2>5. [s EXCEPT !.cooldown = c, !.breakers = b] \in RuntimeState
        BY <2>1, <2>2, <2>3, RuntimeTypes, Zenon
    <2> QED
        BY <2>4, <2>5
<1>4. runtime' \in [Process -> RuntimeState]
    <2>1. runtime' = [q \in Process |-> runtime'[q]]
        BY DEF Tick
    <2> QED
        BY <1>3, <2>1
<1> QED
    BY <1>1, <1>2, <1>4 DEF Tick, Inv, TypeOK, RefreshOK

LEMMA NextInv == Inv /\ [Next]_vars => Inv'
<1> SUFFICES ASSUME Inv, [Next]_vars PROVE Inv'
    OBVIOUS
<1>1. ASSUME NEW p \in Process, Starts(p) \/ Progress(p) \/ Crash(p) \/ Restart(p)
      PROVE  Inv'
    BY <1>1, StartsKeep, FetchKeeps, WorkKeeps, EndKeeps DEF Progress
<1>2. ASSUME NEW p \in Process, NEW active \in BOOLEAN, recordForcedProviderFailure(p, active)
      PROVE  Inv'
    BY <1>2, ForcedKeeps
<1>3. CASE Tick
    BY <1>3, TickKeeps
<1>4. CASE UNCHANGED vars
    BY <1>4 DEF vars, Inv, TypeOK, HoldsLease, InTime, Working
<1> QED
    BY <1>1, <1>2, <1>3, <1>4 DEF Next

LEMMA Invariant == Spec => []Inv
BY InitInv, NextInv, PTL DEF Spec

\* Every variable of every process keeps its type, whatever fails or crashes.
THEOREM TypeCorrect == Spec => []TypeOK
<1>1. Inv => TypeOK
    BY DEF Inv
<1> QED
    BY <1>1, Invariant, PTL

\* A refresh that has not outlived its lease (market-refresh.ts:1050) is the
\* only one of its kind, among any number of processes.
THEOREM HoldersAlone == Spec => []LiveHoldersAlone
<1>1. Inv => LiveHoldersAlone
    BY DEF Inv, HoldsLease, LiveHoldersAlone
<1> QED
    BY <1>1, Invariant, PTL

\* Only the transaction and the failure record write the revision.
LEMMA RevisionSteps ==
    ASSUME [Next]_vars
    PROVE  \/ revision' = revision
           \/ \E p \in Process : PersistCommits(p) \/ RecordFailed(p)
BY DEF Next, vars, Starts, Progress, CooldownSkips, acquireSqliteWorkLease,
   LeaseNotAcquired, CatalogSynced, CatalogFails, TickersFetched, PersistRollsBack,
   ReadRevision, RecordFails, releaseSqliteWorkLease, ReleaseFails,
   recordForcedProviderFailure, Crash, Restart, Tick

\* The failure record inserts a row only where nothing was published.
Unpublished == revision.status = "absent" => revision.number = 0

LEMMA InsertsAtZero == Spec => []Unpublished
<1>1. Init => Unpublished
    BY DEF Init, Unpublished
<1>2. Unpublished /\ [Next]_vars => Unpublished'
    <2> SUFFICES ASSUME Unpublished, [Next]_vars PROVE Unpublished'
        OBVIOUS
    <2>1. ASSUME NEW p \in Process, PersistCommits(p) \/ RecordFailed(p)
          PROVE  revision'.status \in {"committed", "degraded"}
        BY <2>1 DEF PersistCommits, RecordFailed, Degraded
    <2>2. \/ revision' = revision
          \/ revision'.status \in {"committed", "degraded"}
        BY <2>1, RevisionSteps
    <2> QED
        BY <2>2 DEF Unpublished
<1> QED
    BY <1>1, <1>2, PTL DEF Spec

\* No step lowers the published revision, although recordSqliteRefreshFailed
\* writes it on the strength of an earlier read.
THEOREM RevisionIsMonotone == Spec => RevisionNeverRegresses
<1>1. ASSUME Inv, Unpublished, [Next]_vars
      PROVE  revision'.number >= revision.number
    <2>1. /\ revision.number \in 0..MaxRevision
          /\ \A p \in Process : refresh[p].read \in 0..MaxRevision
        BY <1>1 DEF Inv, TypeOK, RevisionRow, RefreshState
    <2>2. CASE revision' = revision
        BY <2>1, <2>2
    <2>3. ASSUME NEW p \in Process, PersistCommits(p)
          PROVE  revision'.number >= revision.number
        BY <2>1, <2>3, Constant DEF PersistCommits, Earlier
    <2>4. ASSUME NEW p \in Process, RecordFailed(p)
          PROVE  revision'.number >= revision.number
        BY <1>1, <2>1, <2>4 DEF RecordFailed, Degraded, Unpublished
    <2> QED
        BY <1>1, <2>2, <2>3, <2>4, RevisionSteps
<1> QED
    BY <1>1, Invariant, InsertsAtZero, PTL DEF Spec, RevisionNeverRegresses
=============================================================================
