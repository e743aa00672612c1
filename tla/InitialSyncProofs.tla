--------------------------- MODULE InitialSyncProofs ---------------------------
(***************************************************************************)
(* Proofs about InitialSync, for any exchanges, any rescuers among them    *)
(* and any number of them asked at a time.                                 *)
(***************************************************************************)
EXTENDS InitialSync, FiniteSetTheorems, TLAPS

-----------------------------------------------------------------------------
(***************************************************************************)
(* Filtering a list.  Kept positions are ranked by how many kept ones      *)
(* there are up to them; the ranks are 1 to their number, each once.       *)
(***************************************************************************)

LEMMA RanksAreOnto ==
    ASSUME NEW n \in Nat, NEW kept \in SUBSET (1..n), NEW k \in 1..Cardinality(kept)
    PROVE  \E i \in kept : Cardinality(kept \cap 1..i) = k
<1> DEFINE upTo(i) == kept \cap 1..i
           size == Cardinality(kept)
           rank == [i \in kept |-> Cardinality(upTo(i))]
<1>1. IsFiniteSet(kept) /\ size \in Nat
    <2>1. IsFiniteSet(1..n)
        BY FS_Interval
    <2> QED
        BY <2>1, FS_Subset, FS_CardinalityType
<1>2. ASSUME NEW i \in kept
      PROVE  /\ IsFiniteSet(upTo(i)) /\ Cardinality(upTo(i)) \in 1..size
    <2>1. IsFiniteSet(upTo(i)) /\ Cardinality(upTo(i)) <= size
        BY <1>1, FS_Subset
    <2>2. Cardinality(upTo(i)) \in Nat
        BY <2>1, FS_CardinalityType
    <2>3. Cardinality(upTo(i)) # 0
        <3>1. i \in upTo(i)
            OBVIOUS
        <3> QED
            BY <2>1, <3>1, FS_EmptySet
    <2> QED
        BY <1>1, <2>1, <2>2, <2>3
<1>3. ASSUME NEW i \in kept, NEW j \in kept, i < j
      PROVE  Cardinality(upTo(i)) # Cardinality(upTo(j))
    <2>1. upTo(i) \in SUBSET upTo(j) /\ j \in upTo(j) /\ j \notin upTo(i)
        BY <1>3
    <2>2. IsFiniteSet(upTo(j))
        BY <1>2
    <2> HIDE DEF upTo
    <2> QED
        BY <2>1, <2>2, FS_Subset
<1> HIDE DEF upTo, size
<1>4. rank \in [kept -> 1..size]
    BY <1>2
<1>5. \A i, j \in kept : rank[i] = rank[j] => i = j
    <2> SUFFICES ASSUME NEW i \in kept, NEW j \in kept, i # j PROVE rank[i] # rank[j]
        OBVIOUS
    <2>1. i < j \/ j < i
        OBVIOUS
    <2> QED
        BY <1>3, <2>1
<1>6. rank \in Injection(kept, 1..size)
    BY <1>4, <1>5 DEF Injection, IsInjective
<1>7. IsFiniteSet(1..size) /\ Cardinality(1..size) = size
    BY <1>1, FS_Interval
<1>8. rank \in Surjection(kept, 1..size)
    BY <1>6, <1>7, FS_Injection DEF size
<1>9. PICK i \in kept : rank[i] = k
    BY <1>8 DEF Surjection, size
<1> QED
    BY <1>9 DEF upTo

\* What a filter returns: members of both, all of them, and nothing else.
LEMMA OnlyKeeps ==
    ASSUME NEW E, NEW es \in Seq(E), NEW S
    PROVE  /\ Only(es, S) \in Seq(E \cap S)
           /\ (\E e \in ToSet(es) : e \in S) => Only(es, S) # <<>>
<1> DEFINE kept == {i \in 1..Len(es) : es[i] \in S}
           at(k) == CHOOSE i \in kept : Cardinality(kept \cap 1..i) = k
<1>1. Len(es) \in Nat /\ kept \in SUBSET (1..Len(es))
    OBVIOUS
<1>2. IsFiniteSet(kept) /\ Cardinality(kept) \in Nat
    <2>1. IsFiniteSet(1..Len(es))
        BY <1>1, FS_Interval
    <2> QED
        BY <1>1, <2>1, FS_Subset, FS_CardinalityType
<1>3. \A i \in kept : es[i] \in E \cap S
    OBVIOUS
<1>4. \A k \in 1..Cardinality(kept) : at(k) \in kept
    BY <1>1, RanksAreOnto
<1>5. Only(es, S) = [k \in 1..Cardinality(kept) |-> es[at(k)]]
    BY DEF Only
<1>6. (\E e \in ToSet(es) : e \in S) => kept # {}
    BY DEF ToSet
<1> HIDE DEF kept, at
<1>7. Only(es, S) \in Seq(E \cap S) /\ Len(Only(es, S)) = Cardinality(kept)
    BY <1>2, <1>3, <1>4, <1>5
<1>8. kept # {} => Cardinality(kept) # 0
    BY <1>2, FS_EmptySet
<1> QED
    BY <1>6, <1>7, <1>8
-----------------------------------------------------------------------------
(***************************************************************************)
(* A fan-out of n items: what is being asked and what has not been reached *)
(* yet has no result, and no more are asked at a time than there are slots.*)
(***************************************************************************)

FanType(n) ==
    [size : {n}, next : 1..(n + 1), active : SUBSET (1..n), resolved : BOOLEAN,
     results : [1..n -> Result]]

FanOK(f, n) ==
    /\ f \in FanType(n)
    /\ \A i \in f.active : i < f.next /\ f.results[i] = "none"
    /\ ~f.resolved => \A i \in f.next..n : f.results[i] = "none"
    /\ Cardinality(f.active) <= Slots(Concurrency, n)

LEMMA StartNextKeeps ==
    ASSUME NEW n \in Nat, NEW f, FanOK(f, n)
    PROVE  FanOK(StartNext(f, Concurrency), n) /\ StartNext(f, Concurrency).results = f.results
<1> DEFINE left == f.size + 1 - f.next
           slots == Slots(Concurrency, n)
           k == Slots(slots - Cardinality(f.active), left)
           g == [f EXCEPT !.next = f.next + k, !.active = f.active \cup (f.next .. f.next + k - 1)]
<1>f. /\ f \in FanType(n) /\ f.size = n /\ f.next \in 1..(n + 1) /\ f.active \in SUBSET (1..n)
      /\ \A i \in f.active : i < f.next /\ f.results[i] = "none"
      /\ ~f.resolved => \A i \in f.next..n : f.results[i] = "none"
      /\ Cardinality(f.active) <= slots
    BY DEF FanOK, FanType
<1>1. CASE f.resolved
    BY <1>1 DEF StartNext
<1>2. CASE ~f.resolved
    <2>1. StartNext(f, Concurrency) = g
        BY <1>2, <1>f, Zenon DEF StartNext
    <2>2. IsFiniteSet(f.active) /\ Cardinality(f.active) \in Nat
        <3>1. IsFiniteSet(1..n)
            BY FS_Interval
        <3> QED
            BY <1>f, <3>1, FS_Subset, FS_CardinalityType
    <2>3. slots \in Nat
        BY SyncAssumption DEF Slots
    <2>4. k \in Nat /\ k <= left /\ k <= slots - Cardinality(f.active) /\ left = n + 1 - f.next
        BY <1>f, <2>2, <2>3 DEF Slots
    <2> HIDE DEF k, slots, left
    <2> DEFINE new == f.next .. f.next + k - 1
    <2>5. IsFiniteSet(new) /\ Cardinality(new) = k
        <3>1. f.next \in Int /\ f.next + k - 1 \in Int
            BY <1>f, <2>4
        <3>2. IsFiniteSet(new) /\ Cardinality(new) =
                 IF f.next > f.next + k - 1 THEN 0 ELSE (f.next + k - 1) - f.next + 1
            BY <3>1, FS_Interval
        <3> QED
            BY <1>f, <2>4, <3>2
    <2>6. f.active \cap new = {}
        BY <1>f, <2>4
    <2>7. IsFiniteSet({}) /\ Cardinality({}) = 0
        BY FS_EmptySet
    <2>8. Cardinality(f.active \cup new) = Cardinality(f.active) + k
        <3> HIDE DEF new
        <3>1. Cardinality(f.active \cup new)
                 = Cardinality(f.active) + Cardinality(new) - Cardinality(f.active \cap new)
            BY <2>2, <2>5, FS_Union
        <3> QED
            BY <2>2, <2>4, <2>5, <2>6, <2>7, <3>1
    <2>9. new \in SUBSET (1..n) /\ f.next + k \in 1..(n + 1)
        BY <1>f, <2>4
    <2> HIDE DEF new
    <2>10. /\ g \in FanType(n) /\ g.next = f.next + k /\ g.active = f.active \cup new
           /\ g.results = f.results
        BY <1>f, <2>9, Zenon DEF FanType, new
    <2> HIDE DEF g
    <2>11. \A i \in g.active : i < g.next /\ g.results[i] = "none"
        <3> SUFFICES ASSUME NEW i \in g.active PROVE i < g.next /\ g.results[i] = "none"
            OBVIOUS
        <3>1. CASE i \in f.active
            BY <1>f, <2>4, <2>10, <3>1
        <3>2. CASE i \in new
            BY <1>2, <1>f, <2>4, <2>9, <2>10, <3>2 DEF new
        <3> QED
            BY <2>10, <3>1, <3>2
    <2>12. \A i \in g.next..n : g.results[i] = "none"
        BY <1>2, <1>f, <2>4, <2>10
    <2>13. Cardinality(g.active) <= Slots(Concurrency, n)
        BY <2>2, <2>3, <2>4, <2>8, <2>10 DEF slots
    <2> QED
        BY <2>1, <2>10, <2>11, <2>12, <2>13 DEF FanOK
<1> QED
    BY <1>1, <1>2

LEMMA FanoutStarts == ASSUME NEW n \in Nat PROVE FanOK(Fanout(n, Concurrency), n)
<1> DEFINE f == [size |-> n, next |-> 1, active |-> {}, resolved |-> n = 0,
                 results |-> [i \in 1..n |-> "none"]]
<1>1. f \in FanType(n)
    BY DEF FanType, Result
<1>2. Cardinality(f.active) <= Slots(Concurrency, n)
    <2>1. Cardinality({}) = 0
        BY FS_EmptySet
    <2> QED
        BY <2>1, SyncAssumption DEF Slots
<1>3. FanOK(f, n)
    BY <1>1, <1>2 DEF FanOK
<1> QED
    BY <1>3, StartNextKeeps DEF Fanout

\* A result that is there stays.
KeepsResults(f, g) == \A i \in DOMAIN f.results : f.results[i] # "none" => g.results[i] = f.results[i]

LEMMA AnsweredKeeps ==
    ASSUME NEW n \in Nat, NEW f, FanOK(f, n), NEW i \in f.active, NEW r \in {"ok", "failed"}
    PROVE  FanOK(Answered(f, i, r, Concurrency), n) /\ KeepsResults(f, Answered(f, i, r, Concurrency))
<1> DEFINE g == Settled(f, i, r)
<1>f. /\ f \in FanType(n) /\ f.active \in SUBSET (1..n) /\ i \in 1..n
      /\ f.results \in [1..n -> Result] /\ f.next \in 1..(n + 1)
      /\ \A j \in f.active : j < f.next /\ f.results[j] = "none"
      /\ ~f.resolved => \A j \in f.next..n : f.results[j] = "none"
      /\ Cardinality(f.active) <= Slots(Concurrency, n)
    BY DEF FanOK, FanType
<1>1. [f.results EXCEPT ![i] = r] \in [1..n -> Result] /\ f.active \ {i} \in SUBSET (1..n)
    BY <1>f DEF Result
<1>2. g = [f EXCEPT !.results = [f.results EXCEPT ![i] = r], !.active = f.active \ {i}]
    BY Zenon DEF Settled
<1> HIDE DEF g
<1>3. /\ g \in FanType(n) /\ g.next = f.next /\ g.active = f.active \ {i}
      /\ g.results = [f.results EXCEPT ![i] = r] /\ g.resolved = f.resolved /\ g.size = f.size
    BY <1>f, <1>1, <1>2, Zenon DEF FanType
<1>4. Cardinality(g.active) <= Slots(Concurrency, n)
    <2>1. IsFiniteSet(f.active) /\ Cardinality(f.active) \in Nat
        <3>1. IsFiniteSet(1..n)
            BY FS_Interval
        <3> QED
            BY <1>f, <3>1, FS_Subset, FS_CardinalityType
    <2>2. Cardinality(g.active) <= Cardinality(f.active) /\ Cardinality(g.active) \in Nat
        BY <1>3, <2>1, FS_Subset, FS_CardinalityType
    <2>3. Slots(Concurrency, n) \in Nat
        BY SyncAssumption DEF Slots
    <2> QED
        BY <1>f, <2>1, <2>2, <2>3
<1>5. FanOK(g, n)
    <2>1. \A j \in g.active : j < g.next /\ g.results[j] = "none"
        BY <1>f, <1>3
    <2>2. ~g.resolved => \A j \in g.next..n : g.results[j] = "none"
        BY <1>f, <1>3
    <2> QED
        BY <1>3, <1>4, <2>1, <2>2 DEF FanOK
<1>6. KeepsResults(f, g)
    BY <1>f, <1>3 DEF KeepsResults
<1>7. CASE \A j \in 1..f.size : g.results[j] # "none"
    <2>1. Answered(f, i, r, Concurrency) = [g EXCEPT !.resolved = TRUE]
        BY <1>7 DEF Answered, g
    <2>2. /\ [g EXCEPT !.resolved = TRUE] \in FanType(n)
          /\ [g EXCEPT !.resolved = TRUE].active = g.active
          /\ [g EXCEPT !.resolved = TRUE].next = g.next
          /\ [g EXCEPT !.resolved = TRUE].results = g.results
        BY <1>3, Zenon DEF FanType
    <2> QED
        BY <1>5, <1>6, <2>1, <2>2 DEF FanOK, KeepsResults
<1>8. CASE ~\A j \in 1..f.size : g.results[j] # "none"
    <2>1. Answered(f, i, r, Concurrency) = StartNext(g, Concurrency)
        BY <1>8 DEF Answered, g
    <2> QED
        BY <1>5, <1>6, <2>1, StartNextKeeps DEF KeepsResults
<1> QED
    BY <1>7, <1>8

LEMMA ExpiredKeeps ==
    ASSUME NEW n \in Nat, NEW f, FanOK(f, n)
    PROVE  FanOK(Expired(f), n) /\ KeepsResults(f, Expired(f))
<1> DEFINE settled == [i \in 1..f.size |-> IF f.results[i] # "none" THEN f.results[i]
                                           ELSE IF i < f.next THEN "timeout" ELSE "skipped"]
           g == [f EXCEPT !.resolved = TRUE, !.active = {}, !.results = settled]
<1>f. /\ f \in FanType(n) /\ f.results \in [1..n -> Result] /\ f.next \in 1..(n + 1) /\ f.size = n
    BY DEF FanOK, FanType
<1>1. settled \in [1..n -> Result]
    BY <1>f DEF Result
<1>2. \A i \in 1..n : f.results[i] # "none" => settled[i] = f.results[i]
    BY <1>f
<1>3. Expired(f) = g
    BY Zenon DEF Expired
<1> HIDE DEF settled
<1>4. /\ g \in FanType(n) /\ g.active = {} /\ g.results = settled /\ g.next = f.next
      /\ g.resolved = TRUE
    BY <1>f, <1>1, Zenon DEF FanType
<1>5. Cardinality(g.active) <= Slots(Concurrency, n)
    <2>1. Cardinality({}) = 0
        BY FS_EmptySet
    <2> QED
        BY <1>4, <2>1, SyncAssumption DEF Slots
<1> HIDE DEF g
<1>6. KeepsResults(f, g)
    BY <1>f, <1>2, <1>4 DEF KeepsResults
<1> QED
    BY <1>3, <1>4, <1>5, <1>6 DEF FanOK
-----------------------------------------------------------------------------
(***************************************************************************)
(* Types.  With the shape of the fan-out goes that, once the metadata is   *)
(* there, there is always an exchange to ask.                              *)
(***************************************************************************)

Report == [attempted : SUBSET Exchange, successful : SUBSET Exchange, failed : SUBSET Exchange,
           blocked : SUBSET Exchange, unavailable : SUBSET Exchange]

Typed ==
    /\ stage \in Running \cup {"done", "failed"}
    /\ items \in Seq(Exchange) /\ FanOK(fan, Len(items))
    /\ chosen \in Seq(Exchange)
    /\ stage \notin {"metadata", "failed"} => chosen # <<>>
    /\ refused \subseteq Exchange /\ known \subseteq Exchange
    /\ db \in [tickers : Ages, snapshots : Ages] /\ lease \in {"free", "mine", "other"}
    /\ breakers \in [Exchange -> BreakerEntry]
    /\ rescue \in BOOLEAN /\ cooling \in BOOLEAN /\ forced \in BOOLEAN
    /\ outcome \in {"unset", "live", "without"}
    /\ report \in Report

LEMMA TypedMeansTypeOK == Typed => TypeOK
<1> SUFFICES ASSUME Typed PROVE TypeOK
    OBVIOUS
<1> DEFINE n == Len(items)
<1>1. n \in Nat /\ FanOK(fan, n)
    BY DEF Typed
<1>2. /\ fan.size = n /\ fan.results \in [1..n -> Result] /\ fan.active \subseteq 1..n
      /\ Cardinality(fan.active) <= Slots(Concurrency, n)
    BY <1>1 DEF FanOK, FanType
<1>3. Cardinality(fan.active) \in Nat
    <2>1. IsFiniteSet(1..n)
        BY <1>1, FS_Interval
    <2> QED
        BY <1>2, <2>1, FS_Subset, FS_CardinalityType
<1>4. Cardinality(fan.active) <= Concurrency
    BY <1>1, <1>2, <1>3, SyncAssumption DEF Slots
<1> QED
    BY <1>2, <1>4 DEF Typed, TypeOK

LEMMA AskType ==
    ASSUME NEW es \in Seq(Exchange), Ask(es)
    PROVE  items' \in Seq(Exchange) /\ FanOK(fan', Len(items'))
BY FanoutStarts DEF Ask

\* Only items that are asked can answer.
LEMMA AnsweringAsked ==
    ASSUME Typed PROVE Answering \subseteq ToSet(items) /\ ToSet(items) \subseteq Exchange
<1>1. items \in Seq(Exchange) /\ fan.size = Len(items)
    BY DEF Typed, FanOK, FanType
<1> QED
    BY <1>1 DEF Answering, With, ToSet

LEMMA BreakerTypes ==
    /\ createEntry \in BreakerEntry
    /\ \A e \in BreakerEntry : Checked(e) \in BreakerEntry /\ recordProviderSuccess(e) \in BreakerEntry
    /\ \A e \in BreakerEntry : recordProviderFailure(e, BaseBackoff) \in BreakerEntry
    /\ \A e \in BreakerEntry :
          [e EXCEPT !.openedLeft = IF @ = 0 THEN 0 ELSE @ - 1] \in BreakerEntry
<1>c. MaxFailures \in Nat \ {0} /\ MaxBackoff \in Nat /\ BaseBackoff \in 0..MaxBackoff
    BY BreakerAssumption, SyncAssumption
<1>1. createEntry \in BreakerEntry
    BY <1>c DEF createEntry, BreakerEntry
<1>2. ASSUME NEW e \in BreakerEntry PROVE Checked(e) \in BreakerEntry
    <2>1. [e EXCEPT !.status = "half_open"] \in BreakerEntry
        BY Zenon DEF BreakerEntry
    <2> QED
        BY <2>1 DEF Checked
<1>3. ASSUME NEW e \in BreakerEntry PROVE recordProviderFailure(e, BaseBackoff) \in BreakerEntry
    BY <1>c DEF recordProviderFailure, BreakerEntry
<1>4. ASSUME NEW e \in BreakerEntry
      PROVE  [e EXCEPT !.openedLeft = IF @ = 0 THEN 0 ELSE @ - 1] \in BreakerEntry
    <2> DEFINE left == IF e.openedLeft = 0 THEN 0 ELSE e.openedLeft - 1
    <2>1. left \in 0..MaxBackoff
        BY <1>c DEF BreakerEntry
    <2> HIDE DEF left
    <2>2. [e EXCEPT !.openedLeft = left] \in BreakerEntry
        BY <2>1, Zenon DEF BreakerEntry
    <2> QED
        BY <2>2 DEF left
<1> QED
    BY <1>1, <1>2, <1>3, <1>4 DEF recordProviderSuccess

LEMMA FailedByType ==
    ASSUME NEW S, NEW b \in [Exchange -> BreakerEntry]
    PROVE  FailedBy(S, b) \in [Exchange -> BreakerEntry]
BY BreakerTypes DEF FailedBy

\* A non-empty set of naturals has a least member.
LEMMA MinExists ==
    ASSUME NEW S \in SUBSET Nat, S # {}
    PROVE  \E c \in S : \A d \in S : c <= d
<1>1. PICK c \in S : \A d \in S : ~(<<d, c>> \in OpToRel(<, Nat))
    BY NatLessThanWellFounded, WFMin, Zenon
<1>2. \A d \in S : ~(d < c)
    BY <1>1 DEF OpToRel
<1> QED
    BY <1>2

\* The rescuer is one of the exchanges it is chosen from.
LEMMA RescuerType ==
    ASSUME NEW es \in Seq(Exchange), es # <<>>
    PROVE  Rescuer(es) \in ToSet(es) /\ Rescuer(es) \in Exchange
<1> DEFINE listed == {i \in DOMAIN Rescuers : Rescuers[i] \in ToSet(es)}
<1>1. ToSet(es) \subseteq Exchange /\ Head(es) \in ToSet(es)
    BY DEF ToSet
<1>2. listed \in SUBSET Nat
    BY SyncAssumption
<1>3. CASE listed # {}
    <2>1. \E i \in listed : \A j \in listed : i <= j
        BY <1>2, <1>3, MinExists
    <2>2. Rescuer(es) = Rescuers[CHOOSE i \in listed : \A j \in listed : i <= j]
        BY <1>3 DEF Rescuer
    <2> QED
        BY <1>1, <2>1, <2>2
<1>4. CASE listed = {}
    BY <1>1, <1>4 DEF Rescuer
<1> QED
    BY <1>3, <1>4
LEMMA TypedInit == Init => Typed
<1> SUFFICES ASSUME Init PROVE Typed
    OBVIOUS
<1>1. items \in Seq(Exchange) /\ Len(items) \in Nat
    BY SyncAssumption DEF Init, Exchange
<1>2. FanOK(fan, Len(items))
    BY <1>1, FanoutStarts DEF Init
<1>3. breakers \in [Exchange -> BreakerEntry]
    BY BreakerTypes DEF Init
<1>4. report \in Report
    BY DEF Init, NoReport, Report
<1>5. <<>> \in Seq(Exchange)
    OBVIOUS
<1> QED
    BY <1>1, <1>2, <1>3, <1>4, <1>5 DEF Init, Typed, Running, Fetching, Ages

\* The report of a refresh names exchanges.
LEMMA AskedType ==
    ASSUME Typed, stage \notin {"metadata", "failed"}
    PROVE  Asked \in Seq(Exchange) /\ ToSet(Asked) \subseteq Exchange
<1>1. chosen \in Seq(Exchange) /\ Rescuer(chosen) \in Exchange
    BY RescuerType DEF Typed
<1>2. Asked \in Seq(Exchange)
    BY <1>1 DEF Asked
<1> QED
    BY <1>2 DEF ToSet

LEMMA ReportedType ==
    ASSUME Typed, stage \notin {"metadata", "failed"},
           NEW attempted \in SUBSET Exchange, NEW failed \in SUBSET Exchange
    PROVE  Reported(attempted, failed) \in Report
BY AskedType DEF Reported, Report

LEMMA MetadataTyped == ASSUME Typed, MetadataSynced PROVE Typed'
<1> DEFINE failures == Exchange \ Answering
           broken == FailedBy(failures, breakers)
<1>1. Answering \subseteq ToSet(items) /\ Answering \subseteq Exchange /\ items \in Seq(Exchange)
    BY AnsweringAsked DEF Typed
<1>2. Order \in Seq(Exchange) /\ Order # <<>>
    BY SyncAssumption DEF Exchange
<1>3. broken \in [Exchange -> BreakerEntry]
    BY FailedByType DEF Typed
<1>4. breakers' = IF Answering # {} THEN broken
                  ELSE [broken EXCEPT ![Rescuer(Order)] = recordProviderSuccess(broken[Rescuer(Order)])]
    BY Zenon DEF MetadataSynced
<1> HIDE DEF broken
<1>5. breakers' \in [Exchange -> BreakerEntry]
    BY <1>3, <1>4, BreakerTypes DEF recordProviderSuccess
<1>6. chosen' = (IF Answering # {} THEN Only(items, Answering) ELSE Order) /\ Ask(chosen')
    BY DEF MetadataSynced, In
<1>7. Only(items, Answering) \in Seq(Exchange)
      /\ (Answering # {} => Only(items, Answering) # <<>>)
    <2>1. Only(items, Answering) \in Seq(Exchange \cap Answering)
          /\ ((\E e \in ToSet(items) : e \in Answering) => Only(items, Answering) # <<>>)
        BY <1>1, OnlyKeeps
    <2>2. Exchange \cap Answering \subseteq Exchange
        OBVIOUS
    <2> QED
        BY <1>1, <2>1, <2>2
<1>8. chosen' \in Seq(Exchange) /\ chosen' # <<>>
    BY <1>2, <1>6, <1>7
<1>9. items' \in Seq(Exchange) /\ FanOK(fan', Len(items'))
    BY <1>6, <1>8, AskType
<1>10. stage' = "coins" /\ refused' \subseteq Exchange /\ known' \subseteq Exchange
    BY <1>1 DEF MetadataSynced, Goes, Typed
<1> QED
    BY <1>5, <1>8, <1>9, <1>10 DEF MetadataSynced, Typed, Running, Fetching

LEMMA FanTyped ==
    ASSUME Typed, Answers \/ BudgetExpires
    PROVE  Typed' /\ KeepsResults(fan, fan')
<1>1. Len(items) \in Nat /\ FanOK(fan, Len(items))
    BY DEF Typed
<1>2. FanOK(fan', Len(items)) /\ KeepsResults(fan, fan')
    <2>1. CASE Answers
        BY <1>1, <2>1, AnsweredKeeps DEF Answers
    <2>2. CASE BudgetExpires
        BY <1>1, <2>2, ExpiredKeeps DEF BudgetExpires
    <2> QED
        BY <2>1, <2>2
<1> QED
    BY <1>2 DEF Typed, Answers, BudgetExpires, runtime

LEMMA StepsTyped ==
    ASSUME Typed, CoinsSynced \/ ChainsSynced \/ StatementFails \/ CatalogSynced
    PROVE  Typed'
<1>1. CASE CoinsSynced
    BY <1>1, AskType DEF CoinsSynced, Resolved, Goes, Typed, Running, Fetching, runtime
<1>2. CASE ChainsSynced \/ StatementFails
    BY <1>2 DEF ChainsSynced, StatementFails, Resolved, Goes, Typed, Running, Fetching, runtime, work
<1>3. CASE CatalogSynced
    BY <1>3, AskType DEF CatalogSynced, Resolved, Goes, Typed, Running, Fetching, runtime
<1> QED
    BY <1>1, <1>2, <1>3

LEMMA RescueTyped == ASSUME Typed, StartRescue PROVE Typed'
<1>1. breakers' \in [Exchange -> BreakerEntry]
    BY BreakerTypes DEF StartRescue, Typed, recordProviderSuccess
<1> QED
    BY <1>1 DEF StartRescue, Goes, Typed, Running, Fetching, work

\* Wherever a refresh throws to, or returns to, there is a list to ask.
LEMMA ThrowsTyped ==
    ASSUME NEW d, ThrowsWith(d)
    PROVE  stage' \in {"failed", "count", "rescue"}
BY DEF ThrowsWith, Goes

LEMMA RefreshTyped == ASSUME Typed, RefreshBegins PROVE Typed'
<1> DEFINE open == {e \in ToSet(Asked) : canAttemptProvider(breakers[e])}
<1>1. /\ Asked \in Seq(Exchange) /\ ToSet(Asked) \subseteq Exchange /\ chosen # <<>>
    BY AskedType DEF RefreshBegins, Typed
<1>2. stage' \in {"failed", "count", "rescue", "catalog"}
    BY ThrowsTyped DEF RefreshBegins, Throws, Returns, Goes
<1>3. breakers' \in [Exchange -> BreakerEntry]
    <2>1. \/ breakers' = breakers
          \/ breakers' = [e \in Exchange |-> IF e \in open THEN Checked(breakers[e]) ELSE breakers[e]]
        BY Zenon DEF RefreshBegins
    <2> HIDE DEF open
    <2> QED
        BY <2>1, BreakerTypes DEF Typed
<1>4. items' \in Seq(Exchange) /\ FanOK(fan', Len(items'))
    <2>1. UNCHANGED work \/ Ask(Only(Asked, open))
        BY Zenon DEF RefreshBegins
    <2>2. CASE UNCHANGED work
        BY <2>2 DEF work, Typed
    <2>3. CASE Ask(Only(Asked, open))
        <3>1. Only(Asked, open) \in Seq(Exchange \cap open)
            BY <1>1, OnlyKeeps
        <3>2. Exchange \cap open \subseteq Exchange
            OBVIOUS
        <3> HIDE DEF open
        <3>3. Only(Asked, open) \in Seq(Exchange)
            BY <3>1, <3>2
        <3> QED
            BY <2>3, <3>3, AskType
    <2> QED
        BY <2>1, <2>2, <2>3
<1>5. report' \in Report /\ lease' \in {"free", "mine", "other"}
    <2>1. Reported({}, {}) \in Report
        BY ReportedType DEF RefreshBegins
    <2> QED
        BY <2>1 DEF RefreshBegins, Typed
<1> QED
    BY <1>1, <1>2, <1>3, <1>4, <1>5 DEF RefreshBegins, Typed, Running, Fetching

LEMMA TickersTyped == ASSUME Typed, TickersFetched PROVE Typed'
<1> DEFINE failed == ToSet(items) \ Answering
           closed == [e \in Exchange |-> IF e \in Answering THEN recordProviderSuccess(breakers[e])
                                         ELSE breakers[e]]
<1>1. stage = "tickers" /\ failed \subseteq Exchange /\ ToSet(items) \subseteq Exchange
      /\ chosen # <<>>
    BY AnsweringAsked DEF TickersFetched, Resolved, Typed
<1>2. closed \in [Exchange -> BreakerEntry]
    BY BreakerTypes DEF Typed
<1>3. breakers' = FailedBy(failed, closed)
    BY Zenon DEF TickersFetched
<1>4. Reported(ToSet(items), failed) \in Report
    BY <1>1, ReportedType
<1> HIDE DEF failed, closed
<1>5. breakers' \in [Exchange -> BreakerEntry]
    BY <1>2, <1>3, FailedByType
<1>6. /\ stage' \in {"failed", "count", "rescue", "persist"}
      /\ lease' \in {"free", "mine", "other"} /\ cooling' \in BOOLEAN
      /\ report' \in {report, Reported(ToSet(items), failed)}
    BY ThrowsTyped DEF TickersFetched, Throws, Goes, Typed, failed
<1> QED
    BY <1>1, <1>4, <1>5, <1>6 DEF TickersFetched, Typed, Running, Fetching, work

LEMMA PersistTyped == ASSUME Typed, Persisted \/ RefreshFails \/ Count PROVE Typed'
<1>1. CASE Persisted
    <2>1. /\ stage' \in {"failed", "count", "rescue"} /\ chosen # <<>>
          /\ lease' \in {"free", "mine", "other"}
          /\ db' \in [tickers : Ages, snapshots : Ages]
        BY <1>1, ThrowsTyped DEF Persisted, Returns, Goes, Typed, Ages
    <2>2. report' \in Report
        BY <1>1, AnsweringAsked, ReportedType DEF Persisted
    <2> QED
        BY <1>1, <2>1, <2>2 DEF Persisted, Typed, Running, work, runtime
<1>2. CASE RefreshFails
    BY <1>2, ThrowsTyped DEF RefreshFails, Throws, Resolved, Typed, Running, work, runtime
<1>3. CASE Count
    <2>1. report' \in Report
        <3>1. [report EXCEPT !.failed = report.failed \cup refused,
                             !.unavailable = report.unavailable \cup refused \cup report.blocked] \in Report
            BY DEF Typed, Report
        <3> QED
            BY <1>3, <3>1 DEF Count, Typed
    <2> QED
        BY <1>3, <2>1 DEF Count, Goes, Typed, Running, work, runtime
<1> QED
    BY <1>1, <1>2, <1>3

LEMMA WorldTyped ==
    ASSUME Typed, Tick \/ recordForcedProviderFailure \/ OtherProcess
    PROVE  Typed'
<1>1. CASE Tick
    <2>1. breakers' \in [Exchange -> BreakerEntry]
        BY <1>1, BreakerTypes DEF Tick, Typed
    <2> QED
        BY <1>1, <2>1 DEF Tick, Stays, Typed
<1>2. CASE recordForcedProviderFailure
    BY <1>2 DEF recordForcedProviderFailure, Stays, Typed
<1>3. CASE OtherProcess
    BY <1>3 DEF OtherProcess, Stays, Typed, runtime, Ages
<1> QED
    BY <1>1, <1>2, <1>3

LEMMA TypedStep == Typed /\ [Next]_vars => Typed'
<1> SUFFICES ASSUME Typed, [Next]_vars PROVE Typed'
    OBVIOUS
<1>1. CASE UNCHANGED vars
    BY <1>1 DEF vars, Typed
<1>2. CASE Next
    BY <1>2, FanTyped, MetadataTyped, StepsTyped, RescueTyped, RefreshTyped, TickersTyped,
       PersistTyped, WorldTyped DEF Next
<1> QED
    BY <1>1, <1>2

\* Every variable of the sync keeps its type, and no more exchanges are asked
\* at a time than are allowed.
THEOREM TypeCorrect == Spec => []TypeOK
BY TypedInit, TypedStep, TypedMeansTypeOK, PTL DEF Spec

\* No answer is lost: neither a budget nor another answer replaces it.
THEOREM AnswersAreKept == Spec => AnswersKept
<1>1. ASSUME Typed, Next, stage' = stage, items' = items
      PROVE  KeepsResults(fan, fan')
    <2>1. CASE Answers \/ BudgetExpires
        BY <1>1, <2>1, FanTyped
    <2>2. CASE fan' = fan
        BY <2>2 DEF KeepsResults
    <2>4. ~MetadataSynced /\ ~CoinsSynced /\ ~CatalogSynced
        BY <1>1 DEF MetadataSynced, CoinsSynced, CatalogSynced, Resolved, Goes
    <2>5. RefreshBegins => fan' = fan
        BY <1>1 DEF RefreshBegins, Goes, work
    <2> QED
        BY <1>1, <2>1, <2>2, <2>4, <2>5 DEF Next, ChainsSynced, StatementFails, StartRescue,
            TickersFetched, Persisted, RefreshFails, Count, Tick, recordForcedProviderFailure,
            OtherProcess, Stays, work
<1>2. Typed /\ [Next]_vars =>
        [ stage' = stage /\ items' = items =>
            \A i \in DOMAIN fan.results : fan.results[i] # "none" => fan'.results[i] = fan.results[i] ]_vars
    BY <1>1 DEF KeepsResults
<1> QED
    BY <1>2, TypedInit, TypedStep, PTL DEF Spec, AnswersKept
-----------------------------------------------------------------------------
(***************************************************************************)
(* What the rescue needs and what "live" means.  From its start the rescue *)
(* has a closed breaker and no cooldown in front of it, through whatever   *)
(* the world does before the refresh begins.  Snapshots that are fresh     *)
(* although no ticker is were written by a refresh whose report names who  *)
(* answered; that report stays, because the only refresh that may still    *)
(* follow is a rescue that finds the lease held.                           *)
(***************************************************************************)

\* A rescue is the last refresh.
RescueLast == rescue => stage \notin {"metadata", "coins", "chains", "rescue"}

RescueReady ==
    stage = "refresh" /\ rescue => ~cooling /\ breakers[Rescuer(chosen)] = createEntry

LeaseHeld == stage \in {"catalog", "tickers", "persist"} => lease = "mine"

\* The refresh is over, or only a rescue is left that will not get the lease.
ReportStands ==
    \/ stage \in {"count", "done", "failed"}
    \/ stage = "rescue" /\ lease = "mine"
    \/ stage = "refresh" /\ rescue /\ lease = "mine"

FreshReported ==
    db.snapshots = "fresh" /\ db.tickers # "fresh" => report.successful # {} /\ ReportStands

\* The mark is set by the last step.
Concluded == outcome # "unset" => stage = "done"

SyncInv ==
    /\ Typed /\ RescueLast /\ RescueReady /\ LeaseHeld
    /\ FreshReported /\ Concluded /\ LiveMeansFresh
LEMMA SyncInit == Init => SyncInv
BY TypedInit DEF Init, SyncInv, RescueLast, RescueReady, FreshReported, LeaseHeld, Concluded, LiveMeansFresh

LEMMA RescueLastStep == ASSUME SyncInv, [Next]_vars PROVE RescueLast'
<1>1. RescueLast
    BY DEF SyncInv
<1>2. CASE RefreshBegins \/ TickersFetched \/ Persisted \/ RefreshFails
    BY <1>1, <1>2 DEF RefreshBegins, TickersFetched, Persisted, RefreshFails, RescueLast, Throws,
        ThrowsWith, Returns, Resolved, Goes
<1>3. CASE ~(RefreshBegins \/ TickersFetched \/ Persisted \/ RefreshFails)
    BY <1>1, <1>3 DEF Next, RescueLast, Answers, BudgetExpires, MetadataSynced, CoinsSynced,
        ChainsSynced, StatementFails, StartRescue, CatalogSynced, Count, Tick,
        recordForcedProviderFailure, OtherProcess, Stays, Goes, Resolved, vars
<1> QED
    BY <1>2, <1>3

LEMMA RescueReadyStep == ASSUME SyncInv, [Next]_vars PROVE RescueReady'
<1> SUFFICES ASSUME stage' = "refresh", rescue'
             PROVE  ~cooling' /\ breakers'[Rescuer(chosen')] = createEntry
    BY DEF RescueReady, Rescuer
<1>t. /\ breakers \in [Exchange -> BreakerEntry]
      /\ stage \notin {"metadata", "failed"} => Rescuer(chosen) \in Exchange
    BY RescuerType DEF SyncInv, Typed
<1>1. CASE StartRescue
    BY <1>1, <1>t DEF StartRescue, recordProviderSuccess
<1>2. CASE ChainsSynced
    BY <1>2 DEF ChainsSynced, Resolved, SyncInv, RescueLast
<1>3. ASSUME stage = "refresh", rescue' = rescue, chosen' = chosen, breakers' = breakers,
             cooling' => cooling
      PROVE  ~cooling' /\ breakers'[Rescuer(chosen')] = createEntry
    BY <1>3 DEF SyncInv, RescueReady, Rescuer
<1>4. CASE Tick
    <2>1. breakers[Rescuer(chosen)] = createEntry /\ Rescuer(chosen') = Rescuer(chosen)
        BY <1>4 DEF Tick, Stays, SyncInv, RescueReady, Rescuer
    <2>2. breakers'[Rescuer(chosen)] = [createEntry EXCEPT !.openedLeft = 0]
        BY <1>4, <1>t, <2>1 DEF Tick, Stays, createEntry
    <2> QED
        BY <1>4, <2>1, <2>2 DEF Tick, createEntry
<1>5. CASE recordForcedProviderFailure \/ OtherProcess \/ UNCHANGED vars
    <2>1. /\ stage = "refresh" /\ rescue' = rescue /\ chosen' = chosen /\ breakers' = breakers
          /\ cooling' => cooling
        <3>1. CASE recordForcedProviderFailure
            BY <3>1 DEF recordForcedProviderFailure, Stays
        <3>2. CASE OtherProcess
            BY <3>2 DEF OtherProcess, Stays, runtime
        <3>3. CASE UNCHANGED vars
            BY <3>3 DEF vars, runtime
        <3> QED
            BY <1>5, <3>1, <3>2, <3>3
    <2> QED
        BY <1>3, <2>1
<1>6. ~RefreshBegins /\ ~TickersFetched /\ ~Persisted /\ ~RefreshFails
    BY DEF RefreshBegins, TickersFetched, Persisted, RefreshFails, Throws, ThrowsWith, Returns, Goes
<1>7. ~Answers /\ ~BudgetExpires
    BY DEF Answers, BudgetExpires, Fetching
<1> QED
    BY <1>1, <1>2, <1>4, <1>5, <1>6, <1>7
    DEF Next, MetadataSynced, CoinsSynced, StatementFails, CatalogSynced, Count, Goes

LEMMA LeaseHeldStep == ASSUME SyncInv, [Next]_vars PROVE LeaseHeld'
<1>1. LeaseHeld
    BY DEF SyncInv
<1>2. CASE RefreshBegins
    BY <1>2 DEF RefreshBegins, LeaseHeld, Throws, ThrowsWith, Returns, Goes
<1>3. CASE TickersFetched \/ Persisted \/ RefreshFails
    BY <1>1, <1>3 DEF TickersFetched, Persisted, RefreshFails, LeaseHeld, Throws, ThrowsWith,
        Returns, Goes, Resolved
<1>4. CASE OtherProcess
    BY <1>1, <1>4 DEF OtherProcess, LeaseHeld, Stays
<1>5. CASE ~(RefreshBegins \/ TickersFetched \/ Persisted \/ RefreshFails \/ OtherProcess)
    BY <1>1, <1>5 DEF Next, LeaseHeld, Answers, BudgetExpires, MetadataSynced, CoinsSynced,
        ChainsSynced, StatementFails, StartRescue, CatalogSynced, Count, Tick,
        recordForcedProviderFailure, Stays, Goes, Resolved, vars
<1> QED
    BY <1>2, <1>3, <1>4, <1>5

\* The rescue asks its exchange: nothing in front of it can be closed.
LEMMA RescueOpen ==
    ASSUME SyncInv, stage = "refresh", rescue
    PROVE  {e \in ToSet(Asked) : canAttemptProvider(breakers[e])} # {}
<1>1. Asked = <<Rescuer(chosen)>> /\ breakers[Rescuer(chosen)] = createEntry
    BY DEF Asked, SyncInv, RescueReady
<1>2. canAttemptProvider(createEntry)
    BY DEF canAttemptProvider, createEntry
<1>3. Rescuer(chosen) \in ToSet(Asked)
    BY <1>1 DEF ToSet
<1> QED
    BY <1>1, <1>2, <1>3

LEMMA FreshReportedStep == ASSUME SyncInv, [Next]_vars PROVE FreshReported'
<1> SUFFICES ASSUME db'.snapshots = "fresh", db'.tickers # "fresh"
             PROVE  report'.successful # {} /\ ReportStands'
    BY DEF FreshReported
<1>t. Typed /\ report \in Report /\ LeaseHeld
    BY DEF SyncInv, Typed
<1>1. CASE Persisted
    <2>1. PICK accepted \in SUBSET Answering, released \in BOOLEAN :
             /\ db' = [tickers |-> IF accepted \cap known # {} THEN "fresh" ELSE db.tickers,
                       snapshots |-> IF accepted # {} THEN "fresh" ELSE db.snapshots]
             /\ lease' = IF released THEN "free" ELSE lease
             /\ IF released THEN Returns ELSE ThrowsWith(db')
        BY <1>1 DEF Persisted
    <2>2. db.tickers # "fresh" /\ (accepted # {} \/ db.snapshots = "fresh")
        BY <2>1
    <2>3. db.snapshots # "fresh"
        BY <1>1, <2>2 DEF Persisted, SyncInv, FreshReported, ReportStands
    <2>4. report'.successful = ToSet(items) \ (ToSet(items) \ Answering)
        BY <1>1 DEF Persisted, Reported
    <2>5. report'.successful # {}
        BY <1>t, <2>2, <2>3, <2>4, AnsweringAsked
    <2>6. lease = "mine"
        BY <1>1, <1>t DEF Persisted, LeaseHeld
    <2>7. ReportStands'
        BY <2>1, <2>6 DEF ReportStands, Returns, ThrowsWith, Goes
    <2> QED
        BY <2>5, <2>7
<1>2. CASE db' = db
    <2>1. report.successful # {} /\ ReportStands
        BY <1>2 DEF SyncInv, FreshReported
    <2>2. CASE RefreshBegins
        <3>1. stage = "refresh" /\ rescue /\ lease = "mine"
            BY <2>1, <2>2 DEF RefreshBegins, ReportStands
        <3>2. {e \in ToSet(Asked) : canAttemptProvider(breakers[e])} # {}
            BY <3>1, RescueOpen
        <3> QED
            BY <2>1, <2>2, <3>1, <3>2 DEF RefreshBegins, ReportStands, Throws, ThrowsWith, Returns, Goes
    <2>3. CASE StartRescue
        BY <2>1, <2>3 DEF StartRescue, ReportStands, Goes
    <2>4. CASE Count
        <3>1. report'.successful = report.successful
            BY <1>t, <2>4 DEF Count, Report
        <3> QED
            BY <2>1, <2>4, <3>1 DEF Count, ReportStands, Goes
    <2>5. CASE Tick \/ recordForcedProviderFailure \/ UNCHANGED vars
        BY <2>1, <2>5 DEF Tick, recordForcedProviderFailure, Stays, vars, ReportStands
    <2>6. CASE OtherProcess
        BY <2>1, <2>6 DEF OtherProcess, Stays, Between, Running, Fetching, ReportStands
    <2>7. ~TickersFetched /\ ~RefreshFails
        BY <2>1 DEF TickersFetched, RefreshFails, Resolved, ReportStands
    <2>8. ~Answers /\ ~BudgetExpires
        BY <2>1 DEF Answers, BudgetExpires, Fetching, ReportStands
    <2>9. ~MetadataSynced /\ ~CoinsSynced /\ ~ChainsSynced /\ ~StatementFails /\ ~CatalogSynced
        BY <2>1 DEF MetadataSynced, CoinsSynced, ChainsSynced, StatementFails, CatalogSynced,
            Resolved, ReportStands
    <2> QED
        BY <1>1, <2>2, <2>3, <2>4, <2>5, <2>6, <2>7, <2>8, <2>9 DEF Next
<1>3. CASE OtherProcess
    BY <1>2, <1>3 DEF OtherProcess
<1>4. CASE ~Persisted /\ ~OtherProcess
    <2>1. db' = db
        BY <1>4 DEF Next, Answers, BudgetExpires, MetadataSynced, CoinsSynced, ChainsSynced,
            StatementFails, StartRescue, RefreshBegins, CatalogSynced, TickersFetched,
            RefreshFails, Count, Tick, recordForcedProviderFailure, vars
    <2> QED
        BY <1>2, <2>1
<1> QED
    BY <1>1, <1>3, <1>4

LEMMA LiveStep == ASSUME SyncInv, [Next]_vars PROVE Concluded' /\ LiveMeansFresh'
<1>t. Typed /\ report \in Report
    BY DEF SyncInv, Typed
<1>1. CASE Count
    <2>1. report'.successful = report.successful /\ db' = db /\ stage' = "done"
        BY <1>1, <1>t DEF Count, Report, Goes
    <2>2. outcome' = "live" => db.snapshots = "fresh"
        BY <1>1 DEF Count, countFreshLiveMarketSnapshots
    <2>3. db.snapshots = "fresh" => db.tickers = "fresh" \/ report.successful # {}
        BY DEF SyncInv, FreshReported
    <2> QED
        BY <2>1, <2>2, <2>3 DEF Concluded, LiveMeansFresh
<1>2. CASE outcome' = outcome /\ outcome = "unset"
    BY <1>2 DEF Concluded, LiveMeansFresh
<1>3. CASE outcome # "unset" /\ ~Count
    <2>1. stage = "done"
        BY <1>3 DEF SyncInv, Concluded
    <2>2. ~Tick /\ ~recordForcedProviderFailure /\ ~OtherProcess
        BY <2>1 DEF Tick, recordForcedProviderFailure, OtherProcess, Between, Running, Fetching
    <2>3. UNCHANGED vars
        BY <1>3, <2>1, <2>2 DEF Next, Answers, BudgetExpires, MetadataSynced, CoinsSynced,
            ChainsSynced, StatementFails, StartRescue, RefreshBegins, CatalogSynced,
            TickersFetched, Persisted, RefreshFails, Resolved, Fetching
    <2> QED
        BY <2>3 DEF vars, SyncInv, Concluded, LiveMeansFresh
<1>4. CASE ~Count
    <2>1. outcome' = outcome
        BY <1>4 DEF Next, Answers, BudgetExpires, MetadataSynced, CoinsSynced, ChainsSynced,
            StatementFails, StartRescue, RefreshBegins, CatalogSynced, TickersFetched,
            Persisted, RefreshFails, Tick, recordForcedProviderFailure, OtherProcess, Stays, vars
    <2> QED
        BY <1>2, <1>3, <1>4, <2>1
<1> QED
    BY <1>1, <1>4

LEMMA SyncStep == SyncInv /\ [Next]_vars => SyncInv'
<1> SUFFICES ASSUME SyncInv, [Next]_vars PROVE SyncInv'
    OBVIOUS
<1>1. Typed'
    BY TypedStep DEF SyncInv
<1>2. /\ RescueLast' /\ RescueReady' /\ LeaseHeld'
      /\ FreshReported' /\ Concluded' /\ LiveMeansFresh'
    BY RescueLastStep, RescueReadyStep, LeaseHeldStep, FreshReportedStep, LiveStep
<1> QED
    BY <1>1, <1>2 DEF SyncInv

\* A sync that says it ended with live snapshots got an answer itself, or
\* somebody else committed fresh tickers; what an earlier start left in the
\* database never counts.
THEOREM LiveIsFresh == Spec => []LiveMeansFresh
<1>1. SyncInv => LiveMeansFresh
    BY DEF SyncInv
<1> QED
    BY <1>1, SyncInit, SyncStep, PTL DEF Spec

\* The rescue contacts its exchange, whatever the refresh before it left of
\* breakers and cooldown, unless a failure is forced or the lease is taken.
THEOREM RescueReaches == Spec => RescueReachesProvider
<1>1. ASSUME SyncInv, Next, stage = "refresh", rescue, ~forced, lease = "free", stage' # stage
      PROVE  stage' = "catalog"
    <2>1. RefreshBegins
        BY <1>1 DEF Next, Answers, BudgetExpires, MetadataSynced, CoinsSynced, ChainsSynced,
            StatementFails, StartRescue, CatalogSynced, TickersFetched, Persisted, RefreshFails,
            Count, Tick, recordForcedProviderFailure, OtherProcess, Stays, Resolved, Fetching
    <2>2. ~cooling
        BY <1>1 DEF SyncInv, RescueReady
    <2>3. {e \in ToSet(Asked) : canAttemptProvider(breakers[e])} # {}
        BY <1>1, RescueOpen
    <2> QED
        BY <1>1, <2>1, <2>2, <2>3 DEF RefreshBegins, Goes
<1>2. SyncInv /\ [Next]_vars =>
        [ stage = "refresh" /\ rescue /\ ~forced /\ lease = "free" /\ stage' # stage
            => stage' = "catalog" ]_vars
    BY <1>1
<1> QED
    BY <1>2, SyncInit, SyncStep, PTL DEF Spec, RescueReachesProvider
=============================================================================
