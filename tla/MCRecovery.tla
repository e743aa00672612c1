------------------------------- MODULE MCRecovery -------------------------------
(***************************************************************************)
(* What a crash leaves running in the database, and who settles it: the    *)
(* leases of the OHLCV worker, and the records of the optional jobs.  The  *)
(* two share no table, so a behaviour moves one of them, its topic, and    *)
(* the other one stays in its first state.                                 *)
(***************************************************************************)
EXTENDS MCOhlcvRuntime

CONSTANTS charts, history, api, cli, nobody, absent

VARIABLES rows, records, registry, run, mode, topic

passes == <<rows, records, registry, run, mode>>
all == <<vars, passes, topic>>

\* Passes over two jobs whose answers hold no rows.
Passes == INSTANCE OptionalProviderSync WITH
    Job <- {charts, history}, Order <- <<charts, history>>,
    Targets <- [j \in {charts, history} |-> {"daily"}], RowsOf <- [t \in {"daily"} |-> {}],
    Tolerant <- {charts}, Command <- {cli}, Api <- api,
    Retention <- 1, LongestRun <- 0, Absent <- absent, Nobody <- nobody

\* The steps of fairness, by their place in FairSpec: of each disjunction only the
\* disjunct of the topic is ever enabled, so that one condition of fairness serves both.
Weak(n) ==
    \/ /\ topic = "leases"
       /\ \/ n = 1 /\ Advance
          \/ n = 2 /\ StartTick(w1)
          \/ n = 3 /\ Progress(w1)
       /\ UNCHANGED <<passes, topic>>
    \/ /\ topic = "records"
       /\ \/ n = 1 /\ Passes!PassBegins
          \/ n = 2 /\ Passes!Progress(api)
          \/ n = 3 /\ Passes!Progress(cli)
       /\ UNCHANGED <<vars, topic>>

Strong(n) ==
    \/ /\ topic = "leases"
       /\ \/ n = 1 /\ upsertOhlcvSyncTargets(w1)
          \/ n = 2 /\ refreshOhlcvPriorityTiers(w1)
          \/ n = 3 /\ SelectCandidates(w1)
          \/ n = 4 /\ LeaseTarget(w1, t1)
       /\ UNCHANGED <<passes, topic>>
    \/ /\ topic = "records"
       /\ \/ n \in {1, 2} /\ Passes!RecordRunning(api)
          \/ n \in {3, 4} /\ Passes!RecordFailure(api)
       /\ Passes!JobOf(api) = IF n \in {1, 3} THEN charts ELSE history
       /\ UNCHANGED <<vars, topic>>

RecoveryInit == Init /\ Passes!Init /\ topic \in {"leases", "records"}

RecoveryNext ==
    /\ UNCHANGED topic
    /\ \/ /\ topic = "leases"
          /\ UNCHANGED passes
          /\ Next
       \/ /\ topic = "records"
          /\ UNCHANGED vars
          /\ Passes!Next

RecoverySpec ==
    /\ RecoveryInit /\ [][RecoveryNext]_all
    /\ \A n \in 1..3 : WF_all(Weak(n))
    /\ \A n \in 1..4 : SF_all(Strong(n))

\* Of two jobs: a record left running, by a crash or a locked database, is settled by a
\* later pass, however often the jobs fail, as long as the process stays up.
RecordsSettle == Passes!RecordsSettle
=============================================================================
