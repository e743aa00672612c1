--------------------------- MODULE SchedulerContract ---------------------------
(***************************************************************************)
(* What the unified scheduler promises its jobs: a job has at most one run *)
(* at a time, and no run begins once stop() has been called.               *)
(***************************************************************************)
EXTENDS Naturals

CONSTANT Job

VARIABLES
    serving,    \* stop() has not been called since the last start()
    runs        \* runs in progress, per job

vars == <<serving, runs>>

Init == serving = TRUE /\ runs = [j \in Job |-> 0]

\* Some jobs begin a run; start() begins several at once.
Begin(S) ==
    /\ \A j \in S : runs[j] = 0
    /\ runs' = [j \in Job |-> IF j \in S THEN 1 ELSE runs[j]]

BeginRuns ==
    /\ serving
    /\ \E S \in SUBSET Job : Begin(S)
    /\ UNCHANGED serving

Open ==
    /\ serving' = TRUE
    /\ \E S \in SUBSET Job : Begin(S)

EndRun(j) ==
    /\ runs[j] = 1
    /\ runs' = [runs EXCEPT ![j] = 0]
    /\ UNCHANGED serving

Close ==
    /\ serving' = FALSE
    /\ UNCHANGED runs

Next == BeginRuns \/ Open \/ Close \/ \E j \in Job : EndRun(j)

Spec == Init /\ [][Next]_vars
=============================================================================
