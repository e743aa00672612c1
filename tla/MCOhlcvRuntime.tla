--------------------------- MODULE MCOhlcvRuntime ---------------------------
(***************************************************************************)
(* Instances of OhlcvRuntime for TLC.                                      *)
(***************************************************************************)
EXTENDS OhlcvRuntime, TLC

CONSTANTS t1, t2, w1, w2

\* Workers are interchangeable.
WorkerSymmetry == Permutations(Worker)

\* One intraday target, of which so much history is wanted.
OneTarget(depth) ==
    [t \in Target |-> [coin |-> 1, interval |-> "1m",
                       priorityTier |-> "long_tail", targetHistory |-> depth]]

MCOneTarget == OneTarget(3)
MCDeepTarget == OneTarget(4)
=============================================================================
