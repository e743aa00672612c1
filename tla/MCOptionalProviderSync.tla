------------------------- MODULE MCOptionalProviderSync -------------------------
(***************************************************************************)
(* A small instance of OptionalProviderSync: the rows of one tolerant job  *)
(* with two targets.  MCRecovery has the passes over two jobs.             *)
(***************************************************************************)
EXTENDS OptionalProviderSync

CONSTANTS charts, api, cli, nobody, absent

MCOneJob == <<charts>>

MCTwoTargets == [j \in Job |-> {"daily", "minute"}]

MCRowEach == [t \in {"daily", "minute"} |-> {t}]
=============================================================================
