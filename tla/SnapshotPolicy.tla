----------------------------- MODULE SnapshotPolicy -----------------------------
(***************************************************************************)
(* modules/market-freshness.ts: which market snapshot a hot route may show.*)
(* A snapshot is a record of its kind (none stored, seeded: sourceCount 0, *)
(* or live) and its age; an override is a record of its mode and the age   *)
(* of its timestamp.                                                       *)
(***************************************************************************)
EXTENDS Naturals

CONSTANTS
    Threshold,      \* marketFreshnessThresholdSeconds
    TooOld          \* bound: ages stay here

ASSUME ThresholdAssumption == Threshold \in Nat /\ TooOld \in Nat /\ Threshold < TooOld

Snapshot == [kind : {"none", "seeded", "live"}, age : 0..TooOld]

Mode == {"off", "stale_disallowed", "stale_allowed", "seeded_bootstrap",
         "degraded_seeded_bootstrap", "zero_live_completed_boot"}

Override == [mode : Mode, age : 0..TooOld]

Policy == [completed : BOOLEAN, stale : BOOLEAN]

\* Four modes of the override decide by themselves; else the flags decide.
getSnapshotAccessPolicy(mode, completed, stale) ==
    LET decided == mode \in {"stale_disallowed", "stale_allowed", "seeded_bootstrap",
                             "degraded_seeded_bootstrap"}
    IN  [completed |-> IF decided THEN mode \in {"stale_disallowed", "stale_allowed"}
                       ELSE completed,
         stale |-> IF decided THEN mode \in {"stale_allowed", "seeded_bootstrap"} ELSE stale]

\* The degraded_state route overrides the source count and, but for the mode
\* off, the timestamp: the epoch for the stale modes, its own instant else.
getEffectiveSnapshot(s, override) ==
    IF s.kind = "none" \/ override.mode = "off" THEN s
    ELSE [kind |-> IF override.mode \in {"degraded_seeded_bootstrap", "zero_live_completed_boot"}
                   THEN "seeded" ELSE "live",
          age |-> IF override.mode \in {"stale_disallowed", "stale_allowed"}
                  THEN TooOld ELSE override.age]

\* Mutant: the age of a live row is not looked at.
getUsableSnapshotOfAnyAge(s, policy) ==
    \/ s.kind = "seeded" /\ ~policy.completed
    \/ s.kind = "live"

\* Seeded rows only before the initial sync, live rows while fresh, older ones
\* while stale service is allowed.
getUsableSnapshot(s, policy) ==
    \/ s.kind = "seeded" /\ ~policy.completed
    \/ s.kind = "live" /\ (s.age <= Threshold \/ policy.stale)
=============================================================================
