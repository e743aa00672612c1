----------------------------- MODULE MCJobScheduler -----------------------------
\* Small instances of JobScheduler.
EXTENDS JobScheduler

CONSTANTS fast, late, off

MCInterval == [j \in Job |-> IF j = late THEN 3 ELSE 2]
=============================================================================
