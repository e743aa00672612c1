---------------------------- MODULE ProviderBreaker ----------------------------
(***************************************************************************)
(* services/provider-breaker.ts: one breaker, as operators over its entry. *)
(* openedUntil is kept as the ticks left until it; none left is also null. *)
(***************************************************************************)
EXTENDS Naturals

CONSTANTS
    BaseBackoff, MaxBackoff,    \* baseBackoffMs, maxBackoffMs
    MaxFailures                 \* bound: failureCount stays here

ASSUME BreakerAssumption ==
    /\ BaseBackoff \in Nat /\ MaxBackoff \in Nat
    /\ MaxFailures \in Nat \ {0}

LOCAL Least(a, b) == IF a <= b THEN a ELSE b

BreakerEntry ==
    [status : {"closed", "open", "half_open"}, failureCount : 0..MaxFailures,
     openedLeft : 0..MaxBackoff]

createEntry == [status |-> "closed", failureCount |-> 0, openedLeft |-> 0]

\* Mutant: the instant an open breaker was opened until is not looked at.
canAttemptProviderClosedOnly(e) == e.status # "open"

canAttemptProvider(e) == e.status # "open" \/ e.openedLeft = 0

\* What canAttemptProvider leaves of an entry it lets through.
Checked(e) == IF canAttemptProvider(e) /\ e.status = "open"
              THEN [e EXCEPT !.status = "half_open"] ELSE e

recordProviderSuccess(e) == createEntry

\* The jitter adds up to a tenth.
computeBackoffs(failures) ==
    LET b == Least(MaxBackoff, BaseBackoff * 2^(failures - 1))
    IN  {Least(MaxBackoff, b + x) : x \in {x \in 0..MaxBackoff : 10 * x <= b}}

recordProviderFailure(e, backoff) ==
    [status |-> "open", failureCount |-> Least(e.failureCount + 1, MaxFailures),
     openedLeft |-> backoff]
=============================================================================
