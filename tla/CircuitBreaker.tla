---------------------------- MODULE CircuitBreaker ----------------------------
(***************************************************************************)
(* The circuit breaker around model and API calls                          *)
(* (src/src/utils/circuit_breaker.py).  One breaker is shared by every     *)
(* coroutine that calls the service; it decides before the call and learns *)
(* of the result after it, and other calls come and go in between.         *)
(***************************************************************************)
EXTENDS Naturals, FiniteSets

CONSTANTS
    Calls,             \* the calls made through the breaker
    FailureThreshold,  \* failure_threshold
    MaxBackoff         \* max_backoff_seconds / recovery_seconds

ASSUME BreakerAssumption ==
    /\ IsFiniteSet(Calls)
    /\ FailureThreshold \in Nat \ {0}
    /\ MaxBackoff \in Nat \ {0}

VARIABLES
    state,             \* _state
    failures,          \* _failure_count
    multiplier,        \* _backoff_multiplier
    elapsed,           \* the recovery period, times the multiplier, is over
    call               \* where each call is

vars == <<state, failures, multiplier, elapsed, call>>

Init ==
    /\ state = "closed"
    /\ failures = 0
    /\ multiplier = 1
    /\ elapsed = FALSE
    /\ call = [c \in Calls |-> "idle"]

\* The state property: an open circuit becomes half open by being looked at.
Observed == IF state = "open" /\ elapsed THEN "half_open" ELSE state

\* Time passes; it only matters while the circuit is open.
Elapse ==
    /\ state = "open"
    /\ ~elapsed
    /\ elapsed' = TRUE
    /\ UNCHANGED <<state, failures, multiplier, call>>

\* call(): rejected while open, otherwise the function is awaited.
Begin(c) ==
    /\ call[c] = "idle"
    /\ state' = Observed
    /\ call' = [call EXCEPT ![c] = IF Observed = "open" THEN "idle" ELSE "in_flight"]
    /\ UNCHANGED <<failures, multiplier, elapsed>>

Settle(c) ==
    /\ call[c] = "in_flight"
    /\ call' = [call EXCEPT ![c] = "idle"]

\* Mutant: the back-off is not reset.
SucceedKeepsBackoff(c) ==
    /\ Settle(c)
    /\ failures' = 0
    /\ state' = IF state = "half_open" THEN "closed" ELSE state
    /\ UNCHANGED <<multiplier, elapsed>>

\* _on_success
Succeed(c) ==
    /\ Settle(c)
    /\ failures' = 0
    /\ IF state = "half_open"
       THEN state' = "closed" /\ multiplier' = 1
       ELSE UNCHANGED <<state, multiplier>>
    /\ UNCHANGED elapsed

Doubled == IF 2 * multiplier < MaxBackoff THEN 2 * multiplier ELSE MaxBackoff

\* _on_failure
Fail(c) ==
    /\ Settle(c)
    /\ failures' = IF failures < FailureThreshold THEN failures + 1 ELSE failures
    /\ elapsed' = FALSE
    /\ IF state = "half_open"
       THEN state' = "open" /\ multiplier' = Doubled
       ELSE /\ state' = IF failures' >= FailureThreshold THEN "open" ELSE state
            /\ UNCHANGED multiplier

\* The caller is cancelled: CancelledError is neither a success nor a failure.
Abandon(c) ==
    /\ Settle(c)
    /\ UNCHANGED <<state, failures, multiplier, elapsed>>

\* reset()
Reset ==
    /\ state' = "closed"
    /\ failures' = 0
    /\ multiplier' = 1
    /\ UNCHANGED <<elapsed, call>>

Next ==
    \/ Elapse \/ Reset
    \/ \E c \in Calls : Begin(c) \/ Succeed(c) \/ Fail(c) \/ Abandon(c)

Spec == Init /\ [][Next]_vars

-----------------------------------------------------------------------------
(* Properties *)

TypeOK ==
    /\ state \in {"closed", "open", "half_open"}
    /\ failures \in 0..FailureThreshold
    /\ multiplier \in 1..MaxBackoff
    /\ elapsed \in BOOLEAN
    /\ call \in [Calls -> {"idle", "in_flight"}]

\* A closed circuit is a fresh one: below the threshold and with the shortest
\* back-off, whichever late results arrived while it was open or half open.
ClosedIsFresh == state = "closed" => failures < FailureThreshold /\ multiplier = 1

=============================================================================
