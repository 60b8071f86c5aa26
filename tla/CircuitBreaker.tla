--------------------------- MODULE CircuitBreaker ---------------------------
(***************************************************************************)
(* adapters/circuit_breaker.py: the breaker every request to one provider  *)
(* passes through.  There is one per provider and per process, shared by   *)
(* all concurrent requests; each of its methods holds an asyncio lock and  *)
(* never awaits under it, so each is one atomic action.  Between admission *)
(* (__aenter__) and completion (__aexit__) a call is in flight at the      *)
(* provider, and the breaker may change state any number of times.         *)
(*                                                                         *)
(* Abstractions.  The wall clock is the number of ticks since the last     *)
(* recorded failure, saturating at RecoveryTimeout (the only value it is   *)
(* compared with).  The two streak counters saturate at the threshold they *)
(* are compared with.  The monitoring counters, which no decision reads,   *)
(* are left out.                                                           *)
(***************************************************************************)
EXTENDS Integers, FiniteSets

CONSTANTS
    Calls,              \* the requests that may be in flight at once
    FailureThreshold,   \* CircuitBreakerConfig.failure_threshold
    SuccessThreshold,   \* CircuitBreakerConfig.success_threshold
    RecoveryTimeout,    \* CircuitBreakerConfig.recovery_timeout, in ticks
    HalfOpenMaxCalls,   \* CircuitBreakerConfig.half_open_max_calls
    Exits               \* the ways a call can leave the async with block

\* "fault": a 5xx, a timeout, a connection error, reported as ProviderError.
\* "throttled": ProviderUnavailableError, the provider's 429 or overloaded.
\* "cancelled": CancelledError or GeneratorExit, our own client went away.
AllExits == {"success", "throttled", "fault", "cancelled"}

ASSUME CallsAssumption == IsFiniteSet(Calls)
ASSUME ThresholdsAssumption ==
    /\ FailureThreshold \in Nat \ {0}
    /\ SuccessThreshold \in Nat \ {0}
    /\ RecoveryTimeout \in Nat
    /\ HalfOpenMaxCalls \in Nat \ {0}
ASSUME ExitsAssumption == Exits \subseteq AllExits

VARIABLES
    state,                  \* CircuitBreaker.state
    consecutive_failures,   \* stats.consecutive_failures, saturating
    consecutive_successes,  \* stats.consecutive_successes, saturating
    half_open_calls,        \* _half_open_calls
    sinceFailure,           \* time.time() - stats.last_failure_time
    inFlight                \* the calls between __aenter__ and __aexit__

\* History variables: they record what happened and guard nothing.
VARIABLES
    probes,          \* calls admitted in the present or latest half-open window
    throttledProbes, \* completions of that window that were throttled
    lateExits        \* completions in it of calls admitted before it

breaker == <<state, consecutive_failures, consecutive_successes,
             half_open_calls, sinceFailure>>
history == <<probes, throttledProbes, lateExits>>
breakerVars    == <<breaker, inFlight, history>>

States == {"CLOSED", "OPEN", "HALF_OPEN"}

\* One more than n, but never beyond bound.
UpTo(bound, n) == IF n < bound THEN n + 1 ELSE bound

BreakerTypeOK ==
    /\ state \in States
    /\ consecutive_failures \in 0..FailureThreshold
    /\ consecutive_successes \in 0..SuccessThreshold
    /\ half_open_calls \in Int
    /\ half_open_calls <= HalfOpenMaxCalls
    /\ sinceFailure \in 0..RecoveryTimeout
    /\ inFlight \subseteq Calls
    /\ probes \subseteq Calls
    /\ throttledProbes \in Nat
    /\ lateExits \in Nat

\* last_failure_time is None, for which _should_attempt_recovery answers True.
BreakerInit ==
    /\ state = "CLOSED"
    /\ consecutive_failures = 0
    /\ consecutive_successes = 0
    /\ half_open_calls = 0
    /\ sinceFailure = RecoveryTimeout
    /\ inFlight = {}
    /\ probes = {}
    /\ throttledProbes = 0
    /\ lateExits = 0

BreakerTick ==
    /\ sinceFailure < RecoveryTimeout
    /\ sinceFailure' = sinceFailure + 1
    /\ UNCHANGED <<state, consecutive_failures, consecutive_successes,
                   half_open_calls, inFlight, history>>

----------------------------------------------------------------------------
(* _before_call: the three branches that admit a call.  A rejected call     *)
(* changes only monitoring counters and raises CircuitBreakerOpen.          *)

ShouldAttemptRecovery == sinceFailure >= RecoveryTimeout

HalfOpenHasRoom == half_open_calls < HalfOpenMaxCalls

AdmitClosed(c) ==
    /\ c \notin inFlight
    /\ state = "CLOSED"
    /\ inFlight' = inFlight \union {c}
    /\ probes' = probes \ {c}
    /\ UNCHANGED <<breaker, throttledProbes, lateExits>>

AdmitFirstProbe(c) ==
    /\ c \notin inFlight
    /\ state = "OPEN"
    /\ ShouldAttemptRecovery
    /\ state' = "HALF_OPEN"
    /\ half_open_calls' = 1
    /\ inFlight' = inFlight \union {c}
    /\ probes' = {c}
    /\ throttledProbes' = 0
    /\ lateExits' = 0
    /\ UNCHANGED <<consecutive_failures, consecutive_successes, sinceFailure>>

AdmitProbe(c) ==
    /\ c \notin inFlight
    /\ state = "HALF_OPEN"
    /\ HalfOpenHasRoom
    /\ half_open_calls' = half_open_calls + 1
    /\ inFlight' = inFlight \union {c}
    /\ probes' = probes \union {c}
    /\ UNCHANGED <<state, consecutive_failures, consecutive_successes,
                   sinceFailure, throttledProbes, lateExits>>

BeforeCall(c) == AdmitClosed(c) \/ AdmitFirstProbe(c) \/ AdmitProbe(c)

----------------------------------------------------------------------------
(* __aexit__: what each way out of the async with block records.            *)

\* History: a call admitted before the present window completed inside it.
NoteLate(c) ==
    lateExits' = IF state = "HALF_OPEN" /\ c \notin probes
                 THEN lateExits + 1 ELSE lateExits

\* Mutant of PlacesAfterExit: a completed probe keeps its place.
PlacesKept == half_open_calls

\* A recorded completion in HALF_OPEN gives back a place, whoever's it was.
PlacesAfterExit ==
    IF state = "HALF_OPEN" THEN half_open_calls - 1 ELSE half_open_calls

\* _on_success: the streak grows in every state, not only in HALF_OPEN.
OnSuccess(c) ==
    LET successes == UpTo(SuccessThreshold, consecutive_successes)
    IN  /\ consecutive_successes' = successes
        /\ consecutive_failures' = 0
        /\ half_open_calls' = PlacesAfterExit
        /\ state' = IF state = "HALF_OPEN" /\ successes >= SuccessThreshold
                    THEN "CLOSED" ELSE state
        /\ NoteLate(c)
        /\ UNCHANGED <<sinceFailure, throttledProbes>>

TooManyFailures(failures) == failures >= FailureThreshold

\* _on_failure: also in OPEN it restarts the recovery timeout.
OnFailure(c) ==
    LET failures == UpTo(FailureThreshold, consecutive_failures)
        opens    == \/ state = "CLOSED" /\ TooManyFailures(failures)
                    \/ state = "HALF_OPEN"
    IN  /\ sinceFailure' = 0
        /\ consecutive_failures' = failures
        /\ consecutive_successes' = 0
        /\ half_open_calls' = PlacesAfterExit
        /\ state' = IF opens THEN "OPEN" ELSE state
        /\ NoteLate(c)
        /\ UNCHANGED throttledProbes

\* ProviderUnavailableError: only the monitoring counter throttled_calls.
OnThrottled(c) ==
    /\ throttledProbes' = IF state = "HALF_OPEN" /\ c \in probes
                          THEN throttledProbes + 1 ELSE throttledProbes
    /\ UNCHANGED <<breaker, lateExits>>

AExit(c, exit) ==
    /\ c \in inFlight
    /\ inFlight' = inFlight \ {c}
    /\ probes' = probes \ {c}
    /\ \/ exit = "success" /\ OnSuccess(c)
       \/ exit = "throttled" /\ OnThrottled(c)
       \/ exit \in {"fault", "cancelled"} /\ OnFailure(c)

BreakerNext ==
    \/ BreakerTick
    \/ \E c \in Calls : BeforeCall(c)
    \/ \E c \in Calls, exit \in Exits : AExit(c, exit)

BreakerSpec == BreakerInit /\ [][BreakerNext]_breakerVars

\* Time passes, every call ends (provider reads have a timeout) and clients
\* keep sending requests.
FairBreakerSpec ==
    /\ BreakerSpec
    /\ WF_breakerVars(BreakerTick)
    /\ WF_breakerVars(\E c \in Calls : BeforeCall(c))
    /\ \A c \in Calls : WF_breakerVars(\E exit \in Exits : AExit(c, exit))

----------------------------------------------------------------------------
(* What the breaker guarantees.                                             *)

\* A closed breaker always has failures to spare: no interleaving of late
\* completions, recoveries and re-openings leaves it CLOSED with the count
\* already at failure_threshold, where it would never open again by count.
ClosedBelowThreshold ==
    state = "CLOSED" => consecutive_failures < FailureThreshold

\* The exact meaning of _half_open_calls: the probes in flight, plus the
\* probes that left by throttling (__aexit__ gives their place back to
\* nobody), minus the older calls whose completion was taken for a probe's.
ProbeAccounting ==
    state = "HALF_OPEN" =>
        half_open_calls = Cardinality(probes) + throttledProbes - lateExits

\* How far the half-open limit can be exceeded: by the calls still in flight
\* from before the window that completed inside it, and by no more.
ProbesBounded ==
    state = "HALF_OPEN" => Cardinality(probes) <= HalfOpenMaxCalls + lateExits

\* "Allows automatic recovery after failures" (circuit_breaker.py:5): once no
\* call fails any more, the breaker ends up CLOSED and stays so, unless it
\* lets throttled probes take every place of a half-open window.
Recovers ==
    /\ <>[](sinceFailure > 0)
    /\ [](throttledProbes < HalfOpenMaxCalls)
    => <>[](state = "CLOSED")

=============================================================================
