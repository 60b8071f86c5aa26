\* A limit of two probes and three successes to close: late completions,
\* throttled probes and a second window all occur, and a probe that kept its
\* place would block the third success.  A breaker whose probes were all
\* throttled admits nothing for ever, so the
\* system may stop.
CONSTANTS
    c1 = c1  c2 = c2  c3 = c3
    Calls = {c1, c2, c3}
    FailureThreshold = 2
    SuccessThreshold = 3
    RecoveryTimeout = 2
    HalfOpenMaxCalls = 2
    Exits = {"success", "throttled", "fault", "cancelled"}
SPECIFICATION FairBreakerSpec
CHECK_DEADLOCK FALSE
INVARIANTS
    ProbeAccounting
PROPERTY Recovers
