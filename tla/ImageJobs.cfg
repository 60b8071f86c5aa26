\* Two jobs under one key or none and one poller; workers stop anywhere, but
\* the heartbeats of a live one arrive in time.
CONSTANTS
    s1 = s1  s2 = s2  p1 = p1  b1 = b1  b2 = b2  k1 = k1
    Submits = {s1, s2}
    Polls = {p1}
    Keys = {k1}
    Bodies = {b1, b2}
    NoKey = NoKey
    NoJob = NoJob
    StaleAfter = 2
    Timely = TRUE
SPECIFICATION FairJobsSpec
\* When every job has ended there is nothing left to do.
CHECK_DEADLOCK FALSE
INVARIANTS
    Idempotent
PROPERTIES
    TerminalStable
    NoZombies
