\* Both surfaces, backend hops, every outcome of the accrual, two deaths.
CONSTANTS
    r1 = r1
    Served = {r1}
    Paths = {"chat", "messages"}
    Hops = TRUE
    Accruals = {"kept", "charged", "raced"}
    Gating = {TRUE, FALSE}
    MaxAttempts = 3
    MaxAborts = 2
SPECIFICATION FairLedgerSpec
\* Once every request is recorded and settled, nothing is left to do.
CHECK_DEADLOCK FALSE
INVARIANTS
    DebitedMeansCharged
PROPERTIES
    DebitsSettle
