\* Two callers that meet at the last place of every limit, one of them on the
\* embeddings route; the windows end once, one command or statement fails or one
\* counter is lost.  The fee comes with the key's budget alone, so that the commit of
\* the fee row can be followed by a failing one.  A budget of two is overshot when a
\* counter restarts from one.  The bound on the spend stops the callers.
CONSTANTS
    r1 = r1  r2 = r2
    Requests = {r1, r2}
    Embeddings = {r2}
    Lanes = {{"rate"}, {"key", "account"}, {"key", "fee"}}
    MinuteLimit = 1
    HourLimit = 2
    KeyLimit = 2
    Ceiling = 1
    Threshold = 3
    Absent = Absent
    MaxSpend = 4
    MaxFaults = 1
    MaxRolls = 1
SPECIFICATION FairSpec
INVARIANTS
    OvershootBounded
    RateBounded
    FeeOwed
PROPERTY
    PaidLifts
CHECK_DEADLOCK FALSE
