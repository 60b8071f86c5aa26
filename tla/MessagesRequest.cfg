\* A model of each kind of edge and a tenant model, a fallback, two backends
\* and a queue of two: every mix of hop, fallback and tenant, and a producer
\* ahead of its client, level with it and held up by it.  A request ends.
CONSTANTS
    Tags = {"opus", "gpt", "user"}
    UserTags = {"user"}
    NativeTags = {"opus"}
    MaxFallbacks = 1
    Backends = {1, 2}
    Served = {{1}, {1, 2}}
    Hops = TRUE
    Modes = {TRUE, FALSE}
    MaxQueue = 2
SPECIFICATION FairSpec
CHECK_DEADLOCK FALSE
INVARIANTS
    Accounted
    FailureTold
PROPERTIES
    OneSource
    Closes
