\* Two catalog models and a tenant model, a fallback, two backends of which
\* the first cannot pass MCP servers on: every mix of hop, fallback and tenant
\* occurs, over every assignment of backends to models.  A request ends.
CONSTANTS
    Tags = {"opus", "gpt", "user"}
    UserTags = {"user"}
    MaxFallbacks = 1
    Backends = {1, 2}
    Passthrough = {2}
    Failover = TRUE
    MaxTries = 2
    Modes = {TRUE, FALSE}
    Aware = {TRUE, FALSE}
SPECIFICATION FairSpec
CHECK_DEADLOCK FALSE
INVARIANTS
    Accounted
    RepeatsSound
PROPERTIES
    OneSource
    Ends
