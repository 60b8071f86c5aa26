\* Two pods that boot twice, take one of three documents and live two days;
\* entries of one tick in memory and as many in Redis; one worker, two keys.
CONSTANTS
    Pods = {"p1", "p2"}
    Rates = {1, 2}
    First = "m1"
    Second = "m2"
    MaxDay = 2
    MaxBoots = 2
    LocalTTL = 1
    SharedTTL = 1
    Latency = 1
    Workers = {"w1"}
    OverlayTTL = 1
    Wait = 1
    PoolSize = 1
    MaxKeys = 2
    MaxVersion = 3
SPECIFICATION Spec
INVARIANTS
    StaleBounded
    PauseReaches
    SettingsAgree
    RotationTakesEffect
    NotBilled
PROPERTY Converges
\* Two pods that may boot no more stop.
CHECK_DEADLOCK FALSE
