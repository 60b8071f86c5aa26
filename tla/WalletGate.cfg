\* Three requests on two units, a threshold at the first balance so that the
\* cap of one applies as soon as a unit is spent and not before, a top-up,
\* keys that expire, one leaked slot.
CONSTANTS
    r1 = r1  r2 = r2  r3 = r3
    Requests = {r1, r2, r3}
    Balance = 2
    TopUp = 1
    Threshold = 2
    Cap = 1
    Degrades = TRUE
    LosesKeys = TRUE
    MaxDeaths = 1
SPECIFICATION Spec
SYMMETRY RequestSymmetry
\* When every request has ended there is nothing left to do.
CHECK_DEADLOCK FALSE
INVARIANTS
    Truthful
    SlotsBounded
