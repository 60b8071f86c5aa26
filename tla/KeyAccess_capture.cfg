CONSTANTS
    k1 = k1  k2 = k2  r1 = r1  a1 = a1
    Keys = {k1}
    Minted = {k1}
    Expiring = {}
    Off = {k1}
    Requests = {r1}
    Admins = {a1}
    Findings = {}
    Detector = Detector
    Account = Account
    NoKey = NoKey
    MaxEdits = 1
    MaxFaults = 1
SPECIFICATION Spec
INVARIANT OffNeverCaptures
