\* A key that exists and one that is minted and may expire, one caller, one
\* management call beside a detector that has found the key and the account:
\* two transactions meet on either row, a fill of the cache meets both, and one
\* command, lookup or transaction fails.
CONSTANTS
    k1 = k1  k2 = k2  r1 = r1  a1 = a1
    Keys = {k1, k2}
    Minted = {k1}
    Expiring = {k2}
    Off = {}
    Requests = {r1}
    Admins = {a1}
    Findings = {k1, Account}
    Detector = Detector
    Account = Account
    NoKey = NoKey
    MaxEdits = 1
    MaxFaults = 1
SPECIFICATION FairSpec
PROPERTIES
    Settles
    RevokedForGood
    ToldComesTrue
