CONSTANTS
    Clients = {c1, c2}
    Addresses = {"shared"}
    Address <- OneAddress
    Keys = {c1}
    Limiters = {l1, l2}
    NoLimiter = none
    Burst = 3
    Per = 2
    TTL = 7
    Period = 4
    MaxHold = 1
    Lifetime = 3
    MaxSpan = 8
    MaxRestarts = 1
SPECIFICATION FairSpec
INVARIANTS
    LimiterInv
PROPERTIES
    AddressServed
    ImplementsTokenBucket
