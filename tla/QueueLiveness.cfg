CONSTANTS
    a = a
    b = b
    c = c
    d = d
    w1 = w1
    w2 = w2
    Submissions = {a, b}
    Malformed = {}
    Analysable = {a}
    Workers = {w1, w2}
    NoJob = NoJob
    Faults = {"create", "write", "close", "rename", "glob", "read", "remove", "index"}
    MaxFaults = 1
    MaxStops = 1
    MaxTime = 0
SPECIFICATION FairSpec
INVARIANTS
    NothingVanishes
    HandedOverOnce
PROPERTIES
    ImplementsDelivery
    ImplementsFairDelivery
    EveryRequestAnswered
