CONSTANTS
    a = a
    b = b
    c = c
    d = d
    w1 = w1
    w2 = w2
    Submissions = {a, b, c, d}
    Malformed = {d}
    Analysable = {a, b, c}
    Workers = {w1}
    NoJob = NoJob
    Faults = {"create", "rename", "remove"}
    MaxFaults = 1
    MaxStops = 2
    MaxTime = 1
SPECIFICATION Spec
CONSTRAINT FewEvents
SYMMETRY Symmetry
INVARIANTS
    CounterAccounts
    AtMostTwoPerWorker
    NoHalfSubmission
    FirstComeFirstServed
PROPERTIES
    DeletedOnlyAfterHandOver
