CONSTANTS
    a = a
    b = b
    c = c
    w1 = w1
    Submissions = {a, b}
    Malformed = {}
    Analysable = {a}
    Workers = {w1}
    NoJob = NoJob
    Faults = {"create"}
    MaxFaults = 2
    MaxStops = 1
    MaxTime = 0
    Limits = {2}
SPECIFICATION NodeFairSpec
PROPERTIES
    DrainedNodeRecovers
    OverweightOnlyAfterRestart
    DrainMeansFull
