CONSTANTS
    Files = {f1, f2}
    Objects = {o1}
    Contents = {c1, c2}
    Sensitive = {c1}
    First <- AllAlike
    NoDoc = none
    MaxEdits = 2
    MaxFaults = 1
SPECIFICATION ContentFairSpec
CHECK_DEADLOCK FALSE
INVARIANTS
    DoneMeansJudgedOrDue
    ContentInv
PROPERTIES
    LeftAloneIsJudged
