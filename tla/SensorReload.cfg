CONSTANTS
    Events = {e1, e2}
    NoEvent = none
    Server <- SecondServer
    Known = {e2}
    Bad = {3}
    Unknown = {2}
    MaxTries = 2
    MaxEdits = 3
    MaxEvents = 3
    MaxFaults = 1
SPECIFICATION FairSpec
CONSTRAINT FewEvents
INVARIANTS
    SensorInv
    DeletionExplained
PROPERTIES
    ReloadTakesEffectUnlessDeaf
