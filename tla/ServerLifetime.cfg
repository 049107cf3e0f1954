CONSTANTS
    Connections = {k1}
    Monitors = {"reload"}
    Environments <- FullOrBare
    MaxTries = 2
    MaxEdits = 2
    MaxSignals = 4
    MaxFaults = 2
SPECIFICATION FairSpec
CONSTRAINT FewEvents
CHECK_DEADLOCK FALSE

    
PROPERTIES
    SignalsActedUpon
