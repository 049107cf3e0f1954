CONSTANTS
    Connections = {k1}
    Monitors = {"poll"}
    Environments <- FullOnly
    MaxTries = 2
    MaxEdits = 1
    MaxSignals = 1
    MaxFaults = 0
SPECIFICATION Spec
CHECK_DEADLOCK FALSE
INVARIANT
    DrainsBeforeStopping
