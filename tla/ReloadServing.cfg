CONSTANTS
    Fields = {"queue_directory", "max_queue_size", "mime_types.text"}
    Defaulted = {"max_queue_size"}
    LeftOut <- SecondLeavesOut
    Bad = {2}
    Unknown = {2}
    MaxTries = 2
    MaxEdits = 3
    MaxReloads = 2
    MaxLevels = 1
    MaxExpiries = 1
    MaxHups = 1
    MaxFaults = 1
    Submissions = {"a"}
    Directory <- SecondMoves
    TempDir = "/tmp"
SPECIFICATION ServingFairSpec
CONSTRAINT FewEvents
INVARIANTS
    LockedReadersSeeOne
    NoReloadMissed
PROPERTIES
    TakenWhereConfigured
    Converges
