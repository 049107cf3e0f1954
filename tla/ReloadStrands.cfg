CONSTANTS
    Fields = {"queue_directory", "max_queue_size", "mime_types.text"}
    Defaulted = {"max_queue_size"}
    LeftOut <- SecondLeavesOut
    Bad = {}
    Unknown = {}
    MaxTries = 2
    MaxEdits = 1
    MaxReloads = 0
    MaxLevels = 0
    MaxExpiries = 0
    MaxHups = 0
    MaxFaults = 0
    Submissions = {"a"}
    Directory <- SecondMoves
    TempDir = "/tmp"
SPECIFICATION ServingFairSpec
PROPERTIES
    EverySubmissionTaken
