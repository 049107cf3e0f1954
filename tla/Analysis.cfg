CONSTANTS
    Files <- SmallFiles
    Submissions = {"zip", "doc", "inner", "pic", "none", "bomb", "quine"}
    NoFile = "no file"
    Kind <- SmallKind
    Parts <- SmallParts
    Path <- SmallPath
    Size <- SmallSize
    Minimum_Image_Size = 1
    Max_PDF_Pages = 2
    Max_Archive_Size = 7
    MaxFaults = 1
SPECIFICATION BoundedSpec
INVARIANTS
    FoundIsReported
    PointsToFinding
    NothingCutShort
    MissedOnlyIfExcused
PROPERTIES
    StopsAtFirst
    AnalysisEnds
