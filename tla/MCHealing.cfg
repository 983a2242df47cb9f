SPECIFICATION FairSpec
CONSTANTS
    NoFile = NoFile
    Hole = 0
    Names <- JustA
    Block = {1, 2, 3}
    Contents <- ThreeContents
    LocalAtStart <- LocalA
    StoredAtStart <- StoredA
    NumRuns = 3
    Overlapping <- OverlapTwo
    MaxConnections = 1
    IoThreads = 2
    MaxFaults = 1
    MaxEdits = 1
INVARIANT ExactCopy
PROPERTIES
    FileKept
    EveryRunEnds
CHECK_DEADLOCK FALSE
