SPECIFICATION Spec
CONSTANTS
    NoFile = NoFile
    Hole = 0
    Names <- PartFile
    Block = {1, 2, 3}
    Contents <- TwoContents
    LocalAtStart <- LocalPart
    StoredAtStart <- StoredPart
    NumRuns = 1
    Overlapping <- NoOverlap
    MaxConnections = 1
    IoThreads = 1
    MaxFaults = 0
    MaxEdits = 0
INVARIANT ExactCopy
CHECK_DEADLOCK FALSE
