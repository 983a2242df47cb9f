SPECIFICATION Spec
CONSTANTS
    NoFile = NoFile
    Hole = 0
    Names <- JustA
    Block = {1, 2, 3}
    Contents <- TwoContents
    LocalAtStart <- LocalA
    StoredAtStart <- StoredEmpty
    NumRuns = 4
    Overlapping <- OverlapThree
    MaxConnections = 1
    IoThreads = 2
    MaxFaults = 0
    MaxEdits = 1
INVARIANT ExactCopy
CHECK_DEADLOCK FALSE
