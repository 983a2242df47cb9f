SPECIFICATION Spec
CONSTANTS
    NoFile = NoFile
    Hole = 0
    Names <- JustA
    Block = {1, 2, 3}
    Contents <- TwoContents
    LocalAtStart <- LocalA
    StoredAtStart <- StoredOld
    NumRuns = 2
    Overlapping <- OverlapTwo
    MaxConnections = 1
    IoThreads = 2
    MaxFaults = 0
    MaxEdits = 0
PROPERTY AtomicReplace
CHECK_DEADLOCK FALSE
