SPECIFICATION FairSpec
CONSTANTS
    NoFile = NoFile
    Hole = 0
    Names <- TwoFiles
    Block = {1, 2, 3}
    Contents <- TwoContents
    LocalAtStart <- LocalTwo
    StoredAtStart <- StoredTwo
    NumRuns = 2
    Overlapping <- NoOverlap
    MaxConnections = 2
    IoThreads = 2
    MaxFaults = 2
    MaxEdits = 1
INVARIANTS
    TypeOK
    ExactCopy
    RepeatIsQuiet
    UndisturbedSucceeds

PROPERTIES
    EveryRunEnds
    KeepsPromise
\* The system rests when the user starts no run.
CHECK_DEADLOCK FALSE
