SPECIFICATION FairSpec
CONSTANTS
    Block <- MCBlock
    Contents <- MCContents
    Modes <- MCBothModes
    ChunkSize = 2
    SocketBuffer = 2
    MaxEdits = 1
    Faults = TRUE
    OldFile = OldFile
    NoFile = NoFile
INVARIANTS
    TypeOK
    OkIsStored
    OldOrNew
    ReportedOnce
    UndisturbedSucceeds
    KilledOnlyUnstored
PROPERTY EndsOrShortSource
\* Both sides stop once the upload is reported.
CHECK_DEADLOCK FALSE
