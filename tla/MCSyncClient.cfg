CONSTANTS
  QueueSizes = {0, 1, 2, 3}
  MaxConnections = 2
  Versions = {1, 2}
SPECIFICATION FairSpec
INVARIANTS TypeOK CleanupAfterUploads ExitZeroMeansSynced ErrorTold UndisturbedSucceeds NobodyWaits
PROPERTY EveryRunEnds
CHECK_DEADLOCK FALSE
