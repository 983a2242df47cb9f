SPECIFICATION FairSpec
CONSTANTS
    QueueSizes <- MCQueueSizes
    MaxConnections = 3
INVARIANTS
    TypeOK
    ConnectionLimit
    PoolSaturated
    PromiseSound
PROPERTY PromiseFulfilled
\* The pool has no step left once its promise is fulfilled.
CHECK_DEADLOCK FALSE
