\* Two pushes can each add a thread beside the core thread; a third job queues.
CONSTANTS
    CoreNumWorkers = 1
    MaxNumWorkers = 2
    Pushes = 3
SPECIFICATION FairSpec
INVARIANTS
    TypeOK
    JobsConserved
    NoLostWakeup
    PoolBounded
    CoreNeverReclaimed
    ShutDownDrains
PROPERTIES
    EveryJobRuns
    CacheReclaimed
\* A pool that was shut down stops.
CHECK_DEADLOCK FALSE
