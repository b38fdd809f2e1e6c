\* A thread is added for the second push and reclaimed before the third.
CONSTANTS
    CoreNumWorkers = 1
    MaxNumWorkers = 2
    Pushes = 3
SPECIFICATION Spec
PROPERTIES
    GrowsWhenBusy
\* A pool that was shut down stops.
CHECK_DEADLOCK FALSE
