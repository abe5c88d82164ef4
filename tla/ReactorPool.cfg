CONSTANTS
    Workers = {w1, w2, w3}
    Loop = loop
    NoThread = none
    MaxJobs = 3
    MaxBatch = 2
    MaxSpurious = 1

SPECIFICATION Spec

INVARIANTS
    TypeOK
    JobsReachWorkers

PROPERTIES
    ImplementsTaskPool
    DispatchedJobRuns
    StopReturnsUnlessBlocking

\* A worker that misses notify_all sleeps for ever and stop() with it.
CHECK_DEADLOCK FALSE
