CONSTANTS
    Workers = {w1, w2}
    Loop = loop
    NoThread = none
    MaxJobs = 1
    MaxBatch = 1
    MaxSpurious = 0

SPECIFICATION Spec

PROPERTY SignalEndsServer

CHECK_DEADLOCK FALSE
