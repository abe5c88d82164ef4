CONSTANTS
    Workers = {w1, w2, w3}
    Main = main
    NoThread = none
    NumTasks = 4
    MaxSpurious = 2

SPECIFICATION FairSpec

INVARIANTS
    TypeOK
    EachTaskOnce
    JoinedMeansDrained
    NoLostWakeup

PROPERTIES
    ImplementsTaskPool
    EventuallyJoined
