CONSTANTS
    Producers = {p1, p2}
    Consumers = {c1, c2}
    MaxValues = 2
    Addrs = {a1, a2, a3}
    Nil = nil

SPECIFICATION FairSpec

INVARIANTS
    TypeOK
    NoDanglingAccess
    NoLeak
    NullMeansEmpty

PROPERTIES
    IsFifo
    DrainsWithoutProducers

\* The bound on addresses stops producers nobody consumes after.
CHECK_DEADLOCK FALSE
