CONSTANTS
    Producers = {p1}
    Consumers = {c1, c2}
    MaxValues = 4
    Addrs = {a1, a2, a3}
    Nil = nil

SPECIFICATION Spec

INVARIANT NullOnlyWhenEmpty

CHECK_DEADLOCK FALSE
