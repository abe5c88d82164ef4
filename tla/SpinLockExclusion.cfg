CONSTANTS
    Threads = {t1, t2}
    Rounds = 2

SPECIFICATION Spec

INVARIANT MutualExclusion
