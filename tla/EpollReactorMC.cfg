CONSTANTS
    Conns = {c1, c2}
    NoConn = none
    Fds = {5, 6}
    ListenFd = 3
    Workers = {w1, w2}
    MaxMsgs = 2
    SendBuf = 1
SPECIFICATION Spec

INVARIANTS
    TypeOK
    OneOwner
    NoStaleEvent
    EchoInOrder
    LostOnlyWhenFull

SYMMETRY Symmetry

\* The clients stop, the server waits.
CHECK_DEADLOCK FALSE
