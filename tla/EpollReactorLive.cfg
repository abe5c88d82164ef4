CONSTANTS
    Conns = {c1, c2}
    NoConn = none
    Fds = {5}
    ListenFd = 3
    Workers = {w1}
    MaxMsgs = 2
    SendBuf = 1

SPECIFICATION FairSpec

PROPERTIES
    DataIsRead
    GoneIsClosed

CHECK_DEADLOCK FALSE
