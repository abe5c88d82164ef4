CONSTANTS
    Conns = {c1}
    NoConn = none
    Fds = {5}
    ListenFd = 3
    Workers = {w1}
    MaxMsgs = 2
    SendBuf = 2

SPECIFICATION Spec

INVARIANT EchoedBeforeClose

CHECK_DEADLOCK FALSE
