CONSTANTS
 Threads = {1, 2, 3}
 Rounds = 1
 Consumers = {2, 3}
 Items = 5
 BufferSize = 2
 SemRounds = 3
 MaxRuns = 2
 MaxCrashes = 1
 Pointers = {p1, p2, p3}
 Objects = {o1, o2}
 MaxDropped = 1
 Callers = {1, 2, 3}
 Nobody = 0
 MaxInstances = 2
 Letters = 3
 PollClients = {1, 2, 3}
 EpollClients = {1, 2}
 NoClient = 0
 Fds = {5, 6, 7}
 ListenFd = 4
 PollMsgs = 1
 EpollMsgs = 2
 Room = 1
 Resetting = {1}
 MaxClients = 2
 Senders = {1, 2}
 Writers = {1, 2}
 Readers = {3}
 Runs = {1, 2, 3}
 MaxRaised = 3
SPECIFICATION Spec
INVARIANTS
 TypeOK
 SharedOnlyThroughExpect
 ConsumedOnce
 SlotsKept
 FreedWithLastOwner
 OneInstance
 IpcDelivers
 ServersAgree
PROPERTY
 Progress
CHECK_DEADLOCK FALSE
