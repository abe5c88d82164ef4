----------------------------- MODULE ProgramsMC -----------------------------
(***************************************************************************)
(* The small programs in one run: a behaviour is one of the program that   *)
(* program names; the variables of the others keep their initial values.   *)
(***************************************************************************)
EXTENDS Integers, Sequences, FiniteSets

CONSTANTS Threads, Rounds, Consumers, Items, BufferSize, SemRounds, MaxRuns, MaxCrashes,
          Pointers, Objects, MaxDropped, Callers, Nobody, MaxInstances, Letters

CONSTANTS NoClient, Fds, ListenFd, Room, Resetting, PollClients, PollMsgs, MaxClients, EpollClients, EpollMsgs

CONSTANTS Senders, Writers, Readers, Runs, MaxRaised

ASSUME CountsAssumption ==
    /\ {Rounds, Items, SemRounds, MaxRuns, MaxCrashes, MaxDropped, MaxRaised} \subseteq Nat
    /\ {PollMsgs, MaxClients, EpollMsgs, Room} \subseteq Nat
    /\ {BufferSize, MaxInstances, Letters} \subseteq Nat \ {0}

ASSUME NobodyAssumption == Nobody \notin Callers

ASSUME ProcessesAssumption ==
    NoClient \notin EpollClients /\ Writers \cap Readers = {} /\ 0 \notin Senders /\ Runs \subseteq Nat \ {0}

ASSUME PointersAssumption == IsFiniteSet(Pointers) /\ Objects \cap {"none", "empty"} = {}

ASSUME DescriptorsAssumption ==
    /\ Fds \subseteq Nat /\ IsFiniteSet(Fds) /\ ListenFd \notin Fds
    /\ IsFiniteSet(EpollClients) /\ NoClient \notin PollClients
    /\ MaxClients <= Cardinality(Fds) /\ Cardinality(EpollClients) <= Cardinality(Fds)

VARIABLES program,
          flag, expect, pc, arg, seen, rounds, stolen,
          que, done, produced, consumed, producer, consumer,
          sems, bound, handle, at, left, starts, crashes, pairs, items,
          class, made, holds, loading, cnt, freed, dropped, overlap, dead,
          instance, constructed, owner, caller, result,
          count, asleep, printed,
          conn, peer, sent, got, replied, recvd, table, killed,
          fds, due, echo, interest, ready, batch,
          holder, calls, waiter, notified, late,
          queues, named, using, does, received, runs, kills,
          objects, shmName, mapped, stage, written, shown, killedWriters,
          fifo, place, open, filled, heard, disturbed, deaths,
          phase, masked, pending, raised, handled, lost,
          asks, browser, pieces, serving, took, reply, partial, reset, aborts

spinVars    == <<flag, expect, pc, arg, seen, rounds, stolen>>
queueVars   == <<que, done, produced, consumed, producer, consumer>>
semVars     == <<sems, bound, handle, at, left, starts, crashes, pairs, items>>
ptrVars     == <<made, holds, loading, cnt, freed, dropped, overlap, dead>>
singleVars  == <<instance, constructed, owner, caller, result>>
turnVars    == <<count, asleep, printed>>
socketVars  == <<conn, peer, sent, got, replied, recvd, table, killed>>
pollVars    == <<fds, due, echo>>
epollVars   == <<interest, ready, batch>>
lockVars    == <<holder, calls>>
waitVars    == <<waiter, notified, late>>
mqVars      == <<queues, named, using, does, received, runs, kills>>
shmVars     == <<objects, shmName, mapped, stage, written, shown, killedWriters>>
pipeVars    == <<fifo, place, open, filled, heard, disturbed, deaths>>
signalVars  == <<phase, masked, pending, raised, handled, lost>>
httpVars    == <<asks, browser, pieces, serving, took, reply, partial, reset, aborts>>
vars == <<program, spinVars, queueVars, semVars, class, ptrVars, singleVars, turnVars,
          socketVars, pollVars, epollVars, lockVars, waitVars, mqVars, shmVars, pipeVars,
          signalVars, httpVars>>

Spin == INSTANCE SpinLock
PC   == INSTANCE ProducerConsumers
Sem  == INSTANCE Semaphores WITH Rounds <- SemRounds
Ptr  == INSTANCE SharedPtr
One  == INSTANCE Singleton
Abc  == INSTANCE Turns
Poll == INSTANCE PollServer WITH Clients <- PollClients, MaxMsgs <- PollMsgs
Nio  == INSTANCE EpollNio WITH Clients <- EpollClients, MaxMsgs <- EpollMsgs
Lock == INSTANCE LockOrder
Bare == INSTANCE BareWait
Mq   == INSTANCE MessageQueue WITH Capacity <- BufferSize, MaxReceivers <- MaxRuns, MaxKills <- MaxCrashes
Shm  == INSTANCE SharedMemory WITH MaxKilled <- MaxCrashes
Pipe == INSTANCE NamedPipe WITH MaxDeaths <- MaxCrashes
Sign == INSTANCE SignalMask
Http == INSTANCE HttpExchange WITH Browsers <- EpollClients, NoBrowser <- NoClient, MaxAborts <- MaxCrashes

Init == /\ program \in {"spinLock", "producer_consumer", "ipc_sem", "shared_ptr", "lazy",
                        "abc", "server_poll", "server_epoll", "deadlock", "condition_variable",
                        "ipc_mq", "ipc_shm", "ipc_pipe_named", "ipc_sign", "server_http"}
        /\ class \in IF program = "shared_ptr" THEN Ptr!Classes ELSE {"SharedPtr"}
        /\ Spin!Init /\ PC!Init /\ Sem!Init /\ Ptr!New /\ One!Init /\ Abc!Init
        /\ IF program = "server_epoll" THEN Nio!SocketsInit ELSE Poll!SocketsInit
        /\ Poll!New /\ Nio!New /\ Lock!Init /\ Bare!Init
        /\ Mq!Init /\ Shm!Init /\ Pipe!Init /\ Sign!Init
        /\ Http!Init
        /\ program = "server_http" \/ asks = [b \in EpollClients |-> "text"]

Rest ==
    /\ UNCHANGED <<program, class>>
    /\ program # "spinLock" => UNCHANGED spinVars
    /\ program # "producer_consumer" => UNCHANGED queueVars
    /\ program # "ipc_sem" => UNCHANGED semVars
    /\ program # "shared_ptr" => UNCHANGED ptrVars
    /\ program # "lazy" => UNCHANGED singleVars
    /\ program # "abc" => UNCHANGED turnVars
    /\ program \notin {"server_poll", "server_epoll"} => UNCHANGED socketVars
    /\ program # "server_poll" => UNCHANGED pollVars
    /\ program # "server_epoll" => UNCHANGED epollVars
    /\ program # "deadlock" => UNCHANGED lockVars
    /\ program # "condition_variable" => UNCHANGED waitVars
    /\ program # "ipc_mq" => UNCHANGED mqVars
    /\ program # "ipc_shm" => UNCHANGED shmVars
    /\ program # "ipc_pipe_named" => UNCHANGED pipeVars
    /\ program # "ipc_sign" => UNCHANGED signalVars
    /\ program # "server_http" => UNCHANGED httpVars

SpinNext == program = "spinLock" /\ Spin!Next /\ Rest
QueueNext == program = "producer_consumer" /\ PC!Next /\ Rest
SemNext == program = "ipc_sem" /\ Sem!Next /\ Rest
PtrNext == program = "shared_ptr" /\ Ptr!Next /\ Rest
SingleNext == program = "lazy" /\ One!Next /\ Rest
TurnNext == program = "abc" /\ Abc!Next /\ Rest
PollNext == program = "server_poll" /\ Poll!Next /\ Rest
NioNext == program = "server_epoll" /\ Nio!Next /\ Rest
LockNext == program = "deadlock" /\ Lock!Next /\ Rest
WaitNext == program = "condition_variable" /\ Bare!Next /\ Rest
MqNext == program = "ipc_mq" /\ Mq!Next /\ Rest
ShmNext == program = "ipc_shm" /\ Shm!Next /\ Rest
PipeNext == program = "ipc_pipe_named" /\ Pipe!Next /\ Rest
SignNext == program = "ipc_sign" /\ Sign!Next /\ Rest
HttpNext == program = "server_http" /\ Http!Next /\ Rest

Next == \/ SpinNext \/ QueueNext \/ SemNext \/ PtrNext \/ SingleNext \/ TurnNext \/ PollNext
        \/ NioNext \/ LockNext \/ WaitNext \/ MqNext \/ ShmNext \/ PipeNext \/ SignNext \/ HttpNext

\* The step of the n-th thread, process or client of a program, or of its server.
Server == 4
Actor(n) ==
    /\ \/ n \in Threads /\ program = "spinLock" /\ Spin!Step(n)
       \/ n = 1 /\ program = "producer_consumer" /\ PC!Producer
       \/ n \in Consumers /\ program = "producer_consumer" /\ PC!Consumer(n)
       \/ n = 1 /\ program = "ipc_sem" /\ Sem!Step("write")
       \/ n = 2 /\ program = "ipc_sem" /\ Sem!Step("read")
       \/ n - 1 \in Abc!Indices /\ program = "abc" /\ Abc!Func(n - 1)
       \/ n \in PollClients /\ program = "server_poll" /\ Poll!ClientReceives(n)
       \/ n = Server /\ program = "server_poll" /\ Poll!ServerStep
       \/ n \in EpollClients /\ program = "server_epoll" /\ Nio!ClientReceives(n)
       \/ n = Server /\ program = "server_epoll" /\ Nio!ServerStep
       \/ n \in Lock!Funcs /\ program = "deadlock" /\ Lock!Func(n)
       \/ n \in Bare!Ids /\ program = "condition_variable" /\ Bare!Thread(n)
       \/ n = 3 /\ program = "condition_variable" /\ Bare!Hello
       \/ n \in Senders /\ program = "ipc_mq" /\ Mq!Sender(n)
       \/ n = 3 /\ program = "ipc_mq" /\ Mq!ReceiverStep
       \/ n \in Runs /\ program = "ipc_pipe_named" /\ Pipe!RunStep(n)
       \/ n = 1 /\ program = "ipc_sign" /\ Sign!Main
       \/ n \in EpollClients /\ program = "server_http" /\ Http!BrowserStep(n)
       \/ n = Server /\ program = "server_http" /\ Http!ServerStep
    /\ Rest

\* Threads are scheduled, servers and started processes go on until they are
\* killed, clients receive what the servers send them. Nothing is assumed of
\* pointers, callers of getInstance and spurious wake-ups.
Spec == Init /\ [][Next]_vars /\ \A n \in 1 .. Server : WF_vars(Actor(n))

-----------------------------------------------------------------------------
\* The variables of the program have their types.
TypeOK == CASE program = "spinLock" -> TRUE
            [] program = "producer_consumer" -> PC!TypeOK
            [] program = "ipc_sem" -> Sem!TypeOK
            [] program = "shared_ptr" -> Ptr!TypeOK
            [] program = "lazy" -> One!TypeOK
            [] program = "abc" -> Abc!TypeOK
            [] program = "server_poll" -> Poll!TypeOK
            [] program = "server_epoll" -> Nio!TypeOK
            [] program = "deadlock" -> Lock!TypeOK
            [] program = "condition_variable" -> Bare!TypeOK
            [] program = "ipc_mq" -> Mq!TypeOK
            [] program = "ipc_shm" -> Shm!TypeOK
            [] program = "ipc_pipe_named" -> Pipe!TypeOK
            [] program = "ipc_sign" -> Sign!TypeOK
            [] program = "server_http" -> Http!TypeOK

\* Two threads hold the spin lock at once only after a compare_exchange has used
\* the FALSE another thread has left in expect (spinLock.cpp:18).
SharedOnlyThroughExpect == program = "spinLock" => Spin!SharedOnlyThroughExpect

\* The two consumers take every item once and in order, and stay until the last
\* (producer_consumer_1v2.cpp).
ConsumedOnce == program = "producer_consumer" => PC!ConsumedOnce

\* The semaphores count the slots of the buffer and keep the processes apart
\* (ipc_sem_write.cpp, ipc_sem_read.cpp).
SlotsKept == program = "ipc_sem" => Sem!SlotsKept /\ Sem!Excluded

\* Shared_ptr deletes an object once and with its last owner (shared_ptr.cpp);
\* SharedPtr never deletes one of which an assignment has forgotten an owner, and
\* one of which two destructors overlapped perhaps twice (shared_ptr.hpp).
FreedWithLastOwner == program = "shared_ptr" => Ptr!FreedWithLastOwner

\* All callers get one instance (lazy.cpp).
OneInstance == program = "lazy" => One!OneInstance

\* Messages are lost only behind another sender's exit (ipc_mq_*.cpp); who opens
\* written memory reads it whole (ipc_shm_*.cpp); the child of an undisturbed run
\* hears its parent (ipc_pipe_named.cpp); no SIGINT is forgotten (ipc_sign.cpp).
IpcDelivers == /\ program = "ipc_mq" => Mq!LostBehindExit
               /\ program = "ipc_shm" => Shm!ReadsWhole
               /\ program = "ipc_pipe_named" => Pipe!ChildHears
               /\ program = "ipc_sign" => Sign!SignalKept

\* The event loops agree with the kernel on who is there and what is to be read
\* (server_poll_bio.cpp, server_epoll_nio.cpp), and a request that is read whole
\* gets its answer (server_http.cpp).
ServersAgree == /\ program = "server_poll" => Poll!SlotsAgree
                /\ program = "server_epoll" => Nio!NothingOverlooked
                /\ program = "server_http" => Http!RightAnswer

Asks(n) == \/ program \in {"spinLock", "producer_consumer", "abc", "deadlock", "ipc_sign"}
           \/ program = "condition_variable" /\ n \in Bare!Ids
           \/ program = "ipc_mq" /\ Mq!OnePair
           \/ program = "ipc_pipe_named" /\ place[n, "parent"] # "none"
           \/ program = "server_http" /\ n \in EpollClients /\ browser[n] = "connected"
           \/ program = "ipc_sem" /\ Sem!Undisturbed
           \/ program = "server_poll" /\ conn[n] = "open" /\ Poll!Readable(n)
           \/ program = "server_epoll" /\ n \in EpollClients /\ conn[n] = "open" /\ Nio!Readable(n)

Gets(n) == \/ program = "spinLock" /\ Spin!Finished(n)
           \/ program = "producer_consumer" /\ PC!AllEnd
           \/ program = "abc" /\ printed = n - 1 /\ count # n - 1
           \/ program = "ipc_sem" /\ (Sem!RunOver \/ ~Sem!Undisturbed)
           \/ program = "server_poll" /\ Poll!Attended(n)
           \/ program = "server_epoll" /\ n \in EpollClients /\ Nio!Attended(n)
           \/ program = "deadlock" /\ (Lock!Ended \/ Lock!CircularWait)
           \/ program = "condition_variable" /\ (Bare!Returned(n) \/ n \in late)
           \/ program = "ipc_mq" /\ (Mq!Exchanged \/ ~Mq!OnePair)
           \/ program = "ipc_pipe_named" /\ (Pipe!RunOver(n) \/ n \in disturbed)
           \/ program = "ipc_sign" /\ phase \in {"end", "killed"}
           \/ program = "server_http" /\ n \in EpollClients /\ browser[n] # "connected"

\* Every thread gets the spin lock as often as it wants, and all threads of the
\* producer and its consumers end; an undisturbed run of the two semaphore
\* processes, one sender with one receiver, and a run of the named pipe end and
\* remove their names; each letter is printed again and again; a thread that waits
\* before the notification returns; two functions that lock in opposite order end or
\* wait in a circle; data sent to a server is read, a client that leaves is let go,
\* and one that asks the HTTP server is answered.
Progress == \A n \in 1 .. 3 : Asks(n) ~> Gets(n)
=============================================================================
