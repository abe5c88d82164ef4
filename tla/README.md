# Verification of cs-study-codes

TLA+ specifications of the programs of this repository, the TLC
configurations that check them, and TLAPS proofs of what matters most. The
repository is a collection of small C++ programs: thread pools, servers, locks,
inter-process communication, containers, smart pointers and design patterns.
The ones worth specifying are those whose behaviour depends on an order of
events that no run of the program shows reliably.

## Inventory

| component | state | operations | what is hard | what makes it correct |
|---|---|---|---|---|
| **Thread pool** `operating-systems/thread/threadpool.cpp` | task queue, `mStopping`, mutex, condition variable | `enqueue`, `stop`, the workers' loop, `main` | notifications after the mutex is released, spurious wake-ups, stopping while tasks are queued | each task runs once and in order, no worker sleeps beside work, the destructor drains and returns |
| **Reactor server, threads** `computer-networks/server_reactor.cpp` | `g_running`, job queue, mutex, loop thread, workers | signal, `EpollReactor::stop`, `ThreadPool::stop`, `enqueue` | the flag is cleared and read without the mutex | jobs run once, the server stops |
| **Reactor server, connections** same file | epoll registrations, descriptors, queued jobs, handlers | `loop`, `handleEvent`, `closeConnection`, `stop` | edge-triggered one-shot events, descriptors reused by the kernel, half-close, full buffers, shutdown under way | one handler per connection, no event outlives its connection, echo in order |
| **Spin lock** `operating-systems/function/spinLock.cpp` | atomic flag, shared member `expect` | `lock`, `unlock` | the expected value of `compare_exchange` is shared | mutual exclusion |
| **Lock-free queue** `data-structures-algorithms/queue/LockFreeQueue.cpp` | linked nodes, `head`, `tail` | `enqueue`, `dequeue`, destructor | helping, deletion under readers, reused addresses | FIFO, no access to a deleted node, null only when empty |
| **Producer and consumers** `operating-systems/thread/producer_consumer_1v2.cpp` | queue, `done` | producer, two consumers | last items and `done` against waiting consumers | all items consumed once, all threads end |
| **Turns** `operating-systems/thread/abc.cpp` | `count`, a condition variable | `func` | waking the right thread | every letter again and again |
| **Lock order, bare wait** `deadlock.cpp`, `condition_variable.cpp` in `operating-systems/thread` | two mutexes; a condition variable | thread functions | circular wait, lost notification | threads end, unless they wait in a circle or came too late |
| **Semaphore IPC** `operating-systems/process/ipc_sem_*.cpp` | three named semaphores | open, wait, post, close, unlink | processes start in any order and again, names are unlinked, semaphores survive a killed process | bounded buffer, both processes end |
| **Message queue** `ipc_mq_*.cpp` | a named queue | open, send, receive, unlink | two senders, restarts, killed processes, a full queue | messages are lost only behind another sender's `exit`; one pair ends |
| **Shared memory** `ipc_shm_*.cpp` | a named object | open, resize, copy, unlink, print | nothing tells the reader when | a reader that opens written memory reads the whole message |
| **Named pipe** `ipc_pipe_named.cpp` | a named pipe | mkfifo, fork, open, write, read, unlink | both processes remove the name, runs overlap | the child hears its parent, runs end |
| **Signal mask** `ipc_sign.cpp` | mask, pending signal | install, block, sleep, unblock | a signal between any two calls | no signal is forgotten |
| Unnamed pipe, local sockets | a descriptor pair | one transfer | - | the message arrives |
| **Poll server, epoll server** `server_poll_bio.cpp`, `server_epoll_nio.cpp` | slots of `poll`; interest of `epoll` | accept, read, reply, close | slots and descriptors reused, blocking calls, missed edges | a client is answered and let go |
| **HTTP server and client** `server_http.cpp`, `client_http.cpp` | one connection at a time | accept, read once, answer, close | a request that arrives in pieces, a close with unread data, one client at a time | a request read whole gets its answer, every client is answered |
| Simple client, select server | descriptors | one exchange at a time | - | a client is answered |
| **Deque** `deque.cpp` | map of buffers, two cursors, free list | push and pop at both ends, `clear` | cursors at buffer boundaries, recycled buffers | behaves like a sequence |
| **Hash tables** `hashmap.cpp`, `unordered_map.cpp`, `unordered_set.cpp` | buckets, size | insert, find, erase, rehash | growth, updates of copies | behave like a map |
| **Red-black tree** `map.cpp` | nodes with parent links | insert, `operator[]`, find | recolouring and rotations | ordered, balanced, behaves like a map |
| **Lists, LRU caches, priority queue** `list*`, `LRU*.cpp`, `priority_queue.cpp` | linked nodes; list and index; heap | push, pop, insert, erase, get, put | index and list must agree, freed nodes used again, capacity 0 | behave like their abstract type |
| **Smart pointers** `C++/smart_ptr` | counter, pointer | copy, move, assign, destroy | two owners released at once | freed once, with the last owner |
| **Lazy singleton** `design-patterns/Singleton/lazy.cpp` | `instance` | `getInstance`, `destory` | the first check takes no mutex | one instance |
| **Strings** `vector/string.cpp`, `vector/string.hpp` | a buffer, a length | construct, copy, assign, append, `+`, `[]`, destroy | deleted buffers used again, a NUL written into the text | a buffer of its own that reads as the text |
| Observer, vector, remaining patterns, exercises | a list of observers | - | sequential, little or no state | not modelled |

(Components in bold are modelled.)

How they interact: the programs are separate executables. Inside the reactor
server the loop thread passes events to the pool as queued jobs, the workers
change the epoll registrations the loop thread waits on, and main stops both
through `g_running` and by closing descriptors under them. `threadpool.cpp` and
the pool of the reactor are two implementations of one idea, and are both proved
to implement the same abstract specification. The pairs of IPC programs meet in
named kernel objects, which outlive them and which they remove under each other.

## Modules

| module | models | kind |
|---|---|---|
| `TaskPool` | what a pool promises its user: tasks begin in order, run once, and the pool closes when all have finished | abstract specification |
| `ThreadPool` | `threadpool.cpp` with its `main` | detailed specification, implements `TaskPool` |
| `ThreadPoolProofs`, `ReactorPoolProofs` | | TLAPS proofs about `ThreadPool` and `ReactorPool` |
| `ReactorPool` | the threads of `server_reactor.cpp`: main, loop, workers, signal, stop | detailed specification, implements `TaskPool` without its closing |
| `EpollReactor` | event loop, handlers and connections of `server_reactor.cpp` | detailed specification over a model of sockets and epoll |
| `EpollReactorMC` | symmetry of connections and workers | for TLC |
| `EpollReactorProofs` | | TLAPS proofs about `EpollReactor`: ownership of descriptors, then the echoed data |
| `FifoQueue` | a queue that hands out what was put in, in order, and null when it is empty | abstract specification |
| `LockFreeQueue` | `LockFreeQueue.cpp`, one atomic access a step | detailed specification, implements `FifoQueue` where the code does |
| `LockFreeQueueProofs` | | TLAPS proofs about `LockFreeQueue` |
| `Deque`, `LinkedList`, `PriorityQueue`, `HashTable`, `RBMap`, `LRUCache`, `Strings` | one container each; `LinkedList` has both lists, `HashTable` three tables, `LRUCache` both caches, `Strings` both strings | detailed specifications with an abstract value beside the representation |
| `ContainersMC` | one container in each behaviour, named by `kind` | for TLC and the proofs |
| `ContainerProofs`, `TreeProofs`, `SequenceProofs` | | TLAPS proofs about `ContainersMC`, each extending the one before: caches, strings, priority queue and hash tables; the red-black tree; deque, lists and the types of all |
| `SpinLock` | `spinLock.cpp` | detailed specification |
| `ProducerConsumers`, `Turns` | `producer_consumer_1v2.cpp`, `abc.cpp` | detailed specifications |
| `Semaphores` | `ipc_sem_write.cpp` with `ipc_sem_read.cpp` | detailed specification of two processes |
| `MessageQueue`, `SharedMemory`, `NamedPipe`, `SignalMask` | the other programs of `operating-systems/process` | detailed specifications of processes over a kernel object |
| `LockOrder`, `BareWait` | `deadlock.cpp`, `condition_variable.cpp` | detailed specifications |
| `SharedPtr`, `Singleton` | `shared_ptr.hpp` and `shared_ptr.cpp`; `lazy.cpp` | detailed specifications |
| `Sockets` | clients, connections and descriptors, external | shared by the two servers |
| `PollServer`, `EpollNio` | `server_poll_bio.cpp`, `server_epoll_nio.cpp` | detailed specifications over `Sockets` |
| `HttpExchange` | `server_http.cpp` with `client_http.cpp` | detailed specification of a server and its clients |
| `ProgramsMC` | one of the programs from `SpinLock` on in each behaviour, named by `program` | for TLC and the proofs |
| `ProgramsProofs` | | TLAPS proofs about `ProgramsMC`: locks, conditions, pointers and semaphores, then the message programs, then the servers and the theorems |

The two MC modules put small programs that do not interact into one run. The
variables of the programs that are not chosen keep their initial values, so the
state graph is the disjoint union of theirs.

### ThreadPool

A worker is a program counter `wpc[w]`: `lock` (wants the mutex), `check` (owns
it and evaluates the predicate of `wait`), `waiting`, `run`, `exited`. Main is
`mpc`: `spawn`, then `submit`/`push`/`notify` for each `enqueue`, then
`set`/`notifyAll`/`join` for the destructor. The body of a critical section is
one step, because everything in it is protected by the mutex: theorem
`MutualExclusion` is the reason. `notify_one` is a step of its own, after the
unlock, as in the code. A wake-up sends a waiter back to `lock`, so the
predicate is evaluated again, with the mutex held.

### ReactorPool

The same pool with a different way to stop. `g_running` is cleared by a signal
handler and by `stop()`, neither of which takes the mutex, so the evaluation of
the predicate (`Check`) and the blocking (`Block`) are two steps, between which
the flag can change and `notify_all` can pass. The outer loop condition
(`Test`) reads `jobs_` without the mutex: while the owner of the mutex is about
to change the queue, either answer is possible. The events the loop thread
dispatches are numbered jobs here. A failing `start()` is included: main returns
and the destructor stops a pool without a loop thread.

### EpollReactor

A connection `c` is `new`, in the `backlog`, `open` or `closed`; its client is
`up`, has sent `fin`, or `reset`. `table` gives the connection behind each
descriptor; accept takes the lowest free one, as the kernel does. `armed` is
the set of descriptors whose one-shot interest is enabled. An event carries the
descriptor, as in the code, and, for the properties only, the connection it was
raised for. A worker executes `handleEvent` one system call at a time: reads up
to EAGAIN into `outbuf`, writes, arms the descriptor again, or closes. `phase`
follows the shutdown: signal, epoll closed, listening socket closed. After that
re-arming fails, and an event of the listening socket is dispatched as if it
were one of a connection, as the comparison with `listen_fd_` (now -1) makes it.
`killed` is the end of the process by SIGPIPE. Data is counted in units; a unit
stands for any number of bytes, since `read` and `write` may split the stream
anywhere. `EpollOpen` and `ListenOpen` change together with the members
`epoll_fd_` and `listen_fd_`: while the number is closed and the member not yet
-1 each use of it fails as well.

The pool between the loop thread and the handlers is a queue served in order,
which is what `ReactorPool` implements; the two modules split the program there.

### LockFreeQueue

Every atomic operation, and every read of a member of a node through a raw
pointer, is a step. Nodes live at addresses; a deleted address can be handed out
by the next `new` and keeps the `next` and `data` it had until then, which is
what the memory allocator does and what makes a deleted node dangerous: `head`
can be compared with an address that was deleted and used again in between.
`active` is the set of threads that use the queue, chosen at the start. The history
variables record: `filled`, the consumers in whose call the queue was never empty;
`early`, that a node was deleted while another thread still held its address;
`dangling`, that a member of a deleted node was read. The weak `compare_exchange` fails only on a
different value, as on x86. The constructor and the destructor run with no other
thread in the queue.

### The containers

Each container module has the representation of the code and, beside it, the
value it stands for (`items` a sequence, `content` a function, `pushed` what the
heap should hold, `uses` and `latest` for a cache),
which every operation changes as the abstract type would; the invariant of the
module says that the representation is well formed and reads as that value.

- `Deque`: buffers in `map`, the number of recycled ones, two cursors. An end offset
  of -1 is a possible state (finding 5); a `push_back` in it is undefined behaviour
  and not followed.
- `LinkedList`: `head`, `tail` and nodes at addresses; `ForwardList` and `List`
  share `push_back`, `push_front` and `clear`, and differ in the rest.
- `PriorityQueue`: the vector and both heapify loops, as recursive functions.
- `HashTable`: buckets with their order; `HashTable` has a fixed number of them,
  the other two double it at a load factor of 0.75.
- `RBMap`: nodes named by their keys, with child, parent and color functions; the
  mirrored halves of the rotations and of `fixInsert` are one definition with the
  side as a parameter.
- `LRUCache`: list order, index, and list nodes at addresses that are used again.
  `undefined` is the `pop_back` of an empty list with capacity 0, after which
  nothing is known and the model stops.
- `Strings`: buffers at addresses, the lowest free one first, so that a deleted
  buffer is soon used again with what was in it. `append` and assignment of both
  classes, with aliased arguments. A character is written only within the text,
  since `SimpleString` does not look at the index; it may be the NUL, which cuts
  the text and leaves `size()` as it was.

### The small programs

- `SpinLock`: `compare_exchange_weak(expect, false)` is three steps, since
  `expect` is an ordinary member: load the expected value, compare and exchange,
  and on failure store the observed value. `stolen` records that a thread has
  exchanged FALSE for FALSE.
- `ProducerConsumers`, `Turns`: a critical section is a step, because all shared
  state is only touched with the mutex; notifications after the unlock are steps
  of their own. Waits may return unnotified.
- `Semaphores`: under each name a sequence of semaphores, the last of which the
  name may stand for; a process keeps those it has opened when the names are
  removed. Each program may be started again when it has ended or was killed.
  `items` counts what is in the buffer guarded by each `full` semaphore; `pairs`
  records which semaphores were used together, since a process that opens the
  names between two `sem_unlink` calls gets an old one and a new one.
- `SharedPtr`: two classes, chosen at the start. ~SharedPtr is two steps,
  `fetch_sub` and `load`, and reads a deleted counter as zero or not; an assignment
  of `SharedPtr` forgets what the pointer held (`dropped`).
- `Singleton`: every access to `instance` is a step, the first check included.
  The pointer is stored after the constructor, whose output the compiler cannot
  move. `destory` comes after the threads have been joined, as in `main`.
- `LockOrder`, `BareWait`: the mutexes of two functions that lock in opposite order;
  a wait without a predicate. `late` are the threads that began to wait after the
  only notification.
- `MessageQueue`, `SharedMemory`, `NamedPipe`: the kernel objects created so far, the
  one that the name stands for, and the one each process has open, which lives on
  when the name is removed. Processes start at any time and may be killed. The copy
  into shared memory is two steps, an object has no size before `ftruncate`, and
  reading it then raises SIGBUS. `open` of a pipe waits for the other side.
  `disturbed` are the runs whose name another run has removed, or in whose pipe
  another run's process has appeared.
- `SignalMask`: a step for every call of `main`, with SIGINT in between; a second
  blocked SIGINT merges with the first (`lost`).
- `HttpExchange`: a request arrives whole or in two pieces, and one `read` takes
  what is there; a path that is cut off may not be recognised. A connection closed
  with something unread, or to which something still arrives, is reset, and a client
  that sees the reset passes -1 to `std::string` and ends in an exception.
- `PollServer`: an iteration of the loop is `Poll`, at most one `Accept`, then
  `Recv`, `Echo` or `Close` for each reported slot in order. The sockets block:
  an `Echo` waits for a client that does not receive.
- `EpollNio`: `ready` is the ready list of epoll, fed by edges from the clients and
  by `EPOLL_CTL_ADD` and `EPOLL_CTL_MOD`, and emptied by each wait, since the
  interest is edge-triggered. One unit of data stands for what one `read` returns.

## Runs

| run | instance | shows |
|---|---|---|
| `thread_pool` | 3 workers, 4 tasks, 2 spurious wake-ups | `TypeOK`, `EachTaskOnce`, `JoinedMeansDrained`, `NoLostWakeup`, refinement `ImplementsTaskPool`, liveness `EventuallyJoined`; no deadlock |
| `reactor_pool` | 3 workers, 3 jobs, batches of up to 2, 1 spurious wake-up | `TypeOK`, `JobsReachWorkers`, `ImplementsTaskPool`, `DispatchedJobRuns` (as long as one worker stays; the last one leaves no job), `StopReturnsUnlessBlocking` |
| `reactor_shutdown` (violation) | 2 workers, 1 job | `SignalEndsServer` fails: a worker that saw `g_running` set blocks after `notify_all`, and `stop()` joins it for ever |
| `epoll_reactor` | 2 connections, 2 descriptors, 2 workers, 2 units each, room for 1, symmetry | `TypeOK`, `OneOwner`, `NoStaleEvent`, `EchoInOrder`, `LostOnlyWhenFull` |
| `epoll_live` | 2 connections, 1 descriptor, 1 worker, 2 units each | `DataIsRead`, `GoneIsClosed` |
| `epoll_half_close` (violation) | 1 connection, 2 units | `EchoedBeforeClose` fails: data and end of file in one event, and the data is dropped |
| `programs` | spin lock: 3 threads, 1 round; 1 producer, 2 consumers, 5 items; semaphores: 2 slots, 3 items a run, each program started twice, 1 killed; 3 pointers, 2 objects, 1 forgotten owner; 3 callers of `getInstance`, 2 instances; 3 letters; 2 lock orders; 2 waiters; message queue: 2 senders, 2 runs of the receiver, 2 places, 1 killed; shared memory: 2 writers, 1 reader, 1 killed; named pipe: 3 runs, 1 killed; 3 SIGINTs; HTTP: 2 clients, 3 paths, 1 killed; poll: 3 clients, 2 slots, 1 unit each; epoll: 2 clients, 2 units each, room for 1 reply; one client may reset | `TypeOK`, `SharedOnlyThroughExpect`, `ConsumedOnce`, `SlotsKept`, `FreedWithLastOwner`, `OneInstance`, `IpcDelivers`, `ServersAgree`, liveness `Progress` |
| `spin_lock_exclusion` (violation) | 2 threads, 2 rounds | `MutualExclusion` fails through the shared `expect` |
| `lock_free_queue` | up to 2 producers and 2 consumers, 2 values, 3 addresses | `TypeOK`, `NoDanglingAccess`, `NoLeak`, `NullMeansEmpty`, refinement `IsFifo`, liveness `DrainsWithoutProducers` |
| `lock_free_queue_null` (violation) | 1 producer, 2 consumers, 4 values, 3 addresses | `NullOnlyWhenEmpty` fails: an address deleted and used again |
| `containers` | deque: buffers of 2, 4 items, map of 4; lists: 4 addresses; heap of 6; tables: 2 buckets growing to 8, 6 keys; tree: 8 keys; caches: capacities 0 to 3, 4 keys; strings: 3 names, length 2, 4 addresses | `TypeOK`, `HoldsSequence`, `HeapServesLargest`, `TableIsMap`, `TreeIsMap`, `CacheKeepsLatest`, `StringsOwnBuffers` |
| `deque_end` (violation) | buffers of 2 | `EndInBuffer` fails after `push_front` and `pop_back` |

Why the bounds are enough. In the pools the interesting cases need a worker
that sleeps, one that runs and one on its way into the wait, and more tasks than
one wake-up handles: three workers and three or four tasks. In `EpollReactor`
two connections are the least with which a descriptor is reused and two
handlers run at once; two units and room for one make a partial echo; one
descriptor for two connections is the case in which accept runs out of them.
The batch of `epoll_wait` holds all ready descriptors: MAX_EVENTS is 1024.
With two consumers and three addresses in `LockFreeQueue` one thread can be held
up with an address while another deletes it and a producer gets it back. In the
containers a buffer of two has a first, a last and no middle place; six heap
entries make three levels; six keys fall into shared buckets before and after the
table grows; eight keys are the least with which a recolouring is followed by a
rotation further up. For the spin lock a third thread is needed for one waiter to
read what another stored; main itself starts two threads that lock once each, and
with one round two threads do exclude each other. Three threads with one round
steal the lock already; more rounds are covered by the theorem about it.
Three runs of the named pipe are the least in which a run, after a late `unlink`,
meets the pipe of another; two senders are the least that lose a message behind
an `exit`, and three messages to two places make a sender wait. Three strings are
a sum and its operands, four addresses leave one for a temporary. Two HTTP clients
stay below the listen backlog of 3. The semaphores need more items
than slots, as in the code (20 and 10): with fewer the writer could end, and
remove the names, before the reader has opened them. Two servers: one client more
than slots is rejected, and a slot and its descriptor are used again; a second
unit arrives while the epoll server waits to write.

Deadlock is checked in `thread_pool` and `spin_lock_exclusion`. The reactor and
epoll runs switch it off because a server with no client waits, and a worker may
sleep for ever; `lock_free_queue` because the queue is destroyed at the end;
`containers` because a cache of capacity 0 ends in undefined behaviour; `programs`
because the programs end, a process may wait for a semaphore a killed one held,
and the servers wait for clients.

Fairness. Weak fairness of each thread or process: the scheduler runs one that
can go on. The threads compete for mutexes a bounded number of times or in
turns, so that none can be passed over for ever and weak fairness suffices. In
`LockFreeQueue` only consumers are fair: a producer may be held up anywhere, and
consumers must get on without it. In `ProgramsMC` clients receive what the servers
send: `server_poll_bio.cpp` blocks in `send`, and one client that never receives
stops it for all. HTTP clients send what is left of a request and read. IPC processes
that were started go on until they are killed; the liveness of a message queue is
only claimed for one sender and one receiver that nothing disturbs. Nothing else is assumed of clients, nor of the signal, of
spurious wake-ups, or that a process is ever started or killed.

## Proofs

`ThreadPoolProofs` proves for any set of workers and any number of tasks and
spurious wake-ups, from `PoolAssumption` (there is a worker, main and "no
thread" are not workers, the numbers are natural):

- `TypeCorrect`, `TasksRunOnce`, `WakeupsReachWorkers`, `DestructorDrains`:
  the four invariants of run `thread_pool`;
- `Implementation`: `Spec => ImplementsTaskPool`, the refinement of `TaskPool`;
- `MutualExclusion`: a thread is in a critical section exactly when it owns the
  mutex.

None of the four invariants is inductive alone. `TypeOK` needs to know that a
push happens only while tasks are left and that a running worker has a task;
`JoinedMeansDrained` needs to know that a worker exits only with the queue
empty, which stays so because main submits nothing any more; `NoLostWakeup`
needs to know that no worker has exited while tasks can come. `Phases` says these
things: it ties the program counter of main to the counter, the flag and the
workers. `IInv == TypeOK /\ Phases /\ EachTaskOnce /\ NoLostWakeup` is inductive
(`InitIInv`, `StepIInv`), and its argument is a case per action. `EachTaskOnce`
states the queue as an interval: it holds exactly the tasks from `Taken` to
`next - 1`. A push extends the interval at its end and a take at its beginning
(`PushEffect`, `TakeEffect`, `RunEffect`, which also give the refinement).

`ReactorPoolProofs` proves for any finite set of workers, from `ReactorAssumption`:

- `TypeCorrect`, `NotificationsSuffice`: the two invariants of run `reactor_pool`;
- `Implementation`: `Spec => ImplementsTaskPool`, though the workers of this pool
  read the queue without the mutex and may leave with jobs queued;
- `LastLeavesNoJob`: the last worker leaves an empty queue, or one that the loop thread
  is pushing to, which is the part of `DispatchedJobRuns` that needs no fairness.

`JobsReachWorkers` compares two numbers, the jobs in the queue and the workers on
their way to it (with the one `enqueue` is about to wake), while somebody sleeps.
A push adds to both, since a notification follows; a take removes from both; a
worker that goes to sleep has seen the queue empty, and it stays empty while it
holds the mutex (`MutexOwned`). So the racy tests of the outer loop need not be
looked at: whoever leaves there was not on its way to the queue.

`DispatchedJobRuns` is about the shutdown. After the signal nobody waits for the loop
thread, which goes on with its batch, so a job may be left over. The property bounds which:
a queued job runs as long as one worker stays (the liveness half, model-checked), and the
last worker that leaves has seen the queue empty unless a push was under way at that very
moment, when its unlocked `jobs_.empty()` may answer anything.

`EpollReactorProofs` proves, from `EpollAssumption`, all five
invariants of run `epoll_reactor`, for any connections, descriptors and workers, any
number of units and any send buffer, also while the server stops and reuses numbers:

- `OwnersUnique`, `NoEventOutlives`: `OneOwner` and `NoStaleEvent`;
- `TypeCorrect`, `EchoOrdered`, `EchoWhole`: `TypeOK`, `EchoInOrder` and
  `LostOnlyWhenFull`.

`OneOwner` counts, which is no help in an induction. `Owned` says the same in terms of
places: a descriptor is in the interest list, in the batch, in the queue or with a
worker, in one of them and once (`Exclusive`); what is there names the connection
that has the descriptor (`Live`); a descriptor with a connection is somewhere (`Kept`);
and its connection is open and has no second descriptor (`Opened`). Each step moves a
descriptor from one place to the next: `Poll`, `Dispatch`, `Take` and `Rearm` in a
circle, `Accept` into it with a free number (`LeastFd`), which no place holds because
of `Live`, and `Close` out of it. `AtMostOnce` turns this into numbers again. The data follows: since a
connection has one handler at most (`OwnConnection`), what is written (`Echoed`) and
what the handler holds (`Held`) are two rising sequences, one after the other, whose
lengths add up to what was read (`Whole`) until a write finds the buffer full or the
handler turns to closing. `i <= written[i]` bounds the length without an induction over
the sequence.

`LockFreeQueueProofs` proves from `QueueAssumption` (no thread is producer and consumer,
the addresses are finitely many and "null" is none of them), for any number of
producers, consumers, addresses and values:

- `TypeCorrect`, `NeverDangling`, `NeverLeaks`, `NullIsEmpty`: the four invariants of run
  `lock_free_queue`;
- `FirstInFirstOut`: `Spec => IsFifo`, that each step of a well-used queue is one of
  `FifoQueue` or changes nothing a user sees.

Finding 4 says why `WellUsed` is there: with a deletion under another consumer the list is
lost. The code has two ways to use the queue rightly, and the invariant holds in both:
one thread at each end (`Alone`), or any threads while no deletion hits a node that another
thread still holds (`~early`). It says that there is a list `q` (`Line`: no repetition, all nodes
live, `head` at one end and null at the other), that `tail` is at its last node or one
behind, and then a producer is about to move it (`Behind`), and that every node a thread has read
the address of, and will still read, is in the list or unlinked by a consumer that has not deleted it
(`Placed`, used by `TailSeen`, `HeadSeen`, `NextSeen`). A step lets the list stay, grow by
a node or lose the dummy (`ListStep`), and only `Link`, `Unlink` and the destructor do the
latter two. `NobodyLooks` is where the two ways come in: what `Delete` takes is not what
another thread will read. If `early` stays FALSE nobody holds it; alone, the
producer that is about to read a node has the address of `tail` itself (`OnlySwinging`:
`tail` is behind only while that producer is at its last exchange, so nobody moves it
earlier), and `tail` is in the list, which the deleted node has left. The list is a witness the invariant quantifies over, since the operator `Chain` follows
`next` recursively; `ChainIs` shows with a least counterexample that `Chain` returns the same
nodes, and `ContentsAre` the same values. `Preserved` (a value is taken, in the list, or about
to be linked) and `filled` give `NullIsEmpty`: a consumer that finds no node behind the dummy has seen
a moment with nothing inside. TLC checked the invariant on run `lock_free_queue`, with
the list computed from `Chain`, before the proof.

`ProgramsProofs` is about `ProgramsMC`, and proves all eight invariants of
run `programs` for any values of its constants: any number of threads, processes,
clients, pointers, objects, slots, runs, killed processes and items. The theorems are
at the end of it: `TypeCorrect`, `LockExcludes` (`SharedOnlyThroughExpect`),
`ItemsConsumedOnce` (`ConsumedOnce`), `SemaphoresCount` (`SlotsKept`), `LastOwnerFrees`
(`FreedWithLastOwner`), `CallersShareInstance` (`OneInstance`), `MessagesArrive`
(`IpcDelivers`) and `ServersKnow` (`ServersAgree`). They follow from `Invariant`, which
says that the program that runs keeps its own inductive invariant; lemma `Frame` gives
each program the steps of its module and nothing else, so that each invariant is
proved about one module. All of them were checked by TLC on run `programs` first.

The assumptions, named in `ProgramsMC`, are what the programs rely on as well.
`CountsAssumption`: bounds are natural numbers, and a buffer, a singleton and an alphabet
have at least one place. `NobodyAssumption`, `ProcessesAssumption`, `PointersAssumption`:
the values for "no thread", "no client" and "no object" are none of the real ones, no
process is reader and writer, run 0 is no run. `DescriptorsAssumption`: descriptors are
finitely many numbers, the listening one is not handed out, and there is one for every
client a server may have, since a failing `accept` is not modelled.

None of the properties is inductive alone. What has to be added:

- `SpinInv`: the flag is FALSE while somebody owns the lock (`HeldMeansFlag`), so a
  `compare_exchange` that expects TRUE finds no owner. It needs no bound on the rounds.
- `QueueInv`: what was consumed, followed by what is in the queue, is 1 up to the last
  item produced (`InOrder`); a consumer leaves when `done` is set and the queue empty, after
  which nothing comes (`LastOneOut`).
- `SingleInv`: only the owner of the mutex is between its lock and its unlock
  (`OwnerInside`); the pointer is null from the second check to the store, never null
  after a caller has seen or stored it (`Pointer`), and if stored the last instance
  constructed (`Latest`). So no second check meets a pointer about to be stored.
- `PtrInv`: for each object the counter is the number of its owners, those that an assignment
  has forgotten included; it is freed only at zero, and if it is zero and no destructor is
  between `fetch_sub` and `load`, it has been freed; more than once only after two
  destructors were there together (`Fate`). `Shared_ptr` has no such destructors and forgets
  nobody (`PtrQuiet`), so it frees exactly once. For `SharedPtr` `FreedWithLastOwner` thus
  says when it goes wrong: it leaks if and only if an owner was forgotten. The number is
  a cardinality; `HoldCount` and `MoveCount` say how it changes when one pointer takes
  up, passes on or lets go of an object.
- `SemInv`: for a pair of semaphores that is only used together the permits, the items in
  the buffer and what the two processes have in hand never exceed the slots
  (`SlotsCounted`), with equality while nobody was killed; a killed process takes away
  what it had in hand, which only loosens the inequality. `MutexCounted` says the same
  of the mutex. A pair that a process makes by opening the names between two `unlink`
  calls is not exclusive, and the lemmas of `sem_open` show that it takes its members out
  of the exclusive ones. The values of the semaphores have no upper bound
  when runs mix pairs, so `TypeOK` of `Semaphores` gives them none.
- `SignalInv`: a signal is pending only between the two calls of `sigprocmask`.
- `ShmInv`: an object that holds the message has a size and keeps both, so a reader that
  opened written memory will show the message (`WillShow`).
- `MqInv`: in every queue a sender's `exit` is the last of its messages (`ExitsLast`, which
  an append and a receive keep), and whoever has an `exit` there sends nothing more. Only
  the receiver removes the name, so a queue without one had an `exit` taken from it
  last, and holds nothing of that sender (`TakenUpToExit`).
- `PipeInv`: an undisturbed run is at one of seven stages, from `Outside` over `BothToOpen`
  and `Written` to `Heard`, and no process of another run has its pipe open (`Alone`).
  Each step of the run moves it on by one stage; each step of another run leaves
  it alone or disturbs it.
- `PollInv`: a used slot and its descriptor name one connected client and every connected
  client has one (`Seated`); a slot that `poll` has reported can still be read (`Due`),
  since nobody else reads; and one that is to be echoed was read (`Echoing`). That there is a
  free descriptor for a client that is accepted follows by counting.
- `NioInv`: an event that is ready or in hand is about an open connection and the interest
  registered for it (`Holds`); what can be done for a client is one of them, which makes
  the edges sufficient; and interest in writing means that a reply is owed (`OwesReply`).
- `HttpInv`: a client whose request was not read in part is never reset, and its answer is
  the one to what it asked (`Served`); `took` says how much of the request is read.

`TypeOK` of the four remaining programs (turns, lock order, bare wait, signals) is
inductive as it stands or with the above.

`ContainerProofs`, `TreeProofs` and `SequenceProofs` are about `ContainersMC`, and prove all
seven invariants of run `containers` for any values of its constants: any capacity,
buffer size and number of buckets, any keys, values, addresses and strings, and items
without limit but the bounds the run gives them. Lemma `Frame` gives each container the
steps of its module. The theorems are `CachesKeepLatest` (`CacheKeepsLatest`),
`StringsOwnTheirBuffers` (`StringsOwnBuffers`), `LargestServed` (`HeapServesLargest`),
`TablesAreMaps` (`TableIsMap`), `TreesAreMaps` (`TreeIsMap`), `SequencesHeld`
(`HoldsSequence`) and `TypeCorrect` (`TypeOK`).

The assumptions, named in `ContainersMC`: a buffer and a table have at least one place; a
capacity is a natural number; the values of the priority queue are ordered as numbers,
which is `std::less` of `main`; the keys of the tables are their own hashes, and those of the
tree ordered as numbers; the null pointer is no address and no key, and NUL no character of a
string; addresses and keys are finitely many; the bounds are natural numbers. Finiteness is
what lets sizes be counted, and the recursions below end.

The invariants:

- `CacheInv`: the index leads from the keys used last to the nodes of the list, in order,
  and the nodes are distinct, so that `splice` and `pop_back` move or free the node they mean.
  The key that is erased from the index is read from the node at the back; that it is the
  last of the keys used is `CacheValues`.
- `StringInv`: a buffer reads as the text of its string and then NUL (`Reads`), no two
  strings share one, and every buffer has a string, unless a sum of `SimpleString` has left the buffer of an
  empty string behind (`Left`). Once a user has
  written a NUL into a string (`cut`), its text may be shorter than its length.
- `HeapInv`: no value is larger than its parent's, and the vector holds what was pushed and
  not popped. Inside the loops this is not so: `Rising` and `Sinking` are the loop invariants
  of the two, a heap but for one index.
- `TableInv`: `Holds(t, f, K)` says that every node of table `t` is in the bucket of its key,
  has the value `f` gives it, and that the keys are those of `K`, each once. The rehash takes
  the nodes out of the old buckets one by one, and is the same invariant with the keys
  moved so far (`AllFresh` says that the rest are none of them).
- `TreeInv`: `Balanced(t, N, u, b, Z)` says of tree `t` that there are a function `u`, from
  the nodes `N` to what is at and below them, and a function `b`, the black nodes on
  every way down, that agree with the pointers, that the search order holds for all of `u`,
  and that no node but those of `Z` is red under a red parent. An insertion starts with `Z`
  the new node; recolouring moves it to the grandparent (`Carried`), and rotations, which change
  `u` at two nodes only (`Lowered`), empty it (`Lifts`). That a red node with a red parent
  has a black grandparent (`Family`) is why the code may read its fields. The loop ends since
  what is not below the node goes on shrinking. The operators of the property that follow
  pointers (`Subtree`, `BlackHeight`) are shown to return `u` and `b`.
- `DequeInv`: the two cursors are places in one line of buffers; their difference is
  the number of items; the buffers that are mapped are those between the cursors; the items
  lie between the cursors in order. It holds also where the end cursor is before its buffer
  (finding 5), because the place it names is the same.
- `ListInv`: there is a sequence of places `e`, null beyond both ends, whose
  nodes hold the items and point to their neighbours, and no other node is allocated. It is a
  witness the invariant quantifies over; `Walk`, which follows `next`, is shown to visit it.
- `WithinBounds`, for `TypeOK`: the guards with the bounds of the run keep strings, heap, map
  and items within them.

TLC checked these invariants on run `containers`, but for `TreeInv` and `ListInv`, whose
witnesses are too many to try.

Several loops of the containers are recursive functions in the model, whose domain is the
set of their states (`HeapifyUp`, `HeapifyDown`, `FixInsert`, `Descend`, `Below`, `Walk`).
An induction over states needs an operator as a parameter, which the provers cannot
instantiate. `ContainerProofs` uses a least counterexample instead: a function defined by
a recursion exists whether or not it ends (lemma `Recursion`), it has one value at every state
from which the loop ends, and, for an invariant of the loop and a measure in the natural
numbers, the set of states that satisfy the one and contradict the claim has a least member
by the other, whose successor is smaller.

Only model-checked: every liveness property (`EventuallyJoined`, `DispatchedJobRuns`,
`StopReturnsUnlessBlocking`, `DataIsRead`, `GoneIsClosed`, `Progress`,
`DrainsWithoutProducers`), since the prover does not handle fairness or ENABLED.
The five findings are counterexamples that TLC shows.

## Findings

1. The reactor server may never end after a signal (`server_reactor.cpp:87`).
2. The echo server drops what it has read when the client half-closes
   (`server_reactor.cpp:250`).
3. The spin lock does not exclude (`spinLock.cpp:18`).
4. With two consumers the lock-free queue returns a value twice and skips another,
   because `dequeue` deletes the old dummy at once (`LockFreeQueue.cpp:67`). One
   producer with one consumer is a FIFO queue; the mutant `FailsSpuriously` shows
   that even this would break where the weak exchange of `enqueue`, whose result is
   not looked at, fails without a reason.
5. `push_front` on a new deque followed by `pop_back` moves the end cursor before
   its buffer (`deque.cpp:106`).

Also seen, in the models but not runs of their own: a job dispatched after the
workers have left is never run, and so is one that the last worker has overlooked because
its `jobs_.empty()`, read without the mutex, raced with another push; SIGPIPE is not ignored (a comment of the reactor
asks for more error handling in production); `insert` of `hashmap.cpp` updates a
copy of a node it finds, so the old value stays (line 36); a cache of `LRU.cpp`
with capacity 0 takes the back of an empty list; destructors of `SharedPtr` that
overlap may delete twice, its assignments leak, and copying an empty one
dereferences null; `operator+` of `SimpleString` leaks the buffer of the empty string it
starts from; when `startIndex` is 0, `ensureFrontBuffer` of the deque puts a new buffer in front of
the map and at once writes another over it (`deque.cpp:40`, 45), so the first is leaked; the two functions of `deadlock.cpp` reach the circular wait they are
written for, and the threads of `condition_variable.cpp` sleep for ever if they begin to
wait after three seconds; the second `unlink` of `ipc_pipe_named.cpp` may remove the pipe
of another run, whose child then finds none; the reader of shared memory may print
nothing or a part, or end by SIGBUS, when it comes before the message; a request that
reaches `server_http.cpp` in two pieces may get 404, and a reset under the answer ends
the client in an exception; two processes that opened `/sem_mutex` before and after it was
unlinked do not exclude each other, which is why `Excluded` compares their handles.
Seen while reading and not modelled: `print` of `hashmap.cpp` skips the last bucket
(line 71); `vector.cpp` constructs one element where it needs an array.

## Plan

1. Done: the pools, the reactor, the locks, the lock-free queue, the containers, the
   small concurrent programs, the other IPC programs, the event loops and the HTTP
   pair, the strings.
2. Done: proofs of every invariant of every run, and of the three refinements.
3. To do: an abstract lock that `SpinLock` implements while nothing is stolen, and an
   abstract bounded buffer for `Semaphores`.

## Not modelled

Programs without state worth following (factories, adapter, strategy,
exercises, the wrappers `queue.cpp` and `stack.cpp` of standard containers, the list
of `observer.cpp`, which one thread changes through a standard vector),
programs that do not compile as they stand (`set.cpp`, `mystr.cpp`,
`hashmap_safe.cpp`, `server_select_bio.cpp`) or are commented out (`LRU3.cpp`, most of
`ipc_socket_server.cpp`), `vector.cpp`, whose `new T(n)` makes one element, so that
whatever follows the first `push_back` is undefined, transfers between two processes
nobody else can meet (`ipc_pipe_unnamed.cpp`, `ipc_socket_*.cpp`, `client.cpp`), the
formatting of output, and system calls that fail before a program has any state.
Of `server_poll_bio.cpp` and `server_epoll_nio.cpp` the failures of `poll`, `accept` and
`epoll_ctl` are left out, of `ipc_sem_*.cpp` and `ipc_mq_*.cpp` those of opening the
named object, of `server_http.cpp` that of `accept`.
