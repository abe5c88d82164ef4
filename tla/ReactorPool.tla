----------------------------- MODULE ReactorPool -----------------------------
(***************************************************************************)
(* The threads of computer-networks/server_reactor.cpp and how they stop:  *)
(* main, which starts the reactor, sleeps until a signal and stops it; the *)
(* thread of EpollReactor::loop, which hands one job to the pool for each  *)
(* ready connection; and the workers of the pool. What a job does is the   *)
(* subject of EpollReactor.tla; here jobs are numbered.                    *)
(*                                                                         *)
(* Unlike the pool of ThreadPool.tla this one is told to stop through a    *)
(* global atomic, g_running, that a signal handler and stop() clear        *)
(* without taking mutex_. So the predicate of cond_.wait and the blocking  *)
(* that follows it are two steps here (Check, Block), and the outer loop   *)
(* condition reads jobs_ without the mutex (Test).                         *)
(***************************************************************************)
EXTENDS Integers, Sequences, FiniteSets

CONSTANTS Workers,      \* the threads of the pool
          Loop,         \* worker_thread_, running loop()
          NoThread,     \* the owner of a free mutex
          MaxJobs,      \* bound: jobs dispatched in one behaviour
          MaxBatch,     \* bound: events in one batch of epoll_wait
          MaxSpurious   \* bound: spurious wake-ups in one behaviour

ASSUME ReactorAssumption ==
    /\ Workers # {} /\ IsFiniteSet(Workers)
    /\ Loop \notin Workers
    /\ NoThread \notin Workers \cup {Loop}
    /\ MaxJobs \in Nat
    /\ MaxBatch \in Nat \ {0}
    /\ MaxSpurious \in Nat

VARIABLES
    g_running,
    jobs_,
    mutex_,    \* its owner
    mpc,       \* where main is
    lpc,       \* where the loop thread is
    batch,     \* events of the current batch not dispatched yet
    next,      \* the number of the next job
    wpc,       \* where each worker is
    job,       \* each worker's local variable job
    ran,       \* the jobs that have returned
    spurious   \* how many spurious wake-ups have happened

vars == <<g_running, jobs_, mutex_, mpc, lpc, batch, next, wpc, job, ran, spurious>>
pool == <<jobs_, mutex_, wpc, job, ran, spurious>>

NoJob == -1
Jobs == 0 .. MaxJobs - 1

Init ==
    /\ g_running = TRUE
    /\ jobs_ = <<>>
    /\ mutex_ = NoThread
    /\ mpc = "start"
    /\ lpc = "unborn"
    /\ batch = 0
    /\ next = 0
    /\ wpc = [w \in Workers |-> "test"]
    /\ job = [w \in Workers |-> NoJob]
    /\ ran = {}
    /\ spurious = 0

-----------------------------------------------------------------------------
(* What the statements of the code compute. Each comes after a variant of   *)
(* it that is wrong, with which a property below must fail.                 *)

Waiting == {w \in Workers : wpc[w] = "waiting"}

\* The sets of threads a notify_one may wake: one waiter, none without waiters.
WokenByOne == IF Waiting = {} THEN {{}} ELSE {{w} : w \in Waiting}

\* The threads notify_all wakes.
WokenByAll == Waiting

PushedInFront == <<next>> \o jobs_

\* jobs_.push(std::move(job))
Pushed == Append(jobs_, next)

NotPopped == jobs_

\* jobs_.pop()
Popped == Tail(jobs_)

ForgetsJobs == ~g_running
ForgetsStop == jobs_ # <<>>

\* The predicate of cond_.wait().
MayProceed == ~g_running \/ jobs_ # <<>>

Wake(S) == wpc' = [w \in Workers |-> IF w \in S THEN "lock" ELSE wpc[w]]

\* The owner of the mutex is about to push to jobs_ or to pop from it.
Changing == \/ lpc = "push"
            \/ jobs_ # <<>> /\ \E v \in Workers : wpc[v] = "check"

\* What jobs_.empty() may return to a thread that does not hold mutex_: its
\* reads race with the push or the pop.
EmptySeen == IF Changing THEN BOOLEAN ELSE {jobs_ = <<>>}

\* As with while (g_running).
LeavesAtOnce(empty) == ~g_running

\* The loop condition of a worker that has seen jobs_ empty or not.
MayLeave(empty) == ~g_running /\ empty

SkipsAnEvent == batch - 2

\* for (int i = 0; i < n; ++i), counted down.
Remaining == batch - 1

-----------------------------------------------------------------------------
(* The main thread, and the handler of SIGINT and SIGTERM.                 *)

\* The pool has its threads since the constructor. start() may fail before it
\* creates the loop thread: main returns, and the destructor calls stop().
Start ==
    /\ mpc = "start"
    /\ \/ mpc' = "sleep" /\ lpc' = "loop"
       \/ mpc' = "stop" /\ lpc' = lpc
    /\ UNCHANGED <<g_running, batch, next, pool>>

Signal ==
    /\ g_running
    /\ g_running' = FALSE
    /\ UNCHANGED <<mpc, lpc, batch, next, pool>>

\* while (g_running) sleep_for(200ms) ends.
WakeMain ==
    /\ mpc = "sleep" /\ ~g_running
    /\ mpc' = "stop"
    /\ UNCHANGED <<g_running, lpc, batch, next, pool>>

\* stop() clears g_running, before it joins the loop thread.
StopReactor ==
    /\ mpc = "stop"
    /\ g_running' = FALSE
    /\ mpc' = "joinLoop"
    /\ UNCHANGED <<lpc, batch, next, pool>>

JoinLoop ==
    /\ mpc = "joinLoop"
    /\ lpc \in {"unborn", "left"}
    /\ mpc' = "notifyAll"
    /\ UNCHANGED <<g_running, lpc, batch, next, pool>>

\* pool_.stop() notifies without the mutex.
NotifyAll ==
    /\ mpc = "notifyAll"
    /\ mpc' = "joinPool"
    /\ Wake(WokenByAll)
    /\ UNCHANGED <<g_running, lpc, batch, next, jobs_, mutex_, job, ran, spurious>>

JoinPool ==
    /\ mpc = "joinPool"
    /\ \A w \in Workers : wpc[w] = "left"
    /\ mpc' = "done"
    /\ UNCHANGED <<g_running, lpc, batch, next, pool>>

-----------------------------------------------------------------------------
(* The loop thread.                                                        *)

\* while (g_running), with no event to dispatch left. epoll_wait times out
\* (no event), or returns a batch of events.
Poll ==
    /\ lpc = "loop" /\ batch = 0
    /\ g_running
    /\ batch' \in 1 .. MaxBatch
    /\ next + batch' <= MaxJobs
    /\ UNCHANGED <<g_running, mpc, lpc, next, pool>>

\* g_running is seen cleared, or epoll_wait fails on the fd that stop() closed.
LeaveLoop ==
    /\ lpc = "loop" /\ batch = 0
    /\ ~g_running
    /\ lpc' = "left"
    /\ UNCHANGED <<g_running, mpc, batch, next, pool>>

\* pool_.enqueue() takes the mutex.
EnqueueLock ==
    /\ lpc = "loop" /\ batch > 0
    /\ mutex_ = NoThread
    /\ mutex_' = Loop
    /\ lpc' = "push"
    /\ UNCHANGED <<g_running, mpc, batch, next, jobs_, wpc, job, ran, spurious>>

EnqueuePush ==
    /\ lpc = "push"
    /\ jobs_' = Pushed
    /\ next' = next + 1
    /\ batch' = Remaining
    /\ mutex_' = NoThread
    /\ lpc' = "notify"
    /\ UNCHANGED <<g_running, mpc, wpc, job, ran, spurious>>

NotifyOne ==
    /\ lpc = "notify"
    /\ lpc' = "loop"
    /\ \E S \in WokenByOne : Wake(S)
    /\ UNCHANGED <<g_running, mpc, batch, next, jobs_, mutex_, job, ran, spurious>>

-----------------------------------------------------------------------------
(* A worker.                                                               *)

\* while (g_running || !jobs_.empty()), without the mutex.
Test(w) ==
    /\ wpc[w] = "test"
    /\ \E empty \in EmptySeen :
         wpc' = [wpc EXCEPT ![w] = IF MayLeave(empty) THEN "left" ELSE "lock"]
    /\ UNCHANGED <<g_running, mpc, lpc, batch, next, jobs_, mutex_, job, ran, spurious>>

Lock(w) ==
    /\ wpc[w] = "lock"
    /\ mutex_ = NoThread
    /\ mutex_' = w
    /\ wpc' = [wpc EXCEPT ![w] = "check"]
    /\ UNCHANGED <<g_running, mpc, lpc, batch, next, jobs_, job, ran, spurious>>

\* The predicate of wait() is false; the worker holds the mutex still.
Check(w) ==
    /\ wpc[w] = "check" /\ ~MayProceed
    /\ wpc' = [wpc EXCEPT ![w] = "block"]
    /\ UNCHANGED <<g_running, mpc, lpc, batch, next, jobs_, mutex_, job, ran, spurious>>

\* wait() releases the mutex and blocks, in one step.
Block(w) ==
    /\ wpc[w] = "block"
    /\ mutex_' = NoThread
    /\ wpc' = [wpc EXCEPT ![w] = "waiting"]
    /\ UNCHANGED <<g_running, mpc, lpc, batch, next, jobs_, job, ran, spurious>>

\* wait() returns because g_running is cleared: continue.
Continue(w) ==
    /\ wpc[w] = "check" /\ MayProceed /\ jobs_ = <<>>
    /\ mutex_' = NoThread
    /\ wpc' = [wpc EXCEPT ![w] = "test"]
    /\ UNCHANGED <<g_running, mpc, lpc, batch, next, jobs_, job, ran, spurious>>

Take(w) ==
    /\ wpc[w] = "check" /\ MayProceed /\ jobs_ # <<>>
    /\ job' = [job EXCEPT ![w] = Head(jobs_)]
    /\ jobs_' = Popped
    /\ mutex_' = NoThread
    /\ wpc' = [wpc EXCEPT ![w] = "run"]
    /\ UNCHANGED <<g_running, mpc, lpc, batch, next, ran, spurious>>

\* The job returns or throws; every exception is caught.
Run(w) ==
    /\ wpc[w] = "run"
    /\ ran' = ran \cup {job[w]}
    /\ job' = [job EXCEPT ![w] = NoJob]
    /\ wpc' = [wpc EXCEPT ![w] = "test"]
    /\ UNCHANGED <<g_running, mpc, lpc, batch, next, jobs_, mutex_, spurious>>

SpuriousWakeup(w) ==
    /\ wpc[w] = "waiting"
    /\ spurious < MaxSpurious
    /\ spurious' = spurious + 1
    /\ Wake({w})
    /\ UNCHANGED <<g_running, mpc, lpc, batch, next, jobs_, mutex_, job, ran>>

-----------------------------------------------------------------------------
MainStep == Start \/ WakeMain \/ StopReactor \/ JoinLoop \/ NotifyAll \/ JoinPool

\* The steps the loop thread takes by itself; Poll needs an event.
LoopStep == LeaveLoop \/ EnqueueLock \/ EnqueuePush \/ NotifyOne

WorkerStep(w) == \/ Test(w) \/ Lock(w) \/ Check(w) \/ Block(w)
                 \/ Continue(w) \/ Take(w) \/ Run(w)

Terminated == mpc = "done" /\ UNCHANGED vars

Next == \/ MainStep
        \/ Signal
        \/ Poll
        \/ LoopStep
        \/ \E w \in Workers : WorkerStep(w) \/ SpuriousWakeup(w)
        \/ Terminated

\* Every thread that can take a step is scheduled. Nothing makes a signal come,
\* a connection become ready, or a waiter wake up unasked. The jobs are finitely
\* many, so nobody can be kept from a mutex for ever.
Spec == /\ Init
        /\ [][Next]_vars
        /\ WF_vars(MainStep)
        /\ WF_vars(LoopStep)
        /\ \A w \in Workers : WF_vars(WorkerStep(w))

-----------------------------------------------------------------------------
TypeOK ==
    /\ g_running \in BOOLEAN
    /\ jobs_ \in Seq(Jobs)
    /\ mutex_ \in Workers \cup {Loop, NoThread}
    /\ mpc \in {"start", "sleep", "stop", "joinLoop", "notifyAll", "joinPool", "done"}
    /\ lpc \in {"unborn", "loop", "push", "notify", "left"}
    /\ batch \in 0 .. MaxBatch
    /\ next \in 0 .. MaxJobs
    /\ wpc \in [Workers -> {"test", "lock", "check", "block", "waiting", "run", "left"}]
    /\ job \in [Workers -> Jobs \cup {NoJob}]
    /\ ran \in SUBSET Jobs
    /\ spurious \in 0 .. MaxSpurious

Running == {job[w] : w \in {v \in Workers : wpc[v] = "run"}}

\* The pool runs each job once and begins the jobs in the order of dispatch.
\* It never closes in the sense of TaskPool: stop() may leave jobs behind.
Abstract == INSTANCE TaskPool WITH
    submitted <- next, begun <- next - Len(jobs_), running <- Running,
    finished <- ran, closed <- FALSE

ImplementsTaskPool == Abstract!Spec

\* The workers on their way to the queue.
Coming == {w \in Workers : wpc[w] \in {"lock", "check"}}

\* enqueue notifies with the mutex released, a notification nobody waits for is
\* lost, and one that is not may find the job taken. Still, while a worker sleeps,
\* as many are on their way to the queue as there are jobs in it, with the one that
\* enqueue is about to wake: no job waits for a worker that is busy.
JobsReachWorkers ==
    Waiting # {} => Len(jobs_) <= Cardinality(Coming) + (IF lpc = "notify" THEN 1 ELSE 0)

NobodyStays == ~g_running /\ \A w \in Workers : wpc[w] = "left"

\* After the signal the loop thread still dispatches the rest of its batch, and no
\* worker waits for it (server_reactor.cpp:63, 226). Still a dispatched job runs as
\* long as one worker stays, asleep or not; and the last worker leaves an empty queue,
\* or one that the loop thread is pushing to, whose emptiness it reads without the
\* mutex. So what nobody runs was dispatched after the last worker had left, or shared
\* the queue with a push that raced with its last look.
DispatchedJobRuns ==
    /\ \A j \in Jobs : next > j ~> (j \in ran \/ NobodyStays)
    /\ [][~NobodyStays /\ NobodyStays' => jobs_ = <<>> \/ lpc = "push"]_vars

\* The only thing that can keep stop() from returning is a worker that has
\* evaluated the predicate of wait() and not blocked yet when notify_all is
\* called.
StopReturnsUnlessBlocking ==
    (mpc = "notifyAll" /\ \A w \in Workers : wpc[w] # "block") ~> mpc = "done"

\* What main says it does: it waits until the signal, then shuts down
\* (server_reactor.cpp:324, 329).
SignalEndsServer == ~g_running ~> mpc = "done"
=============================================================================
