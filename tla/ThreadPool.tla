----------------------------- MODULE ThreadPool -----------------------------
(***************************************************************************)
(* The thread pool of operating-systems/thread/threadpool.cpp under its    *)
(* main(): start() spawns the workers, main enqueues NumTasks tasks, and   *)
(* the destructor stops and joins the workers.                             *)
(*                                                                         *)
(* Each action is what one thread does between two points at which another *)
(* thread can be seen to act: taking mEventMutex, the body of the section  *)
(* it protects (the unlock at its end included), a notification, a task.   *)
(* A wake-up of mEventVar, by a notification or spurious, sends the waiter *)
(* back to the mutex and then to the predicate of its wait.                *)
(***************************************************************************)
EXTENDS Integers, Sequences

CONSTANTS Workers,      \* the threads start() creates
          Main,         \* the thread that owns the pool
          NoThread,     \* the owner of a free mutex
          NumTasks,     \* how many tasks main submits
          MaxSpurious   \* bound: spurious wake-ups in one behaviour

ASSUME PoolAssumption ==
    /\ Workers # {}
    /\ Main \notin Workers
    /\ NoThread \notin Workers \cup {Main}
    /\ NumTasks \in Nat
    /\ MaxSpurious \in Nat

VARIABLES
    mTasks,       \* the queue of submitted tasks no worker has taken
    mStopping,
    mEventMutex,  \* its owner
    mpc,          \* where main is
    next,         \* the task main submits next, its loop counter
    wpc,          \* where each worker is
    task,         \* each worker's local variable task
    done,         \* the tasks that have returned
    spurious      \* how many spurious wake-ups have happened

vars == <<mTasks, mStopping, mEventMutex, mpc, next, wpc, task, done, spurious>>

NoTask == -1
Tasks == 0 .. NumTasks - 1

Init ==
    /\ mTasks = <<>>
    /\ mStopping = FALSE
    /\ mEventMutex = NoThread
    /\ mpc = "spawn"
    /\ next = 0
    /\ wpc = [w \in Workers |-> "unborn"]
    /\ task = [w \in Workers |-> NoTask]
    /\ done = {}
    /\ spurious = 0

-----------------------------------------------------------------------------
(* What the statements of the code compute. Each comes after a variant of   *)
(* it that is wrong, with which a property below must fail.                 *)

OneTooMany == next <= NumTasks

\* The loop condition of main.
MoreTasks == next < NumTasks

PushedInFront == <<next>> \o mTasks

\* mTasks.emplace(f)
Pushed == Append(mTasks, next)

NotPopped == mTasks

\* mTasks.pop()
Popped == Tail(mTasks)

ExitAtOnce == mStopping

\* if (mStopping && mTasks.empty()) break;
MustExit == mStopping /\ mTasks = <<>>

ForgetsTasks == mStopping
ForgetsStop == mTasks # <<>>

\* The predicate of mEventVar.wait().
MayProceed == mStopping \/ mTasks # <<>>

Waiting == {w \in Workers : wpc[w] = "waiting"}

\* The sets of threads a notify_one may wake: one waiter, none without waiters.
WokenByOne == IF Waiting = {} THEN {{}} ELSE {{w} : w \in Waiting}

\* The threads notify_all wakes.
WokenByAll == Waiting

Wake(S) == wpc' = [w \in Workers |-> IF w \in S THEN "lock" ELSE wpc[w]]

-----------------------------------------------------------------------------
(* The main thread.                                                        *)

\* start(): one emplace_back into mThreads. The new thread runs at once,
\* while main is still spawning the others.
Spawn(w) ==
    /\ mpc = "spawn"
    /\ wpc[w] = "unborn"
    /\ wpc' = [wpc EXCEPT ![w] = "lock"]
    /\ mpc' = IF \A v \in Workers \ {w} : wpc[v] # "unborn" THEN "submit" ELSE mpc
    /\ UNCHANGED <<mTasks, mStopping, mEventMutex, next, task, done, spurious>>

\* enqueue() takes the mutex.
EnqueueLock ==
    /\ mpc = "submit" /\ MoreTasks
    /\ mEventMutex = NoThread
    /\ mEventMutex' = Main
    /\ mpc' = "push"
    /\ UNCHANGED <<mTasks, mStopping, next, wpc, task, done, spurious>>

\* The push, and the unlock at the end of the block.
EnqueuePush ==
    /\ mpc = "push"
    /\ mTasks' = Pushed
    /\ next' = next + 1
    /\ mEventMutex' = NoThread
    /\ mpc' = "notify"
    /\ UNCHANGED <<mStopping, wpc, task, done, spurious>>

\* mEventVar.notify_one(), with the mutex released.
NotifyOne ==
    /\ mpc = "notify"
    /\ mpc' = "submit"
    /\ \E S \in WokenByOne : Wake(S)
    /\ UNCHANGED <<mTasks, mStopping, mEventMutex, next, task, done, spurious>>

\* ~ThreadPool() runs stop(), which takes the mutex.
StopLock ==
    /\ mpc = "submit" /\ ~MoreTasks
    /\ mEventMutex = NoThread
    /\ mEventMutex' = Main
    /\ mpc' = "set"
    /\ UNCHANGED <<mTasks, mStopping, next, wpc, task, done, spurious>>

\* mStopping = true, and the unlock.
SetStopping ==
    /\ mpc = "set"
    /\ mStopping' = TRUE
    /\ mEventMutex' = NoThread
    /\ mpc' = "notifyAll"
    /\ UNCHANGED <<mTasks, next, wpc, task, done, spurious>>

NotifyAll ==
    /\ mpc = "notifyAll"
    /\ mpc' = "join"
    /\ Wake(WokenByAll)
    /\ UNCHANGED <<mTasks, mStopping, mEventMutex, next, task, done, spurious>>

\* The loop of join() calls has returned.
Join ==
    /\ mpc = "join"
    /\ \A w \in Workers : wpc[w] = "exited"
    /\ mpc' = "done"
    /\ UNCHANGED <<mTasks, mStopping, mEventMutex, next, wpc, task, done, spurious>>

-----------------------------------------------------------------------------
(* A worker: the lambda start() gives to each thread.                      *)

\* The constructor of unique_lock, or the re-acquisition inside wait().
Lock(w) ==
    /\ wpc[w] = "lock"
    /\ mEventMutex = NoThread
    /\ mEventMutex' = w
    /\ wpc' = [wpc EXCEPT ![w] = "check"]
    /\ UNCHANGED <<mTasks, mStopping, mpc, next, task, done, spurious>>

\* The predicate of wait() is false: release the mutex and block, in one step.
Wait(w) ==
    /\ wpc[w] = "check" /\ ~MayProceed
    /\ mEventMutex' = NoThread
    /\ wpc' = [wpc EXCEPT ![w] = "waiting"]
    /\ UNCHANGED <<mTasks, mStopping, mpc, next, task, done, spurious>>

Exit(w) ==
    /\ wpc[w] = "check" /\ MayProceed /\ MustExit
    /\ mEventMutex' = NoThread
    /\ wpc' = [wpc EXCEPT ![w] = "exited"]
    /\ UNCHANGED <<mTasks, mStopping, mpc, next, task, done, spurious>>

\* task = std::move(mTasks.front()); mTasks.pop(); and the unlock.
Take(w) ==
    /\ wpc[w] = "check" /\ MayProceed /\ ~MustExit
    /\ task' = [task EXCEPT ![w] = Head(mTasks)]
    /\ mTasks' = Popped
    /\ mEventMutex' = NoThread
    /\ wpc' = [wpc EXCEPT ![w] = "run"]
    /\ UNCHANGED <<mStopping, mpc, next, done, spurious>>

\* task() returns; the variable dies at the end of the iteration.
Run(w) ==
    /\ wpc[w] = "run"
    /\ done' = done \cup {task[w]}
    /\ task' = [task EXCEPT ![w] = NoTask]
    /\ wpc' = [wpc EXCEPT ![w] = "lock"]
    /\ UNCHANGED <<mTasks, mStopping, mEventMutex, mpc, next, spurious>>

\* condition_variable::wait may return without a notification.
SpuriousWakeup(w) ==
    /\ wpc[w] = "waiting"
    /\ spurious < MaxSpurious
    /\ spurious' = spurious + 1
    /\ Wake({w})
    /\ UNCHANGED <<mTasks, mStopping, mEventMutex, mpc, next, task, done>>

-----------------------------------------------------------------------------
MainStep == \/ \E w \in Workers : Spawn(w)
            \/ EnqueueLock
            \/ EnqueuePush
            \/ NotifyOne
            \/ StopLock
            \/ SetStopping
            \/ NotifyAll
            \/ Join

WorkerStep(w) == Lock(w) \/ Wait(w) \/ Exit(w) \/ Take(w) \/ Run(w)

\* main has returned from the destructor and every thread has ended.
Terminated == mpc = "done" /\ UNCHANGED vars

Next == \/ MainStep
        \/ \E w \in Workers : WorkerStep(w) \/ SpuriousWakeup(w)
        \/ Terminated

Spec == Init /\ [][Next]_vars

\* The scheduler runs every thread that can take a step. Every behaviour is
\* finite up to stuttering (tasks, notifications and spurious wake-ups are), so
\* weak fairness of a thread waiting for the mutex is enough.
FairSpec == /\ Spec
            /\ WF_vars(MainStep)
            /\ \A w \in Workers : WF_vars(WorkerStep(w))

-----------------------------------------------------------------------------
TypeOK ==
    /\ mTasks \in Seq(Tasks)
    /\ mStopping \in BOOLEAN
    /\ mEventMutex \in Workers \cup {Main, NoThread}
    /\ mpc \in {"spawn", "submit", "push", "notify", "set", "notifyAll", "join", "done"}
    /\ next \in 0 .. NumTasks
    /\ wpc \in [Workers -> {"unborn", "lock", "check", "waiting", "run", "exited"}]
    /\ task \in [Workers -> Tasks \cup {NoTask}]
    /\ done \in SUBSET Tasks
    /\ spurious \in 0 .. MaxSpurious

Running == {task[w] : w \in {v \in Workers : wpc[v] = "run"}}

\* How many tasks workers have taken from the queue.
Taken == next - Len(mTasks)

\* No task is lost, duplicated or overtaken between enqueue() and its
\* execution: the queue holds exactly the submitted tasks that no worker has
\* taken, in order, and each taken task is run by one worker or has returned.
EachTaskOnce ==
    /\ Taken \in Nat
    /\ \A i \in 1 .. Len(mTasks) : mTasks[i] = Taken + i - 1
    /\ Running \cup done = 0 .. Taken - 1
    /\ Running \cap done = {}
    /\ \A v, w \in Workers : wpc[v] = "run" /\ wpc[w] = "run" /\ task[v] = task[w] => v = w

\* "the pool waits in its destructor for all tasks to complete"
\* (threadpool.cpp:88): when the destructor has returned, every task has run.
JoinedMeansDrained == mpc = "done" => done = Tasks

\* notify_one and notify_all are called after the mutex is released, and a
\* notification nobody waits for is lost. Still no worker sleeps through work:
\* with a task queued some worker is awake, or main is about to wake one; and
\* once the pool stops none stays asleep past notify_all.
NoLostWakeup ==
    /\ mTasks # <<>> /\ mpc # "notify" =>
         \E w \in Workers : wpc[w] \in {"lock", "check", "run"}
    /\ mStopping /\ mpc # "notifyAll" => Waiting = {}

\* The pool implements TaskPool: tasks begin in the order of submission, run
\* once each, and the destructor returns when all have finished.
Abstract == INSTANCE TaskPool WITH
    submitted <- next, begun <- Taken, running <- Running,
    finished <- done, closed <- (mpc = "done")

ImplementsTaskPool == Abstract!Spec

\* The destructor returns: stop() reaches every worker wherever it is.
EventuallyJoined == <>(mpc = "done")
=============================================================================
