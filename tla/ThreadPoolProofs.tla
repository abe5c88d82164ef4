-------------------------- MODULE ThreadPoolProofs --------------------------
(***************************************************************************)
(* Proofs about ThreadPool for any number of workers, tasks and spurious   *)
(* wake-ups.                                                               *)
(***************************************************************************)
EXTENDS ThreadPool, SequenceTheorems, TLAPS

Actors == Workers \cup {Main}

\* The threads that hold, by their program counter, the mutex.
InSection(a) == IF a = Main THEN mpc \in {"push", "set"} ELSE wpc[a] = "check"

\* The thread in a critical section owns mEventMutex, so no two are in one:
\* this is why ThreadPool may run the body of a section as one step.
MutexOwned == \A a \in Actors : InSection(a) <=> mEventMutex = a

\* Where main is tells what it has done, and what the workers can have done.
Phases ==
    /\ mpc = "spawn" => next = 0
    /\ mpc # "spawn" => \A w \in Workers : wpc[w] # "unborn"
    /\ mpc = "push" => next < NumTasks
    /\ mStopping <=> mpc \in {"notifyAll", "join", "done"}
    /\ mpc \in {"set", "notifyAll", "join", "done"} => next = NumTasks
    /\ mpc = "done" => \A w \in Workers : wpc[w] = "exited"
    /\ \A w \in Workers : wpc[w] = "exited" => mStopping /\ mTasks = <<>>

IInv == TypeOK /\ Phases /\ EachTaskOnce /\ NoLostWakeup

-----------------------------------------------------------------------------
\* EachTaskOnce reads the queue, the counter and the tasks being run, so a
\* step that touches none of them keeps it.
LEMMA KeepsEachTaskOnce ==
  ASSUME EachTaskOnce,
         UNCHANGED <<mTasks, next, task, done>>,
         \A v \in Workers : wpc'[v] = "run" <=> wpc[v] = "run"
  PROVE  EachTaskOnce'
<1>1. Taken' = Taken
  BY DEF Taken
<1>2. Running' = Running
  BY DEF Running
<1>3. QED
  BY <1>1, <1>2 DEF EachTaskOnce

\* The queue changes at its two ends only, as enqueue and take do.
LEMMA AfterPush ==
  ASSUME mTasks \in Seq(Tasks), next \in Tasks
  PROVE  /\ Pushed \in Seq(Tasks)
         /\ Len(Pushed) = Len(mTasks) + 1
         /\ \A i \in 1 .. Len(mTasks) : Pushed[i] = mTasks[i]
         /\ Pushed[Len(mTasks) + 1] = next
         /\ Pushed # <<>>
<1>1. QED
  BY AppendProperties DEF Pushed

\* What is left of the queue after a task was taken from it.
LEMMA AfterPop ==
  ASSUME mTasks \in Seq(Tasks), mTasks # <<>>
  PROVE  /\ Popped \in Seq(Tasks)
         /\ Len(mTasks) \in Nat \ {0}
         /\ Len(Popped) = Len(mTasks) - 1
         /\ \A i \in 1 .. Len(Popped) : Popped[i] = mTasks[i + 1]
         /\ Head(mTasks) = mTasks[1]
         /\ Head(mTasks) \in Tasks
<1>1. QED
  BY HeadTailProperties, EmptySeq DEF Popped

\* The initial state satisfies the invariant.
LEMMA InitIInv == Init => IInv
<1> SUFFICES ASSUME Init PROVE IInv
  OBVIOUS
<1>1. TypeOK
  <2>1. mTasks \in Seq(Tasks)
    BY EmptySeq DEF Init
  <2>2. next \in 0 .. NumTasks /\ spurious \in 0 .. MaxSpurious
    BY PoolAssumption DEF Init
  <2>3. task \in [Workers -> Tasks \cup {NoTask}]
    BY Zenon DEF Init
  <2>4. QED
    BY <2>1, <2>2, <2>3 DEF TypeOK, Init
<1>2. Phases
  BY DEF Phases, Init
<1>3. EachTaskOnce
  <2>1. Len(mTasks) = 0
    BY EmptySeq DEF Init
  <2>2. next = 0
    BY DEF Init
  <2>4. Taken = 0
    BY <2>1, <2>2 DEF Taken
  <2>3. Running = {}
    BY DEF Running, Init
  <2>5. QED
    BY <2>1, <2>4, <2>3 DEF EachTaskOnce, Init
<1>4. NoLostWakeup
  BY DEF NoLostWakeup, Waiting, Init
<1>5. QED
  BY <1>1, <1>2, <1>3, <1>4 DEF IInv

\* A running worker executes one of the submitted tasks.
LEMMA RunningIsTask ==
  ASSUME TypeOK, EachTaskOnce, NEW w \in Workers, wpc[w] = "run"
  PROVE  task[w] \in Tasks
<1>1. Len(mTasks) \in Nat /\ next \in 0 .. NumTasks /\ NumTasks \in Nat
  BY PoolAssumption, LenProperties DEF TypeOK
<1>2. Taken \in Nat /\ Taken <= NumTasks
  BY <1>1 DEF Taken, EachTaskOnce
<1>3. task[w] \in 0 .. Taken - 1
  BY DEF EachTaskOnce, Running
<1>4. QED
  BY <1>1, <1>2, <1>3 DEF Tasks

\* What enqueue, a take and the end of a task do to the queue, to the counter
\* of the tasks taken and to the set of the tasks being run.
LEMMA PushEffect ==
  ASSUME IInv, EnqueuePush
  PROVE  /\ Len(mTasks) \in Nat /\ next \in Nat
         /\ Len(mTasks') = Len(mTasks) + 1
         /\ \A i \in 1 .. Len(mTasks) : mTasks'[i] = mTasks[i]
         /\ mTasks'[Len(mTasks) + 1] = next
         /\ Taken' = Taken
         /\ Running' = Running
<1>1. next \in Tasks /\ mTasks \in Seq(Tasks)
  BY PoolAssumption DEF IInv, Phases, TypeOK, Tasks, EnqueuePush
<1>2. /\ mTasks' = Pushed
      /\ next' = next + 1
      /\ UNCHANGED <<wpc, task, done>>
  BY DEF EnqueuePush
<1>3. /\ Len(mTasks') = Len(mTasks) + 1
      /\ \A i \in 1 .. Len(mTasks) : mTasks'[i] = mTasks[i]
      /\ mTasks'[Len(mTasks) + 1] = next
  BY <1>1, <1>2, AfterPush
<1>4. Len(mTasks) \in Nat /\ next \in Nat
  BY <1>1, LenProperties, PoolAssumption DEF Tasks
<1>5. Taken' = Taken
  BY <1>2, <1>3, <1>4 DEF Taken
<1>6. Running' = Running
  BY <1>2 DEF Running
<1>7. QED
  BY <1>3, <1>4, <1>5, <1>6

\* A worker takes the first task of the queue, the next one to begin.
LEMMA TakeEffect ==
  ASSUME IInv, NEW w \in Workers, Take(w)
  PROVE  /\ Taken \in Nat /\ Taken < next
         /\ Len(mTasks') = Len(mTasks) - 1
         /\ \A i \in 1 .. Len(mTasks') :
              i + 1 \in 1 .. Len(mTasks) /\ mTasks'[i] = mTasks[i + 1]
         /\ Taken' = Taken + 1
         /\ task'[w] = Taken
         /\ Running' = Running \cup {Taken}
<1>0. TypeOK /\ EachTaskOnce
  BY DEF IInv
<1>1. mTasks \in Seq(Tasks) /\ mTasks # <<>>
  BY <1>0 DEF TypeOK, Take, MayProceed, MustExit
<1>2. /\ mTasks' = Popped
      /\ next' = next
      /\ task' = [task EXCEPT ![w] = Head(mTasks)]
      /\ wpc' = [wpc EXCEPT ![w] = "run"]
      /\ wpc[w] = "check"
  BY DEF Take
<1>3. Len(mTasks) \in Nat \ {0} /\ next \in Nat /\ Taken \in Nat
  BY <1>0, <1>1, AfterPop, PoolAssumption DEF TypeOK, EachTaskOnce
<1>4. Taken < next
  BY <1>3 DEF Taken
<1>5. /\ Len(mTasks') = Len(mTasks) - 1
      /\ \A i \in 1 .. Len(mTasks') :
           i + 1 \in 1 .. Len(mTasks) /\ mTasks'[i] = mTasks[i + 1]
  BY <1>1, <1>2, AfterPop
<1>6. Taken' = Taken + 1
  <2>1. next' = next /\ Len(mTasks') = Len(mTasks) - 1
    BY <1>2, <1>5
  <2>2. QED
    BY <1>3, <2>1 DEF Taken
<1>7. Head(mTasks) = Taken
  BY <1>0, <1>1, <1>3, AfterPop DEF EachTaskOnce
<1>8. task'[w] = Taken
  BY <1>0, <1>2, <1>7 DEF TypeOK
<1>9. Running' = Running \cup {Taken}
  BY <1>0, <1>2, <1>7 DEF Running, TypeOK
<1>10. QED
  BY <1>3, <1>4, <1>5, <1>6, <1>8, <1>9

\* A task that has run is no longer running.
LEMMA RunEffect ==
  ASSUME IInv, NEW w \in Workers, Run(w)
  PROVE  /\ Taken' = Taken
         /\ task[w] \in Running
         /\ Running' = Running \ {task[w]}
         /\ \A v \in Workers :
              /\ wpc'[v] = "run" <=> wpc[v] = "run" /\ v # w
              /\ v # w => task'[v] = task[v]
<1>0. TypeOK /\ EachTaskOnce
  BY DEF IInv
<1>1. /\ UNCHANGED <<mTasks, next>>
      /\ task' = [task EXCEPT ![w] = NoTask]
      /\ wpc' = [wpc EXCEPT ![w] = "lock"]
      /\ wpc[w] = "run"
  BY DEF Run
<1>2. Taken' = Taken
  BY <1>1 DEF Taken
<1>3. \A v \in Workers :
        /\ wpc'[v] = "run" <=> wpc[v] = "run" /\ v # w
        /\ v # w => task'[v] = task[v]
  BY <1>0, <1>1 DEF TypeOK
<1>4. Running' = Running \ {task[w]} /\ task[w] \in Running
  BY <1>0, <1>1, <1>3 DEF Running, EachTaskOnce
<1>5. QED
  BY <1>2, <1>3, <1>4

\* Every step preserves the invariant.
LEMMA StepIInv == IInv /\ [Next]_vars => IInv'
<1> SUFFICES ASSUME IInv, [Next]_vars PROVE IInv'
  OBVIOUS
<1> USE PoolAssumption
<1>0. TypeOK /\ Phases /\ EachTaskOnce /\ NoLostWakeup
  BY DEF IInv
<1>1. ASSUME NEW w \in Workers, Spawn(w) PROVE IInv'
  <2>1. TypeOK'
    BY <1>0, <1>1 DEF TypeOK, Spawn
  <2>2. Phases'
    BY <1>0, <1>1 DEF Phases, Spawn, TypeOK
  <2>3. EachTaskOnce'
    BY <1>0, <1>1, KeepsEachTaskOnce DEF Spawn, TypeOK
  <2>4. NoLostWakeup'
    BY <1>0, <1>1 DEF NoLostWakeup, Spawn, Waiting, TypeOK, Phases, EachTaskOnce, Taken
  <2>5. QED
    BY <2>1, <2>2, <2>3, <2>4 DEF IInv
<1>2. CASE EnqueueLock
  <2>1. TypeOK'
    BY <1>0, <1>2 DEF TypeOK, EnqueueLock
  <2>2. Phases'
    BY <1>0, <1>2 DEF Phases, EnqueueLock, MoreTasks, TypeOK
  <2>3. EachTaskOnce'
    BY <1>0, <1>2, KeepsEachTaskOnce DEF EnqueueLock
  <2>4. NoLostWakeup'
    BY <1>0, <1>2 DEF NoLostWakeup, EnqueueLock, Waiting
  <2>5. QED
    BY <2>1, <2>2, <2>3, <2>4 DEF IInv
<1>3. CASE EnqueuePush
  <2>1. TypeOK'
    BY <1>0, <1>3, AfterPush DEF TypeOK, EnqueuePush, Phases, Tasks
  <2>2. Phases'
    BY <1>0, <1>3 DEF Phases, EnqueuePush, TypeOK
  <2>3. EachTaskOnce'
    <3>1. \A i \in 1 .. Len(mTasks') : mTasks'[i] = Taken' + i - 1
      <4>1. SUFFICES ASSUME NEW i \in 1 .. Len(mTasks) + 1
                     PROVE  mTasks'[i] = Taken + i - 1
        BY <1>3, PushEffect
      <4>2. CASE i \in 1 .. Len(mTasks)
        BY <1>0, <1>3, <4>2, PushEffect DEF EachTaskOnce
      <4>3. CASE i = Len(mTasks) + 1
        BY <1>3, <4>3, PushEffect DEF Taken
      <4>4. QED
        BY <1>3, <4>2, <4>3, PushEffect
    <3>2. UNCHANGED <<wpc, task, done>>
      BY <1>3 DEF EnqueuePush
    <3>3. QED
      BY <1>0, <1>3, <3>1, <3>2, PushEffect DEF EachTaskOnce
  <2>4. NoLostWakeup'
    BY <1>0, <1>3, AfterPush DEF TypeOK, EnqueuePush, NoLostWakeup, Phases, Waiting
  <2>5. QED
    BY <2>1, <2>2, <2>3, <2>4 DEF IInv
<1>4. CASE NotifyOne
  <2>1. TypeOK'
    BY <1>0, <1>4 DEF TypeOK, NotifyOne, Wake, WokenByOne, WokenByAll, Waiting
  <2>2. Phases'
    BY <1>0, <1>4 DEF Phases, NotifyOne, Wake, WokenByOne, WokenByAll, Waiting, TypeOK
  <2>3. EachTaskOnce'
    BY <1>0, <1>4, KeepsEachTaskOnce DEF NotifyOne, Wake, WokenByOne, WokenByAll, Waiting, TypeOK
  <2>4. NoLostWakeup'
    BY <1>0, <1>4 DEF NoLostWakeup, NotifyOne, Waiting, TypeOK, Phases, EachTaskOnce, Taken, Wake, WokenByOne, WokenByAll, Waiting
  <2>5. QED
    BY <2>1, <2>2, <2>3, <2>4 DEF IInv
<1>5. CASE StopLock
  <2>1. TypeOK'
    BY <1>0, <1>5 DEF TypeOK, StopLock
  <2>2. Phases'
    BY <1>0, <1>5 DEF Phases, StopLock, MoreTasks, TypeOK
  <2>3. EachTaskOnce'
    BY <1>0, <1>5, KeepsEachTaskOnce DEF StopLock
  <2>4. NoLostWakeup'
    BY <1>0, <1>5 DEF NoLostWakeup, StopLock, Waiting
  <2>5. QED
    BY <2>1, <2>2, <2>3, <2>4 DEF IInv
<1>6. CASE SetStopping
  <2>1. TypeOK'
    BY <1>0, <1>6 DEF TypeOK, SetStopping
  <2>2. Phases'
    BY <1>0, <1>6 DEF Phases, SetStopping, TypeOK
  <2>3. EachTaskOnce'
    BY <1>0, <1>6, KeepsEachTaskOnce DEF SetStopping
  <2>4. NoLostWakeup'
    BY <1>0, <1>6 DEF NoLostWakeup, SetStopping, Waiting
  <2>5. QED
    BY <2>1, <2>2, <2>3, <2>4 DEF IInv
<1>7. CASE NotifyAll
  <2>1. TypeOK'
    BY <1>0, <1>7 DEF TypeOK, NotifyAll, Wake, WokenByOne, WokenByAll, Waiting
  <2>2. Phases'
    BY <1>0, <1>7 DEF Phases, NotifyAll, Wake, WokenByOne, WokenByAll, Waiting, TypeOK
  <2>3. EachTaskOnce'
    BY <1>0, <1>7, KeepsEachTaskOnce DEF NotifyAll, Wake, WokenByOne, WokenByAll, Waiting, TypeOK
  <2>4. NoLostWakeup'
    BY <1>0, <1>7 DEF NoLostWakeup, NotifyAll, Waiting, TypeOK, Phases, EachTaskOnce, Taken, Wake, WokenByOne, WokenByAll, Waiting
  <2>5. QED
    BY <2>1, <2>2, <2>3, <2>4 DEF IInv
<1>8. CASE Join
  <2>1. TypeOK'
    BY <1>0, <1>8 DEF TypeOK, Join
  <2>2. Phases'
    BY <1>0, <1>8 DEF Phases, Join
  <2>3. EachTaskOnce'
    BY <1>0, <1>8, KeepsEachTaskOnce DEF Join
  <2>4. NoLostWakeup'
    BY <1>0, <1>8 DEF NoLostWakeup, Join, Waiting
  <2>5. QED
    BY <2>1, <2>2, <2>3, <2>4 DEF IInv
<1>9. ASSUME NEW w \in Workers, Lock(w) PROVE IInv'
  <2>1. TypeOK'
    BY <1>0, <1>9 DEF TypeOK, Lock
  <2>2. Phases'
    BY <1>0, <1>9 DEF Phases, Lock, TypeOK
  <2>3. EachTaskOnce'
    BY <1>0, <1>9, KeepsEachTaskOnce DEF Lock, TypeOK
  <2>4. NoLostWakeup'
    BY <1>0, <1>9 DEF NoLostWakeup, Lock, Waiting, TypeOK
  <2>5. QED
    BY <2>1, <2>2, <2>3, <2>4 DEF IInv
<1>10. ASSUME NEW w \in Workers, Wait(w) PROVE IInv'
  <2>1. TypeOK'
    BY <1>0, <1>10 DEF TypeOK, Wait
  <2>2. Phases'
    BY <1>0, <1>10 DEF Phases, Wait, TypeOK
  <2>3. EachTaskOnce'
    BY <1>0, <1>10, KeepsEachTaskOnce DEF Wait, TypeOK
  <2>4. NoLostWakeup'
    BY <1>0, <1>10 DEF NoLostWakeup, Wait, Waiting, TypeOK, MayProceed
  <2>5. QED
    BY <2>1, <2>2, <2>3, <2>4 DEF IInv
<1>11. ASSUME NEW w \in Workers, Exit(w) PROVE IInv'
  <2>1. TypeOK'
    BY <1>0, <1>11 DEF TypeOK, Exit
  <2>2. Phases'
    BY <1>0, <1>11 DEF Phases, Exit, TypeOK, MustExit
  <2>3. EachTaskOnce'
    BY <1>0, <1>11, KeepsEachTaskOnce DEF Exit, TypeOK
  <2>4. NoLostWakeup'
    BY <1>0, <1>11 DEF NoLostWakeup, Exit, Waiting, TypeOK, MustExit
  <2>5. QED
    BY <2>1, <2>2, <2>3, <2>4 DEF IInv
<1>12. ASSUME NEW w \in Workers, Take(w) PROVE IInv'
  <2>1. TypeOK'
    BY <1>0, <1>12, AfterPop DEF TypeOK, Take, MayProceed, MustExit
  <2>2. Phases'
    BY <1>0, <1>12 DEF TypeOK, Phases, Take, MayProceed, MustExit
  <2>3. EachTaskOnce'
    <3>1. \A i \in 1 .. Len(mTasks') : mTasks'[i] = Taken' + i - 1
      <4>1. SUFFICES ASSUME NEW i \in 1 .. Len(mTasks')
                     PROVE  mTasks'[i] = Taken + i
        BY <1>12, TakeEffect
      <4>2. i + 1 \in 1 .. Len(mTasks) /\ mTasks'[i] = mTasks[i + 1]
        BY <1>12, TakeEffect
      <4>3. mTasks[i + 1] = Taken + (i + 1) - 1
        BY <1>0, <4>2 DEF EachTaskOnce
      <4>4. Taken \in Nat /\ i \in Nat
        BY <1>12, TakeEffect
      <4>5. QED
        BY <4>2, <4>3, <4>4
    <3>2. Taken \notin Running \cup done /\ Taken \in Nat
      BY <1>0, <1>12, TakeEffect DEF EachTaskOnce
    <3>3. 0 .. Taken' - 1 = (0 .. Taken - 1) \cup {Taken}
      BY <1>12, <3>2, TakeEffect
    <3>4. \A u, v \in Workers :
            wpc'[u] = "run" /\ wpc'[v] = "run" /\ task'[u] = task'[v] => u = v
      <4>1. \A v \in Workers \ {w} :
              wpc'[v] = "run" => wpc[v] = "run" /\ task'[v] = task[v] /\ task[v] \in Running
        BY <1>0, <1>12 DEF TypeOK, Running, Take
      <4>2. task'[w] = Taken
        BY <1>12, TakeEffect
      <4>3. QED
        BY <1>0, <3>2, <4>1, <4>2 DEF EachTaskOnce
    <3>5. done' = done
      BY <1>12 DEF Take
    <3>6. Running' \cup done' = 0 .. Taken' - 1
      BY <1>0, <1>12, <3>3, <3>5, TakeEffect DEF EachTaskOnce
    <3>7. Running' \cap done' = {}
      BY <1>0, <1>12, <3>2, <3>5, TakeEffect DEF EachTaskOnce
    <3>8. Taken' \in Nat
      BY <1>12, <3>2, TakeEffect
    <3>9. QED
      BY <3>1, <3>4, <3>6, <3>7, <3>8 DEF EachTaskOnce
  <2>4. NoLostWakeup'
    BY <1>0, <1>12 DEF NoLostWakeup, Take, Waiting, TypeOK
  <2>5. QED
    BY <2>1, <2>2, <2>3, <2>4 DEF IInv
<1>13. ASSUME NEW w \in Workers, Run(w) PROVE IInv'
  <2>1. TypeOK'
    BY <1>0, <1>13, RunningIsTask DEF TypeOK, Run
  <2>2. Phases'
    BY <1>0, <1>13 DEF Phases, Run, TypeOK
  <2>3. EachTaskOnce'
    <3>1. UNCHANGED mTasks /\ done' = done \cup {task[w]}
      BY <1>13 DEF Run
    <3>2. QED
      BY <1>0, <1>13, <3>1, RunEffect DEF EachTaskOnce
  <2>4. NoLostWakeup'
    BY <1>0, <1>13 DEF NoLostWakeup, Run, Waiting, TypeOK
  <2>5. QED
    BY <2>1, <2>2, <2>3, <2>4 DEF IInv
<1>14. ASSUME NEW w \in Workers, SpuriousWakeup(w) PROVE IInv'
  <2>1. TypeOK'
    BY <1>0, <1>14 DEF TypeOK, SpuriousWakeup, Wake
  <2>2. Phases'
    BY <1>0, <1>14 DEF Phases, SpuriousWakeup, TypeOK, Wake
  <2>3. EachTaskOnce'
    BY <1>0, <1>14, KeepsEachTaskOnce DEF SpuriousWakeup, TypeOK, Wake
  <2>4. NoLostWakeup'
    BY <1>0, <1>14 DEF NoLostWakeup, SpuriousWakeup, Waiting, TypeOK, Wake
  <2>5. QED
    BY <2>1, <2>2, <2>3, <2>4 DEF IInv
<1>15. CASE UNCHANGED vars
  <2>1. Taken' = Taken /\ Running' = Running /\ Waiting' = Waiting
    BY <1>15 DEF vars, Taken, Running, Waiting
  <2>2. QED
    BY <1>0, <1>15, <2>1 DEF IInv, vars, TypeOK, Phases, EachTaskOnce, NoLostWakeup
<1>16. QED
  BY <1>1, <1>2, <1>3, <1>4, <1>5, <1>6, <1>7, <1>8, <1>9, <1>10, <1>11, <1>12, <1>13, <1>14, <1>15
     DEF Next, MainStep, WorkerStep, Terminated

\* TypeOK, by itself not inductive: the queue holds tasks only because enqueue
\* runs while the loop of main counts, and a worker that runs has a task.
THEOREM TypeCorrect == Spec => []TypeOK
<1>1. IInv => TypeOK
  BY DEF IInv
<1>2. QED
  BY <1>1, InitIInv, StepIInv, PTL DEF Spec

\* Every submitted task is taken once, in order, and run by one worker.
THEOREM TasksRunOnce == Spec => []EachTaskOnce
<1>1. IInv => EachTaskOnce
  BY DEF IInv
<1>2. QED
  BY <1>1, InitIInv, StepIInv, PTL DEF Spec

\* No worker sleeps through queued work or through the end of the pool.
THEOREM WakeupsReachWorkers == Spec => []NoLostWakeup
<1>1. IInv => NoLostWakeup
  BY DEF IInv
<1>2. QED
  BY <1>1, InitIInv, StepIInv, PTL DEF Spec

\* The destructor returns only when every task has run: the last worker to
\* exit saw the queue empty, and no worker is running any more.
THEOREM DestructorDrains == Spec => []JoinedMeansDrained
<1>1. IInv => JoinedMeansDrained
  <2> SUFFICES ASSUME IInv, mpc = "done" PROVE done = Tasks
    BY DEF JoinedMeansDrained
  <2>0. TypeOK /\ Phases /\ EachTaskOnce
    BY DEF IInv
  <2>1. PICK w \in Workers : TRUE
    BY PoolAssumption
  <2>2. mTasks = <<>> /\ next = NumTasks
    BY <2>0, <2>1 DEF Phases
  <2>3. Len(mTasks) = 0
    BY <2>2, EmptySeq
  <2>4. Taken = NumTasks
    BY <2>2, <2>3, PoolAssumption DEF Taken
  <2>5. Running = {}
    BY <2>0 DEF Running, Phases
  <2>6. QED
    BY <2>0, <2>4, <2>5 DEF EachTaskOnce, Tasks
<1>2. QED
  BY <1>1, InitIInv, StepIInv, PTL DEF Spec

-----------------------------------------------------------------------------
\* When main has joined the workers, no task is running and all have finished.
LEMMA AllJoined ==
  ASSUME IInv, Join
  PROVE  Running = {} /\ done = 0 .. next - 1
<1>0. TypeOK /\ Phases /\ EachTaskOnce
  BY DEF IInv
<1>1. PICK w \in Workers : TRUE
  BY PoolAssumption
<1>2. mTasks = <<>> /\ next \in Nat
  BY <1>0, <1>1, PoolAssumption DEF Join, Phases, TypeOK
<1>3. Len(mTasks) = 0
  BY <1>2, EmptySeq
<1>4. Taken = next
  BY <1>2, <1>3 DEF Taken
<1>5. Running = {}
  BY <1>0 DEF Running, Join
<1>6. QED
  BY <1>0, <1>4, <1>5 DEF EachTaskOnce

\* The pool implements the queue of numbered tasks: a push submits, a take
\* begins and a return finishes a task, the last join closes, and every other
\* step changes nothing the user of the pool can see.
THEOREM Implementation == Spec => ImplementsTaskPool
<1>1. Init => Abstract!Init
  <2> SUFFICES ASSUME Init PROVE Abstract!Init
    OBVIOUS
  <2>1. Len(mTasks) = 0
    BY EmptySeq DEF Init
  <2>2. next = 0
    BY DEF Init
  <2>3. Taken = 0
    BY <2>1, <2>2 DEF Taken
  <2>4. Running = {}
    BY DEF Running, Init
  <2>5. QED
    BY <2>2, <2>3, <2>4 DEF Abstract!Init, Init
<1>2. IInv /\ [Next]_vars => [Abstract!Next]_(Abstract!vars)
  <2> SUFFICES ASSUME IInv, [Next]_vars PROVE [Abstract!Next]_(Abstract!vars)
    OBVIOUS
  <2> DEFINE Stutters ==
        /\ UNCHANGED <<mTasks, next, task, done>>
        /\ \A v \in Workers : wpc'[v] = "run" <=> wpc[v] = "run"
        /\ mpc' = "done" <=> mpc = "done"
  <2>0. TypeOK
    BY DEF IInv
  <2>1. ASSUME Stutters PROVE UNCHANGED Abstract!vars
    <3>1. Taken' = Taken
      BY <2>1 DEF Taken
    <3>2. Running' = Running
      BY <2>1 DEF Running
    <3>3. QED
      BY <2>1, <3>1, <3>2 DEF Abstract!vars
  <2>2. ASSUME NEW w \in Workers, Spawn(w) PROVE Stutters
    BY <2>0, <2>2 DEF Spawn, TypeOK
  <2>3. ASSUME EnqueueLock \/ StopLock \/ SetStopping PROVE Stutters
    BY <2>3 DEF EnqueueLock, StopLock, SetStopping
  <2>4. ASSUME NotifyOne \/ NotifyAll PROVE Stutters
    BY <2>0, <2>4 DEF NotifyOne, NotifyAll, Wake, WokenByOne, WokenByAll, Waiting, TypeOK
  <2>5. ASSUME NEW w \in Workers, Lock(w) \/ Wait(w) \/ Exit(w) \/ SpuriousWakeup(w)
        PROVE  Stutters
    BY <2>0, <2>5 DEF Lock, Wait, Exit, SpuriousWakeup, Wake, TypeOK
  <2>6. ASSUME EnqueuePush PROVE Abstract!Submit
    BY <2>6, PushEffect DEF EnqueuePush, Abstract!Submit
  <2>7. ASSUME NEW w \in Workers, Take(w) PROVE Abstract!Begin
    BY <2>7, TakeEffect DEF Take, Abstract!Begin
  <2>8. ASSUME NEW w \in Workers, Run(w) PROVE \E t \in Running : Abstract!Finish(t)
    BY <2>8, RunEffect DEF Run, Abstract!Finish
  <2>9. ASSUME Join PROVE Abstract!Close
    <3>1. UNCHANGED <<mTasks, next, wpc, task, done>>
      BY <2>9 DEF Join
    <3>2. Taken' = Taken /\ Running' = Running
      BY <3>1 DEF Taken, Running
    <3>3. QED
      BY <2>9, <3>1, <3>2, AllJoined DEF Join, Abstract!Close
  <2>10. ASSUME UNCHANGED vars PROVE Stutters
    BY <2>10 DEF vars
  <2>11. QED
    BY <2>1, <2>2, <2>3, <2>4, <2>5, <2>6, <2>7, <2>8, <2>9, <2>10
       DEF Next, MainStep, WorkerStep, Terminated, Abstract!Next
<1>3. QED
  BY <1>1, <1>2, InitIInv, StepIInv, PTL DEF Spec, ImplementsTaskPool, Abstract!Spec

\* A thread is inside a section exactly when it owns the mutex, so two threads
\* never are. The sections of enqueue(), stop() and the worker are one step
\* each in ThreadPool, and this is what justifies it.
THEOREM MutualExclusion == Spec => []MutexOwned
<1>1. Init => MutexOwned
  BY PoolAssumption DEF Init, MutexOwned, Actors, InSection
<1>2. TypeOK /\ MutexOwned /\ [Next]_vars => MutexOwned'
  <2> SUFFICES ASSUME TypeOK, MutexOwned, [Next]_vars PROVE MutexOwned'
    OBVIOUS
  <2> USE PoolAssumption DEF TypeOK, MutexOwned, Actors, InSection
  <2>1. ASSUME NEW w \in Workers, Spawn(w) PROVE MutexOwned'
    BY <2>1 DEF Spawn
  <2>2. CASE EnqueueLock \/ StopLock
    BY <2>2 DEF EnqueueLock, StopLock
  <2>3. CASE EnqueuePush \/ SetStopping
    BY <2>3 DEF EnqueuePush, SetStopping
  <2>4. CASE NotifyOne \/ NotifyAll
    BY <2>4 DEF NotifyOne, NotifyAll, Wake, WokenByOne, WokenByAll, Waiting
  <2>5. CASE Join
    BY <2>5 DEF Join
  <2>6. ASSUME NEW w \in Workers, Lock(w) PROVE MutexOwned'
    BY <2>6 DEF Lock
  <2>7. ASSUME NEW w \in Workers, Wait(w) \/ Exit(w) \/ Take(w) PROVE MutexOwned'
    BY <2>7 DEF Wait, Exit, Take
  <2>8. ASSUME NEW w \in Workers, Run(w) PROVE MutexOwned'
    BY <2>8 DEF Run
  <2>9. ASSUME NEW w \in Workers, SpuriousWakeup(w) PROVE MutexOwned'
    BY <2>9 DEF SpuriousWakeup, Wake
  <2>10. CASE UNCHANGED vars
    BY <2>10 DEF vars
  <2>11. QED
    BY <2>1, <2>2, <2>3, <2>4, <2>5, <2>6, <2>7, <2>8, <2>9, <2>10
       DEF Next, MainStep, WorkerStep, Terminated
<1>3. QED
  BY <1>1, <1>2, TypeCorrect, PTL DEF Spec

=============================================================================
