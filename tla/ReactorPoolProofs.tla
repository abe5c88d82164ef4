-------------------------- MODULE ReactorPoolProofs --------------------------
(***************************************************************************)
(* Proofs about ReactorPool for any finite number of workers and any       *)
(* number of jobs, events in a batch and spurious wake-ups.                *)
(***************************************************************************)
EXTENDS ReactorPool, SequenceTheorems, FiniteSetTheorems, TLAPS

\* How many jobs workers have taken from the queue.
Begun == next - Len(jobs_)

\* The queue holds exactly the jobs nobody has taken, in order, and each job that
\* was taken is run by one worker or has returned.
EachJobOnce ==
    /\ Begun \in Nat
    /\ \A i \in 1 .. Len(jobs_) : jobs_[i] = Begun + i - 1
    /\ Running \cup ran = 0 .. Begun - 1
    /\ Running \cap ran = {}
    /\ \A v, w \in Workers : wpc[v] = "run" /\ wpc[w] = "run" /\ job[v] = job[w] => v = w

\* Who is between a lock and an unlock owns the mutex. The worker that is about
\* to block has seen the queue empty, and nobody else could push to it since.
MutexOwned ==
    /\ \A w \in Workers : wpc[w] \in {"check", "block"} <=> mutex_ = w
    /\ lpc = "push" <=> mutex_ = Loop
    /\ \A w \in Workers : wpc[w] = "block" => jobs_ = <<>>

\* The loop thread pushes only what epoll_wait has reported, and is not born
\* before main has started the reactor.
Batches ==
    /\ next + batch <= MaxJobs
    /\ lpc = "push" => batch > 0
    /\ mpc = "start" => lpc = "unborn"

IInv == TypeOK /\ MutexOwned /\ Batches /\ EachJobOnce /\ JobsReachWorkers

-----------------------------------------------------------------------------
\* EachJobOnce reads the queue, the counter and the jobs being run, so a step
\* that touches none of them keeps it.
LEMMA KeepsEachJobOnce ==
  ASSUME EachJobOnce,
         UNCHANGED <<jobs_, next, job, ran>>,
         \A v \in Workers : wpc'[v] = "run" <=> wpc[v] = "run"
  PROVE  EachJobOnce'
<1>1. Begun' = Begun
  BY DEF Begun
<1>2. Running' = Running
  BY DEF Running
<1>3. QED
  BY <1>1, <1>2 DEF EachJobOnce

\* The workers on their way to the queue are finitely many.
LEMMA ComingFinite == /\ IsFiniteSet(Coming) /\ Cardinality(Coming) \in Nat
                      /\ IsFiniteSet(Coming') /\ Cardinality(Coming') \in Nat
<1>1. Coming \subseteq Workers /\ Coming' \subseteq Workers
  BY DEF Coming
<1>2. QED
  BY <1>1, ReactorAssumption, FS_Subset, FS_CardinalityType

\* A step that leaves the queue alone, sends nobody to sleep and takes no worker
\* off its way to the queue keeps JobsReachWorkers.
LEMMA KeepsJobsReachWorkers ==
  ASSUME JobsReachWorkers,
         UNCHANGED jobs_,
         Len(jobs_) \in Nat,
         lpc' = "notify" <=> lpc = "notify",
         Coming \subseteq Coming',
         Waiting' # {} => Waiting # {}
  PROVE  JobsReachWorkers'
<1>1. Cardinality(Coming) <= Cardinality(Coming')
  BY ComingFinite, FS_Subset
<1>2. QED
  BY <1>1, ComingFinite DEF JobsReachWorkers

\* Over an empty queue JobsReachWorkers holds.
LEMMA EmptyReachesWorkers ==
  ASSUME jobs_' = <<>>
  PROVE  JobsReachWorkers'
<1>1. Len(jobs_') = 0
  BY EmptySeq
<1>2. QED
  BY <1>1, ComingFinite DEF JobsReachWorkers

\* The queue changes at its two ends only, as enqueue and start do.
LEMMA AfterPush ==
  ASSUME jobs_ \in Seq(Jobs), next \in Jobs
  PROVE  /\ Pushed \in Seq(Jobs)
         /\ Len(jobs_) \in Nat
         /\ Len(Pushed) = Len(jobs_) + 1
         /\ \A i \in 1 .. Len(jobs_) : Pushed[i] = jobs_[i]
         /\ Pushed[Len(jobs_) + 1] = next
<1>1. QED
  BY AppendProperties, LenProperties DEF Pushed

\* What is left of the queue after a job was taken from it.
LEMMA AfterPop ==
  ASSUME jobs_ \in Seq(Jobs), jobs_ # <<>>
  PROVE  /\ Popped \in Seq(Jobs)
         /\ Len(jobs_) \in Nat \ {0}
         /\ Len(Popped) = Len(jobs_) - 1
         /\ \A i \in 1 .. Len(Popped) : Popped[i] = jobs_[i + 1]
         /\ Head(jobs_) = jobs_[1]
         /\ Head(jobs_) \in Jobs
<1>1. QED
  BY HeadTailProperties, EmptySeq DEF Popped

\* The initial state satisfies the invariant.
LEMMA InitIInv == Init => IInv
<1> SUFFICES ASSUME Init PROVE IInv
  OBVIOUS
<1>0. Len(jobs_) = 0 /\ jobs_ = <<>> /\ next = 0 /\ batch = 0
  BY EmptySeq DEF Init
<1>1. TypeOK
  <2>1. jobs_ \in Seq(Jobs)
    BY <1>0, EmptySeq
  <2>2. next \in 0 .. MaxJobs /\ spurious \in 0 .. MaxSpurious /\ batch \in 0 .. MaxBatch
    BY ReactorAssumption DEF Init
  <2>3. job \in [Workers -> Jobs \cup {NoJob}]
    BY Zenon DEF Init
  <2>4. QED
    BY <2>1, <2>2, <2>3 DEF TypeOK, Init
<1>2. MutexOwned
  BY ReactorAssumption DEF MutexOwned, Init
<1>3. Batches
  BY <1>0, ReactorAssumption DEF Batches, Init
<1>4. EachJobOnce
  <2>1. Begun = 0
    BY <1>0 DEF Begun
  <2>2. Running = {}
    BY DEF Running, Init
  <2>3. QED
    BY <1>0, <2>1, <2>2 DEF EachJobOnce, Init
<1>5. JobsReachWorkers
  BY DEF JobsReachWorkers, Waiting, Init
<1>6. QED
  BY <1>1, <1>2, <1>3, <1>4, <1>5 DEF IInv

\* A running worker executes one of the jobs.
LEMMA RunningIsJob ==
  ASSUME TypeOK, EachJobOnce, NEW w \in Workers, wpc[w] = "run"
  PROVE  job[w] \in Jobs
<1>1. Len(jobs_) \in Nat /\ next \in 0 .. MaxJobs /\ MaxJobs \in Nat
  BY ReactorAssumption, LenProperties DEF TypeOK
<1>2. Begun \in Nat /\ Begun <= MaxJobs
  BY <1>1 DEF Begun, EachJobOnce
<1>3. job[w] \in 0 .. Begun - 1
  BY DEF EachJobOnce, Running
<1>4. QED
  BY <1>1, <1>2, <1>3 DEF Jobs

\* What a push, a take and the end of a job do to the queue, to the counter of the
\* jobs taken and to the set of the jobs being run.
LEMMA PushEffect ==
  ASSUME IInv, EnqueuePush
  PROVE  /\ next \in Jobs /\ jobs_' \in Seq(Jobs)
         /\ Len(jobs_) \in Nat
         /\ Len(jobs_') = Len(jobs_) + 1
         /\ \A i \in 1 .. Len(jobs_) : jobs_'[i] = jobs_[i]
         /\ jobs_'[Len(jobs_) + 1] = next
         /\ Begun' = Begun
         /\ Running' = Running
<1>1. next \in Jobs /\ jobs_ \in Seq(Jobs)
  BY ReactorAssumption DEF IInv, Batches, TypeOK, Jobs, EnqueuePush
<1>2. /\ jobs_' = Pushed
      /\ next' = next + 1
      /\ UNCHANGED <<wpc, job, ran>>
  BY DEF EnqueuePush
<1>3. /\ jobs_' \in Seq(Jobs) /\ Len(jobs_) \in Nat
      /\ Len(jobs_') = Len(jobs_) + 1
      /\ \A i \in 1 .. Len(jobs_) : jobs_'[i] = jobs_[i]
      /\ jobs_'[Len(jobs_) + 1] = next
  BY <1>1, <1>2, AfterPush
<1>4. next \in Nat
  BY <1>1, ReactorAssumption DEF Jobs
<1>5. Begun' = Begun
  BY <1>2, <1>3, <1>4 DEF Begun
<1>6. Running' = Running
  BY <1>2 DEF Running
<1>7. QED
  BY <1>1, <1>3, <1>5, <1>6

\* A worker takes the first job of the queue, the next one to begin.
LEMMA TakeEffect ==
  ASSUME IInv, NEW w \in Workers, Take(w)
  PROVE  /\ Begun \in Nat /\ Begun < next
         /\ jobs_' \in Seq(Jobs) /\ Len(jobs_) \in Nat \ {0}
         /\ Len(jobs_') = Len(jobs_) - 1
         /\ \A i \in 1 .. Len(jobs_') :
              i + 1 \in 1 .. Len(jobs_) /\ jobs_'[i] = jobs_[i + 1]
         /\ Begun' = Begun + 1
         /\ job'[w] = Begun /\ Head(jobs_) \in Jobs
         /\ Running' = Running \cup {Begun}
<1>0. TypeOK /\ EachJobOnce
  BY DEF IInv
<1>1. jobs_ \in Seq(Jobs) /\ jobs_ # <<>>
  BY <1>0 DEF TypeOK, Take
<1>2. /\ jobs_' = Popped
      /\ next' = next
      /\ job' = [job EXCEPT ![w] = Head(jobs_)]
      /\ wpc' = [wpc EXCEPT ![w] = "run"]
      /\ wpc[w] = "check"
  BY DEF Take
<1>3. Len(jobs_) \in Nat \ {0} /\ next \in Nat /\ Begun \in Nat
  BY <1>0, <1>1, AfterPop, ReactorAssumption DEF TypeOK, EachJobOnce
<1>4. Begun < next
  BY <1>3 DEF Begun
<1>5. /\ jobs_' \in Seq(Jobs)
      /\ Len(jobs_') = Len(jobs_) - 1
      /\ \A i \in 1 .. Len(jobs_') :
           i + 1 \in 1 .. Len(jobs_) /\ jobs_'[i] = jobs_[i + 1]
  BY <1>1, <1>2, AfterPop
<1>6. Begun' = Begun + 1
  BY <1>2, <1>3, <1>5 DEF Begun
<1>7. Head(jobs_) = Begun /\ Head(jobs_) \in Jobs
  BY <1>0, <1>1, <1>3, AfterPop DEF EachJobOnce
<1>8. job'[w] = Begun
  BY <1>0, <1>2, <1>7 DEF TypeOK
<1>9. Running' = Running \cup {Begun}
  BY <1>0, <1>2, <1>7 DEF Running, TypeOK
<1>10. QED
  BY <1>3, <1>4, <1>5, <1>6, <1>7, <1>8, <1>9

\* A job that has run is no longer running.
LEMMA RunEffect ==
  ASSUME IInv, NEW w \in Workers, Run(w)
  PROVE  /\ Begun' = Begun
         /\ job[w] \in Running
         /\ Running' = Running \ {job[w]}
         /\ \A v \in Workers :
              /\ wpc'[v] = "run" <=> wpc[v] = "run" /\ v # w
              /\ v # w => job'[v] = job[v]
<1>0. TypeOK /\ EachJobOnce
  BY DEF IInv
<1>1. /\ UNCHANGED <<jobs_, next>>
      /\ job' = [job EXCEPT ![w] = NoJob]
      /\ wpc' = [wpc EXCEPT ![w] = "test"]
      /\ wpc[w] = "run"
  BY DEF Run
<1>2. Begun' = Begun
  BY <1>1 DEF Begun
<1>3. \A v \in Workers :
        /\ wpc'[v] = "run" <=> wpc[v] = "run" /\ v # w
        /\ v # w => job'[v] = job[v]
  BY <1>0, <1>1 DEF TypeOK
<1>4. Running' = Running \ {job[w]} /\ job[w] \in Running
  BY <1>0, <1>1, <1>3 DEF Running, EachJobOnce
<1>5. QED
  BY <1>2, <1>3, <1>4

-----------------------------------------------------------------------------
\* Every step preserves the invariant.
LEMMA StepIInv == IInv /\ [Next]_vars => IInv'
<1> SUFFICES ASSUME IInv, [Next]_vars PROVE IInv'
  OBVIOUS
<1> USE ReactorAssumption
<1>0. /\ TypeOK /\ MutexOwned /\ Batches /\ EachJobOnce /\ JobsReachWorkers
      /\ Len(jobs_) \in Nat
  BY LenProperties DEF IInv, TypeOK
<1>1. CASE Start
  <2>1. TypeOK'
    BY <1>0, <1>1 DEF TypeOK, Start, pool
  <2>2. MutexOwned'
    BY <1>0, <1>1 DEF MutexOwned, Batches, TypeOK, Start, pool
  <2>3. Batches'
    BY <1>0, <1>1 DEF Batches, TypeOK, Start, pool
  <2>4. EachJobOnce'
    BY <1>0, <1>1, KeepsEachJobOnce DEF TypeOK, Start, pool
  <2>5. JobsReachWorkers'
    BY <1>0, <1>1, KeepsJobsReachWorkers DEF Batches, Coming, Waiting, Start, pool
  <2>6. QED
    BY <2>1, <2>2, <2>3, <2>4, <2>5 DEF IInv
<1>2. CASE Signal
  <2>1. TypeOK'
    BY <1>0, <1>2 DEF TypeOK, Signal, pool
  <2>2. MutexOwned'
    BY <1>0, <1>2 DEF MutexOwned, TypeOK, Signal, pool
  <2>3. Batches'
    BY <1>0, <1>2 DEF Batches, TypeOK, Signal, pool
  <2>4. EachJobOnce'
    BY <1>0, <1>2, KeepsEachJobOnce DEF TypeOK, Signal, pool
  <2>5. JobsReachWorkers'
    BY <1>0, <1>2, KeepsJobsReachWorkers DEF TypeOK, Coming, Waiting, Signal, pool
  <2>6. QED
    BY <2>1, <2>2, <2>3, <2>4, <2>5 DEF IInv
<1>3. CASE WakeMain
  <2>1. TypeOK'
    BY <1>0, <1>3 DEF TypeOK, WakeMain, pool
  <2>2. MutexOwned'
    BY <1>0, <1>3 DEF MutexOwned, TypeOK, WakeMain, pool
  <2>3. Batches'
    BY <1>0, <1>3 DEF Batches, TypeOK, WakeMain, pool
  <2>4. EachJobOnce'
    BY <1>0, <1>3, KeepsEachJobOnce DEF TypeOK, WakeMain, pool
  <2>5. JobsReachWorkers'
    BY <1>0, <1>3, KeepsJobsReachWorkers DEF TypeOK, Coming, Waiting, WakeMain, pool
  <2>6. QED
    BY <2>1, <2>2, <2>3, <2>4, <2>5 DEF IInv
<1>4. CASE StopReactor
  <2>1. TypeOK'
    BY <1>0, <1>4 DEF TypeOK, StopReactor, pool
  <2>2. MutexOwned'
    BY <1>0, <1>4 DEF MutexOwned, TypeOK, StopReactor, pool
  <2>3. Batches'
    BY <1>0, <1>4 DEF Batches, TypeOK, StopReactor, pool
  <2>4. EachJobOnce'
    BY <1>0, <1>4, KeepsEachJobOnce DEF TypeOK, StopReactor, pool
  <2>5. JobsReachWorkers'
    BY <1>0, <1>4, KeepsJobsReachWorkers DEF TypeOK, Coming, Waiting, StopReactor, pool
  <2>6. QED
    BY <2>1, <2>2, <2>3, <2>4, <2>5 DEF IInv
<1>5. CASE JoinLoop
  <2>1. TypeOK'
    BY <1>0, <1>5 DEF TypeOK, JoinLoop, pool
  <2>2. MutexOwned'
    BY <1>0, <1>5 DEF MutexOwned, TypeOK, JoinLoop, pool
  <2>3. Batches'
    BY <1>0, <1>5 DEF Batches, TypeOK, JoinLoop, pool
  <2>4. EachJobOnce'
    BY <1>0, <1>5, KeepsEachJobOnce DEF TypeOK, JoinLoop, pool
  <2>5. JobsReachWorkers'
    BY <1>0, <1>5, KeepsJobsReachWorkers DEF TypeOK, Coming, Waiting, JoinLoop, pool
  <2>6. QED
    BY <2>1, <2>2, <2>3, <2>4, <2>5 DEF IInv
<1>6. CASE NotifyAll
  <2>1. TypeOK'
    BY <1>0, <1>6 DEF TypeOK, NotifyAll, Wake, WokenByOne, WokenByAll, Waiting
  <2>2. MutexOwned'
    BY <1>0, <1>6 DEF MutexOwned, TypeOK, NotifyAll, Wake, WokenByOne, WokenByAll, Waiting
  <2>3. Batches'
    BY <1>0, <1>6 DEF Batches, TypeOK, NotifyAll, Wake, WokenByOne, WokenByAll, Waiting
  <2>4. EachJobOnce'
    BY <1>0, <1>6, KeepsEachJobOnce DEF TypeOK, NotifyAll, Wake, WokenByOne, WokenByAll, Waiting
  <2>5. JobsReachWorkers'
    BY <1>0, <1>6 DEF JobsReachWorkers, TypeOK, NotifyAll, Wake, WokenByOne, WokenByAll, Waiting
  <2>6. QED
    BY <2>1, <2>2, <2>3, <2>4, <2>5 DEF IInv
<1>7. CASE JoinPool
  <2>1. TypeOK'
    BY <1>0, <1>7 DEF TypeOK, JoinPool, pool
  <2>2. MutexOwned'
    BY <1>0, <1>7 DEF MutexOwned, TypeOK, JoinPool, pool
  <2>3. Batches'
    BY <1>0, <1>7 DEF Batches, TypeOK, JoinPool, pool
  <2>4. EachJobOnce'
    BY <1>0, <1>7, KeepsEachJobOnce DEF TypeOK, JoinPool, pool
  <2>5. JobsReachWorkers'
    BY <1>0, <1>7, KeepsJobsReachWorkers DEF TypeOK, Coming, Waiting, JoinPool, pool
  <2>6. QED
    BY <2>1, <2>2, <2>3, <2>4, <2>5 DEF IInv
<1>8. CASE Poll
  <2>1. TypeOK'
    BY <1>0, <1>8 DEF TypeOK, Poll, pool
  <2>2. MutexOwned'
    BY <1>0, <1>8 DEF MutexOwned, TypeOK, Poll, pool
  <2>3. Batches'
    BY <1>0, <1>8 DEF Batches, TypeOK, Poll, pool
  <2>4. EachJobOnce'
    BY <1>0, <1>8, KeepsEachJobOnce DEF TypeOK, Poll, pool
  <2>5. JobsReachWorkers'
    BY <1>0, <1>8, KeepsJobsReachWorkers DEF TypeOK, Coming, Waiting, Poll, pool
  <2>6. QED
    BY <2>1, <2>2, <2>3, <2>4, <2>5 DEF IInv
<1>9. CASE LeaveLoop
  <2>1. TypeOK'
    BY <1>0, <1>9 DEF TypeOK, LeaveLoop, pool
  <2>2. MutexOwned'
    BY <1>0, <1>9 DEF MutexOwned, TypeOK, LeaveLoop, pool
  <2>3. Batches'
    BY <1>0, <1>9 DEF Batches, TypeOK, LeaveLoop, pool
  <2>4. EachJobOnce'
    BY <1>0, <1>9, KeepsEachJobOnce DEF TypeOK, LeaveLoop, pool
  <2>5. JobsReachWorkers'
    BY <1>0, <1>9, KeepsJobsReachWorkers DEF TypeOK, Coming, Waiting, LeaveLoop, pool
  <2>6. QED
    BY <2>1, <2>2, <2>3, <2>4, <2>5 DEF IInv
<1>10. CASE EnqueueLock
  <2>1. TypeOK'
    BY <1>0, <1>10 DEF TypeOK, EnqueueLock
  <2>2. MutexOwned'
    BY <1>0, <1>10 DEF MutexOwned, TypeOK, EnqueueLock
  <2>3. Batches'
    BY <1>0, <1>10 DEF Batches, TypeOK, EnqueueLock
  <2>4. EachJobOnce'
    BY <1>0, <1>10, KeepsEachJobOnce DEF TypeOK, EnqueueLock
  <2>5. JobsReachWorkers'
    BY <1>0, <1>10, KeepsJobsReachWorkers DEF TypeOK, Coming, Waiting, EnqueueLock
  <2>6. QED
    BY <2>1, <2>2, <2>3, <2>4, <2>5 DEF IInv
<1>11. CASE EnqueuePush
  <2>1. TypeOK'
    BY <1>0, <1>11, PushEffect DEF TypeOK, EnqueuePush, Remaining, Batches, Jobs, IInv
  <2>2. MutexOwned'
    BY <1>0, <1>11 DEF MutexOwned, TypeOK, EnqueuePush
  <2>3. Batches'
    BY <1>0, <1>11 DEF Batches, TypeOK, EnqueuePush, Remaining
  <2>4. EachJobOnce'
    <3>1. \A i \in 1 .. Len(jobs_') : jobs_'[i] = Begun' + i - 1
      <4>1. SUFFICES ASSUME NEW i \in 1 .. Len(jobs_) + 1
                     PROVE  jobs_'[i] = Begun + i - 1
        BY <1>11, PushEffect
      <4>2. CASE i \in 1 .. Len(jobs_)
        BY <1>0, <1>11, <4>2, PushEffect DEF EachJobOnce
      <4>3. CASE i = Len(jobs_) + 1
        BY <1>0, <1>11, <4>3, PushEffect DEF Begun, Jobs
      <4>4. QED
        BY <1>11, <4>2, <4>3, PushEffect
    <3>2. UNCHANGED <<wpc, job, ran>>
      BY <1>11 DEF EnqueuePush
    <3>3. QED
      BY <1>0, <1>11, <3>1, <3>2, PushEffect DEF EachJobOnce
  <2>5. JobsReachWorkers'
    <3>1. lpc # "notify" /\ lpc' = "notify" /\ Len(jobs_') = Len(jobs_) + 1
      BY <1>11, PushEffect DEF EnqueuePush
    <3>2. Coming' = Coming /\ Waiting' = Waiting
      BY <1>11 DEF EnqueuePush, Coming, Waiting
    <3>3. QED
      BY <1>0, <3>1, <3>2, ComingFinite DEF JobsReachWorkers
  <2>6. QED
    BY <2>1, <2>2, <2>3, <2>4, <2>5 DEF IInv
<1>12. CASE NotifyOne
  <2>1. TypeOK'
    BY <1>0, <1>12 DEF TypeOK, NotifyOne, Wake, WokenByOne, WokenByAll, Waiting
  <2>2. MutexOwned'
    BY <1>0, <1>12 DEF MutexOwned, TypeOK, NotifyOne, Wake, WokenByOne, WokenByAll, Waiting
  <2>3. Batches'
    BY <1>0, <1>12 DEF Batches, TypeOK, NotifyOne, Wake, WokenByOne, WokenByAll, Waiting
  <2>4. EachJobOnce'
    BY <1>0, <1>12, KeepsEachJobOnce DEF TypeOK, NotifyOne, Wake, WokenByOne, WokenByAll, Waiting
  <2>5. JobsReachWorkers'
    <3>1. jobs_' = jobs_ /\ lpc = "notify" /\ lpc' = "loop"
      BY <1>12 DEF NotifyOne
    <3>2. CASE Waiting = {}
      <4>1. Waiting' = {}
        BY <1>0, <1>12, <3>2 DEF NotifyOne, Wake, WokenByOne, WokenByAll, Waiting, TypeOK
      <4>2. QED
        BY <4>1 DEF JobsReachWorkers
    <3>3. CASE Waiting # {}
      <4>1. PICK v \in Waiting : Wake({v})
        BY <1>12, <3>3 DEF NotifyOne, WokenByOne
      <4>2. v \notin Coming /\ Coming' = Coming \cup {v}
        BY <1>0, <4>1 DEF Wake, Waiting, Coming, TypeOK
      <4>3. Cardinality(Coming') = Cardinality(Coming) + 1
        BY <4>2, ComingFinite, FS_AddElement
      <4>4. QED
        BY <1>0, <3>1, <3>3, <4>3, ComingFinite DEF JobsReachWorkers
    <3>4. QED
      BY <3>2, <3>3
  <2>6. QED
    BY <2>1, <2>2, <2>3, <2>4, <2>5 DEF IInv
<1>13. ASSUME NEW w \in Workers, Test(w) PROVE IInv'
  <2>1. TypeOK'
    BY <1>0, <1>13 DEF TypeOK, Test
  <2>2. MutexOwned'
    BY <1>0, <1>13 DEF MutexOwned, TypeOK, Test
  <2>3. Batches'
    BY <1>0, <1>13 DEF Batches, TypeOK, Test
  <2>4. EachJobOnce'
    BY <1>0, <1>13, KeepsEachJobOnce DEF TypeOK, Test
  <2>5. JobsReachWorkers'
    BY <1>0, <1>13, KeepsJobsReachWorkers DEF TypeOK, Coming, Waiting, Test
  <2>6. QED
    BY <2>1, <2>2, <2>3, <2>4, <2>5 DEF IInv
<1>14. ASSUME NEW w \in Workers, Lock(w) PROVE IInv'
  <2>1. TypeOK'
    BY <1>0, <1>14 DEF TypeOK, Lock
  <2>2. MutexOwned'
    BY <1>0, <1>14 DEF MutexOwned, TypeOK, Lock
  <2>3. Batches'
    BY <1>0, <1>14 DEF Batches, TypeOK, Lock
  <2>4. EachJobOnce'
    BY <1>0, <1>14, KeepsEachJobOnce DEF TypeOK, Lock
  <2>5. JobsReachWorkers'
    BY <1>0, <1>14, KeepsJobsReachWorkers DEF TypeOK, Coming, Waiting, Lock
  <2>6. QED
    BY <2>1, <2>2, <2>3, <2>4, <2>5 DEF IInv
<1>15. ASSUME NEW w \in Workers, Check(w) PROVE IInv'
  <2>1. TypeOK'
    BY <1>0, <1>15 DEF TypeOK, Check
  <2>2. MutexOwned'
    BY <1>0, <1>15 DEF MutexOwned, TypeOK, MayProceed, Check
  <2>3. Batches'
    BY <1>0, <1>15 DEF Batches, TypeOK, Check
  <2>4. EachJobOnce'
    BY <1>0, <1>15, KeepsEachJobOnce DEF TypeOK, Check
  <2>5. JobsReachWorkers'
    BY <1>0, <1>15, EmptyReachesWorkers DEF MayProceed, Check
  <2>6. QED
    BY <2>1, <2>2, <2>3, <2>4, <2>5 DEF IInv
<1>16. ASSUME NEW w \in Workers, Block(w) PROVE IInv'
  <2>1. TypeOK'
    BY <1>0, <1>16 DEF TypeOK, Block
  <2>2. MutexOwned'
    BY <1>0, <1>16 DEF MutexOwned, TypeOK, Block
  <2>3. Batches'
    BY <1>0, <1>16 DEF Batches, TypeOK, Block
  <2>4. EachJobOnce'
    BY <1>0, <1>16, KeepsEachJobOnce DEF TypeOK, Block
  <2>5. JobsReachWorkers'
    BY <1>0, <1>16, EmptyReachesWorkers DEF Block, MutexOwned
  <2>6. QED
    BY <2>1, <2>2, <2>3, <2>4, <2>5 DEF IInv
<1>17. ASSUME NEW w \in Workers, Continue(w) PROVE IInv'
  <2>1. TypeOK'
    BY <1>0, <1>17 DEF TypeOK, Continue
  <2>2. MutexOwned'
    BY <1>0, <1>17 DEF MutexOwned, TypeOK, Continue
  <2>3. Batches'
    BY <1>0, <1>17 DEF Batches, TypeOK, Continue
  <2>4. EachJobOnce'
    BY <1>0, <1>17, KeepsEachJobOnce DEF TypeOK, Continue
  <2>5. JobsReachWorkers'
    BY <1>0, <1>17, EmptyReachesWorkers DEF Continue
  <2>6. QED
    BY <2>1, <2>2, <2>3, <2>4, <2>5 DEF IInv
<1>18. ASSUME NEW w \in Workers, Take(w) PROVE IInv'
  <2>1. TypeOK'
    BY <1>0, <1>18, TakeEffect DEF TypeOK, Take
  <2>2. MutexOwned'
    BY <1>0, <1>18 DEF MutexOwned, TypeOK, Take
  <2>3. Batches'
    BY <1>0, <1>18 DEF Batches, TypeOK, Take
  <2>4. EachJobOnce'
    <3>1. \A i \in 1 .. Len(jobs_') : jobs_'[i] = Begun' + i - 1
      <4>1. SUFFICES ASSUME NEW i \in 1 .. Len(jobs_')
                     PROVE  jobs_'[i] = Begun + i
        BY <1>18, TakeEffect
      <4>2. i + 1 \in 1 .. Len(jobs_) /\ jobs_'[i] = jobs_[i + 1]
        BY <1>18, TakeEffect
      <4>3. jobs_[i + 1] = Begun + (i + 1) - 1
        BY <1>0, <4>2 DEF EachJobOnce
      <4>4. Begun \in Nat /\ i \in Nat
        BY <1>18, TakeEffect
      <4>5. QED
        BY <4>2, <4>3, <4>4
    <3>2. Begun \notin Running \cup ran /\ Begun \in Nat
      BY <1>0, <1>18, TakeEffect DEF EachJobOnce
    <3>3. 0 .. Begun' - 1 = (0 .. Begun - 1) \cup {Begun}
      BY <1>18, <3>2, TakeEffect
    <3>4. \A u, v \in Workers :
            wpc'[u] = "run" /\ wpc'[v] = "run" /\ job'[u] = job'[v] => u = v
      <4>1. \A v \in Workers \ {w} :
              wpc'[v] = "run" => wpc[v] = "run" /\ job'[v] = job[v] /\ job[v] \in Running
        BY <1>0, <1>18 DEF TypeOK, Running, Take
      <4>2. job'[w] = Begun
        BY <1>18, TakeEffect
      <4>3. QED
        BY <1>0, <3>2, <4>1, <4>2 DEF EachJobOnce
    <3>5. ran' = ran
      BY <1>18 DEF Take
    <3>6. Running' \cup ran' = 0 .. Begun' - 1
      BY <1>0, <1>18, <3>3, <3>5, TakeEffect DEF EachJobOnce
    <3>7. Running' \cap ran' = {}
      BY <1>0, <1>18, <3>2, <3>5, TakeEffect DEF EachJobOnce
    <3>8. Begun' \in Nat
      BY <1>18, <3>2, TakeEffect
    <3>9. QED
      BY <3>1, <3>4, <3>6, <3>7, <3>8 DEF EachJobOnce
  <2>5. JobsReachWorkers'
    <3>1. Len(jobs_') = Len(jobs_) - 1 /\ UNCHANGED lpc
      BY <1>18, TakeEffect DEF Take
    <3>2. w \in Coming /\ Coming' = Coming \ {w} /\ Waiting' = Waiting
      BY <1>0, <1>18 DEF Take, Coming, Waiting, TypeOK
    <3>3. Cardinality(Coming') = Cardinality(Coming) - 1
      BY <3>2, ComingFinite, FS_RemoveElement
    <3>4. QED
      BY <1>0, <3>1, <3>2, <3>3, ComingFinite DEF JobsReachWorkers
  <2>6. QED
    BY <2>1, <2>2, <2>3, <2>4, <2>5 DEF IInv
<1>19. ASSUME NEW w \in Workers, Run(w) PROVE IInv'
  <2>1. TypeOK'
    BY <1>0, <1>19, RunningIsJob DEF TypeOK, Run
  <2>2. MutexOwned'
    BY <1>0, <1>19 DEF MutexOwned, TypeOK, Run
  <2>3. Batches'
    BY <1>0, <1>19 DEF Batches, TypeOK, Run
  <2>4. EachJobOnce'
    <3>1. UNCHANGED jobs_ /\ ran' = ran \cup {job[w]}
      BY <1>19 DEF Run
    <3>2. QED
      BY <1>0, <1>19, <3>1, RunEffect DEF EachJobOnce
  <2>5. JobsReachWorkers'
    BY <1>0, <1>19, KeepsJobsReachWorkers DEF TypeOK, Coming, Waiting, Run
  <2>6. QED
    BY <2>1, <2>2, <2>3, <2>4, <2>5 DEF IInv
<1>20. ASSUME NEW w \in Workers, SpuriousWakeup(w) PROVE IInv'
  <2>1. TypeOK'
    BY <1>0, <1>20 DEF TypeOK, SpuriousWakeup, Wake
  <2>2. MutexOwned'
    BY <1>0, <1>20 DEF MutexOwned, TypeOK, SpuriousWakeup, Wake
  <2>3. Batches'
    BY <1>0, <1>20 DEF Batches, TypeOK, SpuriousWakeup, Wake
  <2>4. EachJobOnce'
    BY <1>0, <1>20, KeepsEachJobOnce DEF TypeOK, SpuriousWakeup, Wake
  <2>5. JobsReachWorkers'
    BY <1>0, <1>20, KeepsJobsReachWorkers DEF TypeOK, Coming, Waiting, SpuriousWakeup, Wake
  <2>6. QED
    BY <2>1, <2>2, <2>3, <2>4, <2>5 DEF IInv
<1>21. CASE UNCHANGED vars
  <2>1. Begun' = Begun /\ Running' = Running /\ Waiting' = Waiting /\ Coming' = Coming
    BY <1>21 DEF vars, Begun, Running, Waiting, Coming
  <2>2. QED
    BY <1>0, <1>21, <2>1 DEF IInv, vars, TypeOK, MutexOwned, Batches, EachJobOnce, JobsReachWorkers
<1>22. QED
  BY <1>1, <1>2, <1>3, <1>4, <1>5, <1>6, <1>7, <1>8, <1>9, <1>10, <1>11, <1>12,
     <1>13, <1>14, <1>15, <1>16, <1>17, <1>18, <1>19, <1>20, <1>21
     DEF Next, MainStep, LoopStep, WorkerStep, Terminated

\* TypeOK, by itself not inductive: jobs are numbered below MaxJobs only because
\* the loop thread pushes what it has polled, and a worker that runs has a job.
THEOREM TypeCorrect == Spec => []TypeOK
<1>1. IInv => TypeOK
  BY DEF IInv
<1>2. QED
  BY <1>1, InitIInv, StepIInv, PTL DEF Spec

\* While a worker of the reactor's pool sleeps, as many workers are on their way to
\* the queue as there are jobs in it, also while the server stops.
THEOREM NotificationsSuffice == Spec => []JobsReachWorkers
<1>1. IInv => JobsReachWorkers
  BY DEF IInv
<1>2. QED
  BY <1>1, InitIInv, StepIInv, PTL DEF Spec

\* The pool of the reactor implements the queue of numbered tasks, though its
\* workers read the queue without the mutex: a push submits, a take begins and a
\* return finishes a task, and every other step changes nothing its user can see.
THEOREM Implementation == Spec => ImplementsTaskPool
<1>1. Init => Abstract!Init
  <2> SUFFICES ASSUME Init PROVE Abstract!Init
    OBVIOUS
  <2>1. next = 0 /\ Len(jobs_) = 0
    BY EmptySeq DEF Init
  <2>2. Running = {}
    BY DEF Running, Init
  <2>3. next - Len(jobs_) = 0
    BY <2>1
  <2>4. QED
    BY <2>1, <2>2, <2>3 DEF Abstract!Init, Init
<1>2. IInv /\ [Next]_vars => [Abstract!Next]_(Abstract!vars)
  <2> SUFFICES ASSUME IInv, [Next]_vars PROVE [Abstract!Next]_(Abstract!vars)
    OBVIOUS
  <2> DEFINE Stutters == /\ UNCHANGED <<jobs_, next, job, ran>>
                         /\ \A v \in Workers : wpc'[v] = "run" <=> wpc[v] = "run"
  <2>0. TypeOK
    BY DEF IInv
  <2>1. ASSUME Stutters PROVE UNCHANGED Abstract!vars
    <3>1. Running' = Running
      BY <2>1 DEF Running
    <3>2. QED
      BY <2>1, <3>1 DEF Abstract!vars
  <2>2. ASSUME Start \/ Signal \/ WakeMain \/ StopReactor \/ JoinLoop \/ JoinPool
        PROVE  Stutters
    BY <2>2 DEF Start, Signal, WakeMain, StopReactor, JoinLoop, JoinPool, pool
  <2>3. ASSUME Poll \/ LeaveLoop \/ EnqueueLock PROVE Stutters
    BY <2>3 DEF Poll, LeaveLoop, EnqueueLock, pool
  <2>4. ASSUME NotifyOne \/ NotifyAll PROVE Stutters
    BY <2>0, <2>4 DEF NotifyOne, NotifyAll, Wake, WokenByOne, WokenByAll, Waiting, TypeOK
  <2>5. ASSUME NEW w \in Workers, Test(w) \/ Lock(w) \/ Check(w) \/ Block(w) \/ Continue(w)
        PROVE  Stutters
    BY <2>0, <2>5 DEF Test, Lock, Check, Block, Continue, TypeOK
  <2>6. ASSUME NEW w \in Workers, SpuriousWakeup(w) PROVE Stutters
    BY <2>0, <2>6 DEF SpuriousWakeup, Wake, TypeOK
  <2>7. ASSUME EnqueuePush PROVE Abstract!Submit
    BY <2>7, PushEffect DEF EnqueuePush, Abstract!Submit, Begun
  <2>8. ASSUME NEW w \in Workers, Take(w) PROVE Abstract!Begin
    BY <2>8, TakeEffect DEF Take, Abstract!Begin, Begun
  <2>9. ASSUME NEW w \in Workers, Run(w) PROVE \E t \in Running : Abstract!Finish(t)
    BY <2>9, RunEffect DEF Run, Abstract!Finish, Begun
  <2>10. ASSUME UNCHANGED vars PROVE Stutters
    BY <2>10 DEF vars
  <2>11. QED
    BY <2>1, <2>2, <2>3, <2>4, <2>5, <2>6, <2>7, <2>8, <2>9, <2>10
       DEF Next, MainStep, LoopStep, WorkerStep, Terminated, Abstract!Next
<1>3. QED
  BY <1>1, <1>2, InitIInv, StepIInv, PTL DEF Spec, ImplementsTaskPool, Abstract!Spec

-----------------------------------------------------------------------------
\* A worker leaves its loop only after the signal.
LeftAfterSignal == \A w \in Workers : wpc[w] = "left" => g_running = FALSE

\* What a step does to LeftAfterSignal: only Test lets a worker leave.
LEMMA LeavingSignalled == IInv /\ LeftAfterSignal /\ [Next]_vars => LeftAfterSignal'
<1> SUFFICES ASSUME IInv, LeftAfterSignal, [Next]_vars, NEW w \in Workers, wpc'[w] = "left"
             PROVE  g_running' = FALSE
  BY DEF LeftAfterSignal
<1>0. g_running \in BOOLEAN /\ wpc \in [Workers -> {"test", "lock", "check", "block", "waiting", "run", "left"}]
  BY DEF IInv, TypeOK
<1>1. CASE Signal \/ StopReactor
  BY <1>1 DEF Signal, StopReactor
<1>2. CASE Start \/ WakeMain \/ JoinLoop \/ JoinPool \/ Poll \/ LeaveLoop \/ EnqueueLock \/ EnqueuePush
           \/ Terminated \/ UNCHANGED vars
  BY <1>2 DEF Start, WakeMain, JoinLoop, JoinPool, Poll, LeaveLoop, EnqueueLock, EnqueuePush,
              Terminated, vars, pool, LeftAfterSignal
<1>3. CASE NotifyAll \/ NotifyOne \/ \E v \in Workers : SpuriousWakeup(v)
  <2>1. g_running' = g_running /\ \E S : wpc' = [v \in Workers |-> IF v \in S THEN "lock" ELSE wpc[v]]
    BY <1>3 DEF NotifyAll, NotifyOne, SpuriousWakeup, Wake
  <2> QED BY <2>1 DEF LeftAfterSignal
<1>4. CASE \E v \in Workers : Test(v)
  <2>1. PICK v \in Workers : Test(v)
    BY <1>4
  <2>2. CASE v = w
    BY <1>0, <2>1, <2>2 DEF Test, MayLeave
  <2>3. CASE v # w
    BY <1>0, <2>1, <2>3 DEF Test, LeftAfterSignal
  <2> QED BY <2>2, <2>3
<1>5. CASE \E v \in Workers : Lock(v) \/ Check(v) \/ Block(v) \/ Continue(v) \/ Take(v) \/ Run(v)
  BY <1>0, <1>5 DEF Lock, Check, Block, Continue, Take, Run, LeftAfterSignal
<1> QED BY <1>1, <1>2, <1>3, <1>4, <1>5 DEF Next, MainStep, LoopStep, WorkerStep

\* The last worker leaves an empty queue, or one that the loop thread is pushing to
\* (server_reactor.cpp:63): the part of DispatchedJobRuns that needs no fairness.
THEOREM LastLeavesNoJob ==
    Spec => [][~NobodyStays /\ NobodyStays' => jobs_ = <<>> \/ lpc = "push"]_vars
<1>1. Init => LeftAfterSignal
  BY DEF Init, LeftAfterSignal
<1>2. ASSUME IInv, LeftAfterSignal, [Next]_vars, ~NobodyStays, NobodyStays', lpc # "push"
      PROVE  jobs_ = <<>>
  <2>1. /\ wpc \in [Workers -> {"test", "lock", "check", "block", "waiting", "run", "left"}]
        /\ g_running \in BOOLEAN
    BY <1>2 DEF IInv, TypeOK
  <2>2. PICK w \in Workers : wpc[w] # "left" /\ wpc'[w] = "left"
    <3>1. CASE g_running
      BY <1>2, <2>1, <3>1, ReactorAssumption DEF NobodyStays, LeftAfterSignal
    <3>2. CASE ~g_running
      BY <1>2, <3>2 DEF NobodyStays
    <3> QED BY <3>1, <3>2
  <2>3. Test(w)
    <3>1. CASE \E S : wpc' = [v \in Workers |-> IF v \in S THEN "lock" ELSE wpc[v]]
      BY <2>2, <3>1
    <3>2. CASE UNCHANGED wpc
      BY <2>2, <3>2
    <3>3. CASE \E v \in Workers : Lock(v) \/ Check(v) \/ Block(v) \/ Continue(v) \/ Take(v) \/ Run(v)
      BY <2>1, <2>2, <3>3 DEF Lock, Check, Block, Continue, Take, Run
    <3>4. CASE \E v \in Workers : Test(v)
      <4>1. PICK v \in Workers : Test(v)
        BY <3>4
      <4>2. v = w
        BY <2>1, <2>2, <4>1 DEF Test
      <4> QED BY <4>1, <4>2
    <3>5. \/ UNCHANGED wpc
          \/ NotifyAll \/ NotifyOne \/ \E v \in Workers : SpuriousWakeup(v) \/ WorkerStep(v)
      BY <1>2 DEF Next, MainStep, LoopStep, Start, Signal, WakeMain, StopReactor, JoinLoop, JoinPool,
                  Poll, LeaveLoop, EnqueueLock, EnqueuePush, Terminated, vars, pool
    <3>6. NotifyAll \/ NotifyOne \/ (\E v \in Workers : SpuriousWakeup(v)) =>
             \E S : wpc' = [v \in Workers |-> IF v \in S THEN "lock" ELSE wpc[v]]
      BY DEF NotifyAll, NotifyOne, SpuriousWakeup, Wake
    <3> QED BY <3>1, <3>2, <3>3, <3>4, <3>5, <3>6 DEF WorkerStep
  <2>4. \A v \in Workers : wpc[v] # "check"
    <3> SUFFICES ASSUME NEW v \in Workers, wpc[v] = "check" PROVE FALSE
      OBVIOUS
    <3>1. v # w /\ wpc'[v] = wpc[v]
      BY <2>1, <2>3 DEF Test
    <3> QED BY <1>2, <3>1 DEF NobodyStays
  <2>5. EmptySeen = {jobs_ = <<>>}
    BY <1>2, <2>4 DEF EmptySeen, Changing
  <2>6. PICK empty \in EmptySeen :
           wpc' = [wpc EXCEPT ![w] = IF MayLeave(empty) THEN "left" ELSE "lock"]
    BY <2>3 DEF Test
  <2>7. MayLeave(empty)
    BY <2>1, <2>2, <2>6
  <2> QED BY <2>5, <2>6, <2>7 DEF MayLeave
<1>3. IInv /\ LeftAfterSignal /\ [Next]_vars =>
          [~NobodyStays /\ NobodyStays' => jobs_ = <<>> \/ lpc = "push"]_vars
  BY <1>2
<1>4. QED
  BY <1>1, <1>3, LeavingSignalled, InitIInv, StepIInv, PTL DEF Spec
=============================================================================
