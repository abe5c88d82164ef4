--------------------------- MODULE ProgramsProofs ---------------------------
(***************************************************************************)
(* The programs of ProgramsMC, for all values of its constants. Each has   *)
(* an invariant that its own steps keep; Frame says that the steps of the  *)
(* others leave it alone. First the programs whose threads or processes    *)
(* meet at locks, conditions, queues, reference counts and semaphores,     *)
(* then those that pass messages, then the servers, and at the end what    *)
(* follows for all of them.                                                *)
(***************************************************************************)
EXTENDS ProgramsMC, TLAPS, SequenceTheorems, FiniteSetTheorems, WellFoundedInduction

-----------------------------------------------------------------------------
\* A step is one of the program that runs, and leaves the variables of the others alone.
LEMMA Frame ==
    ASSUME [Next]_vars
    PROVE  /\ program' = program
           /\ program = "spinLock" => Spin!Next \/ UNCHANGED spinVars
           /\ program = "producer_consumer" => PC!Next \/ UNCHANGED queueVars
           /\ program = "ipc_sem" => Sem!Next \/ UNCHANGED semVars
           /\ program = "shared_ptr" => Ptr!Next \/ UNCHANGED <<class, ptrVars>>
           /\ program = "lazy" => One!Next \/ UNCHANGED singleVars
           /\ program = "abc" => Abc!Next \/ UNCHANGED turnVars
           /\ program = "server_poll" => Poll!Next \/ UNCHANGED <<socketVars, pollVars>>
           /\ program = "server_epoll" => Nio!Next \/ UNCHANGED <<socketVars, epollVars>>
           /\ program = "deadlock" => Lock!Next \/ UNCHANGED lockVars
           /\ program = "condition_variable" => Bare!Next \/ UNCHANGED waitVars
           /\ program = "ipc_mq" => Mq!Next \/ UNCHANGED mqVars
           /\ program = "ipc_shm" => Shm!Next \/ UNCHANGED shmVars
           /\ program = "ipc_pipe_named" => Pipe!Next \/ UNCHANGED pipeVars
           /\ program = "ipc_sign" => Sign!Next \/ UNCHANGED signalVars
           /\ program = "server_http" => Http!Next \/ UNCHANGED httpVars
<1>1. CASE UNCHANGED vars
  BY <1>1 DEF vars
<1>2. CASE Next
  BY <1>2 DEF Next, SpinNext, QueueNext, SemNext, PtrNext, SingleNext, TurnNext, PollNext,
              NioNext, LockNext, WaitNext, MqNext, ShmNext, PipeNext, SignNext, HttpNext, Rest
<1> QED BY <1>1, <1>2

-----------------------------------------------------------------------------
\* abc.cpp: the count stays below Letters.
LEMMA TurnsInit == Init => Abc!TypeOK
  BY CountsAssumption DEF Init, Abc!Init, Abc!TypeOK, Abc!Indices

\* A turn, a wait and a wake-up keep the count a letter of the alphabet.
LEMMA TurnsStep == Abc!TypeOK /\ (Abc!Next \/ UNCHANGED turnVars) => Abc!TypeOK'
<1> SUFFICES ASSUME Abc!TypeOK, Abc!Next \/ UNCHANGED turnVars PROVE Abc!TypeOK'
  OBVIOUS
<1>1. Abc!Following \in Abc!Indices
  BY CountsAssumption DEF Abc!TypeOK, Abc!Indices, Abc!Following
<1> QED
  BY <1>1, CountsAssumption
     DEF Abc!TypeOK, Abc!Indices, Abc!Next, Abc!Func, Abc!TakeTurn, Abc!Wait,
         Abc!SpuriousWakeup, Abc!Woken, turnVars

-----------------------------------------------------------------------------
\* deadlock.cpp and condition_variable.cpp.
LEMMA LockInit == Init => Lock!TypeOK
  BY DEF Init, Lock!Init, Lock!TypeOK, Lock!Funcs

\* Locking and unlocking in either order keep the mutexes with their holders.
LEMMA LockStep == Lock!TypeOK /\ (Lock!Next \/ UNCHANGED lockVars) => Lock!TypeOK'
<1> SUFFICES ASSUME Lock!TypeOK, Lock!Next \/ UNCHANGED lockVars PROVE Lock!TypeOK'
  OBVIOUS
<1>1. ASSUME NEW f \in Lock!Funcs, NEW i \in 1 .. 2 PROVE Lock!Order(f)[i] \in 1 .. 2
  <2>1. i = 1 \/ i = 2
    OBVIOUS
  <2> QED BY <2>1 DEF Lock!Funcs, Lock!Order
<1>2. ASSUME NEW f \in Lock!Funcs, Lock!Lock(f) PROVE Lock!TypeOK'
  BY <1>1, <1>2 DEF Lock!TypeOK, Lock!Funcs, Lock!Lock, Lock!Changes
<1>3. ASSUME NEW f \in Lock!Funcs, Lock!Unlock(f) PROVE Lock!TypeOK'
  BY <1>1, <1>3 DEF Lock!TypeOK, Lock!Funcs, Lock!Unlock, Lock!Changes
<1> QED BY <1>2, <1>3 DEF Lock!Next, Lock!Func, Lock!TypeOK, lockVars

\* condition_variable.cpp starts with nobody waiting.
LEMMA BareInit == Init => Bare!TypeOK
  BY DEF Init, Bare!Init, Bare!TypeOK, Bare!Ids

\* Waiting, waking up and notifying keep the threads at their places.
LEMMA BareStep == Bare!TypeOK /\ (Bare!Next \/ UNCHANGED waitVars) => Bare!TypeOK'
<1> SUFFICES ASSUME Bare!TypeOK, Bare!Next \/ UNCHANGED waitVars PROVE Bare!TypeOK'
  OBVIOUS
<1> USE DEF Bare!TypeOK
<1>1. CASE Bare!Hello
  BY <1>1 DEF Bare!Hello, Bare!Woken
<1>2. ASSUME NEW t \in Bare!Ids, Bare!Wait(t) PROVE Bare!TypeOK'
  BY <1>2 DEF Bare!Wait
<1>3. ASSUME NEW t \in Bare!Ids, Bare!Return(t) PROVE Bare!TypeOK'
  BY <1>3 DEF Bare!Return
<1>4. ASSUME NEW t \in Bare!Ids, Bare!SpuriousWakeup(t) PROVE Bare!TypeOK'
  BY <1>4 DEF Bare!SpuriousWakeup
<1> QED BY <1>1, <1>2, <1>3, <1>4 DEF Bare!Next, Bare!Thread, waitVars

-----------------------------------------------------------------------------
\* What the proof needs to know of the types.
SpinBooleans == /\ flag \in BOOLEAN
            /\ expect \in BOOLEAN
            /\ arg \in [Threads -> BOOLEAN]
            /\ seen \in [Threads -> BOOLEAN]
            /\ stolen \in BOOLEAN

SpinPlaces == pc \in [Threads -> {"idle", "load", "cas", "owner", "store", "reset"}]

Owns(t) == pc[t] = "owner"

\* As long as nothing is stolen a thread owns the lock only while the flag is
\* FALSE, and it is the only one.
HeldMeansFlag ==
    ~stolen => \A t \in Threads : Owns(t) => ~flag /\ \A u \in Threads : Owns(u) => u = t

SpinInv == SpinBooleans /\ SpinPlaces /\ HeldMeansFlag

\* Nobody owns the lock at first.
LEMMA SpinInit == Init => SpinInv
  BY DEF Init, Spin!Init, SpinInv, SpinBooleans, SpinPlaces, HeldMeansFlag, Owns

\* Steps that move a thread neither into nor out of "owner" and leave flag and
\* stolen alone keep the invariant.
LEMMA SpinElsewhere ==
    ASSUME SpinBooleans, SpinPlaces, HeldMeansFlag,
           NEW t \in Threads, NEW l \in {"idle", "load", "cas", "store", "reset"},
           ~Owns(t), Spin!Goto(t, l), UNCHANGED <<flag, stolen>>
    PROVE  SpinPlaces' /\ HeldMeansFlag'
  BY DEF SpinPlaces, HeldMeansFlag, Owns, Spin!Goto

\* Every step of a thread keeps the flag clear while somebody owns the lock.
LEMMA SpinStep == SpinInv /\ (Spin!Next \/ UNCHANGED spinVars) => SpinInv'
<1> SUFFICES ASSUME SpinInv, Spin!Next \/ UNCHANGED spinVars PROVE SpinInv'
  OBVIOUS
<1> USE DEF SpinInv
<1>1. ASSUME NEW t \in Threads, Spin!Call(t) PROVE SpinInv'
  <2>1. SpinBooleans'
    BY <1>1 DEF Spin!Call, SpinBooleans
  <2> QED BY <1>1, <2>1, SpinElsewhere DEF Spin!Call, Owns
<1>2. ASSUME NEW t \in Threads, Spin!Load(t) PROVE SpinInv'
  <2>1. SpinBooleans'
    BY <1>2 DEF Spin!Load, SpinBooleans
  <2> QED BY <1>2, <2>1, SpinElsewhere DEF Spin!Load, Owns
<1>3. ASSUME NEW t \in Threads, Spin!Acquire(t) PROVE SpinInv'
  <2>1. SpinBooleans' /\ SpinPlaces'
    BY <1>3 DEF Spin!Acquire, SpinBooleans, SpinPlaces, Spin!Goto
  <2>2. CASE ~arg[t]
    BY <1>3, <2>1, <2>2 DEF Spin!Acquire, HeldMeansFlag, SpinBooleans
  <2>3. CASE arg[t]
    <3>1. flag
      BY <1>3, <2>3 DEF Spin!Acquire, Spin!Succeeds, SpinBooleans
    <3>2. ~stolen => \A u \in Threads : ~Owns(u)
      BY <3>1 DEF HeldMeansFlag
    <3>3. HeldMeansFlag'
      BY <1>3, <3>2 DEF Spin!Acquire, HeldMeansFlag, Owns, Spin!Goto, SpinPlaces, SpinBooleans
    <3> QED BY <2>1, <3>3
  <2> QED BY <2>2, <2>3
<1>4. ASSUME NEW t \in Threads, Spin!Miss(t) PROVE SpinInv'
  <2>1. SpinBooleans'
    BY <1>4 DEF Spin!Miss, SpinBooleans
  <2> QED BY <1>4, <2>1, SpinElsewhere DEF Spin!Miss, Owns
<1>5. ASSUME NEW t \in Threads, Spin!Store(t) PROVE SpinInv'
  <2>1. SpinBooleans'
    BY <1>5 DEF Spin!Store, SpinBooleans
  <2> QED BY <1>5, <2>1, SpinElsewhere DEF Spin!Store, Owns
<1>6. ASSUME NEW t \in Threads, Spin!Reset(t) PROVE SpinInv'
  <2>1. SpinBooleans'
    BY <1>6 DEF Spin!Reset, SpinBooleans
  <2> QED BY <1>6, <2>1, SpinElsewhere DEF Spin!Reset, Owns
<1>7. ASSUME NEW t \in Threads, Spin!Unlock(t) PROVE SpinInv'
  <2>1. SpinBooleans' /\ SpinPlaces'
    BY <1>7 DEF Spin!Unlock, Spin!Released, SpinBooleans, SpinPlaces, Spin!Goto
  <2>2. HeldMeansFlag'
    BY <1>7 DEF Spin!Unlock, HeldMeansFlag, Owns, Spin!Goto, SpinPlaces
  <2> QED BY <2>1, <2>2
<1>8. CASE UNCHANGED spinVars
  BY <1>8 DEF spinVars, SpinBooleans, SpinPlaces, HeldMeansFlag, Owns
<1> QED
  BY <1>1, <1>2, <1>3, <1>4, <1>5, <1>6, <1>7, <1>8 DEF Spin!Next, Spin!Step, Spin!Terminated, Spin!vars, spinVars

\* The invariant excludes a second owner until something is stolen.
LEMMA SpinExcludes == SpinInv => Spin!SharedOnlyThroughExpect
  BY DEF SpinInv, HeldMeansFlag, Spin!SharedOnlyThroughExpect, Owns

-----------------------------------------------------------------------------
Inside(t) == caller[t] \in {"second", "new", "store", "unlock"}

\* Only the owner of the mutex is between its lock and its unlock.
OwnerInside == \A t \in Callers : Inside(t) => owner = t

\* What its place tells a caller of the pointer: null while an instance is on
\* its way, and the last one constructed once the pointer was seen or stored.
Pointer(t) ==
    /\ caller[t] = "new" => instance = 0
    /\ caller[t] = "store" => instance = 0 /\ constructed > 0
    /\ caller[t] \in {"unlock", "return", "done"} => instance # 0
    /\ caller[t] = "done" => result[t] = instance

\* A stored pointer is the last instance constructed.
Latest == instance # 0 => instance = constructed

\* There is room for the instance that is on its way.
RoomForOne == instance = 0 /\ (\A t \in Callers : caller[t] # "store")
                  => constructed < MaxInstances

SingleInv == One!TypeOK /\ OwnerInside /\ Latest /\ RoomForOne /\ \A t \in Callers : Pointer(t)

\* There is no instance at first, and room for one.
LEMMA SingleInit == Init => SingleInv
  BY CountsAssumption DEF Init, One!Init, SingleInv, One!TypeOK, OwnerInside, Inside, Latest, RoomForOne, Pointer

\* A step of a caller that changes neither the pointer nor what was constructed
\* nor the owner keeps the invariant if it leads to a place that suits its state.
LEMMA SingleElsewhere ==
    ASSUME SingleInv,
           NEW t \in Callers,
           NEW l \in {"first", "lock", "second", "new", "store", "unlock",
                      "return", "done"},
           One!Goto(t, l), UNCHANGED <<instance, constructed, owner, result>>,
           caller[t] # "store", Inside(t)' => owner = t,
           Pointer(t)'
    PROVE  SingleInv'
<1>1. One!TypeOK' /\ Latest' /\ RoomForOne'
  BY DEF SingleInv, One!TypeOK, Latest, RoomForOne, One!Goto
<1>2. ASSUME NEW u \in Callers PROVE (Inside(u)' => owner' = u) /\ Pointer(u)'
  <2>1. CASE u = t
    BY <2>1
  <2>2. CASE u # t
    BY <2>2 DEF SingleInv, One!TypeOK, OwnerInside, Inside, Pointer, One!Goto
  <2> QED BY <2>1, <2>2
<1> QED BY <1>1, <1>2 DEF SingleInv, OwnerInside

\* Every step of getInstance, and destory, keeps at most one instance on its way.
LEMMA SingleStep == SingleInv /\ (One!Next \/ UNCHANGED singleVars) => SingleInv'
<1> SUFFICES ASSUME SingleInv, One!Next \/ UNCHANGED singleVars PROVE SingleInv'
  OBVIOUS
<1>1. CASE One!Destory
  BY <1>1 DEF One!Destory, SingleInv, One!TypeOK, OwnerInside, Inside, Latest, RoomForOne, Pointer
<1>2. ASSUME NEW t \in Callers, One!FirstCheck(t) PROVE SingleInv'
  BY <1>2, SingleElsewhere DEF One!FirstCheck, One!Goto, SingleInv, One!TypeOK, Inside, Pointer
<1>3. ASSUME NEW t \in Callers, One!Lock(t) PROVE SingleInv'
  <2>1. \A u \in Callers : ~Inside(u)
    BY <1>3, NobodyAssumption DEF One!Lock, SingleInv, OwnerInside
  <2> QED BY <1>3, <2>1 DEF One!Lock, One!Goto, SingleInv, One!TypeOK, OwnerInside, Inside, Latest, RoomForOne, Pointer
<1>4. ASSUME NEW t \in Callers, One!SecondCheck(t) PROVE SingleInv'
  BY <1>4, SingleElsewhere DEF One!SecondCheck, One!StillNull, One!Goto, SingleInv, One!TypeOK, OwnerInside, Inside, Pointer
<1>5. ASSUME NEW t \in Callers, One!Construct(t) PROVE SingleInv'
  <2>1. instance = 0 /\ Inside(t) /\ owner = t
    BY <1>5 DEF One!Construct, SingleInv, OwnerInside, Inside, Pointer
  <2>2. constructed < MaxInstances
    BY <1>5, <2>1 DEF One!Construct, SingleInv, OwnerInside, Inside, RoomForOne
  <2> QED BY <1>5, <2>1, <2>2, CountsAssumption DEF One!Construct, One!Goto, SingleInv, One!TypeOK, OwnerInside, Inside, Latest, RoomForOne, Pointer
<1>6. ASSUME NEW t \in Callers, One!Store(t) PROVE SingleInv'
  <2>1. /\ instance = 0 /\ constructed > 0
        /\ \A u \in Callers : Inside(u) => u = t
    BY <1>6 DEF One!Store, SingleInv, OwnerInside, Inside, Pointer
  <2> QED BY <1>6, <2>1 DEF One!Store, One!Goto, SingleInv, One!TypeOK, OwnerInside, Inside, Latest, RoomForOne, Pointer
<1>7. ASSUME NEW t \in Callers, One!Unlock(t) PROVE SingleInv'
  <2>1. \A u \in Callers : Inside(u) => u = t
    BY <1>7 DEF One!Unlock, SingleInv, OwnerInside, Inside
  <2> QED BY <1>7, <2>1 DEF One!Unlock, One!Goto, SingleInv, One!TypeOK, OwnerInside, Inside, Latest, RoomForOne, Pointer
<1>8. ASSUME NEW t \in Callers, One!Return(t) PROVE SingleInv'
  BY <1>8 DEF One!Return, One!Goto, SingleInv, One!TypeOK, OwnerInside, Inside, Latest, RoomForOne, Pointer
<1>9. CASE UNCHANGED singleVars
  BY <1>9 DEF singleVars, SingleInv, One!TypeOK, OwnerInside, Inside, Latest, RoomForOne, Pointer
<1> QED
  BY <1>1, <1>2, <1>3, <1>4, <1>5, <1>6, <1>7, <1>8, <1>9 DEF One!Next, One!GetInstance

\* The invariant gives all callers the same instance.
LEMMA SingleGetsOne == SingleInv => One!OneInstance
  BY DEF SingleInv, One!TypeOK, Latest, RoomForOne, Pointer, One!OneInstance

-----------------------------------------------------------------------------
\* What taking the first element of a sequence leaves, and what appending one adds.
LEMMA TakeFirst ==
    ASSUME NEW S, NEW s \in Seq(S), s # <<>>
    PROVE  /\ Head(s) = s[1] /\ Head(s) \in S
           /\ Tail(s) \in Seq(S)
           /\ Len(s) \in Nat \ {0} /\ Len(Tail(s)) = Len(s) - 1
           /\ \A i \in 1 .. Len(s) - 1 : Tail(s)[i] = s[i + 1]
<1>1. Len(s) \in Nat \ {0}
  BY EmptySeq, LenProperties
<1>2. s[1] \in S
  BY <1>1, ElementOfSeq
<1> QED BY <1>1, <1>2, HeadTailProperties

\* What appending an element adds to a sequence.
LEMMA AddLast ==
    ASSUME NEW S, NEW s \in Seq(S), NEW x \in S
    PROVE  /\ Append(s, x) \in Seq(S) /\ Append(s, x) # <<>>
           /\ Len(s) \in Nat /\ Len(Append(s, x)) = Len(s) + 1
           /\ \A i \in 1 .. Len(s) : Append(s, x)[i] = s[i]
           /\ Append(s, x)[Len(s) + 1] = x
<1>1. Len(s) \in Nat
  BY LenProperties
<1> QED BY <1>1, AppendProperties

\* producer_consumer_1v2.cpp. The items lie in order, the consumed ones first.
InOrder ==
    /\ Len(consumed) + Len(que) = produced
    /\ \A i \in 1 .. Len(consumed) : consumed[i] = i - 1
    /\ \A i \in 1 .. Len(que) : que[i] = Len(consumed) + i - 1

\* done is set when all items are made, and a consumer leaves an empty queue after that.
LastOneOut ==
    /\ done => produced = Items
    /\ \A c \in Consumers : consumer[c] = "end" => done /\ que = <<>>

QueueInv == PC!TypeOK /\ InOrder /\ LastOneOut

\* Nothing is produced at first.
LEMMA QueueInit == Init => QueueInv
<1> SUFFICES ASSUME Init PROVE QueueInv
  OBVIOUS
<1>1. PC!Init
  BY DEF Init
<1>2. <<>> \in Seq(0 .. Items - 1) /\ Len(<<>>) = 0 /\ Items \in Nat
  BY EmptySeq, CountsAssumption
<1>3. PC!TypeOK
  <2>1. que \in Seq(0 .. Items - 1) /\ consumed \in Seq(0 .. Items - 1)
    BY <1>1, <1>2 DEF PC!Init
  <2>2. produced \in 0 .. Items
    BY <1>1, <1>2 DEF PC!Init
  <2> QED BY <1>1, <2>1, <2>2 DEF PC!Init, PC!TypeOK
<1>5. LastOneOut
  BY <1>1 DEF PC!Init, LastOneOut
<1>4. InOrder
  BY <1>1, <1>2 DEF PC!Init, InOrder
<1> QED BY <1>3, <1>4, <1>5 DEF QueueInv

\* Steps of threads from one place to another.
LEMMA QueueElsewhere ==
    ASSUME QueueInv, UNCHANGED <<que, produced, consumed>>,
           done' \in BOOLEAN, done => done', done' => produced = Items,
           producer' \in {"produce", "notify", "notifyAll", "end"},
           consumer' \in [Consumers -> {"ready", "waiting", "end"}],
           \A c \in Consumers : consumer'[c] = "end" => consumer[c] = "end" \/ (que = <<>> /\ done)
    PROVE  QueueInv'
  BY DEF QueueInv, PC!TypeOK, InOrder, LastOneOut

\* Producing, notifying and consuming keep the items in order.
LEMMA QueueStep == QueueInv /\ (PC!Next \/ UNCHANGED queueVars) => QueueInv'
<1> SUFFICES ASSUME QueueInv, PC!Next \/ UNCHANGED queueVars PROVE QueueInv'
  OBVIOUS
<1>1. CASE PC!Produce
  <2>1. /\ que \in Seq(0 .. Items - 1) /\ produced \in 0 .. Items - 1
        /\ que' = Append(que, produced) /\ produced' = produced + 1
        /\ UNCHANGED <<done, consumed, consumer>> /\ producer' = "notify"
        /\ Items \in Nat
    BY <1>1, CountsAssumption DEF PC!Produce, QueueInv, PC!TypeOK
  <2>2. que' \in Seq(0 .. Items - 1) /\ que' # <<>>
    BY <2>1, AddLast
  <2>3. PC!TypeOK'
    BY <2>1, <2>2 DEF QueueInv, PC!TypeOK
  <2>4. LastOneOut'
    BY <2>1 DEF QueueInv, LastOneOut
  <2>5. /\ Len(que) \in Nat /\ Len(que') = Len(que) + 1
        /\ \A i \in 1 .. Len(que) : que'[i] = que[i]
        /\ que'[Len(que) + 1] = produced
    BY <2>1, AddLast
  <2>6. Len(consumed) \in Nat
    BY LenProperties DEF QueueInv, PC!TypeOK
  <2>7. InOrder'
    <3>1. /\ Len(consumed) + Len(que) = produced
          /\ \A i \in 1 .. Len(consumed) : consumed[i] = i - 1
          /\ \A i \in 1 .. Len(que) : que[i] = Len(consumed) + i - 1
      BY DEF QueueInv, InOrder
    <3>2. Len(consumed) + Len(que') = produced'
      BY <2>1, <2>5, <2>6, <3>1
    <3>3. ASSUME NEW i \in 1 .. Len(que') PROVE que'[i] = Len(consumed) + i - 1
      <4>1. CASE i \in 1 .. Len(que)
        BY <2>5, <3>1, <4>1
      <4>2. CASE i = Len(que) + 1
        BY <2>1, <2>5, <2>6, <3>1, <4>2
      <4> QED BY <2>5, <4>1, <4>2
    <3> QED BY <2>1, <3>1, <3>2, <3>3 DEF InOrder
  <2> QED BY <2>3, <2>4, <2>7 DEF QueueInv
<1>2. CASE PC!NotifyOne
  BY <1>2, QueueElsewhere DEF PC!NotifyOne, PC!Waiting, PC!Goto, QueueInv, PC!TypeOK, LastOneOut
<1>3. CASE PC!Finish
  <2>1. /\ UNCHANGED <<que, produced, consumed, consumer>> /\ produced = Items
        /\ done' /\ done' \in BOOLEAN /\ producer' \in {"produce", "notify", "notifyAll", "end"}
    BY <1>3 DEF PC!Finish
  <2>2. consumer' \in [Consumers -> {"ready", "waiting", "end"}]
    BY <2>1 DEF QueueInv, PC!TypeOK
  <2>3. UNCHANGED <<que, produced, consumed>>
    BY <2>1
  <2>4. \A c \in Consumers : consumer'[c] = "end" => consumer[c] = "end" \/ (que = <<>> /\ done)
    BY <2>1
  <2>5. done' /\ produced = Items
    BY <2>1
  <2>6. (done => done') /\ (done' => produced = Items)
    BY <2>5
  <2> QED BY <2>1, <2>2, <2>3, <2>4, <2>6, QueueElsewhere
<1>4. CASE PC!NotifyAll
  BY <1>4, QueueElsewhere DEF PC!NotifyAll, PC!Waiting, QueueInv, PC!TypeOK, LastOneOut
<1>5. ASSUME NEW c \in Consumers, PC!Consume(c) PROVE QueueInv'
  <2>1. /\ que # <<>> /\ que \in Seq(0 .. Items - 1) /\ consumed \in Seq(0 .. Items - 1)
        /\ que' = Tail(que) /\ consumed' = Append(consumed, Head(que))
        /\ UNCHANGED <<done, produced, producer, consumer>>
    BY <1>5 DEF PC!Consume, PC!Popped, QueueInv, PC!TypeOK
  <2>2. /\ Head(que) = que[1] /\ Head(que) \in 0 .. Items - 1
        /\ que' \in Seq(0 .. Items - 1)
        /\ Len(que) \in Nat \ {0} /\ Len(que') = Len(que) - 1
        /\ \A i \in 1 .. Len(que) - 1 : que'[i] = que[i + 1]
    BY <2>1, TakeFirst
  <2>3. /\ consumed' \in Seq(0 .. Items - 1)
        /\ Len(consumed) \in Nat /\ Len(consumed') = Len(consumed) + 1
        /\ \A i \in 1 .. Len(consumed) : consumed'[i] = consumed[i]
        /\ consumed'[Len(consumed) + 1] = que[1]
    BY <2>1, <2>2, AddLast
  <2>4. PC!TypeOK' /\ LastOneOut'
    BY <2>1, <2>2, <2>3 DEF QueueInv, PC!TypeOK, LastOneOut
  <2>5. InOrder'
    <3>1. /\ Len(consumed) + Len(que) = produced
          /\ \A i \in 1 .. Len(consumed) : consumed[i] = i - 1
          /\ \A i \in 1 .. Len(que) : que[i] = Len(consumed) + i - 1
      BY DEF QueueInv, InOrder
    <3>2. Len(consumed') + Len(que') = produced'
      BY <2>1, <2>2, <2>3, <3>1
    <3>3. ASSUME NEW i \in 1 .. Len(consumed') PROVE consumed'[i] = i - 1
      <4>1. CASE i \in 1 .. Len(consumed)
        BY <2>3, <3>1, <4>1
      <4>2. CASE i = Len(consumed) + 1
        BY <2>2, <2>3, <3>1, <4>2
      <4> QED BY <2>3, <4>1, <4>2
    <3>4. ASSUME NEW i \in 1 .. Len(que') PROVE que'[i] = Len(consumed') + i - 1
      <4>1. i \in 1 .. Len(que) - 1 /\ i + 1 \in 1 .. Len(que)
        BY <2>2
      <4>2. que'[i] = Len(consumed) + (i + 1) - 1
        BY <2>2, <3>1, <4>1
      <4> QED BY <2>3, <4>1, <4>2
    <3> QED BY <3>2, <3>3, <3>4 DEF InOrder
  <2> QED BY <2>4, <2>5 DEF QueueInv
<1>6. ASSUME NEW c \in Consumers, PC!Return(c) PROVE QueueInv'
  BY <1>6, QueueElsewhere DEF PC!Return, PC!Goto, QueueInv, PC!TypeOK, LastOneOut
<1>7. ASSUME NEW c \in Consumers, PC!Wait(c) PROVE QueueInv'
  BY <1>7, QueueElsewhere DEF PC!Wait, PC!Goto, QueueInv, PC!TypeOK, LastOneOut
<1>8. ASSUME NEW c \in Consumers, PC!SpuriousWakeup(c) PROVE QueueInv'
  BY <1>8, QueueElsewhere DEF PC!SpuriousWakeup, PC!Goto, QueueInv, PC!TypeOK, LastOneOut
<1>9. CASE UNCHANGED queueVars
  BY <1>9 DEF queueVars, QueueInv, PC!TypeOK, InOrder, LastOneOut
<1> QED
  BY <1>1, <1>2, <1>3, <1>4, <1>5, <1>6, <1>7, <1>8, <1>9 DEF PC!Next, PC!Producer, PC!Consumer

\* In order and without a gap means once each.
LEMMA QueueOnce == QueueInv => PC!ConsumedOnce
<1> SUFFICES ASSUME QueueInv PROVE PC!ConsumedOnce
  OBVIOUS
<1>1. /\ que \in Seq(0 .. Items - 1) /\ consumed \in Seq(0 .. Items - 1)
      /\ Len(consumed) \in Nat /\ Len(que) \in Nat /\ produced \in Nat
  <2>1. que \in Seq(0 .. Items - 1) /\ consumed \in Seq(0 .. Items - 1) /\ produced \in 0 .. Items
    BY DEF QueueInv, PC!TypeOK
  <2>2. Len(consumed) \in Nat /\ Len(que) \in Nat
    BY <2>1, LenProperties
  <2>3. Items \in Nat
    BY CountsAssumption
  <2> QED BY <2>1, <2>2, <2>3
<1>2. consumed \o que = [n \in 1 .. produced |-> n - 1]
  <2>1. /\ Len(consumed) + Len(que) = produced
        /\ \A i \in 1 .. Len(consumed) : consumed[i] = i - 1
        /\ \A i \in 1 .. Len(que) : que[i] = Len(consumed) + i - 1
    BY DEF QueueInv, InOrder
  <2>2. /\ consumed \o que \in Seq(0 .. Items - 1)
        /\ Len(consumed \o que) = Len(consumed) + Len(que)
        /\ \A i \in 1 .. Len(consumed) + Len(que) : (consumed \o que)[i] =
               IF i <= Len(consumed) THEN consumed[i] ELSE que[i - Len(consumed)]
    BY <1>1, ConcatProperties
  <2>3. consumed \o que = [i \in 1 .. produced |-> (consumed \o que)[i]]
    BY <2>1, <2>2, LenProperties
  <2>4. \A i \in 1 .. produced : (consumed \o que)[i] = i - 1
    BY <1>1, <2>1, <2>2
  <2> QED BY <2>3, <2>4
<1>3. ASSUME NEW c \in Consumers, consumer[c] = "end" PROVE Len(consumed) = Items
  BY <1>1, <1>3 DEF QueueInv, InOrder, LastOneOut
<1> QED BY <1>2, <1>3 DEF PC!ConsumedOnce

-----------------------------------------------------------------------------
\* C++/smart_ptr. How many pointers own an object.
OwnerCount(o) == Cardinality(Ptr!Owners(o))

\* The counter is right, also when an assignment has forgotten an owner; an object is
\* freed when it falls to zero, or is about to be; and twice only after an overlap.
Fate(o) ==
    /\ cnt[o] = OwnerCount(o) + dropped[o]
    /\ freed[o] > 0 => cnt[o] = 0
    /\ cnt[o] = 0 /\ Ptr!Loading(o) = {} => freed[o] > 0
    /\ o \notin overlap => /\ freed[o] <= 1
                           /\ \A p, q \in Ptr!Loading(o) : p = q
                           /\ freed[o] = 1 => Ptr!Loading(o) = {}

PtrTypes == /\ class \in Ptr!Classes
            /\ made \subseteq Objects
            /\ holds \in [Pointers -> made \cup {"none", "empty"}]
            /\ loading \in [Pointers -> made \cup {"empty"}]
            /\ cnt \in [Objects -> Nat]
            /\ freed \in [Objects -> Nat]
            /\ dropped \in [Objects -> 0 .. MaxDropped]
            /\ overlap \subseteq made
            /\ dead \in BOOLEAN

\* Objects not made yet, and what Shared_ptr does not do.
PtrQuiet == /\ \A o \in Objects \ made : freed[o] = 0 /\ dropped[o] = 0
            /\ class = "Shared_ptr" => /\ \A p \in Pointers : loading[p] = "empty"
                                       /\ \A o \in Objects : dropped[o] = 0
                                       /\ overlap = {}

PtrInv == PtrTypes /\ PtrQuiet /\ \A o \in made : Fate(o)

\* The cardinality that the module of the pointers uses is that of the library.
LEMMA PtrCardinality == \A S : Ptr!Cardinality(S) = Cardinality(S)
  BY DEF Ptr!Cardinality, Cardinality

\* Finitely many pointers own an object.
LEMMA OwnerCountIsNat ==
    ASSUME NEW o
    PROVE  /\ IsFiniteSet(Ptr!Owners(o)) /\ OwnerCount(o) \in Nat
           /\ OwnerCount(o) = 0 <=> Ptr!Owners(o) = {}
<1>1. IsFiniteSet(Ptr!Owners(o))
  BY PointersAssumption, FS_Subset DEF Ptr!Owners
<1> QED BY <1>1, FS_CardinalityType, FS_EmptySet DEF OwnerCount

\* How the owners change when a pointer gets something else to hold.
LEMMA HoldCount ==
    ASSUME NEW p \in Pointers, NEW o,
           \A r \in Pointers \ {p} : holds'[r] = holds[r]
    PROVE  /\ holds'[p] = o /\ holds[p] # o => OwnerCount(o)' = OwnerCount(o) + 1
           /\ holds'[p] # o /\ holds[p] = o => OwnerCount(o)' = OwnerCount(o) - 1
           /\ (holds'[p] = o <=> holds[p] = o) => OwnerCount(o)' = OwnerCount(o)
<1>1. IsFiniteSet(Ptr!Owners(o)) /\ OwnerCount(o) \in Nat
  BY OwnerCountIsNat
<1>2. CASE holds'[p] = o /\ holds[p] = o
  <2>1. Ptr!Owners(o)' = Ptr!Owners(o)
    BY <1>2 DEF Ptr!Owners
  <2> QED BY <1>1, <1>2, <2>1 DEF OwnerCount
<1>3. CASE holds'[p] = o /\ holds[p] # o
  <2>1. Ptr!Owners(o)' = Ptr!Owners(o) \cup {p} /\ p \notin Ptr!Owners(o)
    BY <1>3 DEF Ptr!Owners
  <2>2. OwnerCount(o)' = OwnerCount(o) + 1
    BY <1>1, <2>1, FS_AddElement DEF OwnerCount
  <2> QED BY <1>1, <1>3, <2>2
<1>4. CASE holds'[p] # o /\ holds[p] = o
  <2>1. Ptr!Owners(o)' = Ptr!Owners(o) \ {p} /\ p \in Ptr!Owners(o)
    BY <1>4 DEF Ptr!Owners
  <2>2. OwnerCount(o)' = OwnerCount(o) - 1
    BY <1>1, <2>1, FS_RemoveElement DEF OwnerCount
  <2> QED BY <1>1, <1>4, <2>2
<1>5. CASE holds'[p] # o /\ holds[p] # o
  <2>1. Ptr!Owners(o)' = Ptr!Owners(o)
    BY <1>5 DEF Ptr!Owners
  <2> QED BY <1>1, <1>5, <2>1 DEF OwnerCount
<1> QED BY <1>2, <1>3, <1>4, <1>5

\* A move takes an owner away from what the target held, from nothing else.
LEMMA MoveCount ==
    ASSUME NEW p \in Pointers, NEW q \in Pointers, NEW o, o # "empty",
           DOMAIN holds = Pointers,
           holds' = [holds EXCEPT ![p] = holds[q], ![q] = "empty"]
    PROVE  /\ holds[p] = o => OwnerCount(o)' = OwnerCount(o) - 1
           /\ holds[p] # o => OwnerCount(o)' = OwnerCount(o)
<1>1. IsFiniteSet(Ptr!Owners(o)) /\ OwnerCount(o) \in Nat
  BY OwnerCountIsNat
<1>2. CASE holds[p] = o
  <2>1. CASE p = q \/ holds[q] # o
    <3>1. Ptr!Owners(o)' = Ptr!Owners(o) \ {p} /\ p \in Ptr!Owners(o)
      BY <1>2, <2>1 DEF Ptr!Owners
    <3> QED BY <1>1, <1>2, <3>1, FS_RemoveElement DEF OwnerCount
  <2>2. CASE p # q /\ holds[q] = o
    <3>1. Ptr!Owners(o)' = Ptr!Owners(o) \ {q} /\ q \in Ptr!Owners(o)
      BY <1>2, <2>2 DEF Ptr!Owners
    <3> QED BY <1>1, <1>2, <3>1, FS_RemoveElement DEF OwnerCount
  <2> QED BY <2>1, <2>2
<1>3. CASE holds[p] # o /\ holds[q] = o
  <2>1. /\ Ptr!Owners(o)' = (Ptr!Owners(o) \ {q}) \cup {p}
        /\ q \in Ptr!Owners(o) /\ p \notin Ptr!Owners(o) \ {q}
    BY <1>3 DEF Ptr!Owners
  <2>2. IsFiniteSet(Ptr!Owners(o) \ {q}) /\ Cardinality(Ptr!Owners(o) \ {q}) = OwnerCount(o) - 1
    BY <1>1, <2>1, FS_RemoveElement DEF OwnerCount
  <2>3. OwnerCount(o)' = OwnerCount(o) - 1 + 1
    BY <2>1, <2>2, FS_AddElement DEF OwnerCount
  <2> QED BY <1>1, <1>3, <2>3
<1>4. CASE holds[p] # o /\ holds[q] # o
  <2>1. Ptr!Owners(o)' = Ptr!Owners(o)
    BY <1>4 DEF Ptr!Owners
  <2> QED BY <1>1, <1>4, <2>1 DEF OwnerCount
<1> QED BY <1>2, <1>3, <1>4

\* Nothing is owned at first.
LEMMA PtrInit == Init => PtrInv
<1> SUFFICES ASSUME Init PROVE PtrInv
  OBVIOUS
<1>1. Ptr!New /\ class \in Ptr!Classes
  BY DEF Init, Ptr!Classes
<1>2. MaxDropped \in Nat
  BY CountsAssumption
<1>3. PtrTypes
  <2>1. /\ cnt \in [Objects -> Nat] /\ freed \in [Objects -> Nat]
        /\ dropped \in [Objects -> 0 .. MaxDropped]
    BY <1>1, <1>2 DEF Ptr!New
  <2> QED BY <1>1, <2>1 DEF Ptr!New, Ptr!None, Ptr!Empty, PtrTypes
<1>4. PtrQuiet /\ made = {}
  BY <1>1 DEF Ptr!New, Ptr!Empty, PtrQuiet
<1> QED BY <1>3, <1>4 DEF PtrInv

\* An object keeps its fate if nothing about it changes,
LEMMA FateStays ==
    ASSUME NEW o, Fate(o), OwnerCount(o)' = OwnerCount(o),
           cnt'[o] = cnt[o], dropped'[o] = dropped[o], freed'[o] = freed[o],
           Ptr!Loading(o)' = Ptr!Loading(o), o \in overlap' <=> o \in overlap
    PROVE  Fate(o)'
  BY DEF Fate

\* and if it stays alive, the counter going with the owners.
LEMMA FateAlive ==
    ASSUME PtrTypes, NEW o \in made, Fate(o), OwnerCount(o) > 0,
           cnt'[o] = OwnerCount(o)' + dropped'[o], cnt'[o] \in Nat \ {0},
           freed'[o] = freed[o],
           Ptr!Loading(o)' = Ptr!Loading(o), o \in overlap' <=> o \in overlap
    PROVE  Fate(o)'
<1>1. freed[o] = 0
  BY OwnerCountIsNat DEF Fate, PtrTypes
<1> QED BY <1>1 DEF Fate

\* What it means to own an object.
LEMMA OwnersOf ==
    ASSUME PtrTypes, NEW p \in Pointers, NEW o \in made, holds[p] = o
    PROVE  OwnerCount(o) \in Nat \ {0}
<1>1. p \in Ptr!Owners(o)
  BY DEF Ptr!Owners
<1> QED BY <1>1, OwnerCountIsNat

\* Two owners are counted as two.
LEMMA TwoOwners ==
    ASSUME PtrTypes, NEW p \in Pointers, NEW q \in Pointers, p # q, NEW o \in made,
           holds[p] = o, holds[q] = o
    PROVE  OwnerCount(o) - 1 \in Nat \ {0}
<1>1. p \in Ptr!Owners(o) /\ q \in Ptr!Owners(o) \ {p}
  BY DEF Ptr!Owners
<1>2. /\ IsFiniteSet(Ptr!Owners(o) \ {p})
      /\ Cardinality(Ptr!Owners(o) \ {p}) = OwnerCount(o) - 1
  BY <1>1, OwnerCountIsNat, FS_RemoveElement DEF OwnerCount
<1> QED BY <1>1, <1>2, FS_CardinalityType, FS_EmptySet

\* What release does to the counters, when the pointer then acquires s.
LEMMA AfterCounts ==
    ASSUME PtrTypes, NEW h \in made \cup {"empty"}, NEW s \in made \cup {"empty"},
           Ptr!After(h, s)
    PROVE  /\ cnt' \in [Objects -> Int] /\ freed' \in [Objects -> Nat]
           /\ \A o \in Objects :
                 /\ h = o /\ s # o => cnt'[o] = cnt[o] - 1
                 /\ h # o /\ s = o => cnt'[o] = cnt[o] + 1
                 /\ (h = o <=> s = o) => cnt'[o] = cnt[o]
                 /\ h = o /\ cnt[o] = 1 => freed'[o] = freed[o] + 1
                 /\ ~(h = o /\ cnt[o] = 1) => freed'[o] = freed[o]
<1>1. /\ cnt \in [Objects -> Nat] /\ freed \in [Objects -> Nat]
      /\ h # "empty" => h \in Objects
      /\ s # "empty" => s \in Objects
      /\ "empty" \notin Objects
  BY PointersAssumption DEF PtrTypes
<1>2. CASE h = "empty" /\ s = "empty"
  BY <1>1, <1>2 DEF Ptr!After, Ptr!Empty
<1>3. CASE h = "empty" /\ s # "empty"
  BY <1>1, <1>3 DEF Ptr!After, Ptr!Empty
<1>4. CASE h # "empty" /\ s = "empty"
  <2>1. /\ cnt' = [cnt EXCEPT ![h] = cnt[h] - 1]
        /\ freed' = IF cnt[h] = 1 THEN [freed EXCEPT ![h] = @ + 1] ELSE freed
    BY <1>4 DEF Ptr!After, Ptr!Empty, Ptr!Released
  <2> QED BY <1>1, <1>4, <2>1
<1>5. CASE h # "empty" /\ s # "empty"
  <2>1. /\ cnt' = [[cnt EXCEPT ![h] = cnt[h] - 1] EXCEPT ![s] = @ + 1]
        /\ freed' = IF cnt[h] = 1 THEN [freed EXCEPT ![h] = @ + 1] ELSE freed
    BY <1>5 DEF Ptr!After, Ptr!Empty, Ptr!Released
  <2> QED BY <1>1, <1>5, <2>1
<1> QED BY <1>2, <1>3, <1>4, <1>5

\* An object loses an owner to release, and is freed with the last one.
LEMMA FateReleased ==
    ASSUME PtrTypes, NEW o \in made, Fate(o), Ptr!Loading(o) = {}, Ptr!Loading(o)' = {},
           OwnerCount(o) \in Nat \ {0}, OwnerCount(o)' = OwnerCount(o) - 1,
           dropped[o] = 0, dropped'[o] = 0, cnt'[o] = cnt[o] - 1,
           cnt[o] = 1 => freed'[o] = freed[o] + 1,
           cnt[o] # 1 => freed'[o] = freed[o]
    PROVE  Fate(o)' /\ cnt'[o] \in Nat
<1>1. cnt[o] = OwnerCount(o) /\ cnt[o] \in Nat \ {0} /\ freed[o] = 0
  BY DEF Fate, PtrTypes
<1>2. CASE cnt[o] = 1
  BY <1>1, <1>2 DEF Fate
<1>3. CASE cnt[o] # 1
  BY <1>1, <1>3 DEF Fate
<1> QED BY <1>2, <1>3

\* The types after a step, from what the step leaves.
LEMMA PtrTypesOnward ==
    ASSUME PtrInv, NEW p \in Pointers,
           \/ Ptr!DefaultConstruct(p) \/ Ptr!Destroy(p) \/ Ptr!Decrement(p) \/ Ptr!LoadAndDelete(p)
           \/ \E o \in Objects : Ptr!Construct(p, o)
           \/ \E q \in Pointers : Ptr!Copy(p, q) \/ Ptr!Move(p, q) \/ Ptr!Assign(p, q) \/ Ptr!MoveAssign(p, q)
    PROVE  /\ class' = class /\ made \subseteq made' /\ made' \subseteq Objects
           /\ holds' \in [Pointers -> made' \cup {"none", "empty"}]
           /\ loading' \in [Pointers -> made' \cup {"empty"}]
           /\ overlap' \subseteq made' /\ dead' \in BOOLEAN
<1> USE DEF PtrInv, PtrTypes, Ptr!None, Ptr!Empty, Ptr!Hold, Ptr!Idle, Ptr!Exists, Ptr!Free
<1>1. CASE Ptr!DefaultConstruct(p)
  BY <1>1 DEF Ptr!DefaultConstruct
<1>2. CASE Ptr!Destroy(p)
  BY <1>2 DEF Ptr!Destroy
<1>3. CASE Ptr!Decrement(p)
  BY <1>3 DEF Ptr!Decrement
<1>4. CASE Ptr!LoadAndDelete(p)
  BY <1>4 DEF Ptr!LoadAndDelete
<1>5. ASSUME NEW o \in Objects, Ptr!Construct(p, o)
      PROVE  /\ class' = class /\ made \subseteq made' /\ made' \subseteq Objects
             /\ holds' \in [Pointers -> made' \cup {"none", "empty"}]
             /\ loading' \in [Pointers -> made' \cup {"empty"}]
             /\ overlap' \subseteq made' /\ dead' \in BOOLEAN
  BY <1>5 DEF Ptr!Construct
<1>6. ASSUME NEW q \in Pointers, Ptr!Copy(p, q) \/ Ptr!Move(p, q) \/ Ptr!Assign(p, q) \/ Ptr!MoveAssign(p, q)
      PROVE  /\ class' = class /\ made' = made /\ loading' = loading /\ overlap' = overlap
             /\ holds' \in [Pointers -> made \cup {"none", "empty"}] /\ dead' \in BOOLEAN
  <2>1. CASE Ptr!Copy(p, q)
    BY <2>1 DEF Ptr!Copy
  <2>2. CASE Ptr!Move(p, q)
    BY <2>2 DEF Ptr!Move
  <2>3. CASE Ptr!Assign(p, q)
    BY <2>3 DEF Ptr!Assign, Ptr!Overwrite
  <2>4. CASE Ptr!MoveAssign(p, q)
    BY <2>4 DEF Ptr!MoveAssign
  <2> QED BY <1>6, <2>1, <2>2, <2>3, <2>4
<1> QED BY <1>1, <1>2, <1>3, <1>4, <1>5, <1>6

\* A Shared_ptr that releases what it held, and acquires nothing, keeps the invariant.
LEMMA ReleaseKeeps ==
    ASSUME PtrInv, class = "Shared_ptr", NEW p \in Pointers,
           Ptr!Destroy(p) \/ \E q \in Pointers : Ptr!MoveAssign(p, q),
           holds[p] \in made \cup {"empty"}, Ptr!After(holds[p], "empty"),
           UNCHANGED <<class, made, loading, dropped, overlap>>,
           \A o \in made : holds[p] = o => OwnerCount(o)' = OwnerCount(o) - 1,
           \A o \in made : holds[p] # o => OwnerCount(o)' = OwnerCount(o)
    PROVE  PtrInv'
<1>1. PtrTypes /\ PtrQuiet /\ made \subseteq Objects /\ "empty" \notin Objects
  BY PointersAssumption DEF PtrInv, PtrTypes
<1>2. /\ cnt' \in [Objects -> Int] /\ freed' \in [Objects -> Nat]
      /\ \A o \in Objects :
             /\ holds[p] = o => cnt'[o] = cnt[o] - 1
             /\ holds[p] # o => cnt'[o] = cnt[o]
             /\ holds[p] = o /\ cnt[o] = 1 => freed'[o] = freed[o] + 1
             /\ ~(holds[p] = o /\ cnt[o] = 1) => freed'[o] = freed[o]
  BY <1>1, AfterCounts
<1>3. ASSUME NEW o \in made PROVE Fate(o)' /\ cnt'[o] \in Nat
  <2>1. /\ o \in Objects /\ Fate(o) /\ dropped[o] = 0 /\ dropped'[o] = 0 /\ cnt[o] \in Nat
        /\ Ptr!Loading(o) = {} /\ Ptr!Loading(o)' = {}
    BY <1>1 DEF PtrInv, PtrTypes, PtrQuiet, Ptr!Loading
  <2>2. CASE holds[p] = o
    <3>1. OwnerCount(o) \in Nat \ {0}
      BY <1>1, <2>2, OwnersOf
    <3>2. OwnerCount(o)' = OwnerCount(o) - 1
      BY <2>1, <2>2
    <3>3. cnt'[o] = cnt[o] - 1
      BY <1>2, <2>1, <2>2
    <3>4. (cnt[o] = 1 => freed'[o] = freed[o] + 1) /\ (cnt[o] # 1 => freed'[o] = freed[o])
      BY <1>2, <2>1, <2>2
    <3> QED BY <1>1, <2>1, <3>1, <3>2, <3>3, <3>4, FateReleased
  <2>3. CASE holds[p] # o
    BY <1>2, <2>1, <2>3, FateStays
  <2> QED BY <2>2, <2>3
<1>4. ASSUME NEW o \in Objects \ made PROVE freed'[o] = 0 /\ dropped'[o] = 0 /\ cnt'[o] \in Nat
  <2>1. holds[p] # o /\ freed[o] = 0 /\ dropped[o] = 0 /\ cnt[o] \in Nat
    BY <1>1 DEF PtrTypes, PtrQuiet
  <2> QED BY <1>2, <2>1
<1>5. cnt' \in [Objects -> Nat]
  BY <1>2, <1>3, <1>4
<1>6. PtrTypes' /\ PtrQuiet'
  BY <1>1, <1>2, <1>4, <1>5, PtrTypesOnward DEF PtrTypes, PtrQuiet
<1> QED BY <1>3, <1>6 DEF PtrInv

\* Every constructor, assignment and destructor of both classes keeps the counts.
LEMMA PtrStep == PtrInv /\ (Ptr!Next \/ UNCHANGED <<class, ptrVars>>) => PtrInv'
<1> SUFFICES ASSUME PtrInv, Ptr!Next \/ UNCHANGED <<class, ptrVars>> PROVE PtrInv'
  OBVIOUS
<1>a. PtrTypes /\ PtrQuiet /\ \A o \in made : Fate(o)
  BY DEF PtrInv
<1>b. /\ class \in Ptr!Classes /\ made \subseteq Objects
      /\ holds \in [Pointers -> made \cup {"none", "empty"}]
      /\ loading \in [Pointers -> made \cup {"empty"}]
      /\ cnt \in [Objects -> Nat] /\ freed \in [Objects -> Nat]
      /\ dropped \in [Objects -> 0 .. MaxDropped] /\ MaxDropped \in Nat
      /\ overlap \subseteq made /\ dead \in BOOLEAN
      /\ DOMAIN holds = Pointers
  BY <1>a, CountsAssumption DEF PtrTypes
<1>c. \A o \in Objects : o # "none" /\ o # "empty"
  BY PointersAssumption
<1>d. \A o \in made : OwnerCount(o) \in Nat
  BY OwnerCountIsNat
<1>1. ASSUME NEW p \in Pointers, Ptr!DefaultConstruct(p) PROVE PtrInv'
  <2>1. /\ holds[p] = "none" /\ holds' = [holds EXCEPT ![p] = "empty"]
        /\ UNCHANGED <<class, made, loading, cnt, freed, dropped, overlap, dead>>
    BY <1>1 DEF Ptr!DefaultConstruct, Ptr!Free, Ptr!Hold, Ptr!Empty, Ptr!None
  <2>a. holds'[p] = "empty" /\ \A r \in Pointers \ {p} : holds'[r] = holds[r]
    BY <1>b, <2>1
  <2>2. ASSUME NEW o \in made PROVE Fate(o)'
    <3>1. OwnerCount(o)' = OwnerCount(o)
      BY <1>b, <1>c, <2>1, <2>a, HoldCount
    <3>2. Ptr!Loading(o)' = Ptr!Loading(o)
      BY <2>1 DEF Ptr!Loading
    <3> QED BY <1>a, <2>1, <3>1, <3>2, FateStays
  <2>3. PtrTypes' /\ PtrQuiet'
    BY <1>1, <1>a, <2>1, PtrTypesOnward DEF PtrTypes, PtrQuiet
  <2> QED BY <2>1, <2>2, <2>3 DEF PtrInv
<1>2. ASSUME NEW p \in Pointers, NEW n \in Objects, Ptr!Construct(p, n) PROVE PtrInv'
  <2>1. /\ holds[p] = "none" /\ n \notin made /\ made' = made \cup {n}
        /\ holds' = [holds EXCEPT ![p] = n] /\ cnt' = [cnt EXCEPT ![n] = 1]
        /\ UNCHANGED <<class, loading, freed, dropped, overlap, dead>>
    BY <1>2 DEF Ptr!Construct, Ptr!Free, Ptr!Hold, Ptr!None
  <2>a. holds'[p] = n /\ \A r \in Pointers \ {p} : holds'[r] = holds[r]
    BY <1>b, <2>1
  <2>2. ASSUME NEW o \in made PROVE Fate(o)'
    <3>1. OwnerCount(o)' = OwnerCount(o)
      BY <1>b, <1>c, <2>1, <2>a, HoldCount
    <3>2. Ptr!Loading(o)' = Ptr!Loading(o)
      BY <2>1 DEF Ptr!Loading
    <3> QED BY <1>a, <1>b, <2>1, <3>1, <3>2, FateStays
  <2>3. Fate(n)'
    <3>1. Ptr!Owners(n) = {} /\ Ptr!Loading(n) = {}
      BY <1>b, <1>c, <2>1 DEF Ptr!Owners, Ptr!Loading
    <3>2. OwnerCount(n) = 0
      BY <3>1, OwnerCountIsNat
    <3>3. OwnerCount(n)' = 1
      BY <1>b, <1>c, <2>1, <2>a, <3>2, HoldCount
    <3>4. freed'[n] = 0 /\ dropped'[n] = 0 /\ cnt'[n] = 1 /\ Ptr!Loading(n)' = {}
      BY <1>a, <1>b, <2>1, <3>1 DEF PtrQuiet, Ptr!Loading
    <3> QED BY <3>3, <3>4 DEF Fate
  <2>4. PtrTypes' /\ PtrQuiet'
    BY <1>2, <1>a, <1>b, <2>1, PtrTypesOnward DEF PtrTypes, PtrQuiet
  <2> QED BY <2>1, <2>2, <2>3, <2>4 DEF PtrInv
<1>3. ASSUME NEW p \in Pointers, NEW q \in Pointers, Ptr!Copy(p, q) PROVE PtrInv'
  <2>1. /\ holds[p] = "none"
        /\ UNCHANGED <<class, made, loading, freed, dropped, overlap>>
    BY <1>3 DEF Ptr!Copy, Ptr!Free, Ptr!None
  <2>2. CASE UNCHANGED holds
    <3>1. UNCHANGED cnt
      BY <1>3, <1>b, <1>c, <2>2 DEF Ptr!Copy, Ptr!Free, Ptr!Hold, Ptr!Empty, Ptr!None, Ptr!Exists
    <3>2. ASSUME NEW o \in made PROVE Fate(o)'
      <4>1. OwnerCount(o)' = OwnerCount(o) /\ Ptr!Loading(o)' = Ptr!Loading(o)
        BY <2>1, <2>2 DEF OwnerCount, Ptr!Owners, Ptr!Loading
      <4> QED BY <1>a, <2>1, <3>1, <4>1, FateStays
    <3>3. PtrTypes' /\ PtrQuiet'
      BY <1>3, <1>a, <2>1, <3>1, PtrTypesOnward DEF PtrTypes, PtrQuiet
    <3> QED BY <2>1, <3>2, <3>3 DEF PtrInv
  <2>3. CASE holds[q] # "empty" /\ ~UNCHANGED holds
    <3>1. /\ holds[q] \in made /\ holds' = [holds EXCEPT ![p] = holds[q]]
          /\ cnt' = [cnt EXCEPT ![holds[q]] = @ + 1]
      BY <1>3, <1>b, <2>3 DEF Ptr!Copy, Ptr!Hold, Ptr!Empty, Ptr!Exists, Ptr!None
    <3>a. holds'[p] = holds[q] /\ \A r \in Pointers \ {p} : holds'[r] = holds[r]
      BY <1>b, <3>1
    <3>2. ASSUME NEW o \in made PROVE Fate(o)'
      <4>1. Ptr!Loading(o)' = Ptr!Loading(o)
        BY <2>1 DEF Ptr!Loading
      <4>2. /\ holds[q] = o => OwnerCount(o)' = OwnerCount(o) + 1
            /\ holds[q] # o => OwnerCount(o)' = OwnerCount(o)
        BY <1>b, <1>c, <2>1, <3>a, HoldCount
      <4>3. CASE holds[q] = o
        <5>1. cnt'[o] = cnt[o] + 1 /\ cnt[o] = OwnerCount(o) + dropped[o]
          BY <1>a, <1>b, <3>1, <4>3 DEF Fate
        <5>2. OwnerCount(o) \in Nat \ {0}
          BY <1>a, <4>3, OwnersOf
        <5>3. dropped[o] \in Nat /\ dropped'[o] = dropped[o] /\ freed'[o] = freed[o] /\ overlap' = overlap
          BY <1>b, <2>1
        <5>4. cnt'[o] = OwnerCount(o)' + dropped'[o] /\ cnt'[o] \in Nat \ {0}
          BY <4>2, <4>3, <5>1, <5>2, <5>3
        <5> QED BY <1>a, <4>1, <5>2, <5>3, <5>4, FateAlive
      <4>4. CASE holds[q] # o
        <5>1. OwnerCount(o)' = OwnerCount(o)
          BY <1>d, <4>2, <4>4
        <5> QED BY <1>a, <1>b, <2>1, <3>1, <4>1, <4>4, <5>1, FateStays
      <4> QED BY <4>3, <4>4
    <3>3. PtrTypes' /\ PtrQuiet'
      <4>1. cnt' \in [Objects -> Nat]
        BY <1>b, <3>1
      <4> QED BY <1>3, <1>a, <2>1, <4>1, PtrTypesOnward DEF PtrTypes, PtrQuiet
    <3> QED BY <2>1, <3>2, <3>3 DEF PtrInv
  <2>4. CASE holds[q] = "empty" /\ ~UNCHANGED holds
    <3>1. holds' = [holds EXCEPT ![p] = "empty"] /\ UNCHANGED cnt
      BY <1>3, <2>4 DEF Ptr!Copy, Ptr!Hold, Ptr!Empty
    <3>a. holds'[p] = "empty" /\ \A r \in Pointers \ {p} : holds'[r] = holds[r]
      BY <1>b, <3>1
    <3>2. ASSUME NEW o \in made PROVE Fate(o)'
      <4>1. OwnerCount(o)' = OwnerCount(o)
        BY <1>b, <1>c, <2>1, <3>a, HoldCount
      <4>2. Ptr!Loading(o)' = Ptr!Loading(o)
        BY <2>1 DEF Ptr!Loading
      <4> QED BY <1>a, <2>1, <3>1, <4>1, <4>2, FateStays
    <3>3. PtrTypes' /\ PtrQuiet'
      BY <1>3, <1>a, <2>1, <3>1, PtrTypesOnward DEF PtrTypes, PtrQuiet
    <3> QED BY <2>1, <3>2, <3>3 DEF PtrInv
  <2> QED BY <2>2, <2>3, <2>4
<1>4. ASSUME NEW p \in Pointers, NEW q \in Pointers, Ptr!Move(p, q) PROVE PtrInv'
  <2>1. /\ holds[p] = "none" /\ holds' = [holds EXCEPT ![p] = holds[q], ![q] = "empty"]
        /\ UNCHANGED <<class, made, loading, cnt, freed, dropped, overlap, dead>>
    BY <1>4 DEF Ptr!Move, Ptr!Free, Ptr!Empty, Ptr!None
  <2>2. ASSUME NEW o \in made PROVE Fate(o)'
    <3>1. OwnerCount(o)' = OwnerCount(o)
      BY <1>b, <1>c, <1>d, <2>1, MoveCount
    <3>2. Ptr!Loading(o)' = Ptr!Loading(o)
      BY <2>1 DEF Ptr!Loading
    <3> QED BY <1>a, <2>1, <3>1, <3>2, FateStays
  <2>3. PtrTypes' /\ PtrQuiet'
    BY <1>4, <1>a, <2>1, PtrTypesOnward DEF PtrTypes, PtrQuiet
  <2> QED BY <2>1, <2>2, <2>3 DEF PtrInv
<1>6. ASSUME NEW p \in Pointers, NEW q \in Pointers, Ptr!Assign(p, q) PROVE PtrInv'
  <2>1. /\ UNCHANGED <<class, made, loading, overlap>>
        /\ holds[p] \in made \cup {"empty"} /\ holds[q] \in made \cup {"empty"}
    BY <1>6, <1>b DEF Ptr!Assign, Ptr!Exists, Ptr!None
  <2>2. \A o \in made : Ptr!Loading(o)' = Ptr!Loading(o)
    BY <2>1 DEF Ptr!Loading
  <2>3. CASE Ptr!Overwrite(p, q, TRUE) /\ holds[q] # "empty"
    <3>1. /\ class = "SharedPtr" /\ holds' = [holds EXCEPT ![p] = holds[q]]
          /\ Ptr!Forget(holds[p]) /\ cnt' = [cnt EXCEPT ![holds[q]] = @ + 1]
          /\ UNCHANGED freed
      BY <2>3 DEF Ptr!Overwrite, Ptr!Hold
    <3>2. /\ holds'[p] = holds[q] /\ \A r \in Pointers \ {p} : holds'[r] = holds[r]
      BY <1>b, <3>1
    <3>b. dropped' \in [Objects -> 0 .. MaxDropped]
      BY <1>b, <2>1, <3>1 DEF Ptr!Forget, Ptr!Empty
    <3>3. ASSUME NEW o \in Objects
          PROVE  /\ holds[p] = o => dropped'[o] = dropped[o] + 1
                 /\ holds[p] # o => dropped'[o] = dropped[o]
      BY <1>b, <1>c, <2>1, <3>1 DEF Ptr!Forget, Ptr!Empty
    <3>4. ASSUME NEW o \in made PROVE Fate(o)'
      <4>1. /\ o \in Objects /\ cnt[o] \in Nat /\ dropped[o] \in Nat /\ OwnerCount(o) \in Nat
            /\ cnt[o] = OwnerCount(o) + dropped[o]
        BY <1>a, <1>b, <1>d DEF Fate
      <4>2. CASE holds[p] = o
        <5>1. OwnerCount(o) \in Nat \ {0}
          BY <1>a, <4>2, OwnersOf
        <5>2. dropped'[o] = dropped[o] + 1
          BY <3>3, <4>1, <4>2
        <5>3. CASE holds[q] = o
          <6>1. OwnerCount(o)' = OwnerCount(o)
            BY <3>2, <4>2, <5>3, HoldCount
          <6>2. cnt'[o] = cnt[o] + 1
            BY <1>b, <3>1, <4>1, <5>3
          <6>3. cnt'[o] = OwnerCount(o)' + dropped'[o] /\ cnt'[o] \in Nat \ {0}
            BY <4>1, <5>1, <5>2, <6>1, <6>2
          <6> QED BY <1>a, <2>1, <2>2, <3>1, <5>1, <6>3, FateAlive
        <5>4. CASE holds[q] # o
          <6>1. OwnerCount(o)' = OwnerCount(o) - 1
            BY <3>2, <4>2, <5>4, HoldCount
          <6>2. cnt'[o] = cnt[o]
            BY <1>b, <3>1, <4>1, <5>4
          <6>3. cnt'[o] = OwnerCount(o)' + dropped'[o] /\ cnt'[o] \in Nat \ {0}
            BY <4>1, <5>1, <5>2, <6>1, <6>2
          <6> QED BY <1>a, <2>1, <2>2, <3>1, <5>1, <6>3, FateAlive
        <5> QED BY <5>3, <5>4
      <4>3. CASE holds[p] # o /\ holds[q] = o
        <5>1. OwnerCount(o) \in Nat \ {0}
          BY <1>a, <4>3, OwnersOf
        <5>2. dropped'[o] = dropped[o] /\ OwnerCount(o)' = OwnerCount(o) + 1 /\ cnt'[o] = cnt[o] + 1
          BY <1>b, <3>1, <3>2, <3>3, <4>1, <4>3, HoldCount
        <5>3. cnt'[o] = OwnerCount(o)' + dropped'[o] /\ cnt'[o] \in Nat \ {0}
          BY <4>1, <5>1, <5>2
        <5> QED BY <1>a, <2>1, <2>2, <3>1, <5>1, <5>3, FateAlive
      <4>4. CASE holds[p] # o /\ holds[q] # o
        <5>1. dropped'[o] = dropped[o] /\ OwnerCount(o)' = OwnerCount(o) /\ cnt'[o] = cnt[o]
          BY <1>b, <3>1, <3>2, <3>3, <4>1, <4>4, HoldCount
        <5> QED BY <1>a, <2>1, <2>2, <3>1, <5>1, FateStays
      <4> QED BY <4>2, <4>3, <4>4
    <3>5. cnt' \in [Objects -> Nat]
      BY <1>b, <2>1, <2>3, <3>1
    <3>6. ASSUME NEW o \in Objects \ made PROVE freed'[o] = 0 /\ dropped'[o] = 0
      BY <1>a, <1>c, <2>1, <3>1, <3>3, <3>6 DEF PtrQuiet
    <3>7. PtrTypes' /\ PtrQuiet'
      BY <1>6, <1>a, <1>b, <2>1, <3>1, <3>b, <3>5, <3>6, PtrTypesOnward DEF PtrTypes, PtrQuiet
    <3> QED BY <2>1, <3>4, <3>7 DEF PtrInv
  <2>4. CASE UNCHANGED <<holds, cnt, freed, dropped>>
    <3>1. ASSUME NEW o \in made PROVE Fate(o)'
      <4>1. OwnerCount(o)' = OwnerCount(o)
        BY <2>4 DEF OwnerCount, Ptr!Owners
      <4> QED BY <1>a, <2>1, <2>2, <2>4, <4>1, FateStays
    <3>2. PtrTypes' /\ PtrQuiet'
      BY <1>6, <1>a, <2>1, <2>4, PtrTypesOnward DEF PtrTypes, PtrQuiet
    <3> QED BY <2>1, <3>1, <3>2 DEF PtrInv
  <2>5. CASE /\ class = "Shared_ptr" /\ p # q /\ Ptr!Hold(p, holds[q])
             /\ Ptr!After(holds[p], holds[q]) /\ UNCHANGED dropped
    <3>1. /\ holds'[p] = holds[q] /\ \A r \in Pointers \ {p} : holds'[r] = holds[r]
      BY <1>b, <2>5 DEF Ptr!Hold
    <3>2. /\ cnt' \in [Objects -> Int] /\ freed' \in [Objects -> Nat]
          /\ \A o \in Objects :
                 /\ holds[p] = o /\ holds[q] # o => cnt'[o] = cnt[o] - 1
                 /\ holds[p] # o /\ holds[q] = o => cnt'[o] = cnt[o] + 1
                 /\ (holds[p] = o <=> holds[q] = o) => cnt'[o] = cnt[o]
                 /\ holds[p] = o /\ cnt[o] = 1 => freed'[o] = freed[o] + 1
                 /\ ~(holds[p] = o /\ cnt[o] = 1) => freed'[o] = freed[o]
      BY <1>a, <2>1, <2>5, AfterCounts
    <3>3. ASSUME NEW o \in made PROVE Fate(o)' /\ cnt'[o] \in Nat
      <4>1. /\ o \in Objects /\ cnt[o] \in Nat /\ dropped[o] = 0 /\ OwnerCount(o) \in Nat
            /\ cnt[o] = OwnerCount(o) + dropped[o] /\ dropped'[o] = 0
        BY <1>a, <1>b, <1>d, <2>5 DEF Fate, PtrQuiet
      <4>2. Ptr!Loading(o) = {} /\ Ptr!Loading(o)' = {}
        BY <1>a, <1>c, <2>2, <2>5, <4>1 DEF PtrQuiet, Ptr!Loading
      <4>3. CASE holds[p] = o /\ holds[q] = o
        <5>1. OwnerCount(o) - 1 \in Nat \ {0}
          BY <1>a, <2>5, <4>3, TwoOwners
        <5>2. cnt[o] # 1 /\ freed'[o] = freed[o] /\ cnt'[o] = cnt[o]
          BY <3>2, <4>1, <4>3, <5>1
        <5>3. OwnerCount(o)' = OwnerCount(o)
          BY <3>1, <4>3, HoldCount
        <5> QED BY <1>a, <2>1, <2>5, <4>1, <4>2, <5>2, <5>3, FateStays
      <4>4. CASE holds[p] = o /\ holds[q] # o
        <5>1. OwnerCount(o) \in Nat \ {0}
          BY <1>a, <4>4, OwnersOf
        <5>2. OwnerCount(o)' = OwnerCount(o) - 1
          BY <3>1, <4>4, HoldCount
        <5> QED BY <1>a, <3>2, <4>1, <4>2, <4>4, <5>1, <5>2, FateReleased
      <4>5. CASE holds[p] # o /\ holds[q] = o
        <5>1. OwnerCount(o) \in Nat \ {0}
          BY <1>a, <4>5, OwnersOf
        <5>2. OwnerCount(o)' = OwnerCount(o) + 1 /\ cnt'[o] = cnt[o] + 1 /\ freed'[o] = freed[o]
          BY <3>1, <3>2, <4>1, <4>5, HoldCount
        <5>3. cnt'[o] = OwnerCount(o)' + dropped'[o] /\ cnt'[o] \in Nat \ {0}
          BY <4>1, <5>1, <5>2
        <5> QED BY <1>a, <2>1, <4>2, <5>1, <5>2, <5>3, FateAlive
      <4>6. CASE holds[p] # o /\ holds[q] # o
        <5>1. OwnerCount(o)' = OwnerCount(o) /\ cnt'[o] = cnt[o] /\ freed'[o] = freed[o]
          BY <3>1, <3>2, <4>1, <4>6, HoldCount
        <5> QED BY <1>a, <2>1, <2>5, <4>1, <4>2, <5>1, FateStays
      <4> QED BY <4>3, <4>4, <4>5, <4>6
    <3>4. ASSUME NEW o \in Objects \ made
          PROVE  freed'[o] = 0 /\ dropped'[o] = 0 /\ cnt'[o] \in Nat
      BY <1>a, <1>b, <1>c, <2>1, <2>5, <3>2, <3>4 DEF PtrQuiet
    <3>5. PtrTypes' /\ PtrQuiet'
      <4>1. \A o \in Objects : cnt'[o] \in Nat
        BY <3>3, <3>4
      <4>2. cnt' \in [Objects -> Nat]
        BY <3>2, <4>1
      <4> QED BY <1>6, <1>a, <1>b, <2>1, <2>5, <3>2, <3>4, <4>2, PtrTypesOnward DEF PtrTypes, PtrQuiet
    <3> QED BY <2>1, <3>3, <3>5 DEF PtrInv
  <2> QED BY <1>6, <2>3, <2>4, <2>5 DEF Ptr!Assign, Ptr!Empty
<1>7. ASSUME NEW p \in Pointers, NEW q \in Pointers, Ptr!MoveAssign(p, q) PROVE PtrInv'
  <2>1. /\ UNCHANGED <<class, made, loading, overlap, dead>>
        /\ holds[p] \in made \cup {"empty"}
        /\ holds' = [holds EXCEPT ![p] = holds[q], ![q] = "empty"]
    BY <1>7, <1>b DEF Ptr!MoveAssign, Ptr!Exists, Ptr!None, Ptr!Empty
  <2>2. \A o \in made : Ptr!Loading(o)' = Ptr!Loading(o)
    BY <2>1 DEF Ptr!Loading
  <2>a. ASSUME NEW o \in made
        PROVE  /\ holds[p] = o => OwnerCount(o)' = OwnerCount(o) - 1
               /\ holds[p] # o => OwnerCount(o)' = OwnerCount(o)
    BY <1>b, <1>c, <2>1, MoveCount
  <2>3. CASE class = "SharedPtr"
    <3>1. Ptr!Forget(holds[p]) /\ UNCHANGED <<cnt, freed>>
      BY <1>7, <2>3 DEF Ptr!MoveAssign
    <3>2. dropped' \in [Objects -> 0 .. MaxDropped]
      BY <1>b, <2>1, <3>1 DEF Ptr!Forget, Ptr!Empty
    <3>3. ASSUME NEW o \in Objects
          PROVE  /\ holds[p] = o => dropped'[o] = dropped[o] + 1
                 /\ holds[p] # o => dropped'[o] = dropped[o]
      BY <1>b, <1>c, <2>1, <3>1 DEF Ptr!Forget, Ptr!Empty
    <3>4. ASSUME NEW o \in made PROVE Fate(o)'
      <4>1. /\ o \in Objects /\ cnt[o] \in Nat /\ dropped[o] \in Nat
            /\ cnt[o] = OwnerCount(o) + dropped[o]
        BY <1>a, <1>b DEF Fate
      <4>2. CASE holds[p] = o
        <5>1. OwnerCount(o) \in Nat \ {0}
          BY <1>a, <4>2, OwnersOf
        <5>2. dropped'[o] = dropped[o] + 1 /\ OwnerCount(o)' = OwnerCount(o) - 1 /\ cnt'[o] = cnt[o]
          BY <2>a, <3>1, <3>3, <4>1, <4>2
        <5>3. cnt'[o] = OwnerCount(o)' + dropped'[o] /\ cnt'[o] \in Nat \ {0}
          BY <4>1, <5>1, <5>2
        <5> QED BY <1>a, <2>1, <2>2, <3>1, <5>1, <5>3, FateAlive
      <4>3. CASE holds[p] # o
        <5>1. dropped'[o] = dropped[o] /\ OwnerCount(o)' = OwnerCount(o)
          BY <2>a, <3>3, <4>1, <4>3
        <5> QED BY <1>a, <2>1, <2>2, <3>1, <5>1, FateStays
      <4> QED BY <4>2, <4>3
    <3>5. ASSUME NEW o \in Objects \ made PROVE freed'[o] = 0 /\ dropped'[o] = 0
      BY <1>a, <1>c, <2>1, <3>1, <3>3, <3>5 DEF PtrQuiet
    <3>6. PtrTypes' /\ PtrQuiet'
      BY <1>7, <1>a, <2>1, <2>3, <3>1, <3>2, <3>5, PtrTypesOnward DEF PtrTypes, PtrQuiet
    <3> QED BY <2>1, <3>4, <3>6 DEF PtrInv
  <2>4. CASE class = "Shared_ptr"
    <3>1. Ptr!After(holds[p], "empty") /\ UNCHANGED dropped
      BY <1>7, <2>4 DEF Ptr!MoveAssign, Ptr!Empty
    <3> QED BY <1>7, <1>a, <2>1, <2>4, <2>a, <3>1, ReleaseKeeps
  <2> QED BY <1>b, <2>3, <2>4 DEF Ptr!Classes
<1>8. ASSUME NEW p \in Pointers, Ptr!Destroy(p) PROVE PtrInv'
  <2>1. /\ UNCHANGED <<class, made, loading, dropped, overlap, dead>>
        /\ holds[p] \in made \cup {"empty"} /\ Ptr!After(holds[p], "empty")
        /\ class = "Shared_ptr" \/ holds[p] = "empty"
        /\ holds' = [holds EXCEPT ![p] = "none"]
    BY <1>8, <1>b DEF Ptr!Destroy, Ptr!Exists, Ptr!Hold, Ptr!None, Ptr!Empty
  <2>2. holds'[p] = "none" /\ \A r \in Pointers \ {p} : holds'[r] = holds[r]
    BY <1>b, <2>1
  <2>3. ASSUME NEW o \in made
        PROVE  /\ holds[p] = o => OwnerCount(o)' = OwnerCount(o) - 1
               /\ holds[p] # o => OwnerCount(o)' = OwnerCount(o)
    BY <1>b, <1>c, <2>2, HoldCount
  <2>4. CASE class = "Shared_ptr"
    BY <1>8, <1>a, <2>1, <2>3, <2>4, ReleaseKeeps
  <2>5. CASE holds[p] = "empty"
    <3>1. UNCHANGED <<cnt, freed>>
      BY <2>1, <2>5 DEF Ptr!After, Ptr!Empty
    <3>2. ASSUME NEW o \in made PROVE Fate(o)'
      <4>1. OwnerCount(o)' = OwnerCount(o) /\ Ptr!Loading(o)' = Ptr!Loading(o)
        BY <1>b, <1>c, <2>1, <2>3, <2>5 DEF Ptr!Loading
      <4> QED BY <1>a, <2>1, <3>1, <4>1, FateStays
    <3>3. PtrTypes' /\ PtrQuiet'
      BY <1>8, <1>a, <2>1, <3>1, PtrTypesOnward DEF PtrTypes, PtrQuiet
    <3> QED BY <2>1, <3>2, <3>3 DEF PtrInv
  <2> QED BY <2>1, <2>4, <2>5
<1>9. ASSUME NEW p \in Pointers, Ptr!Decrement(p) PROVE PtrInv'
  <2>1. /\ holds[p] \in made /\ loading[p] = "empty" /\ class = "SharedPtr"
        /\ holds' = [holds EXCEPT ![p] = "none"]
        /\ cnt' = [cnt EXCEPT ![holds[p]] = @ - 1]
        /\ loading' = [loading EXCEPT ![p] = holds[p]]
        /\ overlap' = IF Ptr!Loading(holds[p]) # {} THEN overlap \cup {holds[p]} ELSE overlap
        /\ UNCHANGED <<class, made, freed, dropped, dead>>
    BY <1>9, <1>b DEF Ptr!Decrement, Ptr!Exists, Ptr!Idle, Ptr!Hold, Ptr!None, Ptr!Empty
  <2>2. holds'[p] = "none" /\ \A r \in Pointers \ {p} : holds'[r] = holds[r]
    BY <1>b, <2>1
  <2>3. ASSUME NEW o \in made
        PROVE  /\ holds[p] = o => OwnerCount(o)' = OwnerCount(o) - 1
               /\ holds[p] # o => OwnerCount(o)' = OwnerCount(o)
    BY <1>b, <1>c, <2>2, HoldCount
  <2>4. ASSUME NEW o \in made PROVE Fate(o)' /\ cnt'[o] \in Nat
    <3>1. /\ o \in Objects /\ cnt[o] \in Nat /\ dropped[o] \in Nat /\ freed[o] \in Nat
          /\ cnt[o] = OwnerCount(o) + dropped[o]
      BY <1>a, <1>b DEF Fate
    <3>2. CASE holds[p] = o
      <4>1. OwnerCount(o) \in Nat \ {0}
        BY <1>a, <3>2, OwnersOf
      <4>2. cnt'[o] = OwnerCount(o)' + dropped'[o] /\ cnt'[o] \in Nat
        BY <1>b, <2>1, <2>3, <3>1, <3>2, <4>1
      <4>3. freed'[o] = 0
        BY <1>a, <2>1, <3>1, <4>1 DEF Fate
      <4>4. Ptr!Loading(o)' = Ptr!Loading(o) \cup {p}
        BY <1>b, <2>1, <3>2 DEF Ptr!Loading
      <4>5. Ptr!Loading(o) # {} => o \in overlap'
        BY <2>1, <3>2
      <4>6. Fate(o)'
        BY <4>2, <4>3, <4>4, <4>5 DEF Fate
      <4> QED BY <4>2, <4>6
    <3>3. CASE holds[p] # o
      <4>1. OwnerCount(o)' = OwnerCount(o) /\ cnt'[o] = cnt[o]
        BY <1>b, <2>1, <2>3, <3>1, <3>3
      <4>2. Ptr!Loading(o)' = Ptr!Loading(o)
        BY <1>b, <1>c, <2>1, <3>1, <3>3 DEF Ptr!Loading
      <4>3. o \in overlap' <=> o \in overlap
        BY <2>1, <3>3
      <4> QED BY <1>a, <2>1, <3>1, <4>1, <4>2, <4>3, FateStays
    <3> QED BY <3>2, <3>3
  <2>5. cnt' \in [Objects -> Nat]
    BY <1>b, <2>1, <2>4
  <2>6. PtrTypes' /\ PtrQuiet'
    BY <1>9, <1>a, <2>1, <2>5, PtrTypesOnward DEF PtrTypes, PtrQuiet
  <2> QED BY <2>1, <2>4, <2>6 DEF PtrInv
<1>10. ASSUME NEW p \in Pointers, Ptr!LoadAndDelete(p) PROVE PtrInv'
  <2>0. PICK n : n = loading[p]
    OBVIOUS
  <2>1. /\ n \in made /\ n \in Objects
        /\ \/ cnt[n] = 0 /\ freed' = [freed EXCEPT ![n] = @ + 1]
           \/ (cnt[n] # 0 \/ freed[n] > 0) /\ UNCHANGED freed
        /\ loading' = [loading EXCEPT ![p] = "empty"]
        /\ UNCHANGED <<class, made, holds, cnt, dropped, overlap, dead>>
    BY <1>10, <1>b, <2>0 DEF Ptr!LoadAndDelete, Ptr!Empty
  <2>2. \A o \in made : OwnerCount(o)' = OwnerCount(o)
    BY <2>1 DEF OwnerCount, Ptr!Owners
  <2>3. Ptr!Loading(n)' = Ptr!Loading(n) \ {p} /\ p \in Ptr!Loading(n)
    BY <1>b, <1>c, <2>0, <2>1 DEF Ptr!Loading
  <2>4. class = "SharedPtr"
    BY <1>a, <1>b, <1>c, <2>0, <2>1 DEF PtrQuiet, Ptr!Classes
  <2>5. Fate(n)'
    <3>1. Fate(n) /\ cnt'[n] = cnt[n] /\ freed[n] \in Nat /\ cnt[n] \in Nat
      BY <1>a, <1>b, <2>1
    <3>2. n \notin overlap => freed[n] = 0 /\ Ptr!Loading(n)' = {}
      BY <2>3, <3>1 DEF Fate
    <3>3. CASE cnt[n] = 0 /\ freed'[n] = freed[n] + 1
      BY <2>1, <2>2, <3>1, <3>2, <3>3 DEF Fate
    <3>4. CASE (cnt[n] # 0 \/ freed[n] > 0) /\ freed'[n] = freed[n]
      BY <2>1, <2>2, <3>1, <3>2, <3>4 DEF Fate
    <3> QED BY <1>b, <2>1, <3>3, <3>4
  <2>6. ASSUME NEW o \in made, o # n PROVE Fate(o)'
    <3>1. Ptr!Loading(o)' = Ptr!Loading(o)
      BY <1>b, <1>c, <2>0, <2>1, <2>6 DEF Ptr!Loading
    <3>2. freed'[o] = freed[o]
      BY <1>b, <2>1, <2>6
    <3> QED BY <1>a, <2>1, <2>2, <3>1, <3>2, FateStays
  <2>7. freed' \in [Objects -> Nat]
    BY <1>b, <2>1
  <2>8. \A o \in Objects \ made : freed'[o] = freed[o]
    BY <1>b, <2>1
  <2>9. PtrTypes' /\ PtrQuiet'
    BY <1>10, <1>a, <2>1, <2>4, <2>7, <2>8, PtrTypesOnward DEF PtrTypes, PtrQuiet
  <2> QED BY <2>1, <2>5, <2>6, <2>9 DEF PtrInv
<1>5. CASE UNCHANGED <<class, ptrVars>>
  <2>1. UNCHANGED <<class, made, holds, loading, cnt, freed, dropped, overlap, dead>>
    BY <1>5 DEF ptrVars
  <2>2. ASSUME NEW o \in made PROVE Fate(o)'
    <3>1. OwnerCount(o)' = OwnerCount(o) /\ Ptr!Loading(o)' = Ptr!Loading(o)
      BY <2>1 DEF OwnerCount, Ptr!Owners, Ptr!Loading
    <3> QED BY <1>a, <2>1, <3>1, FateStays
  <2> QED BY <1>a, <2>1, <2>2 DEF PtrInv, PtrTypes, PtrQuiet
<1> QED
  BY <1>1, <1>2, <1>3, <1>4, <1>5, <1>6, <1>7, <1>8, <1>9, <1>10 DEF Ptr!Next

\* Counts that agree with the owners decide when an object is deleted.
LEMMA PtrFrees == PtrInv => Ptr!TypeOK /\ Ptr!FreedWithLastOwner
<1> SUFFICES ASSUME PtrInv PROVE Ptr!TypeOK /\ Ptr!FreedWithLastOwner
  OBVIOUS
<1>1. Ptr!TypeOK
  BY DEF PtrInv, PtrTypes, Ptr!TypeOK, Ptr!None, Ptr!Empty
<1>2. ASSUME NEW o \in made
      PROVE  /\ freed[o] > 0 => Ptr!Owners(o) = {} /\ dropped[o] = 0
             /\ freed[o] = 0 => cnt[o] = Cardinality(Ptr!Owners(o)) + dropped[o]
             /\ class = "Shared_ptr" => freed[o] = IF Ptr!Owners(o) = {} THEN 1 ELSE 0
             /\ Ptr!Owners(o) \cup Ptr!Loading(o) = {} => (freed[o] = 0 <=> dropped[o] > 0)
             /\ freed[o] > 1 => o \in overlap
  <2>1. /\ Fate(o) /\ freed[o] \in Nat /\ dropped[o] \in Nat /\ OwnerCount(o) \in Nat
        /\ OwnerCount(o) = 0 <=> Ptr!Owners(o) = {}
    BY OwnerCountIsNat, CountsAssumption DEF PtrInv, PtrTypes
  <2>2. freed[o] > 0 => OwnerCount(o) = 0 /\ dropped[o] = 0
    BY <2>1 DEF Fate
  <2>3. cnt[o] = Cardinality(Ptr!Owners(o)) + dropped[o]
    BY <2>1 DEF Fate, OwnerCount
  <2>4. OwnerCount(o) = 0 /\ Ptr!Loading(o) = {} => (freed[o] = 0 <=> dropped[o] > 0)
    <3>1. OwnerCount(o) = 0 /\ dropped[o] = 0 /\ Ptr!Loading(o) = {} => freed[o] > 0
      BY <2>1 DEF Fate
    <3> QED BY <2>1, <2>2, <3>1
  <2>5. freed[o] > 1 => o \in overlap
    BY <2>1 DEF Fate
  <2>6. ASSUME class = "Shared_ptr" PROVE freed[o] = IF Ptr!Owners(o) = {} THEN 1 ELSE 0
    <3>1. Ptr!Loading(o) = {} /\ dropped[o] = 0 /\ o \notin overlap
      <4>1. o \in Objects /\ o # "empty" /\ PtrQuiet
        BY PointersAssumption DEF PtrInv, PtrTypes
      <4> QED BY <2>6, <4>1 DEF PtrQuiet, Ptr!Loading
    <3> QED BY <2>1, <2>2, <2>4, <2>5, <3>1
  <2> QED BY <2>1, <2>2, <2>3, <2>4, <2>5, <2>6
<1>3. Ptr!FreedWithLastOwner
  BY <1>2, PtrCardinality DEF Ptr!FreedWithLastOwner
<1> QED BY <1>1, <1>3

-----------------------------------------------------------------------------
\* ipc_sem_write.cpp and ipc_sem_read.cpp.
SemPlaces == {"ended", "open empty", "open full", "open mutex", "take", "lock",
              "inside", "give", "unlink empty", "unlink full", "unlink mutex"}

SemTypes ==
    /\ sems \in [Sem!Names -> Seq(Nat)]
    /\ bound \in [Sem!Names -> Nat] /\ handle \in [Sem!Programs -> [Sem!Names -> Nat]]
    /\ at \in [Sem!Programs -> SemPlaces]
    /\ left \in [Sem!Programs -> 0 .. SemRounds]
    /\ starts \in [Sem!Programs -> 0 .. MaxRuns]
    /\ crashes \in 0 .. MaxCrashes
    /\ items \in Seq(Int) /\ Len(items) = Len(sems["full"])

\* Names and processes stand for semaphores that were created, and a process has
\* opened those that its place asks for.
InLoop == {"take", "lock", "inside", "give"}

SemHandles ==
    /\ \A n \in Sem!Names : bound[n] <= Len(sems[n])
    /\ \A p \in Sem!Programs, n \in Sem!Names : handle[p][n] <= Len(sems[n])
    /\ \A p \in Sem!Programs :
          /\ at[p] \in InLoop \cup {"open full", "open mutex"} => handle[p]["empty"] # 0
          /\ at[p] \in InLoop \cup {"open mutex"} => handle[p]["full"] # 0
          /\ at[p] \in InLoop => handle[p]["mutex"] # 0

\* The semaphores that were opened together were created, and whoever is in the
\* loop has opened a pair; the others are as they were created.
SemPairs ==
    /\ \A q \in pairs : q \in (1 .. Len(sems["empty"])) \X (1 .. Len(sems["full"]))
    /\ \A p \in Sem!Programs : at[p] \in InLoop \cup {"open mutex"} =>
           <<handle[p]["empty"], handle[p]["full"]>> \in pairs
    /\ \A e \in 1 .. Len(sems["empty"]) : (\A q \in pairs : q[1] # e) => sems["empty"][e] = BufferSize
    /\ \A f \in 1 .. Len(sems["full"]) : (\A q \in pairs : q[2] # f) =>
           sems["full"][f] = 0 /\ items[f] = 0

Exclusive(q) == \A o \in pairs : o[1] = q[1] <=> o[2] = q[2]

Uses(p, q) == handle[p]["empty"] = q[1] /\ handle[p]["full"] = q[2]

\* A process has a slot and no item in it, or its item is in the buffer and not counted.
HasSlot(p) == at[p] \in IF p = "write" THEN {"lock", "inside"} ELSE {"give"}
HasItem(p) == at[p] \in IF p = "write" THEN {"give"} ELSE {"lock", "inside"}
Putting(p, q) == IF Uses(p, q) /\ HasSlot(p) THEN 1 ELSE 0
Keeping(p, q) == IF Uses(p, q) /\ HasItem(p) THEN 1 ELSE 0

\* What the buffer of a pair holds and what its semaphores count: a killed process
\* takes away what it had.
SlotsCounted(q) ==
    /\ sems["full"][q[2]] + Keeping("write", q) + Keeping("read", q) <= items[q[2]]
    /\ items[q[2]] + sems["empty"][q[1]] + Putting("write", q) + Putting("read", q) <= BufferSize
    /\ crashes = 0 =>
           /\ sems["full"][q[2]] + Keeping("write", q) + Keeping("read", q) = items[q[2]]
           /\ items[q[2]] + sems["empty"][q[1]] + Putting("write", q) + Putting("read", q) = BufferSize

InsideOf(p, m) == IF handle[p]["mutex"] = m /\ at[p] = "inside" THEN 1 ELSE 0
MutexCounted(m) == sems["mutex"][m] + InsideOf("write", m) + InsideOf("read", m) <= 1

SemInv == /\ SemTypes /\ SemHandles /\ SemPairs
          /\ \A q \in pairs : Exclusive(q) => SlotsCounted(q)
          /\ \A m \in 1 .. Len(sems["mutex"]) : MutexCounted(m)
          /\ \A p \in Sem!Programs : at[p] \in {"lock", "inside", "give"} => left[p] # 0

\* The three names and the two programs.
LEMMA SemNames == /\ \A n : n \in Sem!Names <=> n = "empty" \/ n = "full" \/ n = "mutex"
                  /\ \A p : p \in Sem!Programs <=> p = "write" \/ p = "read"
  BY DEF Sem!Names, Sem!Programs

\* There is no semaphore at first.
LEMMA SemInit == Init => SemInv
<1> SUFFICES ASSUME Init PROVE SemInv
  OBVIOUS
<1>1. Sem!Init /\ MaxCrashes \in Nat /\ MaxRuns \in Nat /\ SemRounds \in Nat
  BY CountsAssumption DEF Init
<1>2. <<>> \in Seq(Nat) /\ <<>> \in Seq(Int) /\ Len(<<>>) = 0
  BY EmptySeq
<1>3. /\ \A n \in Sem!Names : sems[n] = <<>> /\ bound[n] = 0
      /\ \A p \in Sem!Programs : at[p] = "ended" /\ \A n \in Sem!Names : handle[p][n] = 0
      /\ items = <<>> /\ pairs = {}
  BY <1>1 DEF Sem!Init
<1>4. sems["full"] = <<>> /\ sems["empty"] = <<>> /\ sems["mutex"] = <<>>
  BY <1>3, SemNames
<1>5. SemTypes
  <2>1. sems \in [Sem!Names -> Seq(Nat)] /\ bound \in [Sem!Names -> Nat]
    BY <1>1, <1>2 DEF Sem!Init
  <2>2. handle \in [Sem!Programs -> [Sem!Names -> Nat]] /\ at \in [Sem!Programs -> SemPlaces]
    BY <1>1 DEF Sem!Init, SemPlaces
  <2>3. left \in [Sem!Programs -> 0 .. SemRounds] /\ starts \in [Sem!Programs -> 0 .. MaxRuns]
        /\ crashes \in 0 .. MaxCrashes
    BY <1>1 DEF Sem!Init
  <2> QED BY <1>2, <1>3, <1>4, <2>1, <2>2, <2>3 DEF SemTypes
<1>6. SemHandles
  <2>1. \A n \in Sem!Names : Len(sems[n]) = 0
    BY <1>2, <1>3
  <2>2. \A p \in Sem!Programs : at[p] \notin InLoop \cup {"open full", "open mutex"}
    BY <1>3 DEF InLoop
  <2>3. /\ \A n \in Sem!Names : bound[n] <= Len(sems[n])
        /\ \A p \in Sem!Programs, n \in Sem!Names : handle[p][n] <= Len(sems[n])
    BY <1>3, <2>1
  <2> QED BY <2>2, <2>3 DEF SemHandles
<1>7. SemPairs
  <2>1. \A p \in Sem!Programs : at[p] \notin InLoop \cup {"open mutex"}
    BY <1>3 DEF InLoop
  <2>2. Len(sems["empty"]) = 0 /\ Len(sems["full"]) = 0
    BY <1>2, <1>4
  <2>3. (\A e \in 1 .. Len(sems["empty"]) : FALSE) /\ (\A f \in 1 .. Len(sems["full"]) : FALSE)
    BY <2>2
  <2>4. \A q \in pairs : FALSE
    BY <1>3
  <2> QED BY <2>1, <2>3, <2>4 DEF SemPairs
<1> QED BY <1>2, <1>3, <1>4, <1>5, <1>6, <1>7 DEF SemInv

\* The cardinality that the module of the semaphores uses is that of the library.
LEMMA SemCardinality == \A S : Sem!Cardinality(S) = Cardinality(S)
  BY DEF Sem!Cardinality, Cardinality

\* The processes that hold a permit of a pair are those that have a slot or an item.
LEMMA HoldersCounted ==
    ASSUME NEW q
    PROVE  Sem!Cardinality(Sem!Holding(q[1], q[2])) =
               Putting("write", q) + Putting("read", q) + Keeping("write", q) + Keeping("read", q)
<1>1. PICK H : H = Sem!Holding(q[1], q[2])
  OBVIOUS
<1>2. \A p : p \in H <=> /\ p = "write" \/ p = "read"
                         /\ Uses(p, q) /\ at[p] \in {"lock", "inside", "give"}
  BY <1>1, SemNames DEF Sem!Holding, Uses
<1>3. ASSUME NEW p, p = "write" \/ p = "read"
      PROVE  Putting(p, q) + Keeping(p, q) = IF p \in H THEN 1 ELSE 0
  BY <1>2, <1>3 DEF Putting, Keeping, HasSlot, HasItem
<1>4. /\ Putting("write", q) \in {0, 1} /\ Putting("read", q) \in {0, 1}
      /\ Keeping("write", q) \in {0, 1} /\ Keeping("read", q) \in {0, 1}
  BY DEF Putting, Keeping
<1>5. Cardinality(H) = (IF "write" \in H THEN 1 ELSE 0) + (IF "read" \in H THEN 1 ELSE 0)
  <2>1. CASE "write" \notin H /\ "read" \notin H
    <3>1. H = {}
      BY <1>2, <2>1
    <3> QED BY <2>1, <3>1, FS_EmptySet
  <2>2. CASE "write" \in H /\ "read" \notin H
    <3>1. H = {"write"}
      BY <1>2, <2>2
    <3> QED BY <2>2, <3>1, FS_Singleton
  <2>3. CASE "write" \notin H /\ "read" \in H
    <3>1. H = {"read"}
      BY <1>2, <2>3
    <3>2. Cardinality({"read"}) = 1
      BY FS_Singleton
    <3> QED BY <2>3, <3>1, <3>2
  <2>4. CASE "write" \in H /\ "read" \in H
    <3>1. H = {"write"} \cup {"read"}
      BY <1>2, <2>4
    <3>2. IsFiniteSet({"write"}) /\ Cardinality({"write"}) = 1 /\ "read" \notin {"write"}
      BY FS_Singleton
    <3>3. Cardinality(H) = 2
      BY <3>1, <3>2, FS_AddElement
    <3> QED BY <2>4, <3>3
  <2> QED BY <2>1, <2>2, <2>3, <2>4
<1>6. Sem!Cardinality(H) = Cardinality(H)
  BY SemCardinality
<1> QED BY <1>1, <1>3, <1>4, <1>5, <1>6

\* The counts give what the processes and the buffer may rely on.
LEMMA SemKeepsSlots == SemInv => Sem!TypeOK /\ Sem!SlotsKept /\ Sem!Excluded
<1> SUFFICES ASSUME SemInv PROVE Sem!TypeOK /\ Sem!SlotsKept /\ Sem!Excluded
  OBVIOUS
<1>a. SemTypes /\ SemHandles /\ SemPairs
  BY DEF SemInv
<1>1. Sem!TypeOK
  <2>1. \A n \in Sem!Names : Len(sems[n]) \in Nat
    BY <1>a, LenProperties DEF SemTypes
  <2>2. ASSUME NEW n \in Sem!Names PROVE bound[n] \in 0 .. Len(sems[n])
    <3>1. bound[n] \in Nat /\ bound[n] <= Len(sems[n])
      BY <1>a DEF SemTypes, SemHandles
    <3> QED BY <2>1, <3>1
  <2>3. ASSUME NEW p \in Sem!Programs, NEW n \in Sem!Names PROVE handle[p][n] \in 0 .. Len(sems[n])
    <3>1. handle[p][n] \in Nat /\ handle[p][n] <= Len(sems[n])
      BY <1>a DEF SemTypes, SemHandles
    <3> QED BY <2>1, <3>1
  <2>4. at \in [Sem!Programs -> Sem!Places]
    BY <1>a DEF SemTypes, SemPlaces, Sem!Places
  <2> QED BY <1>a, <2>2, <2>3, <2>4 DEF SemTypes, Sem!TypeOK
<1>2. Sem!SlotsKept
  <2> SUFFICES ASSUME NEW q \in pairs, Exclusive(q)
               PROVE  /\ items[q[2]] \in 0 .. BufferSize
                      /\ crashes = 0 => sems["empty"][q[1]] + sems["full"][q[2]]
                             = BufferSize - Sem!Cardinality(Sem!Holding(q[1], q[2]))
    BY DEF Sem!SlotsKept, Exclusive
  <2>1. SlotsCounted(q)
    BY DEF SemInv
  <2>2. q[1] \in 1 .. Len(sems["empty"]) /\ q[2] \in 1 .. Len(sems["full"])
    BY <1>a DEF SemPairs
  <2>3. sems["empty"] \in Seq(Nat) /\ sems["full"] \in Seq(Nat) /\ items \in Seq(Int)
        /\ Len(items) = Len(sems["full"])
    BY <1>a, SemNames DEF SemTypes
  <2>4. sems["empty"][q[1]] \in Nat /\ sems["full"][q[2]] \in Nat /\ items[q[2]] \in Int
    BY <2>2, <2>3, ElementOfSeq
  <2>5. /\ Putting("write", q) \in {0, 1} /\ Putting("read", q) \in {0, 1}
        /\ Keeping("write", q) \in {0, 1} /\ Keeping("read", q) \in {0, 1}
    BY DEF Putting, Keeping
  <2>6. BufferSize \in Nat
    BY CountsAssumption
  <2> QED BY <2>1, <2>4, <2>5, <2>6, HoldersCounted DEF SlotsCounted
<1>3. Sem!Excluded
  <2> SUFFICES ASSUME at["write"] = "inside", at["read"] = "inside",
                      handle["write"]["mutex"] = handle["read"]["mutex"]
               PROVE  FALSE
    BY DEF Sem!Excluded
  <2>1. PICK m : m = handle["write"]["mutex"]
    OBVIOUS
  <2>2. sems["mutex"] \in Seq(Nat)
    BY <1>a, SemNames DEF SemTypes
  <2>3. m \in 1 .. Len(sems["mutex"])
    <3>0. "write" \in Sem!Programs /\ "mutex" \in Sem!Names
      BY SemNames
    <3>1. m # 0
      BY <1>a, <2>1, <3>0 DEF SemHandles, InLoop
    <3>3. m <= Len(sems["mutex"])
      BY <1>a, <2>1, <3>0 DEF SemHandles
    <3>4. m \in Nat
      BY <1>a, <2>1, <3>0 DEF SemTypes
    <3>2. Len(sems["mutex"]) \in Nat
      BY <2>2, LenProperties
    <3> QED BY <3>1, <3>2, <3>3, <3>4
  <2>4. sems["mutex"][m] \in Nat
    BY <2>2, <2>3, ElementOfSeq
  <2>5. InsideOf("write", m) = 1 /\ InsideOf("read", m) = 1
    BY <2>1 DEF InsideOf
  <2>6. MutexCounted(m)
    BY <2>3 DEF SemInv
  <2> QED BY <2>4, <2>5, <2>6 DEF MutexCounted
<1> QED BY <1>1, <1>2, <1>3

-----------------------------------------------------------------------------
\* The values that the semaphores and the buffer of a pair have.
LEMMA PairValues ==
    ASSUME SemTypes, SemPairs, NEW q \in pairs
    PROVE  /\ q[1] \in 1 .. Len(sems["empty"]) /\ q[2] \in 1 .. Len(sems["full"])
           /\ q[2] \in 1 .. Len(items)
           /\ sems["empty"][q[1]] \in Nat /\ sems["full"][q[2]] \in Nat /\ items[q[2]] \in Int
<1>1. q[1] \in 1 .. Len(sems["empty"]) /\ q[2] \in 1 .. Len(sems["full"])
  BY DEF SemPairs
<1>2. sems["empty"] \in Seq(Nat) /\ sems["full"] \in Seq(Nat) /\ items \in Seq(Int)
      /\ Len(items) = Len(sems["full"])
  BY SemNames DEF SemTypes
<1> QED BY <1>1, <1>2, ElementOfSeq

\* A step of one process keeps the count of a pair if it moves what the process has
\* to or from the buffer and its semaphores, or is the end of a killed process.
LEMMA CountKept ==
    ASSUME NEW q, NEW p \in Sem!Programs, SlotsCounted(q),
           sems["empty"][q[1]] \in Int, sems["full"][q[2]] \in Int, items[q[2]] \in Int,
           sems'["empty"][q[1]] \in Int, sems'["full"][q[2]] \in Int, items'[q[2]] \in Int,
           \A r \in Sem!Programs \ {p} :
               Putting(r, q)' = Putting(r, q) /\ Keeping(r, q)' = Keeping(r, q),
           sems'["full"][q[2]] + Keeping(p, q)' + items[q[2]]
               <= sems["full"][q[2]] + Keeping(p, q) + items'[q[2]],
           items'[q[2]] + sems'["empty"][q[1]] + Putting(p, q)'
               <= items[q[2]] + sems["empty"][q[1]] + Putting(p, q),
           crashes' = 0 =>
               /\ crashes = 0
               /\ sems'["full"][q[2]] + Keeping(p, q)' + items[q[2]]
                      = sems["full"][q[2]] + Keeping(p, q) + items'[q[2]]
               /\ items'[q[2]] + sems'["empty"][q[1]] + Putting(p, q)'
                      = items[q[2]] + sems["empty"][q[1]] + Putting(p, q)
    PROVE  SlotsCounted(q)'
<1>1. /\ Putting("write", q) \in {0, 1} /\ Putting("read", q) \in {0, 1}
      /\ Keeping("write", q) \in {0, 1} /\ Keeping("read", q) \in {0, 1}
  BY DEF Putting, Keeping
<1>2. /\ Putting("write", q)' \in {0, 1} /\ Putting("read", q)' \in {0, 1}
      /\ Keeping("write", q)' \in {0, 1} /\ Keeping("read", q)' \in {0, 1}
  BY DEF Putting, Keeping
<1>3. BufferSize \in Nat
  BY CountsAssumption
<1>4. /\ Putting("write", q)' + Putting("read", q)' + Putting(p, q)
             = Putting("write", q) + Putting("read", q) + Putting(p, q)'
      /\ Keeping("write", q)' + Keeping("read", q)' + Keeping(p, q)
             = Keeping("write", q) + Keeping("read", q) + Keeping(p, q)'
  <2>1. CASE p = "write"
    <3>1. Putting("read", q)' = Putting("read", q) /\ Keeping("read", q)' = Keeping("read", q)
      BY <2>1, SemNames
    <3> QED BY <1>1, <1>2, <2>1, <3>1
  <2>2. CASE p = "read"
    <3>1. Putting("write", q)' = Putting("write", q) /\ Keeping("write", q)' = Keeping("write", q)
      BY <2>2, SemNames
    <3> QED BY <1>1, <1>2, <2>2, <3>1
  <2> QED BY <2>1, <2>2, SemNames
<1>5. /\ Putting(p, q) \in {0, 1} /\ Putting(p, q)' \in {0, 1}
      /\ Keeping(p, q) \in {0, 1} /\ Keeping(p, q)' \in {0, 1}
  BY DEF Putting, Keeping
<1> QED BY <1>1, <1>2, <1>3, <1>4, <1>5 DEF SlotsCounted

\* The same of a mutex.
LEMMA MutexKept ==
    ASSUME NEW m, NEW p \in Sem!Programs, MutexCounted(m),
           sems["mutex"][m] \in Int, sems'["mutex"][m] \in Int,
           \A r \in Sem!Programs \ {p} : InsideOf(r, m)' = InsideOf(r, m),
           sems'["mutex"][m] + InsideOf(p, m)' <= sems["mutex"][m] + InsideOf(p, m)
    PROVE  MutexCounted(m)'
<1>1. InsideOf("write", m) \in {0, 1} /\ InsideOf("read", m) \in {0, 1}
  BY DEF InsideOf
<1>2. InsideOf("write", m)' \in {0, 1} /\ InsideOf("read", m)' \in {0, 1}
  BY DEF InsideOf
<1>3. CASE p = "write"
  <2>1. InsideOf("read", m)' = InsideOf("read", m)
    BY <1>3, SemNames
  <2> QED BY <1>1, <1>2, <1>3, <2>1 DEF MutexCounted
<1>4. CASE p = "read"
  <2>1. InsideOf("write", m)' = InsideOf("write", m)
    BY <1>4, SemNames
  <2> QED BY <1>1, <1>2, <1>4, <2>1 DEF MutexCounted
<1> QED BY <1>3, <1>4, SemNames

\* A process that stays where it is keeps what it has.
LEMMA SameShare ==
    ASSUME NEW r, at'[r] = at[r], handle'[r] = handle[r]
    PROVE  /\ \A q : Putting(r, q)' = Putting(r, q) /\ Keeping(r, q)' = Keeping(r, q)
           /\ \A m : InsideOf(r, m)' = InsideOf(r, m)
BY DEF Putting, Keeping, InsideOf, Uses, HasSlot, HasItem

\* A process that is not between its wait and its post has nothing.
LEMMA NoShare ==
    ASSUME NEW r, at[r] \notin {"lock", "inside", "give"}
    PROVE  /\ \A q : Putting(r, q) = 0 /\ Keeping(r, q) = 0
           /\ \A m : InsideOf(r, m) = 0
BY DEF Putting, Keeping, InsideOf, HasSlot, HasItem

\* The steps that start, close, remove a name and kill touch no semaphore.
Leaves(p, l) ==
    /\ UNCHANGED <<sems, pairs, items>>
    /\ l \in SemPlaces /\ l \notin InLoop \cup {"open full", "open mutex"}
    /\ at' = [at EXCEPT ![p] = l]
    /\ bound' \in [Sem!Names -> Nat] /\ \A n \in Sem!Names : bound'[n] = 0 \/ bound'[n] = bound[n]
    /\ handle' \in [Sem!Programs -> [Sem!Names -> Nat]]
    /\ \A r \in Sem!Programs, n \in Sem!Names : handle'[r][n] = 0 \/ handle'[r][n] = handle[r][n]
    /\ \A r \in Sem!Programs \ {p} : handle'[r] = handle[r] /\ left'[r] = left[r]
    /\ left' \in [Sem!Programs -> 0 .. SemRounds] /\ starts' \in [Sem!Programs -> 0 .. MaxRuns]
    /\ crashes' \in 0 .. MaxCrashes
    /\ crashes' = 0 => crashes = 0 /\ at[p] \notin {"lock", "inside", "give"}

\* Such a step keeps the counts, as a killed process takes away what it had.
LEMMA SemLeaves ==
    ASSUME SemInv, NEW p \in Sem!Programs, NEW l, Leaves(p, l)
    PROVE  SemInv'
<1>a. SemTypes /\ SemHandles /\ SemPairs
  BY DEF SemInv
<1>b. sems' = sems /\ pairs' = pairs /\ items' = items
  BY DEF Leaves
<1>1. /\ at' \in [Sem!Programs -> SemPlaces] /\ at'[p] = l
      /\ \A r \in Sem!Programs \ {p} : at'[r] = at[r] /\ handle'[r] = handle[r]
      /\ l \notin InLoop /\ l # "open full" /\ l # "open mutex"
  BY <1>a DEF SemTypes, Leaves
<1>2. SemTypes'
  BY <1>a, <1>1 DEF SemTypes, Leaves
<1>3. SemHandles'
  <2>0. ASSUME NEW n \in Sem!Names PROVE Len(sems[n]) \in Nat
    BY <1>a, LenProperties DEF SemTypes
  <2>1. ASSUME NEW n \in Sem!Names PROVE bound'[n] <= Len(sems'[n])
    <3>1. bound[n] <= Len(sems[n]) /\ Len(sems'[n]) = Len(sems[n])
      BY <1>a, <1>b DEF SemHandles
    <3>2. bound'[n] = 0 \/ bound'[n] = bound[n]
      BY DEF Leaves
    <3> QED BY <2>0, <3>1, <3>2
  <2>2. ASSUME NEW r \in Sem!Programs, NEW n \in Sem!Names PROVE handle'[r][n] <= Len(sems'[n])
    <3>1. handle[r][n] <= Len(sems[n]) /\ Len(sems'[n]) = Len(sems[n])
      BY <1>a, <1>b DEF SemHandles
    <3>2. handle'[r][n] = 0 \/ handle'[r][n] = handle[r][n]
      BY DEF Leaves
    <3> QED BY <2>0, <3>1, <3>2
  <2>3. ASSUME NEW r \in Sem!Programs
        PROVE  /\ at'[r] \in InLoop \cup {"open full", "open mutex"} => handle'[r]["empty"] # 0
               /\ at'[r] \in InLoop \cup {"open mutex"} => handle'[r]["full"] # 0
               /\ at'[r] \in InLoop => handle'[r]["mutex"] # 0
    BY <1>a, <1>1 DEF SemHandles
  <2> QED BY <2>1, <2>2, <2>3 DEF SemHandles
<1>4. SemPairs'
  <2>1. \A r \in Sem!Programs : at'[r] \in InLoop \cup {"open mutex"} =>
            <<handle'[r]["empty"], handle'[r]["full"]>> \in pairs
    BY <1>a, <1>1 DEF SemPairs
  <2> QED BY <1>a, <1>b, <2>1 DEF SemPairs
<1>5. /\ \A r \in Sem!Programs \ {p} : \A q : Putting(r, q)' = Putting(r, q) /\ Keeping(r, q)' = Keeping(r, q)
      /\ \A r \in Sem!Programs \ {p} : \A m : InsideOf(r, m)' = InsideOf(r, m)
  BY <1>1, SameShare
<1>6. at'[p] \notin {"lock", "inside", "give"}
  BY <1>1 DEF InLoop
<1>7. ASSUME NEW q \in pairs, SlotsCounted(q) PROVE SlotsCounted(q)'
  <2>0. sems["empty"][q[1]] \in Nat /\ sems["full"][q[2]] \in Nat /\ items[q[2]] \in Int
    BY <1>a, PairValues
  <2>1. sems["empty"][q[1]] \in Int /\ sems["full"][q[2]] \in Int
    BY <2>0
  <2>2. Putting(p, q)' = 0 /\ Keeping(p, q)' = 0
    BY <1>6 DEF Putting, Keeping, HasSlot, HasItem
  <2>3. Putting(p, q) \in {0, 1} /\ Keeping(p, q) \in {0, 1}
    BY DEF Putting, Keeping
  <2>4. crashes' = 0 => crashes = 0 /\ Putting(p, q) = 0 /\ Keeping(p, q) = 0
    BY NoShare DEF Leaves
  <2>5. /\ sems'["full"][q[2]] = sems["full"][q[2]] /\ sems'["empty"][q[1]] = sems["empty"][q[1]]
        /\ items'[q[2]] = items[q[2]]
    BY <1>b
  <2>6. /\ sems'["full"][q[2]] + Keeping(p, q)' + items[q[2]]
               <= sems["full"][q[2]] + Keeping(p, q) + items'[q[2]]
        /\ items'[q[2]] + sems'["empty"][q[1]] + Putting(p, q)'
               <= items[q[2]] + sems["empty"][q[1]] + Putting(p, q)
    BY <2>0, <2>2, <2>3, <2>5
  <2>7. crashes' = 0 =>
               /\ crashes = 0
               /\ sems'["full"][q[2]] + Keeping(p, q)' + items[q[2]]
                      = sems["full"][q[2]] + Keeping(p, q) + items'[q[2]]
               /\ items'[q[2]] + sems'["empty"][q[1]] + Putting(p, q)'
                      = items[q[2]] + sems["empty"][q[1]] + Putting(p, q)
    BY <2>0, <2>2, <2>4, <2>5
  <2> QED BY <1>5, <1>7, <2>0, <2>1, <2>5, <2>6, <2>7, CountKept
<1>8. ASSUME NEW m \in 1 .. Len(sems["mutex"]), MutexCounted(m) PROVE MutexCounted(m)'
  <2>1. sems["mutex"][m] \in Nat
    BY <1>a, SemNames, ElementOfSeq DEF SemTypes
  <2>2. InsideOf(p, m)' = 0 /\ InsideOf(p, m) \in {0, 1}
    BY <1>6 DEF InsideOf
  <2>3. sems'["mutex"][m] = sems["mutex"][m]
    BY <1>b
  <2>4. sems["mutex"][m] \in Int /\ sems'["mutex"][m] + InsideOf(p, m)' <= sems["mutex"][m] + InsideOf(p, m)
    BY <2>1, <2>2, <2>3
  <2> QED BY <1>5, <1>8, <2>3, <2>4, MutexKept
<1>9. \A q \in pairs' : Exclusive(q)' => SlotsCounted(q)'
  BY <1>7, <1>b DEF SemInv, Exclusive
<1>10. \A m \in 1 .. Len(sems'["mutex"]) : MutexCounted(m)'
  BY <1>8, <1>b DEF SemInv
<1>11. \A r \in Sem!Programs : at'[r] \in {"lock", "inside", "give"} => left'[r] # 0
  <2>1. \A r \in Sem!Programs \ {p} : left'[r] = left[r]
    BY DEF Leaves
  <2> QED BY <1>1, <1>6, <2>1 DEF SemInv
<1> QED BY <1>2, <1>3, <1>4, <1>9, <1>10, <1>11 DEF SemInv

-----------------------------------------------------------------------------
\* Starting, closing, removing a name and being killed are such steps.
LEMMA SemSmallSteps ==
    ASSUME SemInv, NEW p \in Sem!Programs,
           Sem!Start(p) \/ Sem!Close(p) \/ (p = "write" /\ Sem!Unlink) \/ Sem!Crash(p)
    PROVE  SemInv'
<1>a. SemTypes
  BY DEF SemInv
<1>b. /\ MaxRuns \in Nat /\ MaxCrashes \in Nat /\ starts[p] \in 0 .. MaxRuns /\ crashes \in 0 .. MaxCrashes
      /\ SemRounds \in Nat
  BY <1>a, CountsAssumption DEF SemTypes
<1>c. PICK none \in [Sem!Names -> Nat] : none = [n \in Sem!Names |-> 0]
  OBVIOUS
<1>1. CASE Sem!Start(p)
  <2>1. /\ at[p] = "ended" /\ starts[p] < MaxRuns /\ starts' = [starts EXCEPT ![p] = starts[p] + 1]
        /\ left' = [left EXCEPT ![p] = SemRounds] /\ at' = [at EXCEPT ![p] = "open empty"]
        /\ UNCHANGED <<sems, bound, handle, crashes, pairs, items>>
    BY <1>1 DEF Sem!Start, Sem!Goto
  <2>0. starts[p] < MaxRuns
    BY <1>1 DEF Sem!Start
  <2>2. starts[p] + 1 \in 0 .. MaxRuns /\ SemRounds \in 0 .. SemRounds
    BY <1>b, <2>0
  <2>4. \A r \in Sem!Programs \ {p} : left'[r] = left[r]
    BY <1>a, <2>1 DEF SemTypes
  <2>3. Leaves(p, "open empty")
    BY <2>4, <1>a, <2>1, <2>2 DEF SemTypes, Leaves, SemPlaces, InLoop
  <2> QED BY <2>3, SemLeaves
<1>2. CASE Sem!Close(p)
  <2>1. PICK l : l = IF p = "write" THEN "unlink empty" ELSE "ended"
    OBVIOUS
  <2>2. /\ at[p] = "take" /\ handle' = [handle EXCEPT ![p] = none] /\ at' = [at EXCEPT ![p] = l]
        /\ UNCHANGED <<sems, bound, left, starts, crashes, pairs, items>>
    BY <1>2, <1>c, <2>1 DEF Sem!Close, Sem!Goto
  <2>3. Leaves(p, l)
    <3>1. handle' \in [Sem!Programs -> [Sem!Names -> Nat]]
      BY <1>a, <2>2 DEF SemTypes
    <3>2. \A r \in Sem!Programs, n \in Sem!Names : handle'[r][n] = 0 \/ handle'[r][n] = handle[r][n]
      BY <1>a, <1>c, <2>2 DEF SemTypes
    <3>3. \A r \in Sem!Programs \ {p} : handle'[r] = handle[r]
      BY <1>a, <2>2 DEF SemTypes
    <3> QED BY <1>a, <2>1, <2>2, <3>1, <3>2, <3>3 DEF SemTypes, Leaves, SemPlaces, InLoop
  <2> QED BY <2>3, SemLeaves
<1>3. CASE p = "write" /\ Sem!Unlink
  <2>1. PICK n \in Sem!Names, l \in {"unlink full", "unlink mutex", "ended"} :
            /\ at["write"] \in {"unlink empty", "unlink full", "unlink mutex"}
            /\ bound' = [bound EXCEPT ![n] = 0] /\ at' = [at EXCEPT !["write"] = l]
    BY <1>3, SemNames DEF Sem!Unlink, Sem!Goto
  <2>2. UNCHANGED <<sems, handle, left, starts, crashes, pairs, items>>
    BY <1>3 DEF Sem!Unlink
  <2>3. bound' \in [Sem!Names -> Nat] /\ \A m \in Sem!Names : bound'[m] = 0 \/ bound'[m] = bound[m]
    BY <1>a, <2>1 DEF SemTypes
  <2>4. Leaves(p, l)
    BY <1>a, <1>3, <2>1, <2>2, <2>3 DEF SemTypes, Leaves, SemPlaces, InLoop
  <2> QED BY <2>4, SemLeaves
<1>4. CASE Sem!Crash(p)
  <2>2. /\ crashes < MaxCrashes /\ crashes' = crashes + 1
        /\ handle' = [handle EXCEPT ![p] = none] /\ at' = [at EXCEPT ![p] = "ended"]
        /\ UNCHANGED <<sems, bound, left, starts, pairs, items>>
    BY <1>4, <1>c DEF Sem!Crash, Sem!Goto
  <2>3. Leaves(p, "ended")
    <3>1. handle' \in [Sem!Programs -> [Sem!Names -> Nat]]
      BY <1>a, <2>2 DEF SemTypes
    <3>2. \A r \in Sem!Programs, n \in Sem!Names : handle'[r][n] = 0 \/ handle'[r][n] = handle[r][n]
      BY <1>a, <1>c, <2>2 DEF SemTypes
    <3>3. \A r \in Sem!Programs \ {p} : handle'[r] = handle[r]
      BY <1>a, <2>2 DEF SemTypes
    <3>4. crashes' \in 0 .. MaxCrashes /\ crashes' # 0
      BY <1>b, <2>2
    <3> QED BY <1>a, <2>2, <3>1, <3>2, <3>3, <3>4 DEF SemTypes, Leaves, SemPlaces, InLoop
  <2> QED BY <2>3, SemLeaves
<1> QED BY <1>1, <1>2, <1>3, <1>4

\* sem_open by a process: it goes on to its next place.
Opens(p, n, l) ==
    /\ Sem!Open(p, n) /\ at' = [at EXCEPT ![p] = l] /\ UNCHANGED <<left, starts, crashes>>
    /\ \/ n = "empty" /\ at[p] = "open empty" /\ l = "open full"
       \/ n = "full" /\ at[p] = "open full" /\ l = "open mutex"
       \/ n = "mutex" /\ at[p] = "open mutex" /\ l = "take"
    /\ pairs' = IF n = "full" THEN pairs \cup {<<handle[p]["empty"], handle'[p]["full"]>>} ELSE pairs
    /\ items' = IF n = "full" /\ bound["full"] = 0 THEN Append(items, 0) ELSE items

\* What sem_open leaves: the semaphores there were, and perhaps a new one.
Grown(n) ==
    /\ sems' \in [Sem!Names -> Seq(Nat)] /\ bound' \in [Sem!Names -> Nat]
    /\ \A m \in Sem!Names :
          /\ Len(sems[m]) \in Nat /\ Len(sems'[m]) \in Nat
          /\ Len(sems[m]) <= Len(sems'[m]) /\ bound'[m] <= Len(sems'[m])
          /\ \A j \in 1 .. Len(sems[m]) : sems'[m][j] = sems[m][j]
          /\ \A j \in 1 .. Len(sems'[m]) : j \notin 1 .. Len(sems[m]) => sems'[m][j] = Sem!Initial(m)

Held(p, n) ==
    /\ handle' \in [Sem!Programs -> [Sem!Names -> Nat]]
    /\ \A r \in Sem!Programs \ {p} : handle'[r] = handle[r]
    /\ \A m \in Sem!Names \ {n} : handle'[p][m] = handle[p][m]
    /\ handle'[p][n] \in 1 .. Len(sems'[n])

\* The values that the semaphores are created with.
LEMMA SemInitial == Sem!Initial("empty") = BufferSize /\ Sem!Initial("full") = 0 /\ Sem!Initial("mutex") = 1
  BY DEF Sem!Initial

\* sem_open leaves the semaphores there were, and perhaps a new one.
LEMMA OpenGrows ==
    ASSUME SemTypes, SemHandles, NEW p \in Sem!Programs, NEW n \in Sem!Names, Sem!Open(p, n)
    PROVE  Grown(n) /\ Held(p, n)
           /\ (bound[n] # 0 => sems' = sems)
           /\ (bound[n] = 0 => /\ Len(sems'[n]) = Len(sems[n]) + 1
                               /\ \A m \in Sem!Names \ {n} : sems'[m] = sems[m])
<1>a. \A m \in Sem!Names : sems[m] \in Seq(Nat) /\ Len(sems[m]) \in Nat /\ bound[m] \in Nat
                           /\ bound[m] <= Len(sems[m])
  BY LenProperties DEF SemTypes, SemHandles
<1>b. BufferSize \in Nat
  BY CountsAssumption
<1>c. Sem!Initial(n) \in Nat
  BY <1>b, SemInitial, SemNames
<1>1. CASE bound[n] # 0
  <2>1. handle' = [handle EXCEPT ![p][n] = bound[n]] /\ sems' = sems /\ bound' = bound
    BY <1>1 DEF Sem!Open
  <2>2. bound[n] \in 1 .. Len(sems[n])
    BY <1>a, <1>1
  <2>3. Held(p, n)
    BY <2>1, <2>2 DEF Held, SemTypes
  <2>4. Grown(n)
    BY <1>a, <2>1 DEF Grown, SemTypes
  <2> QED BY <1>1, <2>1, <2>3, <2>4
<1>2. CASE bound[n] = 0
  <2>0. Append(sems[n], Sem!Initial(n)) \in Seq(Nat) /\ Len(sems[n]) + 1 \in Nat
    BY <1>a, <1>c, AddLast
  <2>1. PICK s \in Seq(Nat), k \in Nat : s = Append(sems[n], Sem!Initial(n)) /\ k = Len(sems[n]) + 1
    BY <2>0
  <2>2. /\ handle' = [handle EXCEPT ![p][n] = k] /\ sems' = [sems EXCEPT ![n] = s]
        /\ bound' = [bound EXCEPT ![n] = k]
    BY <1>2, <2>1 DEF Sem!Open
  <2>3. /\ Len(s) = k /\ s[k] = Sem!Initial(n) /\ \A j \in 1 .. Len(sems[n]) : s[j] = sems[n][j]
    BY <1>a, <1>c, <2>1, AddLast
  <2>4. /\ sems' \in [Sem!Names -> Seq(Nat)] /\ sems'[n] = s
        /\ \A m \in Sem!Names \ {n} : sems'[m] = sems[m]
    BY <2>1, <2>2 DEF SemTypes
  <2>5. /\ bound' \in [Sem!Names -> Nat] /\ bound'[n] = k
        /\ \A m \in Sem!Names \ {n} : bound'[m] = bound[m]
    BY <2>1, <2>2 DEF SemTypes
  <2>6. k \in 1 .. Len(s) /\ k = Len(sems[n]) + 1
    BY <1>a, <2>1, <2>3
  <2>7. Held(p, n)
    BY <2>1, <2>2, <2>4, <2>6 DEF Held, SemTypes
  <2>8. Grown(n)
    <3>1. ASSUME NEW m \in Sem!Names, m # n
          PROVE  /\ Len(sems[m]) \in Nat /\ Len(sems'[m]) \in Nat
                 /\ Len(sems[m]) <= Len(sems'[m]) /\ bound'[m] <= Len(sems'[m])
                 /\ \A j \in 1 .. Len(sems[m]) : sems'[m][j] = sems[m][j]
                 /\ \A j \in 1 .. Len(sems'[m]) : j \notin 1 .. Len(sems[m]) => sems'[m][j] = Sem!Initial(m)
      BY <1>a, <2>4, <2>5, <3>1
    <3>2. /\ Len(sems[n]) \in Nat /\ Len(sems'[n]) \in Nat
          /\ Len(sems[n]) <= Len(sems'[n]) /\ bound'[n] <= Len(sems'[n])
          /\ \A j \in 1 .. Len(sems[n]) : sems'[n][j] = sems[n][j]
      BY <1>a, <2>3, <2>4, <2>5, <2>6
    <3>3. \A j \in 1 .. Len(sems'[n]) : j \notin 1 .. Len(sems[n]) => sems'[n][j] = Sem!Initial(n)
      <4>1. \A j \in 1 .. k : j \notin 1 .. Len(sems[n]) => j = k
        BY <1>a, <2>6
      <4> QED BY <2>3, <2>4, <4>1
    <3> QED BY <2>4, <2>5, <3>1, <3>2, <3>3 DEF Grown
  <2> QED BY <1>2, <2>3, <2>4, <2>6, <2>7, <2>8
<1> QED BY <1>1, <1>2

-----------------------------------------------------------------------------
\* A new full semaphore counts an empty buffer.
LEMMA OpenItems ==
    ASSUME SemTypes, SemHandles, NEW p \in Sem!Programs, NEW n \in Sem!Names, NEW l, Opens(p, n, l)
    PROVE  /\ items' \in Seq(Int) /\ Len(items') = Len(sems'["full"])
           /\ \A j \in 1 .. Len(items) : items'[j] = items[j]
           /\ \A j \in 1 .. Len(items') : j \notin 1 .. Len(items) => items'[j] = 0
<1>a. items \in Seq(Int) /\ Len(items) = Len(sems["full"]) /\ Len(items) \in Nat /\ 0 \in Int
  BY LenProperties DEF SemTypes
<1>b. Grown(n) /\ (bound[n] # 0 => sems' = sems)
      /\ (bound[n] = 0 => /\ Len(sems'[n]) = Len(sems[n]) + 1
                          /\ \A m \in Sem!Names \ {n} : sems'[m] = sems[m])
  BY OpenGrows DEF Opens
<1>1. CASE n = "full" /\ bound["full"] = 0
  <2>1. items' = Append(items, 0) /\ Len(sems'["full"]) = Len(sems["full"]) + 1
    BY <1>1, <1>b DEF Opens
  <2>2. /\ Append(items, 0) \in Seq(Int) /\ Len(Append(items, 0)) = Len(items) + 1
        /\ \A j \in 1 .. Len(items) : Append(items, 0)[j] = items[j]
        /\ Append(items, 0)[Len(items) + 1] = 0
    BY <1>a, AddLast
  <2>3. \A j \in 1 .. Len(items) + 1 : j \notin 1 .. Len(items) => j = Len(items) + 1
    BY <1>a
  <2> QED BY <1>a, <2>1, <2>2, <2>3
<1>2. CASE ~(n = "full" /\ bound["full"] = 0)
  <2>1. items' = items
    BY <1>2 DEF Opens
  <2>2. Len(sems'["full"]) = Len(sems["full"])
    BY <1>2, <1>b, SemNames
  <2> QED BY <1>a, <2>1, <2>2
<1> QED BY <1>1, <1>2

\* sem_open keeps the types and what the processes have open.
LEMMA OpenHandles ==
    ASSUME SemTypes, SemHandles, NEW p \in Sem!Programs, NEW n \in Sem!Names, NEW l, Opens(p, n, l)
    PROVE  SemTypes' /\ SemHandles'
<1>1. Grown(n) /\ Held(p, n)
  BY OpenGrows DEF Opens
<1>2. /\ at' \in [Sem!Programs -> SemPlaces] /\ at'[p] = l
      /\ \A r \in Sem!Programs \ {p} : at'[r] = at[r]
  BY DEF SemTypes, Opens, SemPlaces
<1>3. SemTypes'
  BY <1>1, <1>2, OpenItems DEF SemTypes, Grown, Held, Opens
<1>4. \A m \in Sem!Names : bound'[m] <= Len(sems'[m])
  BY <1>1 DEF Grown
<1>5. ASSUME NEW r \in Sem!Programs, NEW m \in Sem!Names PROVE handle'[r][m] <= Len(sems'[m])
  <2>1. Len(sems[m]) \in Nat /\ Len(sems'[m]) \in Nat /\ Len(sems[m]) <= Len(sems'[m])
    BY <1>1 DEF Grown
  <2>2. handle[r][m] <= Len(sems[m]) /\ handle[r][m] \in Nat
    BY DEF SemHandles, SemTypes
  <2>3. handle'[r][m] = handle[r][m] \/ handle'[r][m] \in 1 .. Len(sems'[m])
    BY <1>1 DEF Held
  <2> QED BY <2>1, <2>2, <2>3
<1>6. ASSUME NEW r \in Sem!Programs
      PROVE  /\ at'[r] \in InLoop \cup {"open full", "open mutex"} => handle'[r]["empty"] # 0
             /\ at'[r] \in InLoop \cup {"open mutex"} => handle'[r]["full"] # 0
             /\ at'[r] \in InLoop => handle'[r]["mutex"] # 0
  <2>0. /\ at[r] \in InLoop \cup {"open full", "open mutex"} => handle[r]["empty"] # 0
        /\ at[r] \in InLoop \cup {"open mutex"} => handle[r]["full"] # 0
        /\ at[r] \in InLoop => handle[r]["mutex"] # 0
    BY DEF SemHandles
  <2>1. CASE r # p
    BY <1>1, <1>2, <2>0, <2>1 DEF Held
  <2>2. CASE r = p
    <3>1. handle'[p][n] # 0 /\ \A m \in Sem!Names \ {n} : handle'[p][m] = handle[p][m]
      BY <1>1 DEF Held
    <3>2. \/ n = "empty" /\ at[p] = "open empty" /\ l = "open full"
          \/ n = "full" /\ at[p] = "open full" /\ l = "open mutex"
          \/ n = "mutex" /\ at[p] = "open mutex" /\ l = "take"
      BY DEF Opens
    <3> QED BY <1>2, <2>0, <2>2, <3>1, <3>2, SemNames DEF InLoop
  <2> QED BY <2>1, <2>2
<1> QED BY <1>3, <1>4, <1>5, <1>6 DEF SemHandles

\* sem_open keeps the pairs, and the semaphores outside of all pairs as created.
LEMMA OpenPairs ==
    ASSUME SemTypes, SemHandles, SemPairs, NEW p \in Sem!Programs, NEW n \in Sem!Names, NEW l,
           Opens(p, n, l)
    PROVE  /\ SemPairs'
           /\ \A q \in pairs' : /\ q \in (1 .. Len(sems'["empty"])) \X (1 .. Len(sems'["full"]))
                                /\ q \notin pairs => q[1] \in 1 .. Len(sems["empty"])
<1>1. Grown(n) /\ Held(p, n) /\ SemTypes' /\ SemHandles'
  BY OpenGrows, OpenHandles DEF Opens
<1>2. /\ at'[p] = l /\ \A r \in Sem!Programs \ {p} : at'[r] = at[r]
      /\ pairs \subseteq pairs'
  BY DEF SemTypes, Opens
<1>3. ASSUME NEW m \in Sem!Names, NEW j \in 1 .. Len(sems[m])
      PROVE  j \in 1 .. Len(sems'[m]) /\ sems'[m][j] = sems[m][j]
  <2>1. Len(sems[m]) \in Nat /\ Len(sems'[m]) \in Nat /\ Len(sems[m]) <= Len(sems'[m])
    BY <1>1 DEF Grown
  <2> QED BY <1>1, <2>1 DEF Grown
<1>a. "empty" \in Sem!Names /\ "full" \in Sem!Names
  BY SemNames
<1>4. ASSUME NEW q \in pairs'
      PROVE  /\ q \in (1 .. Len(sems'["empty"])) \X (1 .. Len(sems'["full"]))
             /\ q \notin pairs => q[1] \in 1 .. Len(sems["empty"])
  <2>1. CASE q \in pairs
    <3>1. q \in (1 .. Len(sems["empty"])) \X (1 .. Len(sems["full"]))
      BY <2>1 DEF SemPairs
    <3> QED BY <1>3, <1>a, <2>1, <3>1
  <2>2. CASE q \notin pairs
    <3>1. /\ n = "full" /\ q = <<handle[p]["empty"], handle'[p]["full"]>>
          /\ at[p] = "open full"
      BY <2>2 DEF Opens
    <3>2. handle[p]["empty"] # 0 /\ handle[p]["empty"] <= Len(sems["empty"])
      BY <1>a, <3>1 DEF SemHandles
    <3>3. handle[p]["empty"] \in Nat /\ Len(sems["empty"]) \in Nat
      BY <1>1, <1>a DEF SemTypes, Grown
    <3>4. handle[p]["empty"] \in 1 .. Len(sems["empty"])
      BY <3>2, <3>3
    <3>5. handle'[p]["full"] \in 1 .. Len(sems'["full"])
      BY <1>1, <3>1 DEF Held
    <3> QED BY <1>3, <1>a, <3>1, <3>4, <3>5
  <2> QED BY <2>1, <2>2
<1>5. ASSUME NEW r \in Sem!Programs, at'[r] \in InLoop \cup {"open mutex"}
      PROVE  <<handle'[r]["empty"], handle'[r]["full"]>> \in pairs'
  <2>0. at[r] \in InLoop \cup {"open mutex"} => <<handle[r]["empty"], handle[r]["full"]>> \in pairs
    BY DEF SemPairs
  <2>1. CASE r # p
    BY <1>1, <1>2, <1>5, <2>0, <2>1 DEF Held
  <2>2. CASE r = p
    <3>1. \A m \in Sem!Names \ {n} : handle'[p][m] = handle[p][m]
      BY <1>1 DEF Held
    <3>2. \/ n = "full" /\ at[p] = "open full" /\ l = "open mutex"
          \/ n = "mutex" /\ at[p] = "open mutex" /\ l = "take"
      BY <1>2, <1>5, <2>2 DEF Opens, InLoop
    <3>3. CASE n = "full"
      BY <1>a, <2>2, <3>1, <3>3 DEF Opens
    <3>4. CASE n = "mutex"
      BY <1>a, <1>2, <2>0, <2>2, <3>1, <3>2, <3>4
    <3> QED BY <3>2, <3>3, <3>4
  <2> QED BY <2>1, <2>2
<1>6. ASSUME NEW e \in 1 .. Len(sems'["empty"]), \A q \in pairs' : q[1] # e
      PROVE  sems'["empty"][e] = BufferSize
  <2>1. CASE e \in 1 .. Len(sems["empty"])
    <3>1. sems["empty"][e] = BufferSize
      BY <1>2, <1>6, <2>1 DEF SemPairs
    <3> QED BY <1>3, <1>a, <2>1, <3>1
  <2>2. CASE e \notin 1 .. Len(sems["empty"])
    BY <1>1, <1>a, <2>2, SemInitial DEF Grown
  <2> QED BY <2>1, <2>2
<1>7. ASSUME NEW f \in 1 .. Len(sems'["full"]), \A q \in pairs' : q[2] # f
      PROVE  sems'["full"][f] = 0 /\ items'[f] = 0
  <2>0. Len(items) = Len(sems["full"]) /\ Len(items') = Len(sems'["full"])
    BY <1>1 DEF SemTypes
  <2>1. CASE f \in 1 .. Len(sems["full"])
    <3>1. sems["full"][f] = 0 /\ items[f] = 0
      BY <1>2, <1>7, <2>1 DEF SemPairs
    <3>2. items'[f] = items[f]
      BY <2>0, <2>1, OpenItems
    <3> QED BY <1>3, <1>a, <2>1, <3>1, <3>2
  <2>2. CASE f \notin 1 .. Len(sems["full"])
    <3>1. sems'["full"][f] = 0
      BY <1>1, <1>a, <2>2, SemInitial DEF Grown
    <3>2. items'[f] = 0
      BY <2>0, <2>2, OpenItems
    <3> QED BY <3>1, <3>2
  <2> QED BY <2>1, <2>2
<1>8. SemPairs'
  BY <1>4, <1>5, <1>6, <1>7 DEF SemPairs
<1> QED BY <1>4, <1>8

\* sem_open keeps the counts, and starts those of a new pair with an empty buffer.
LEMMA SemOpens ==
    ASSUME SemInv, NEW p \in Sem!Programs, NEW n \in Sem!Names, NEW l, Opens(p, n, l)
    PROVE  SemInv'
<1>a. SemTypes /\ SemHandles /\ SemPairs
  BY DEF SemInv
<1>1. Grown(n) /\ Held(p, n) /\ SemTypes' /\ SemHandles' /\ SemPairs'
  BY <1>a, OpenGrows, OpenHandles, OpenPairs DEF Opens
<1>2. /\ at'[p] = l /\ \A r \in Sem!Programs \ {p} : at'[r] = at[r] /\ handle'[r] = handle[r]
      /\ pairs \subseteq pairs' /\ crashes' = crashes
  BY <1>1, <1>a DEF SemTypes, Opens, Held
<1>b. "empty" \in Sem!Names /\ "full" \in Sem!Names /\ "mutex" \in Sem!Names
  BY SemNames
<1>3. at[p] \notin {"lock", "inside", "give"} /\ at'[p] \notin {"lock", "inside", "give"}
  BY <1>2 DEF Opens
<1>4. /\ \A q : /\ Putting(p, q) = 0 /\ Keeping(p, q) = 0
                /\ Putting(p, q)' = 0 /\ Keeping(p, q)' = 0
      /\ \A m : InsideOf(p, m) = 0 /\ InsideOf(p, m)' = 0
  BY <1>3 DEF Putting, Keeping, InsideOf, HasSlot, HasItem
<1>5. /\ \A r \in Sem!Programs \ {p} : \A q : Putting(r, q)' = Putting(r, q) /\ Keeping(r, q)' = Keeping(r, q)
      /\ \A r \in Sem!Programs \ {p} : \A m : InsideOf(r, m)' = InsideOf(r, m)
  BY <1>2, SameShare
<1>6. ASSUME NEW q \in pairs, SlotsCounted(q) PROVE SlotsCounted(q)'
  <2>1. /\ q[1] \in 1 .. Len(sems["empty"]) /\ q[2] \in 1 .. Len(sems["full"])
        /\ q[2] \in 1 .. Len(items)
        /\ sems["empty"][q[1]] \in Nat /\ sems["full"][q[2]] \in Nat /\ items[q[2]] \in Int
    BY <1>a, PairValues
  <2>2. /\ sems'["full"][q[2]] = sems["full"][q[2]] /\ sems'["empty"][q[1]] = sems["empty"][q[1]]
        /\ items'[q[2]] = items[q[2]]
    BY <1>1, <1>a, <1>b, <2>1, OpenItems DEF Grown
  <2>3. sems["empty"][q[1]] \in Int /\ sems["full"][q[2]] \in Int
    BY <2>1
  <2>4. /\ sems'["full"][q[2]] + Keeping(p, q)' + items[q[2]]
               = sems["full"][q[2]] + Keeping(p, q) + items'[q[2]]
        /\ items'[q[2]] + sems'["empty"][q[1]] + Putting(p, q)'
               = items[q[2]] + sems["empty"][q[1]] + Putting(p, q)
    BY <1>4, <2>1, <2>2
  <2>5. /\ sems'["full"][q[2]] + Keeping(p, q)' + items[q[2]]
               <= sems["full"][q[2]] + Keeping(p, q) + items'[q[2]]
        /\ items'[q[2]] + sems'["empty"][q[1]] + Putting(p, q)'
               <= items[q[2]] + sems["empty"][q[1]] + Putting(p, q)
    BY <1>4, <2>1, <2>2
  <2> QED BY <1>2, <1>5, <1>6, <2>1, <2>2, <2>3, <2>4, <2>5, CountKept
<1>7. ASSUME NEW q \in pairs' \ pairs, Exclusive(q)' PROVE SlotsCounted(q)'
  <2>1. \A o \in pairs : o[1] # q[1] /\ o[2] # q[2]
    <3>1. ASSUME NEW o \in pairs, o[1] = q[1] \/ o[2] = q[2] PROVE FALSE
      <4>1. o[1] = q[1] /\ o[2] = q[2]
        BY <1>2, <3>1, <1>7 DEF Exclusive
      <4>2. o \in (1 .. Len(sems["empty"])) \X (1 .. Len(sems["full"]))
        BY <1>a DEF SemPairs
      <4>3. q \in (1 .. Len(sems'["empty"])) \X (1 .. Len(sems'["full"]))
        BY <1>1 DEF SemPairs
      <4>4. o = q
        BY <4>1, <4>2, <4>3
      <4> QED BY <4>4
    <3> QED BY <3>1
  <2>2. q[1] \in 1 .. Len(sems["empty"])
    BY <1>a, OpenPairs
  <2>3. sems["empty"][q[1]] = BufferSize
    BY <1>a, <2>1, <2>2 DEF SemPairs
  <2>4. sems'["empty"][q[1]] = BufferSize
    BY <1>1, <1>b, <2>2, <2>3 DEF Grown
  <2>5. sems'["full"][q[2]] = 0 /\ items'[q[2]] = 0
    <3>1. q[2] \in 1 .. Len(sems'["full"]) /\ Len(items') = Len(sems'["full"])
          /\ Len(items) = Len(sems["full"])
      BY <1>1, <1>a DEF SemPairs, SemTypes
    <3>2. CASE q[2] \in 1 .. Len(sems["full"])
      <4>1. sems["full"][q[2]] = 0 /\ items[q[2]] = 0
        BY <1>a, <2>1, <3>2 DEF SemPairs
      <4>2. sems'["full"][q[2]] = sems["full"][q[2]]
        BY <1>1, <1>b, <3>2 DEF Grown
      <4>3. items'[q[2]] = items[q[2]]
        BY <1>a, <3>1, <3>2, OpenItems
      <4> QED BY <4>1, <4>2, <4>3
    <3>3. CASE q[2] \notin 1 .. Len(sems["full"])
      <4>1. sems'["full"][q[2]] = 0
        BY <1>1, <1>b, <3>1, <3>3, SemInitial DEF Grown
      <4>2. items'[q[2]] = 0
        BY <1>a, <3>1, <3>3, OpenItems
      <4> QED BY <4>1, <4>2
    <3> QED BY <3>2, <3>3
  <2>6. \A r \in Sem!Programs : Putting(r, q)' = 0 /\ Keeping(r, q)' = 0
    <3>1. ASSUME NEW r \in Sem!Programs \ {p}, at[r] \in {"lock", "inside", "give"} PROVE ~Uses(r, q)
      <4>1. <<handle[r]["empty"], handle[r]["full"]>> \in pairs
        BY <1>a, <3>1 DEF SemPairs, InLoop
      <4> QED BY <2>1, <4>1 DEF Uses
    <3>2. \A r \in Sem!Programs \ {p} : Putting(r, q) = 0 /\ Keeping(r, q) = 0
      BY <3>1 DEF Putting, Keeping, HasSlot, HasItem
    <3> QED BY <1>4, <1>5, <3>2
  <2>7. /\ Putting("write", q)' = 0 /\ Putting("read", q)' = 0
        /\ Keeping("write", q)' = 0 /\ Keeping("read", q)' = 0
    BY <2>6, SemNames
  <2>8. BufferSize \in Nat
    BY CountsAssumption
  <2> QED BY <2>4, <2>5, <2>7, <2>8 DEF SlotsCounted
<1>8. ASSUME NEW m \in 1 .. Len(sems'["mutex"]) PROVE MutexCounted(m)'
  <2>1. CASE m \in 1 .. Len(sems["mutex"])
    <3>1. MutexCounted(m)
      BY <2>1 DEF SemInv
    <3>2. sems["mutex"][m] \in Nat
      BY <1>a, <2>1, SemNames, ElementOfSeq DEF SemTypes
    <3>3. sems'["mutex"][m] = sems["mutex"][m]
      BY <1>1, <1>b, <2>1 DEF Grown
    <3>4. sems["mutex"][m] \in Int /\ sems'["mutex"][m] + InsideOf(p, m)' <= sems["mutex"][m] + InsideOf(p, m)
      BY <1>4, <3>2, <3>3
    <3> QED BY <1>5, <3>1, <3>3, <3>4, MutexKept
  <2>2. CASE m \notin 1 .. Len(sems["mutex"])
    <3>1. sems'["mutex"][m] = 1
      BY <1>1, <1>b, <2>2, SemInitial DEF Grown
    <3>2. ASSUME NEW r \in Sem!Programs \ {p}, at[r] = "inside" PROVE handle[r]["mutex"] # m
      <4>1. handle[r]["mutex"] # 0 /\ handle[r]["mutex"] <= Len(sems["mutex"])
        BY <1>a, <1>b, <3>2 DEF SemHandles, InLoop
      <4>2. handle[r]["mutex"] \in Nat /\ Len(sems["mutex"]) \in Nat
        BY <1>1, <1>a, <1>b DEF SemTypes, Grown
      <4>3. handle[r]["mutex"] \in 1 .. Len(sems["mutex"])
        BY <4>1, <4>2
      <4> QED BY <2>2, <4>3
    <3>3. \A r \in Sem!Programs \ {p} : InsideOf(r, m) = 0
      BY <3>2 DEF InsideOf
    <3>4. \A r \in Sem!Programs : InsideOf(r, m)' = 0
      BY <1>4, <1>5, <3>3
    <3>5. InsideOf("write", m)' = 0 /\ InsideOf("read", m)' = 0
      BY <3>4, SemNames
    <3> QED BY <3>1, <3>5 DEF MutexCounted
  <2> QED BY <2>1, <2>2
<1>9. ASSUME NEW q \in pairs', Exclusive(q)' PROVE SlotsCounted(q)'
  <2>1. CASE q \in pairs
    <3>1. Exclusive(q)
      BY <1>2, <1>9 DEF Exclusive
    <3> QED BY <1>6, <2>1, <3>1 DEF SemInv
  <2> QED BY <1>7, <1>9, <2>1
<1>10. \A r \in Sem!Programs : at'[r] \in {"lock", "inside", "give"} => left'[r] # 0
  <2>1. left' = left
    BY DEF Opens
  <2> QED BY <1>2, <1>3, <2>1 DEF SemInv
<1> QED BY <1>1, <1>8, <1>9, <1>10 DEF SemInv

\* The three calls of sem_open keep the invariant.
LEMMA SemOpenStep == ASSUME SemInv, NEW p \in Sem!Programs, Sem!OpenStep(p) PROVE SemInv'
<1>1. Opens(p, "empty", "open full") \/ Opens(p, "full", "open mutex") \/ Opens(p, "mutex", "take")
  BY DEF Sem!OpenStep, Sem!Goto, Opens
<1> QED BY <1>1, SemNames, SemOpens

-----------------------------------------------------------------------------
\* The steps of the loop: a process waits for or posts a semaphore it has open.
Changes(p, n, v, l) ==
    /\ sems' = [sems EXCEPT ![n][handle[p][n]] = v]
    /\ at[p] \in InLoop /\ l \in InLoop /\ at' = [at EXCEPT ![p] = l]
    /\ left' \in [Sem!Programs -> 0 .. SemRounds]
    /\ \A r \in Sem!Programs \ {p} : left'[r] = left[r]
    /\ l \in {"lock", "inside", "give"} => left'[p] # 0
    /\ UNCHANGED <<bound, handle, starts, crashes, pairs>>
    /\ \E x \in Int : items' = items \/ items' = [items EXCEPT ![handle[p]["full"]] = x]

\* What they leave: one value is changed, and perhaps what the buffer of the process holds.
Changed(p, n, v) ==
    /\ sems' \in [Sem!Names -> Seq(Nat)]
    /\ \A m \in Sem!Names : Len(sems'[m]) = Len(sems[m])
    /\ \A m \in Sem!Names \ {n} : sems'[m] = sems[m]
    /\ sems'[n][handle[p][n]] = v
    /\ \A j \in 1 .. Len(sems[n]) : j # handle[p][n] => sems'[n][j] = sems[n][j]
    /\ items' \in Seq(Int) /\ Len(items') = Len(items)
    /\ \A j \in 1 .. Len(items) : j # handle[p]["full"] => items'[j] = items[j]

\* A process in the loop has all three semaphores open.
LEMMA HeldInLoop ==
    ASSUME SemTypes, SemHandles, NEW p \in Sem!Programs, at[p] \in InLoop, NEW n \in Sem!Names
    PROVE  handle[p][n] \in 1 .. Len(sems[n]) /\ sems[n] \in Seq(Nat)
           /\ sems[n][handle[p][n]] \in Nat
<1>1. handle[p][n] # 0
  BY SemNames DEF SemHandles
<1>2. handle[p][n] \in Nat /\ sems[n] \in Seq(Nat)
  BY DEF SemTypes
<1>3. handle[p][n] <= Len(sems[n])
  BY DEF SemHandles
<1>4. Len(sems[n]) \in Nat
  BY <1>2, LenProperties
<1>5. handle[p][n] \in 1 .. Len(sems[n])
  BY <1>1, <1>2, <1>3, <1>4
<1> QED BY <1>2, <1>5, ElementOfSeq

\* A step of the loop changes one value.
LEMMA ChangesOne ==
    ASSUME SemTypes, SemHandles, NEW p \in Sem!Programs, NEW n \in Sem!Names, NEW v \in Nat, NEW l,
           Changes(p, n, v, l)
    PROVE  Changed(p, n, v)
<1>1. handle[p][n] \in 1 .. Len(sems[n]) /\ sems[n] \in Seq(Nat)
  BY HeldInLoop DEF Changes
<1>2. PICK s : s = [sems[n] EXCEPT ![handle[p][n]] = v]
  OBVIOUS
<1>3. /\ s \in Seq(Nat) /\ Len(s) = Len(sems[n]) /\ s[handle[p][n]] = v
      /\ \A j \in 1 .. Len(sems[n]) : j # handle[p][n] => s[j] = sems[n][j]
  BY <1>1, <1>2, ExceptSeq
<1>4. sems' = [sems EXCEPT ![n] = s]
  BY <1>2 DEF Changes
<1>5. sems' \in [Sem!Names -> Seq(Nat)] /\ sems'[n] = s
      /\ \A m \in Sem!Names \ {n} : sems'[m] = sems[m]
  BY <1>3, <1>4 DEF SemTypes
<1>6. handle[p]["full"] \in 1 .. Len(items) /\ items \in Seq(Int)
  BY HeldInLoop, SemNames DEF SemTypes, Changes
<1>7. /\ items' \in Seq(Int) /\ Len(items') = Len(items)
      /\ \A j \in 1 .. Len(items) : j # handle[p]["full"] => items'[j] = items[j]
  <2>1. PICK x \in Int : items' = items \/ items' = [items EXCEPT ![handle[p]["full"]] = x]
    BY DEF Changes
  <2>2. /\ [items EXCEPT ![handle[p]["full"]] = x] \in Seq(Int)
        /\ Len([items EXCEPT ![handle[p]["full"]] = x]) = Len(items)
        /\ \A j \in 1 .. Len(items) : j # handle[p]["full"] =>
               [items EXCEPT ![handle[p]["full"]] = x][j] = items[j]
    BY <1>6, ExceptSeq
  <2> QED BY <1>6, <2>1, <2>2
<1> QED BY <1>3, <1>5, <1>7 DEF Changed

\* A process in the loop that does not use an exclusive pair touches neither of its semaphores.
LEMMA NotTouched ==
    ASSUME SemPairs, NEW p \in Sem!Programs, at[p] \in InLoop, NEW q \in pairs, Exclusive(q), ~Uses(p, q)
    PROVE  handle[p]["empty"] # q[1] /\ handle[p]["full"] # q[2]
<1>1. <<handle[p]["empty"], handle[p]["full"]>> \in pairs
  BY DEF SemPairs
<1> QED BY <1>1 DEF Exclusive, Uses

\* The process moves what it has to or from the buffer, the semaphores and the mutex.
Balanced(p, q) ==
    /\ sems'["full"][q[2]] + Keeping(p, q)' + items[q[2]]
           = sems["full"][q[2]] + Keeping(p, q) + items'[q[2]]
    /\ items'[q[2]] + sems'["empty"][q[1]] + Putting(p, q)'
           = items[q[2]] + sems["empty"][q[1]] + Putting(p, q)

MutexBalanced(p, m) ==
    sems'["mutex"][m] + InsideOf(p, m)' = sems["mutex"][m] + InsideOf(p, m)

\* A step of the loop keeps the invariant if the process moves what it has.
LEMMA SemChanges ==
    ASSUME SemInv, NEW p \in Sem!Programs, NEW n \in Sem!Names, NEW v \in Nat, NEW l,
           Changes(p, n, v, l),
           \A q \in pairs : Uses(p, q) => Balanced(p, q),
           \A m \in 1 .. Len(sems["mutex"]) : MutexBalanced(p, m)
    PROVE  SemInv'
<1>a. SemTypes /\ SemHandles /\ SemPairs
  BY DEF SemInv
<1>b. at[p] \in InLoop /\ l \in InLoop /\ handle' = handle /\ pairs' = pairs /\ crashes' = crashes
      /\ bound' = bound
  BY DEF Changes
<1>c. "empty" \in Sem!Names /\ "full" \in Sem!Names /\ "mutex" \in Sem!Names
  BY SemNames
<1>1. Changed(p, n, v)
  BY <1>a, ChangesOne
<1>2. /\ at' \in [Sem!Programs -> SemPlaces] /\ at'[p] = l
      /\ \A r \in Sem!Programs \ {p} : at'[r] = at[r]
  BY <1>a DEF SemTypes, Changes, InLoop, SemPlaces
<1>3. SemTypes'
  BY <1>a, <1>1, <1>2, <1>c DEF SemTypes, Changes, Changed
<1>4. SemHandles'
  <2>1. \A r \in Sem!Programs : at'[r] = at[r] \/ (r = p /\ at[r] \in InLoop)
    BY <1>b, <1>2
  <2>2. \A m \in Sem!Names : Len(sems'[m]) = Len(sems[m])
    BY <1>1 DEF Changed
  <2> QED BY <1>a, <1>b, <2>1, <2>2 DEF SemHandles
<1>5. SemPairs'
  <2>1. /\ Len(sems'["empty"]) = Len(sems["empty"]) /\ Len(sems'["full"]) = Len(sems["full"])
        /\ Len(items) = Len(sems["full"])
    BY <1>a, <1>1, <1>c DEF Changed, SemTypes
  <2>2. <<handle[p]["empty"], handle[p]["full"]>> \in pairs
    BY <1>a, <1>b DEF SemPairs
  <2>3. ASSUME NEW r \in Sem!Programs, at'[r] \in InLoop \cup {"open mutex"}
        PROVE  <<handle'[r]["empty"], handle'[r]["full"]>> \in pairs'
    <3>1. at[r] \in InLoop \cup {"open mutex"}
      BY <1>b, <1>2, <2>3
    <3> QED BY <1>a, <1>b, <3>1 DEF SemPairs
  <2>4. ASSUME NEW e \in 1 .. Len(sems["empty"]), \A q \in pairs : q[1] # e
        PROVE  sems'["empty"][e] = BufferSize
    <3>1. e # handle[p]["empty"]
      BY <2>2, <2>4
    <3>2. sems["empty"][e] = BufferSize
      BY <1>a, <2>4 DEF SemPairs
    <3> QED BY <1>1, <1>c, <3>1, <3>2 DEF Changed
  <2>5. ASSUME NEW f \in 1 .. Len(sems["full"]), \A q \in pairs : q[2] # f
        PROVE  sems'["full"][f] = 0 /\ items'[f] = 0
    <3>1. f # handle[p]["full"]
      BY <2>2, <2>5
    <3>2. sems["full"][f] = 0 /\ items[f] = 0
      BY <1>a, <2>5 DEF SemPairs
    <3>3. sems'["full"][f] = sems["full"][f]
      BY <1>1, <1>c, <3>1 DEF Changed
    <3>4. items'[f] = items[f]
      BY <1>1, <2>1, <3>1 DEF Changed
    <3> QED BY <3>2, <3>3, <3>4
  <2>6. \A q \in pairs : q \in (1 .. Len(sems["empty"])) \X (1 .. Len(sems["full"]))
    BY <1>a DEF SemPairs
  <2> QED BY <1>b, <2>1, <2>3, <2>4, <2>5, <2>6 DEF SemPairs
<1>6. /\ \A r \in Sem!Programs \ {p} : \A q : Putting(r, q)' = Putting(r, q) /\ Keeping(r, q)' = Keeping(r, q)
      /\ \A r \in Sem!Programs \ {p} : \A m : InsideOf(r, m)' = InsideOf(r, m)
  BY <1>2, <1>b, SameShare
<1>7. ASSUME NEW q \in pairs, Exclusive(q) PROVE SlotsCounted(q)'
  <2>1. /\ q[1] \in 1 .. Len(sems["empty"]) /\ q[2] \in 1 .. Len(sems["full"])
        /\ q[2] \in 1 .. Len(items)
        /\ sems["empty"][q[1]] \in Nat /\ sems["full"][q[2]] \in Nat /\ items[q[2]] \in Int
    BY <1>a, PairValues
  <2>2. /\ sems'["empty"][q[1]] \in Nat /\ sems'["full"][q[2]] \in Nat /\ items'[q[2]] \in Int
    <3>1. sems'["empty"] \in Seq(Nat) /\ sems'["full"] \in Seq(Nat) /\ items' \in Seq(Int)
          /\ Len(sems'["empty"]) = Len(sems["empty"]) /\ Len(sems'["full"]) = Len(sems["full"])
          /\ Len(items') = Len(items)
      BY <1>1, <1>c DEF Changed
    <3> QED BY <2>1, <3>1, ElementOfSeq
  <2>3. /\ sems'["full"][q[2]] + Keeping(p, q)' + items[q[2]]
               = sems["full"][q[2]] + Keeping(p, q) + items'[q[2]]
        /\ items'[q[2]] + sems'["empty"][q[1]] + Putting(p, q)'
               = items[q[2]] + sems["empty"][q[1]] + Putting(p, q)
    <3>1. CASE Uses(p, q)
      BY <3>1 DEF Balanced
    <3>2. CASE ~Uses(p, q)
      <4>1. handle[p]["empty"] # q[1] /\ handle[p]["full"] # q[2]
        BY <1>a, <1>b, <1>7, <3>2, NotTouched
      <4>2. sems'["empty"][q[1]] = sems["empty"][q[1]] /\ sems'["full"][q[2]] = sems["full"][q[2]]
        BY <1>1, <1>c, <2>1, <4>1 DEF Changed
      <4>3. items'[q[2]] = items[q[2]]
        BY <1>1, <2>1, <4>1 DEF Changed
      <4>4. Putting(p, q) = 0 /\ Keeping(p, q) = 0 /\ Putting(p, q)' = 0 /\ Keeping(p, q)' = 0
        BY <1>b, <3>2 DEF Putting, Keeping, Uses
      <4> QED BY <2>1, <4>2, <4>3, <4>4
    <3> QED BY <3>1, <3>2
  <2>4. SlotsCounted(q)
    BY <1>7 DEF SemInv
  <2>5. /\ Putting(p, q) \in {0, 1} /\ Keeping(p, q) \in {0, 1}
        /\ Putting(p, q)' \in {0, 1} /\ Keeping(p, q)' \in {0, 1}
    BY DEF Putting, Keeping
  <2>6. /\ sems'["full"][q[2]] + Keeping(p, q)' + items[q[2]]
               <= sems["full"][q[2]] + Keeping(p, q) + items'[q[2]]
        /\ items'[q[2]] + sems'["empty"][q[1]] + Putting(p, q)'
               <= items[q[2]] + sems["empty"][q[1]] + Putting(p, q)
    <3>0. \A a, b \in Nat, i \in Int, k \in {0, 1} : a + k + i \in Int /\ i + b + k \in Int
      OBVIOUS
    <3>1. /\ sems["full"][q[2]] + Keeping(p, q) + items'[q[2]] \in Int
          /\ items[q[2]] + sems["empty"][q[1]] + Putting(p, q) \in Int
      BY <2>1, <2>2, <2>5, <3>0, Zenon
    <3>2. \A a, b \in Int : a = b => a <= b
      OBVIOUS
    <3> QED BY <2>3, <3>1, <3>2
  <2>7. /\ sems["empty"][q[1]] \in Int /\ sems["full"][q[2]] \in Int
        /\ sems'["empty"][q[1]] \in Int /\ sems'["full"][q[2]] \in Int
    <3>1. \A x \in Nat : x \in Int
      OBVIOUS
    <3> QED BY <2>1, <2>2, <3>1, Zenon
  <2> QED BY <1>6, <1>b, <2>1, <2>2, <2>3, <2>4, <2>6, <2>7, CountKept
<1>8. ASSUME NEW m \in 1 .. Len(sems["mutex"]) PROVE MutexCounted(m)'
  <2>1. MutexCounted(m)
    BY DEF SemInv
  <2>2. sems["mutex"][m] \in Nat
    BY <1>a, <1>c, ElementOfSeq DEF SemTypes
  <2>3. sems'["mutex"][m] \in Nat
    <3>1. sems'["mutex"] \in Seq(Nat) /\ Len(sems'["mutex"]) = Len(sems["mutex"])
      BY <1>1, <1>c DEF Changed
    <3> QED BY <3>1, ElementOfSeq
  <2>4. sems'["mutex"][m] + InsideOf(p, m)' <= sems["mutex"][m] + InsideOf(p, m)
    <3>1. InsideOf(p, m) \in {0, 1} /\ InsideOf(p, m)' \in {0, 1}
      BY DEF InsideOf
    <3>2. sems'["mutex"][m] + InsideOf(p, m)' = sems["mutex"][m] + InsideOf(p, m)
      BY DEF MutexBalanced
    <3> QED BY <2>2, <2>3, <3>1, <3>2
  <2>5. sems["mutex"][m] \in Int /\ sems'["mutex"][m] \in Int
    BY <2>2, <2>3
  <2> QED BY <1>6, <2>1, <2>4, <2>5, MutexKept
<1>9. \A q \in pairs' : Exclusive(q)' => SlotsCounted(q)'
  BY <1>7, <1>b DEF Exclusive
<1>10. \A m \in 1 .. Len(sems'["mutex"]) : MutexCounted(m)'
  BY <1>1, <1>8, <1>c DEF Changed
<1>11. \A r \in Sem!Programs : at'[r] \in {"lock", "inside", "give"} => left'[r] # 0
  <2>1. \A r \in Sem!Programs \ {p} : at[r] \in {"lock", "inside", "give"} => left[r] # 0
    BY DEF SemInv
  <2> QED BY <1>2, <2>1 DEF Changes
<1> QED BY <1>3, <1>4, <1>5, <1>9, <1>10, <1>11 DEF SemInv

-----------------------------------------------------------------------------
\* What a process has at its places, of the pair and the mutex that it uses.
LEMMA Shares ==
    ASSUME NEW p \in Sem!Programs
    PROVE  /\ at[p] = "take" => \A q : Putting(p, q) = 0 /\ Keeping(p, q) = 0
           /\ at[p] \in {"lock", "inside"} => \A q : Uses(p, q) =>
                  /\ p = "write" => Putting(p, q) = 1 /\ Keeping(p, q) = 0
                  /\ p = "read" => Putting(p, q) = 0 /\ Keeping(p, q) = 1
           /\ at[p] = "give" => \A q : Uses(p, q) =>
                  /\ p = "write" => Putting(p, q) = 0 /\ Keeping(p, q) = 1
                  /\ p = "read" => Putting(p, q) = 1 /\ Keeping(p, q) = 0
           /\ \A m : InsideOf(p, m) = IF at[p] = "inside" /\ handle[p]["mutex"] = m THEN 1 ELSE 0
BY DEF Putting, Keeping, HasSlot, HasItem, InsideOf

\* The same after a step of the loop to another place.
LEMMA SharesAfter ==
    ASSUME NEW p \in Sem!Programs, NEW l, SemTypes, at' = [at EXCEPT ![p] = l], handle' = handle
    PROVE  /\ l = "take" => \A q : Putting(p, q)' = 0 /\ Keeping(p, q)' = 0
           /\ l \in {"lock", "inside"} => \A q : Uses(p, q) =>
                  /\ p = "write" => Putting(p, q)' = 1 /\ Keeping(p, q)' = 0
                  /\ p = "read" => Putting(p, q)' = 0 /\ Keeping(p, q)' = 1
           /\ l = "give" => \A q : Uses(p, q) =>
                  /\ p = "write" => Putting(p, q)' = 0 /\ Keeping(p, q)' = 1
                  /\ p = "read" => Putting(p, q)' = 1 /\ Keeping(p, q)' = 0
           /\ \A m : InsideOf(p, m)' = IF l = "inside" /\ handle[p]["mutex"] = m THEN 1 ELSE 0
<1>1. at'[p] = l
  BY DEF SemTypes
<1> QED BY <1>1 DEF Putting, Keeping, HasSlot, HasItem, InsideOf, Uses

\* A step that waits for or posts a permit, with the items as they are.
LEMMA PermitMoves ==
    ASSUME SemInv, NEW p \in Sem!Programs, NEW n \in {"empty", "full"}, NEW v \in Nat, NEW l,
           Changes(p, n, v, l), items' = items,
           \/ /\ at[p] = "take" /\ l = "lock" /\ v = sems[n][handle[p][n]] - 1
              /\ \/ p = "write" /\ n = "empty"
                 \/ p = "read" /\ n = "full"
           \/ /\ at[p] = "give" /\ l = "take" /\ v = sems[n][handle[p][n]] + 1
              /\ \/ p = "write" /\ n = "full"
                 \/ p = "read" /\ n = "empty"
    PROVE  SemInv'
<1>a. SemTypes /\ SemHandles /\ SemPairs
  BY DEF SemInv
<1>b. n \in Sem!Names /\ "empty" \in Sem!Names /\ "full" \in Sem!Names /\ "mutex" \in Sem!Names
  BY SemNames
<1>1. Changed(p, n, v)
  BY <1>a, <1>b, ChangesOne
<1>2. at' = [at EXCEPT ![p] = l] /\ handle' = handle
  BY DEF Changes
<1>3. ASSUME NEW m \in 1 .. Len(sems["mutex"]) PROVE MutexBalanced(p, m)
  <2>1. sems'["mutex"] = sems["mutex"]
    BY <1>1, <1>b DEF Changed
  <2>2. InsideOf(p, m) = 0
    BY Shares
  <2>3. InsideOf(p, m)' = 0
    BY <1>a, <1>2, SharesAfter
  <2> QED BY <2>1, <2>2, <2>3 DEF MutexBalanced
<1>4. ASSUME NEW q \in pairs, Uses(p, q) PROVE Balanced(p, q)
  <2>1. sems["empty"][q[1]] \in Nat /\ sems["full"][q[2]] \in Nat /\ items[q[2]] \in Int
    BY <1>a, PairValues
  <2>2. q[1] = handle[p]["empty"] /\ q[2] = handle[p]["full"]
    BY <1>4 DEF Uses
  <2>3. /\ n = "empty" => sems'["empty"][q[1]] = v /\ sems'["full"][q[2]] = sems["full"][q[2]]
        /\ n = "full" => sems'["full"][q[2]] = v /\ sems'["empty"][q[1]] = sems["empty"][q[1]]
    BY <1>1, <1>b, <2>2 DEF Changed
  <2>4. CASE at[p] = "take" /\ l = "lock" /\ v = sems[n][handle[p][n]] - 1
    <3>1. Putting(p, q) = 0 /\ Keeping(p, q) = 0
      BY <2>4, Shares
    <3>2. CASE p = "write" /\ n = "empty"
      <4>1. Putting(p, q)' = 1 /\ Keeping(p, q)' = 0
        BY <1>a, <1>2, <1>4, <2>4, <3>2, SharesAfter
      <4>2. sems'["empty"][q[1]] = sems["empty"][q[1]] - 1 /\ sems'["full"][q[2]] = sems["full"][q[2]]
        BY <2>2, <2>3, <2>4, <3>2
      <4> QED BY <2>1, <3>1, <4>1, <4>2 DEF Balanced
    <3>3. CASE p = "read" /\ n = "full"
      <4>1. Putting(p, q)' = 0 /\ Keeping(p, q)' = 1
        BY <1>a, <1>2, <1>4, <2>4, <3>3, SharesAfter
      <4>2. sems'["full"][q[2]] = sems["full"][q[2]] - 1 /\ sems'["empty"][q[1]] = sems["empty"][q[1]]
        BY <2>2, <2>3, <2>4, <3>3
      <4> QED BY <2>1, <3>1, <4>1, <4>2 DEF Balanced
    <3> QED BY <2>4, <3>2, <3>3
  <2>5. CASE at[p] = "give" /\ l = "take" /\ v = sems[n][handle[p][n]] + 1
    <3>1. Putting(p, q)' = 0 /\ Keeping(p, q)' = 0
      BY <1>a, <1>2, <2>5, SharesAfter
    <3>2. CASE p = "write" /\ n = "full"
      <4>1. Putting(p, q) = 0 /\ Keeping(p, q) = 1
        BY <1>4, <2>5, <3>2, Shares
      <4>2. sems'["full"][q[2]] = sems["full"][q[2]] + 1 /\ sems'["empty"][q[1]] = sems["empty"][q[1]]
        BY <2>2, <2>3, <2>5, <3>2
      <4> QED BY <2>1, <3>1, <4>1, <4>2 DEF Balanced
    <3>3. CASE p = "read" /\ n = "empty"
      <4>1. Putting(p, q) = 1 /\ Keeping(p, q) = 0
        BY <1>4, <2>5, <3>3, Shares
      <4>2. sems'["empty"][q[1]] = sems["empty"][q[1]] + 1 /\ sems'["full"][q[2]] = sems["full"][q[2]]
        BY <2>2, <2>3, <2>5, <3>3
      <4> QED BY <2>1, <3>1, <4>1, <4>2 DEF Balanced
    <3> QED BY <2>5, <3>2, <3>3
  <2> QED BY <2>4, <2>5
<1> QED BY <1>3, <1>4, <1>b, SemChanges

\* sem_wait on empty or full takes a permit.
LEMMA SemTakes ==
    ASSUME SemInv, NEW p \in Sem!Programs, Sem!Take(p), UNCHANGED <<bound, handle, starts, crashes, pairs>>
    PROVE  SemInv'
<1>a. SemTypes /\ SemHandles
  BY DEF SemInv
<1>1. PICK n \in {"empty", "full"} : n = Sem!Taken(p)
  BY DEF Sem!Taken
<1>2. /\ p = "write" => n = "empty"
      /\ p = "read" => n = "full"
  BY <1>1 DEF Sem!Taken
<1>3. /\ at[p] = "take" /\ left[p] > 0 /\ left' = left /\ items' = items
      /\ at' = [at EXCEPT ![p] = "lock"] /\ sems[n][handle[p][n]] > 0
      /\ sems' = [sems EXCEPT ![n][handle[p][n]] = sems[n][handle[p][n]] - 1]
  BY <1>1 DEF Sem!Take, Sem!Wait, Sem!Value, Sem!Goto
<1>4. n \in Sem!Names /\ at[p] \in InLoop
  BY <1>3, SemNames DEF InLoop
<1>5. sems[n][handle[p][n]] \in Nat
  BY <1>a, <1>4, HeldInLoop
<1>6. sems[n][handle[p][n]] > 0
  BY <1>3
<1>7. PICK v \in Nat : v = sems[n][handle[p][n]] - 1
  BY <1>5, <1>6
<1>8. left \in [Sem!Programs -> 0 .. SemRounds] /\ left[p] # 0
  <2>1. left[p] > 0
    BY <1>3
  <2> QED BY <1>a, <2>1 DEF SemTypes
<1>9. Changes(p, n, v, "lock")
  BY <1>3, <1>4, <1>7, <1>8 DEF Changes, InLoop
<1> QED BY <1>2, <1>3, <1>7, <1>9, SemNames, PermitMoves

\* sem_post on full or empty gives one.
LEMMA SemGives ==
    ASSUME SemInv, NEW p \in Sem!Programs, Sem!Give(p), UNCHANGED <<bound, handle, starts, crashes, pairs>>
    PROVE  SemInv'
<1>a. SemTypes /\ SemHandles
  BY DEF SemInv
<1>1. PICK n \in {"empty", "full"} : n = Sem!Given(p)
  BY DEF Sem!Given
<1>2. /\ p = "write" => n = "full"
      /\ p = "read" => n = "empty"
  BY <1>1 DEF Sem!Given
<1>3. /\ at[p] = "give" /\ left' = [left EXCEPT ![p] = left[p] - 1] /\ items' = items
      /\ at' = [at EXCEPT ![p] = "take"]
      /\ sems' = [sems EXCEPT ![n][handle[p][n]] = sems[n][handle[p][n]] + 1]
  BY <1>1 DEF Sem!Give, Sem!Post, Sem!Goto
<1>4. n \in Sem!Names /\ at[p] \in InLoop
  BY <1>3, SemNames DEF InLoop
<1>5. sems[n][handle[p][n]] \in Nat
  BY <1>a, <1>4, HeldInLoop
<1>7. PICK v \in Nat : v = sems[n][handle[p][n]] + 1
  BY <1>5
<1>8. left' \in [Sem!Programs -> 0 .. SemRounds] /\ \A r \in Sem!Programs \ {p} : left'[r] = left[r]
  <2>1. left[p] # 0 /\ left[p] \in 0 .. SemRounds /\ SemRounds \in Nat
    BY <1>3, <1>a, CountsAssumption DEF SemInv, SemTypes
  <2>2. left[p] - 1 \in 0 .. SemRounds
    BY <2>1
  <2> QED BY <1>3, <1>a, <2>2 DEF SemTypes
<1>9. Changes(p, n, v, "take")
  BY <1>3, <1>4, <1>7, <1>8 DEF Changes, InLoop
<1> QED BY <1>2, <1>3, <1>7, <1>9, SemNames, PermitMoves

\* sem_wait on mutex lets a process in.
LEMMA SemLocks ==
    ASSUME SemInv, NEW p \in Sem!Programs, Sem!Lock(p), UNCHANGED <<bound, handle, starts, crashes, pairs>>
    PROVE  SemInv'
<1>a. SemTypes /\ SemHandles /\ SemPairs
  BY DEF SemInv
<1>b. "empty" \in Sem!Names /\ "full" \in Sem!Names /\ "mutex" \in Sem!Names
  BY SemNames
<1>1. PICK h : h = handle[p]["mutex"]
  OBVIOUS
<1>3. /\ at[p] = "lock" /\ left' = left /\ items' = items
      /\ at' = [at EXCEPT ![p] = "inside"] /\ sems["mutex"][h] > 0
      /\ sems' = [sems EXCEPT !["mutex"][h] = sems["mutex"][h] - 1]
  BY <1>1 DEF Sem!Lock, Sem!Wait, Sem!Value, Sem!Goto
<1>4. at[p] \in InLoop
  BY <1>3 DEF InLoop
<1>5. sems["mutex"][h] \in Nat
  BY <1>a, <1>b, <1>1, <1>4, HeldInLoop
<1>6. sems["mutex"][h] > 0
  BY <1>3
<1>7. PICK v \in Nat : v = sems["mutex"][h] - 1
  BY <1>5, <1>6
<1>8. left \in [Sem!Programs -> 0 .. SemRounds] /\ left[p] # 0
  BY <1>a, <1>3 DEF SemInv, SemTypes
<1>9. Changes(p, "mutex", v, "inside")
  BY <1>1, <1>3, <1>4, <1>7, <1>8 DEF Changes, InLoop
<1>10. Changed(p, "mutex", v)
  BY <1>a, <1>b, <1>9, ChangesOne
<1>11. ASSUME NEW q \in pairs, Uses(p, q) PROVE Balanced(p, q)
  <2>1. sems'["empty"] = sems["empty"] /\ sems'["full"] = sems["full"]
    BY <1>10, <1>b DEF Changed
  <2>2. Putting(p, q)' = Putting(p, q) /\ Keeping(p, q)' = Keeping(p, q)
    <3>1. at[p] \in {"lock", "inside"} /\ handle' = handle
      BY <1>3
    <3>2. CASE p = "write"
      <4>1. Putting(p, q) = 1 /\ Keeping(p, q) = 0
        BY <1>11, <3>1, <3>2, Shares
      <4>2. Putting(p, q)' = 1 /\ Keeping(p, q)' = 0
        BY <1>a, <1>3, <1>11, <3>1, <3>2, SharesAfter
      <4> QED BY <4>1, <4>2
    <3>3. CASE p = "read"
      <4>1. Putting(p, q) = 0 /\ Keeping(p, q) = 1
        BY <1>11, <3>1, <3>3, Shares
      <4>2. Putting(p, q)' = 0 /\ Keeping(p, q)' = 1
        BY <1>a, <1>3, <1>11, <3>1, <3>3, SharesAfter
      <4> QED BY <4>1, <4>2
    <3> QED BY <3>2, <3>3, SemNames
  <2> QED BY <1>3, <2>1, <2>2 DEF Balanced
<1>12. ASSUME NEW m \in 1 .. Len(sems["mutex"]) PROVE MutexBalanced(p, m)
  <2>1. InsideOf(p, m) = 0
    BY <1>3, Shares
  <2>2. InsideOf(p, m)' = IF h = m THEN 1 ELSE 0
    BY <1>a, <1>1, <1>3, SharesAfter
  <2>3. /\ h = m => sems'["mutex"][m] = v
        /\ h # m => sems'["mutex"][m] = sems["mutex"][m]
    BY <1>1, <1>10 DEF Changed
  <2>4. sems["mutex"][m] \in Nat
    BY <1>a, <1>b, ElementOfSeq DEF SemTypes
  <2>5. CASE h = m
    BY <1>7, <2>1, <2>2, <2>3, <2>4, <2>5 DEF MutexBalanced
  <2>6. CASE h # m
    BY <2>1, <2>2, <2>3, <2>4, <2>6 DEF MutexBalanced
  <2> QED BY <2>5, <2>6
<1> QED BY <1>9, <1>11, <1>12, <1>b, SemChanges

\* Putting or taking an item and sem_post on mutex move the item and let the process
\* out.
LEMMA SemUnlocks ==
    ASSUME SemInv, NEW p \in Sem!Programs, Sem!Unlock(p), UNCHANGED <<bound, handle, starts, crashes, pairs>>
    PROVE  SemInv'
<1>a. SemTypes /\ SemHandles /\ SemPairs
  BY DEF SemInv
<1>b. "empty" \in Sem!Names /\ "full" \in Sem!Names /\ "mutex" \in Sem!Names
  BY SemNames
<1>1. PICK h, f : h = handle[p]["mutex"] /\ f = handle[p]["full"]
  OBVIOUS
<1>2. PICK x : x = IF p = "write" THEN items[f] + 1 ELSE items[f] - 1
  OBVIOUS
<1>3. /\ at[p] = "inside" /\ left' = left
      /\ at' = [at EXCEPT ![p] = "give"]
      /\ sems' = [sems EXCEPT !["mutex"][h] = sems["mutex"][h] + 1]
      /\ items' = [items EXCEPT ![f] = x]
  BY <1>1, <1>2 DEF Sem!Unlock, Sem!Post, Sem!Goto
<1>4. at[p] \in InLoop
  BY <1>3 DEF InLoop
<1>5. sems["mutex"][h] \in Nat
  BY <1>a, <1>b, <1>1, <1>4, HeldInLoop
<1>6. items \in Seq(Int) /\ f \in 1 .. Len(items)
  BY <1>a, <1>b, <1>1, <1>4, HeldInLoop DEF SemTypes
<1>7. items[f] \in Int /\ x \in Int
  <2>1. items[f] \in Int
    BY <1>6, ElementOfSeq
  <2> QED BY <1>2, <2>1
<1>8. PICK v \in Nat : v = sems["mutex"][h] + 1
  BY <1>5
<1>9. left \in [Sem!Programs -> 0 .. SemRounds] /\ left[p] # 0
  BY <1>a, <1>3 DEF SemInv, SemTypes
<1>10. Changes(p, "mutex", v, "give")
  BY <1>1, <1>3, <1>4, <1>7, <1>8, <1>9 DEF Changes, InLoop
<1>11. Changed(p, "mutex", v)
  BY <1>a, <1>b, <1>10, ChangesOne
<1>12. items'[f] = x
  BY <1>3, <1>6
<1>13. ASSUME NEW q \in pairs, Uses(p, q) PROVE Balanced(p, q)
  <2>1. sems'["empty"] = sems["empty"] /\ sems'["full"] = sems["full"]
    BY <1>11, <1>b DEF Changed
  <2>2. sems["empty"][q[1]] \in Nat /\ sems["full"][q[2]] \in Nat /\ q[2] = f
    BY <1>a, <1>1, <1>13, PairValues DEF Uses
  <2>3. CASE p = "write"
    <3>1. Putting(p, q) = 1 /\ Keeping(p, q) = 0
      BY <1>3, <1>13, <2>3, Shares
    <3>2. Putting(p, q)' = 0 /\ Keeping(p, q)' = 1
      BY <1>a, <1>3, <1>13, <2>3, SharesAfter
    <3>3. items'[q[2]] = items[q[2]] + 1 /\ items[q[2]] \in Int
      BY <1>2, <1>7, <1>12, <2>2, <2>3
    <3> QED BY <2>1, <2>2, <3>1, <3>2, <3>3 DEF Balanced
  <2>4. CASE p = "read"
    <3>1. Putting(p, q) = 0 /\ Keeping(p, q) = 1
      BY <1>3, <1>13, <2>4, Shares
    <3>2. Putting(p, q)' = 1 /\ Keeping(p, q)' = 0
      BY <1>a, <1>3, <1>13, <2>4, SharesAfter
    <3>3. items'[q[2]] = items[q[2]] - 1 /\ items[q[2]] \in Int
      BY <1>2, <1>7, <1>12, <2>2, <2>4
    <3> QED BY <2>1, <2>2, <3>1, <3>2, <3>3 DEF Balanced
  <2> QED BY <2>3, <2>4, SemNames
<1>14. ASSUME NEW m \in 1 .. Len(sems["mutex"]) PROVE MutexBalanced(p, m)
  <2>1. InsideOf(p, m)' = 0
    BY <1>a, <1>3, SharesAfter
  <2>2. InsideOf(p, m) = IF h = m THEN 1 ELSE 0
    BY <1>1, <1>3, Shares
  <2>3. /\ h = m => sems'["mutex"][m] = v
        /\ h # m => sems'["mutex"][m] = sems["mutex"][m]
    BY <1>1, <1>11 DEF Changed
  <2>4. sems["mutex"][m] \in Nat
    BY <1>a, <1>b, ElementOfSeq DEF SemTypes
  <2>5. CASE h = m
    BY <1>8, <2>1, <2>2, <2>3, <2>4, <2>5 DEF MutexBalanced
  <2>6. CASE h # m
    BY <2>1, <2>2, <2>3, <2>4, <2>6 DEF MutexBalanced
  <2> QED BY <2>5, <2>6
<1> QED BY <1>10, <1>13, <1>14, <1>b, SemChanges

\* Every step of both programs keeps the counts.
LEMMA SemStep == SemInv /\ (Sem!Next \/ UNCHANGED semVars) => SemInv'
<1> SUFFICES ASSUME SemInv, Sem!Next \/ UNCHANGED semVars PROVE SemInv'
  OBVIOUS
<1>1. CASE UNCHANGED semVars
  <2>1. /\ sems' = sems /\ bound' = bound /\ handle' = handle /\ at' = at /\ left' = left
        /\ starts' = starts /\ crashes' = crashes /\ pairs' = pairs /\ items' = items
    BY <1>1 DEF semVars
  <2>2. \A q : SlotsCounted(q) => SlotsCounted(q)'
    BY <2>1 DEF SlotsCounted, Putting, Keeping, HasSlot, HasItem, Uses
  <2>3. \A m : MutexCounted(m) => MutexCounted(m)'
    BY <2>1 DEF MutexCounted, InsideOf
  <2>4. SemTypes' /\ SemHandles' /\ SemPairs'
    BY <2>1 DEF SemInv, SemTypes, SemHandles, SemPairs
  <2> QED BY <2>1, <2>2, <2>3, <2>4 DEF SemInv, Exclusive
<1>2. ASSUME NEW p \in Sem!Programs, Sem!Round(p) PROVE SemInv'
  BY <1>2, SemTakes, SemLocks, SemUnlocks, SemGives DEF Sem!Round
<1> QED BY <1>1, <1>2, SemSmallSteps, SemOpenStep DEF Sem!Next, Sem!Step

-----------------------------------------------------------------------------
(***************************************************************************)
(* The programs of operating-systems/process that pass messages: a signal  *)
(* and its mask, shared memory, the message queue and the named pipe.      *)
(***************************************************************************)

\* ipc_sign.cpp. SIGINT is blocked between the two calls of sigprocmask, and only
\* then one can be pending.
SignalInv == /\ Sign!TypeOK /\ Sign!SignalKept
             /\ masked <=> phase \in {"first sleep", "unblock"}
             /\ pending => masked

\* No SIGINT is pending at first.
LEMMA SignalInit == Init => SignalInv
<1> SUFFICES ASSUME Init PROVE SignalInv
  OBVIOUS
<1>1. Sign!Init /\ MaxRaised \in Nat
  BY CountsAssumption DEF Init
<1>2. raised \in 0 .. MaxRaised /\ handled \in 0 .. raised /\ lost \in 0 .. raised
      /\ raised = handled + lost + 0
  BY <1>1 DEF Sign!Init
<1> QED BY <1>1, <1>2 DEF Sign!Init, SignalInv, Sign!TypeOK, Sign!SignalKept

\* Every call of main, and a SIGINT between any two, keeps the account of the signals.
LEMMA SignalStep == SignalInv /\ (Sign!Next \/ UNCHANGED signalVars) => SignalInv'
<1> SUFFICES ASSUME SignalInv, Sign!Next \/ UNCHANGED signalVars PROVE SignalInv'
  OBVIOUS
<1>a. /\ phase \in {"sigaction", "block", "first sleep", "unblock", "second sleep", "end", "killed"}
      /\ masked \in BOOLEAN /\ pending \in BOOLEAN
  BY DEF SignalInv, Sign!TypeOK
<1>n. /\ MaxRaised \in Nat /\ raised \in 0 .. MaxRaised
      /\ handled \in 0 .. raised /\ lost \in 0 .. raised
  BY CountsAssumption DEF SignalInv, Sign!TypeOK
<1>b. /\ phase # "killed" => raised = handled + lost + (IF pending THEN 1 ELSE 0)
      /\ phase = "end" => ~pending
  BY DEF SignalInv, Sign!SignalKept
<1>c. (masked <=> phase \in {"first sleep", "unblock"}) /\ (pending => masked)
  BY DEF SignalInv
<1>1. CASE Sign!Raise
  <2>1. CASE masked /\ pending
    <3>1. /\ raised' = raised + 1 /\ lost' = lost + 1 /\ raised < MaxRaised
          /\ pending' = TRUE /\ UNCHANGED <<handled, masked, phase>>
          /\ phase \in {"first sleep", "unblock"}
      BY <1>1, <1>c, <2>1 DEF Sign!Raise
    <3>2. /\ raised' \in 0 .. MaxRaised /\ handled' \in 0 .. raised' /\ lost' \in 0 .. raised'
          /\ raised' = handled' + lost' + 1
      <4>1. raised = handled + lost + 1
        BY <1>b, <2>1, <3>1
      <4>2. raised' = raised + 1 /\ lost' = lost + 1 /\ raised < MaxRaised /\ handled' = handled
        BY <3>1
      <4> QED BY <1>n, <4>1, <4>2
    <3> QED BY <1>a, <1>n, <1>c, <2>1, <3>1, <3>2 DEF SignalInv, Sign!TypeOK, Sign!SignalKept
  <2>2. CASE masked /\ ~pending
    <3>1. /\ raised' = raised + 1 /\ raised < MaxRaised
          /\ pending' = TRUE /\ UNCHANGED <<handled, lost, masked, phase>>
          /\ phase \in {"first sleep", "unblock"}
      BY <1>1, <1>a, <1>c, <2>2 DEF Sign!Raise
    <3>2. /\ raised' \in 0 .. MaxRaised /\ handled' \in 0 .. raised' /\ lost' \in 0 .. raised'
          /\ raised' = handled' + lost' + 1
      <4>1. raised = handled + lost + 0
        BY <1>b, <2>2, <3>1
      <4>2. raised' = raised + 1 /\ lost' = lost /\ raised < MaxRaised /\ handled' = handled
        BY <3>1
      <4> QED BY <1>n, <4>1, <4>2
    <3> QED BY <1>a, <1>n, <1>c, <2>2, <3>1, <3>2 DEF SignalInv, Sign!TypeOK, Sign!SignalKept
  <2>3. CASE ~masked /\ phase = "sigaction"
    <3>1. /\ raised' = raised + 1 /\ raised < MaxRaised /\ phase' = "killed"
          /\ pending' = FALSE /\ UNCHANGED <<handled, lost, masked>>
      BY <1>1, <1>a, <1>c, <2>3 DEF Sign!Raise
    <3>2. /\ raised' \in 0 .. MaxRaised /\ handled' \in 0 .. raised' /\ lost' \in 0 .. raised'
      <4>1. raised' = raised + 1 /\ lost' = lost /\ raised < MaxRaised /\ handled' = handled
        BY <3>1
      <4> QED BY <1>n, <4>1
    <3> QED BY <1>a, <1>n, <2>3, <3>1, <3>2 DEF SignalInv, Sign!TypeOK, Sign!SignalKept
  <2>4. CASE ~masked /\ phase # "sigaction"
    <3>1. /\ raised' = raised + 1 /\ raised < MaxRaised /\ handled' = handled + 1
          /\ phase' \in {phase, "end"} /\ phase \notin {"first sleep", "unblock", "killed"}
          /\ pending' = FALSE /\ UNCHANGED <<lost, masked>>
      BY <1>1, <1>a, <1>c, <2>4 DEF Sign!Raise
    <3>2. /\ raised' \in 0 .. MaxRaised /\ handled' \in 0 .. raised' /\ lost' \in 0 .. raised'
          /\ raised' = handled' + lost' + 0
      <4>1. raised = handled + lost + 0
        BY <1>b, <1>c, <2>4, <3>1
      <4>2. raised' = raised + 1 /\ lost' = lost /\ raised < MaxRaised /\ handled' = handled + 1
        BY <3>1
      <4> QED BY <1>n, <4>1, <4>2
    <3> QED BY <1>a, <1>n, <2>4, <3>1, <3>2 DEF SignalInv, Sign!TypeOK, Sign!SignalKept
  <2> QED BY <2>1, <2>2, <2>3, <2>4
<1>2. CASE Sign!Install
  BY <1>2, <1>a, <1>n, <1>b, <1>c DEF Sign!Install, Sign!Advance, SignalInv, Sign!TypeOK, Sign!SignalKept
<1>3. CASE Sign!Block
  BY <1>3, <1>a, <1>n, <1>b, <1>c DEF Sign!Block, Sign!Advance, SignalInv, Sign!TypeOK, Sign!SignalKept
<1>4. CASE Sign!FirstSleep
  BY <1>4, <1>a, <1>n, <1>b, <1>c DEF Sign!FirstSleep, Sign!Advance, SignalInv, Sign!TypeOK, Sign!SignalKept
<1>5. CASE Sign!Unblock
  <2>1. /\ phase = "unblock" /\ phase' = "second sleep" /\ masked' = FALSE /\ pending' = FALSE
        /\ pending => handled' = handled + 1
        /\ ~pending => handled' = handled
        /\ UNCHANGED <<raised, lost>>
    BY <1>5, <1>a DEF Sign!Unblock, Sign!Advance, Sign!OldSet
  <2>2. handled' \in 0 .. raised /\ raised = handled' + lost + 0
    <3>1. CASE pending
      <4>1. raised = handled + lost + 1 /\ handled' = handled + 1
        BY <1>b, <2>1, <3>1
      <4> QED BY <1>n, <4>1
    <3>2. CASE ~pending
      <4>1. raised = handled + lost + 0 /\ handled' = handled
        BY <1>b, <2>1, <3>2
      <4> QED BY <1>n, <4>1
    <3> QED BY <3>1, <3>2
  <2> QED BY <1>a, <1>n, <2>1, <2>2 DEF SignalInv, Sign!TypeOK, Sign!SignalKept
<1>6. CASE Sign!SecondSleep
  BY <1>6, <1>a, <1>n, <1>b, <1>c DEF Sign!SecondSleep, Sign!Advance, SignalInv, Sign!TypeOK, Sign!SignalKept
<1>7. CASE UNCHANGED signalVars
  BY <1>7, <1>a, <1>n, <1>b, <1>c DEF signalVars, SignalInv, Sign!TypeOK, Sign!SignalKept
<1> QED BY <1>1, <1>2, <1>3, <1>4, <1>5, <1>6, <1>7 DEF Sign!Next, Sign!Main

-----------------------------------------------------------------------------
\* ipc_shm_write.cpp and ipc_shm_read.cpp.
LEMMA SameLength ==
    ASSUME NEW S, NEW n \in Nat, NEW t \in [1 .. n -> S]
    PROVE  t \in Seq(S) /\ Len(t) = n
<1>1. t \in Seq(S)
  BY SeqDef
<1> QED BY <1>1, LenProperties

\* A number that is not 0 is in the range from 1.
LEMMA NotZero == ASSUME NEW n \in Nat, NEW m \in 0 .. n, m # 0 PROVE m \in 1 .. n
  OBVIOUS

SharedObjects == [sized : BOOLEAN, text : {"zeros", "a part", "message"}]

Sized(i) == objects[i].sized = TRUE
HoldsMessage(i) == objects[i].text = "message"

\* A process has mapped an object once it uses it, and a writer has sized it before it writes.
MappedBefore(p) ==
    /\ stage[p] \in {"truncate", "copy", "copy rest", "print"} => mapped[p] # 0
    /\ stage[p] \in {"copy", "copy rest"} => Sized(mapped[p])

\* Who opened the object after the message was written finds it there.
WillShow(r) == \/ stage[r] = "print" /\ mapped[r] # 0 /\ HoldsMessage(mapped[r])
               \/ stage[r] = "end" /\ shown[r] = "message"

ShmInv ==
    /\ Shm!TypeOK
    /\ \A i \in 1 .. Len(objects) : HoldsMessage(i) => Sized(i)
    /\ \A p \in Shm!Processes : MappedBefore(p)
    /\ \A r \in written : WillShow(r)

\* There is no shared memory at first.
LEMMA ShmInit == Init => ShmInv
<1> SUFFICES ASSUME Init PROVE ShmInv
  OBVIOUS
<1>1. Shm!Init /\ MaxCrashes \in Nat
  BY CountsAssumption DEF Init
<1>2. objects \in Seq(SharedObjects) /\ Len(objects) = 0
  BY <1>1, EmptySeq DEF Shm!Init
<1>3. Shm!TypeOK
  <2>1. shmName \in 0 .. Len(objects) /\ mapped \in [Shm!Processes -> 0 .. Len(objects)]
        /\ killedWriters \in 0 .. MaxCrashes
    BY <1>1, <1>2 DEF Shm!Init
  <2> QED BY <1>1, <1>2, <2>1 DEF Shm!Init, Shm!TypeOK, SharedObjects
<1> QED BY <1>1, <1>2, <1>3 DEF Shm!Init, ShmInv, MappedBefore

\* Objects are never lost, never shrink and keep the message.
Kept == /\ \A i \in 1 .. Len(objects) : /\ HoldsMessage(i) => HoldsMessage(i)'
                                        /\ Sized(i) => Sized(i)'
        /\ \A i \in 1 .. Len(objects') : HoldsMessage(i)' => Sized(i)'

\* A step of process p that keeps them leaves the others where they were.
LEMMA ShmOthers ==
    ASSUME ShmInv, Kept, Shm!TypeOK', NEW p \in Shm!Processes,
           \A q \in Shm!Processes : q # p => stage'[q] = stage[q] /\ mapped'[q] = mapped[q],
           \A r \in Readers : r # p => shown'[r] = shown[r],
           written' \subseteq written \cup {p},
           MappedBefore(p)', p \in written' => WillShow(p)'
    PROVE  ShmInv'
<1>1. /\ Len(objects) \in Nat /\ mapped \in [Shm!Processes -> 0 .. Len(objects)]
      /\ written \subseteq Readers /\ Readers \subseteq Shm!Processes
  BY LenProperties DEF ShmInv, Shm!TypeOK, Shm!Processes
<1>2. ASSUME NEW q \in Shm!Processes, q # p, mapped[q] # 0
      PROVE  /\ HoldsMessage(mapped[q]) => HoldsMessage(mapped[q])'
             /\ Sized(mapped[q]) => Sized(mapped[q])'
  <2>1. mapped[q] \in 1 .. Len(objects) /\ mapped'[q] = mapped[q]
    BY <1>1, <1>2
  <2>2. /\ HoldsMessage(mapped[q]) => objects'[mapped[q]].text = "message"
        /\ Sized(mapped[q]) => objects'[mapped[q]].sized = TRUE
    BY <2>1 DEF Kept, HoldsMessage, Sized
  <2> QED BY <2>1, <2>2 DEF HoldsMessage, Sized
<1>3. ASSUME NEW q \in Shm!Processes, q # p PROVE MappedBefore(q)'
  <2>1. MappedBefore(q) /\ stage'[q] = stage[q] /\ mapped'[q] = mapped[q]
    BY <1>3 DEF ShmInv
  <2> QED BY <1>2, <1>3, <2>1 DEF MappedBefore
<1>4. ASSUME NEW r \in written, r # p PROVE WillShow(r)'
  <2>1. WillShow(r) /\ stage'[r] = stage[r] /\ mapped'[r] = mapped[r] /\ shown'[r] = shown[r]
    BY <1>1, <1>4 DEF ShmInv
  <2> QED BY <1>1, <1>2, <1>4, <2>1 DEF WillShow
<1>5. \A i \in 1 .. Len(objects') : HoldsMessage(i)' => Sized(i)'
  BY DEF Kept
<1> QED BY <1>3, <1>4, <1>5 DEF ShmInv

\* Every call of a writer and a reader keeps what the objects hold known.
LEMMA ShmStep == ShmInv /\ (Shm!Next \/ UNCHANGED shmVars) => ShmInv'
<1> SUFFICES ASSUME ShmInv, Shm!Next \/ UNCHANGED shmVars PROVE ShmInv'
  OBVIOUS
<1>a. /\ objects \in Seq(SharedObjects) /\ Len(objects) \in Nat
      /\ shmName \in 0 .. Len(objects)
      /\ mapped \in [Shm!Processes -> 0 .. Len(objects)]
      /\ killedWriters \in 0 .. MaxCrashes /\ MaxCrashes \in Nat
  BY CountsAssumption, LenProperties DEF ShmInv, Shm!TypeOK, SharedObjects
<1>b. /\ stage \in [Shm!Processes -> {"open", "truncate", "copy", "copy rest", "unlink", "print", "end"}]
      /\ written \subseteq Readers
      /\ shown \in [Readers -> {"nothing", "zeros", "a part", "message", "no object", "bus error"}]
  BY DEF ShmInv, Shm!TypeOK
<1>c. /\ Writers \subseteq Shm!Processes /\ Readers \subseteq Shm!Processes
      /\ \A w \in Writers : w \notin written
  BY <1>b, ProcessesAssumption DEF Shm!Processes
<1>d. /\ \A i \in 1 .. Len(objects) : HoldsMessage(i) => Sized(i)
      /\ \A p \in Shm!Processes : MappedBefore(p)
      /\ \A r \in written : WillShow(r)
  BY DEF ShmInv
<1>e. UNCHANGED objects => Kept
  BY <1>a, <1>d DEF Kept, HoldsMessage, Sized
<1>f. Len(objects) \in Nat
  BY <1>a
<1>1. ASSUME NEW w \in Writers, Shm!Creates(w) PROVE ShmInv'
  <2>1. /\ stage[w] = "open" /\ stage' = [stage EXCEPT ![w] = "truncate"]
        /\ mapped' = [mapped EXCEPT ![w] = shmName']
        /\ UNCHANGED <<written, shown, killedWriters>>
    BY <1>1 DEF Shm!Creates, Shm!Moves
  <2>2. /\ objects' \in Seq(SharedObjects) /\ Len(objects') \in Nat /\ Len(objects) <= Len(objects')
        /\ shmName' \in 1 .. Len(objects') /\ Kept
    <3>1. CASE shmName # 0
      BY <1>1, <1>a, <1>e, <3>1 DEF Shm!Creates
    <3>2. CASE shmName = 0
      <4>1. PICK o : o = [sized |-> FALSE, text |-> "zeros"]
        OBVIOUS
      <4>2. objects' = Append(objects, o) /\ shmName' = Len(objects')
        BY <1>1, <3>2, <4>1 DEF Shm!Creates
      <4>3. o \in SharedObjects /\ o.text # "message"
        BY <4>1 DEF SharedObjects
      <4>4. /\ objects' \in Seq(SharedObjects) /\ Len(objects') = Len(objects) + 1
            /\ \A i \in 1 .. Len(objects) : objects'[i] = objects[i]
            /\ objects'[Len(objects) + 1] = o
        BY <1>a, <4>2, <4>3, AddLast
      <4>5. ASSUME NEW i \in 1 .. Len(objects'), HoldsMessage(i)' PROVE Sized(i)'
        <5>1. i # Len(objects) + 1
          BY <4>3, <4>4, <4>5 DEF HoldsMessage
        <5>2. i \in 1 .. Len(objects)
          BY <1>a, <4>4, <5>1
        <5> QED BY <1>d, <4>4, <4>5, <5>2 DEF HoldsMessage, Sized
      <4>6. Len(objects') \in Nat /\ Len(objects) <= Len(objects') /\ Len(objects') \in 1 .. Len(objects')
        BY <1>a, <4>4
      <4>7. Kept
        BY <4>4, <4>5, <4>6 DEF Kept, HoldsMessage, Sized
      <4> QED BY <4>2, <4>4, <4>6, <4>7
    <3> QED BY <3>1, <3>2
  <2>3. mapped' \in [Shm!Processes -> 0 .. Len(objects')] /\ shmName' \in 0 .. Len(objects')
    <3>1. shmName' \in 0 .. Len(objects')
      BY <2>2
    <3>2. \A p \in Shm!Processes : mapped[p] \in 0 .. Len(objects')
      BY <1>a, <2>2
    <3> QED BY <1>a, <2>1, <3>1, <3>2
  <2>4. Shm!TypeOK'
    BY <1>a, <1>b, <2>1, <2>2, <2>3 DEF Shm!TypeOK, SharedObjects
  <2>5. mapped'[w] # 0 /\ stage'[w] = "truncate"
    <3>1. mapped'[w] = shmName' /\ stage'[w] = "truncate"
      BY <1>a, <1>b, <1>c, <2>1
    <3> QED BY <2>2, <3>1
  <2>6. MappedBefore(w)'
    BY <2>5 DEF MappedBefore
  <2>7. \A q \in Shm!Processes : q # w => stage'[q] = stage[q] /\ mapped'[q] = mapped[q]
    BY <1>a, <1>b, <2>1
  <2> QED BY <1>c, <2>1, <2>2, <2>4, <2>6, <2>7, ShmOthers
<1>2. ASSUME NEW w \in Writers, Shm!Writes(w) PROVE ShmInv'
  <2>1. PICK change \in {<<"truncate", "copy">>, <<"copy", "copy rest">>, <<"copy rest", "unlink">>} :
           /\ stage[w] = change[1] /\ stage' = [stage EXCEPT ![w] = change[2]]
           /\ objects' = [objects EXCEPT ![mapped[w]] =
                             CASE stage[w] = "truncate"  -> Shm!Resized(@)
                               [] stage[w] = "copy"      -> Shm!Copied(@, "a part")
                               [] stage[w] = "copy rest" -> Shm!Copied(@, "message")]
    BY <1>2 DEF Shm!Writes, Shm!Moves
  <2>2. UNCHANGED <<shmName, mapped, written, shown, killedWriters>>
    BY <1>2 DEF Shm!Writes
  <2>3. /\ stage[w] \in {"truncate", "copy", "copy rest"}
        /\ stage' \in [Shm!Processes -> {"open", "truncate", "copy", "copy rest", "unlink", "print", "end"}]
        /\ \A q \in Shm!Processes : q # w => stage'[q] = stage[q]
        /\ stage'[w] \in {"copy", "copy rest", "unlink"}
    <3>1. change[1] \in {"truncate", "copy", "copy rest"} /\ change[2] \in {"copy", "copy rest", "unlink"}
      <4>1. CASE change = <<"truncate", "copy">>
        BY <4>1
      <4>2. CASE change = <<"copy", "copy rest">>
        BY <4>2
      <4>3. CASE change = <<"copy rest", "unlink">>
        BY <4>3
      <4> QED BY <2>1, <4>1, <4>2, <4>3
    <3> QED BY <1>b, <1>c, <2>1, <3>1
  <2>4. PICK m : m = mapped[w]
    OBVIOUS
  <2>5. m # 0 /\ (stage[w] \in {"copy", "copy rest"} => Sized(m))
    BY <1>c, <1>d, <2>3, <2>4 DEF MappedBefore
  <2>6. m \in 1 .. Len(objects) /\ objects[m] \in SharedObjects
    <3>1. m \in 0 .. Len(objects)
      BY <1>a, <1>c, <2>4
    <3>2. m \in 1 .. Len(objects)
      <4>1. m # 0
        BY <2>5
      <4> QED BY <1>f, <3>1, <4>1, NotZero
    <3> QED BY <1>a, <3>2, ElementOfSeq
  <2>7. PICK o : o = CASE stage[w] = "truncate"  -> Shm!Resized(objects[m])
                       [] stage[w] = "copy"      -> Shm!Copied(objects[m], "a part")
                       [] stage[w] = "copy rest" -> Shm!Copied(objects[m], "message")
    OBVIOUS
  <2>8. objects' = [objects EXCEPT ![m] = o]
    BY <2>1, <2>4, <2>7
  <2>9. /\ o \in SharedObjects /\ o.sized = TRUE
        /\ objects[m].text = "message" => o.text = "message"
    <3>1. CASE stage[w] = "truncate"
      BY <2>6, <2>7, <3>1 DEF Shm!Resized, SharedObjects
    <3>2. CASE stage[w] = "copy"
      BY <2>5, <2>6, <2>7, <3>2 DEF Shm!Copied, SharedObjects, Sized
    <3>3. CASE stage[w] = "copy rest"
      BY <2>5, <2>6, <2>7, <3>3 DEF Shm!Copied, SharedObjects, Sized
    <3> QED BY <2>3, <3>1, <3>2, <3>3
  <2>10. /\ objects' \in Seq(SharedObjects) /\ Len(objects') = Len(objects)
         /\ objects'[m] = o /\ \A i \in 1 .. Len(objects) : i # m => objects'[i] = objects[i]
    <3>1. objects' \in [1 .. Len(objects) -> SharedObjects]
      BY <1>a, <2>6, <2>8, <2>9, LenProperties
    <3>2. objects' \in Seq(SharedObjects) /\ Len(objects') = Len(objects)
      BY <1>f, <3>1, SameLength
    <3>3. objects \in [1 .. Len(objects) -> SharedObjects]
      BY <1>a, LenProperties, ElementOfSeq
    <3>4. objects'[m] = o /\ \A i \in 1 .. Len(objects) : i # m => objects'[i] = objects[i]
      BY <2>6, <2>8, <3>3
    <3> QED BY <3>2, <3>4
  <2>11. Kept
    <3>1. ASSUME NEW i \in 1 .. Len(objects)
          PROVE  (HoldsMessage(i) => HoldsMessage(i)') /\ (Sized(i) => Sized(i)')
                 /\ (HoldsMessage(i)' => Sized(i)')
      BY <1>d, <2>9, <2>10 DEF HoldsMessage, Sized
    <3>2. Len(objects') = Len(objects)
      BY <2>10
    <3> QED BY <3>1, <3>2 DEF Kept
  <2>12. MappedBefore(w)'
    BY <2>2, <2>3, <2>4, <2>5, <2>9, <2>10 DEF MappedBefore, Sized
  <2>13. Shm!TypeOK'
    <3>1. shmName' \in 0 .. Len(objects') /\ mapped' \in [Shm!Processes -> 0 .. Len(objects')]
      BY <1>a, <2>2, <2>10
    <3> QED BY <1>a, <1>b, <2>2, <2>3, <2>10, <3>1 DEF Shm!TypeOK, SharedObjects
  <2> QED BY <1>c, <2>2, <2>3, <2>11, <2>12, <2>13, ShmOthers
<1>3. ASSUME NEW w \in Writers, Shm!Unlinks(w) \/ Shm!KillWriter(w) PROVE ShmInv'
  <2>1. /\ stage' = [stage EXCEPT ![w] = "end"] /\ shmName' \in {0, shmName}
        /\ UNCHANGED <<objects, mapped, written, shown>>
        /\ killedWriters' = killedWriters \/ (killedWriters' = killedWriters + 1 /\ killedWriters < MaxCrashes)
    BY <1>3 DEF Shm!Unlinks, Shm!KillWriter, Shm!Moves
  <2>2. shmName' \in 0 .. Len(objects') /\ killedWriters' \in 0 .. MaxCrashes
    BY <1>a, <2>1
  <2>3. Shm!TypeOK'
    BY <1>a, <1>b, <2>1, <2>2 DEF Shm!TypeOK, SharedObjects
  <2>4. stage'[w] = "end" /\ \A q \in Shm!Processes : q # w => stage'[q] = stage[q]
    BY <1>b, <1>c, <2>1
  <2>5. MappedBefore(w)'
    BY <2>4 DEF MappedBefore
  <2> QED BY <1>c, <1>e, <2>1, <2>3, <2>4, <2>5, ShmOthers
<1>4. ASSUME NEW r \in Readers, Shm!Opens(r) PROVE ShmInv'
  <2>1. /\ stage[r] = "open"
        /\ mapped' = [mapped EXCEPT ![r] = shmName]
        /\ written' = IF shmName # 0 /\ objects[shmName].text = "message"
                      THEN written \cup {r} ELSE written
        /\ UNCHANGED <<objects, shmName, killedWriters>>
        /\ \/ /\ shmName # 0 /\ stage' = [stage EXCEPT ![r] = "print"] /\ UNCHANGED shown
           \/ /\ shmName = 0 /\ stage' = [stage EXCEPT ![r] = "end"]
              /\ shown' = [shown EXCEPT ![r] = "no object"]
    BY <1>4 DEF Shm!Opens, Shm!Moves
  <2>2. r \notin written
    BY <1>d, <2>1 DEF WillShow
  <2>3. mapped' \in [Shm!Processes -> 0 .. Len(objects')]
    BY <1>a, <2>1
  <2>4. Shm!TypeOK'
    BY <1>a, <1>b, <2>1, <2>3 DEF Shm!TypeOK, SharedObjects
  <2>5. /\ mapped'[r] = shmName /\ stage'[r] \in {"print", "end"}
        /\ shmName # 0 => stage'[r] = "print"
        /\ shmName = 0 => stage'[r] = "end"
        /\ \A q \in Shm!Processes : q # r => stage'[q] = stage[q] /\ mapped'[q] = mapped[q]
        /\ \A q \in Readers : q # r => shown'[q] = shown[q]
    BY <1>a, <1>b, <1>c, <2>1
  <2>6. MappedBefore(r)'
    BY <2>5 DEF MappedBefore
  <2>7. r \in written' => WillShow(r)'
    BY <2>1, <2>2, <2>5 DEF WillShow, HoldsMessage
  <2>8. written' \subseteq written \cup {r}
    BY <2>1
  <2> QED BY <1>c, <1>e, <2>1, <2>4, <2>5, <2>6, <2>7, <2>8, ShmOthers
<1>5. ASSUME NEW r \in Readers, Shm!Prints(r) PROVE ShmInv'
  <2>1. /\ stage[r] = "print" /\ stage' = [stage EXCEPT ![r] = "end"]
        /\ shown' = [shown EXCEPT ![r] = IF objects[mapped[r]].sized THEN objects[mapped[r]].text
                                                                     ELSE "bus error"]
        /\ UNCHANGED <<objects, shmName, mapped, written, killedWriters>>
    BY <1>5 DEF Shm!Prints, Shm!Moves
  <2>2. mapped[r] # 0
    BY <1>c, <1>d, <2>1 DEF MappedBefore
  <2>3. mapped[r] \in 1 .. Len(objects) /\ objects[mapped[r]] \in SharedObjects
    BY <1>a, <1>c, <2>2, ElementOfSeq
  <2>4. objects[mapped[r]].text \in {"zeros", "a part", "message"}
    BY <2>3 DEF SharedObjects
  <2>5. Shm!TypeOK'
    BY <1>a, <1>b, <2>1, <2>4 DEF Shm!TypeOK, SharedObjects
  <2>6. /\ stage'[r] = "end" /\ \A q \in Shm!Processes : q # r => stage'[q] = stage[q]
        /\ \A q \in Readers : q # r => shown'[q] = shown[q]
    BY <1>b, <1>c, <2>1
  <2>7. MappedBefore(r)'
    BY <2>6 DEF MappedBefore
  <2>8. r \in written => WillShow(r)'
    <3> SUFFICES ASSUME r \in written PROVE WillShow(r)'
      OBVIOUS
    <3>1. HoldsMessage(mapped[r])
      BY <1>d, <2>1 DEF WillShow
    <3>2. Sized(mapped[r])
      BY <1>d, <2>3, <3>1
    <3>3. shown'[r] = "message"
      BY <1>b, <2>1, <3>1, <3>2 DEF HoldsMessage, Sized
    <3> QED BY <2>6, <3>3 DEF WillShow
  <2> QED BY <1>c, <1>e, <2>1, <2>5, <2>6, <2>7, <2>8, ShmOthers
<1>6. CASE UNCHANGED shmVars
  BY <1>6 DEF shmVars, ShmInv, Shm!TypeOK, HoldsMessage, Sized, MappedBefore, WillShow
<1> QED BY <1>1, <1>2, <1>3, <1>4, <1>5, <1>6 DEF Shm!Next

\* A reader of written memory shows the message.
LEMMA ShmReadsWhole == ShmInv => Shm!TypeOK /\ Shm!ReadsWhole
  BY DEF ShmInv, WillShow, Shm!ReadsWhole

-----------------------------------------------------------------------------
\* ipc_mq_send.cpp and ipc_mq_rev.cpp.
Messages == Senders \X {"hello", "another", "exit"}

Steps == {"start", "hello", "another", "exit", "receive", "close", "unlink", "end"}

\* A sender that will send nothing more, and a queue that holds nothing of it behind its exit.
Over(s) == does[s] \in {"close", "end"}

ExitsLast(s) == \A i, j \in 1 .. Len(s) : i < j /\ s[i][2] = "exit" => s[j][1] # s[i][1]

NothingOf(s, queue) == \A i \in 1 .. Len(queue) : queue[i][1] # s

Orderly(q) == /\ ExitsLast(queues[q])
              /\ \A i \in 1 .. Len(queues[q]) : queues[q][i][2] = "exit" => Over(queues[q][i][1])

\* The receiver has taken the exit of a sender last, and nothing of that sender is left.
TakenUpToExit(q) ==
    \E s \in Senders : /\ Over(s) /\ NothingOf(s, queues[q])
                       /\ received[q] # <<>> /\ received[q][Len(received[q])] = <<s, "exit">>

MqTypes ==
    /\ queues \in Seq(Seq(Messages)) /\ received \in Seq(Seq(Messages))
    /\ Len(received) = Len(queues)
    /\ \A q \in 1 .. Len(queues) : Len(queues[q]) <= BufferSize
    /\ named \in 0 .. Len(queues)
    /\ using \in [Mq!Procs -> 0 .. Len(queues)]
    /\ does \in [Mq!Procs -> Steps]
    /\ runs \in 0 .. MaxRuns /\ kills \in 0 .. MaxCrashes

\* Only the receiver removes the name, that of the queue it has taken an exit from.
MqInv ==
    /\ MqTypes
    /\ \A p \in Mq!Procs : does[p] \in {"hello", "another", "exit", "receive"} => using[p] # 0
    /\ using[0] # 0 => using[0] = named
    /\ does[0] \in {"close", "unlink"} => named # 0 /\ TakenUpToExit(named)
    /\ does[0] = "unlink" => using[0] = 0
    /\ \A q \in 1 .. Len(queues) : Orderly(q) /\ (q # named => TakenUpToExit(q))

\* A queue keeps its type when a message is appended or taken.
LEMMA MqTexts ==
    /\ Mq!Texts[1] = "hello" /\ Mq!Texts[2] = "another" /\ Mq!Texts[3] = "exit"
    /\ Mq!Following(1) = "another" /\ Mq!Following(2) = "exit" /\ Mq!Following(3) = "close"
    /\ Mq!Range(Mq!Texts) = {"hello", "another", "exit"}
<1>1. DOMAIN Mq!Texts = 1 .. 3 /\ Mq!Texts[1] = "hello" /\ Mq!Texts[2] = "another" /\ Mq!Texts[3] = "exit"
  BY DEF Mq!Texts
<1>2. Mq!Following(1) = "another" /\ Mq!Following(2) = "exit" /\ Mq!Following(3) = "close"
  BY <1>1 DEF Mq!Following
<1>3. 1 .. 3 = {1, 2, 3}
  OBVIOUS
<1>4. Mq!Range(Mq!Texts) = {"hello", "another", "exit"}
  BY <1>1, <1>3 DEF Mq!Range
<1> QED BY <1>1, <1>2, <1>4

\* A message of a sender that has not sent its exit goes to the end of the queue.
LEMMA ExitsLastAppend ==
    ASSUME NEW s \in Seq(Messages), NEW m \in Messages, ExitsLast(s),
           \A i \in 1 .. Len(s) : s[i][2] = "exit" => s[i][1] # m[1]
    PROVE  ExitsLast(Append(s, m))
<1>1. /\ Len(s) \in Nat /\ Len(Append(s, m)) = Len(s) + 1
      /\ \A i \in 1 .. Len(s) : Append(s, m)[i] = s[i]
      /\ Append(s, m)[Len(s) + 1] = m
  BY AddLast
<1>2. ASSUME NEW i \in 1 .. Len(s) + 1, NEW j \in 1 .. Len(s) + 1, i < j, Append(s, m)[i][2] = "exit"
      PROVE  Append(s, m)[j][1] # Append(s, m)[i][1]
  <2>1. i \in 1 .. Len(s) /\ (j \in 1 .. Len(s) \/ j = Len(s) + 1)
    BY <1>1, <1>2
  <2>2. CASE j \in 1 .. Len(s)
    BY <1>1, <1>2, <2>1, <2>2 DEF ExitsLast
  <2>3. CASE j = Len(s) + 1
    BY <1>1, <1>2, <2>1, <2>3
  <2> QED BY <2>1, <2>2, <2>3
<1> QED BY <1>1, <1>2 DEF ExitsLast

\* What is behind the first message stays in order, and if that is an exit, nothing
\* of its sender is behind it.
LEMMA ExitsLastTail ==
    ASSUME NEW s \in Seq(Messages), s # <<>>, ExitsLast(s)
    PROVE  /\ ExitsLast(Tail(s))
           /\ Head(s)[2] = "exit" => NothingOf(Head(s)[1], Tail(s))
<1>1. /\ Head(s) = s[1] /\ Len(s) \in Nat \ {0} /\ Len(Tail(s)) = Len(s) - 1
      /\ \A i \in 1 .. Len(s) - 1 : Tail(s)[i] = s[i + 1]
  BY TakeFirst
<1>2. \A i \in 1 .. Len(s) - 1 : i + 1 \in 1 .. Len(s) /\ 1 < i + 1
  BY <1>1
<1>3. ASSUME NEW i \in 1 .. Len(s) - 1, NEW j \in 1 .. Len(s) - 1, i < j, Tail(s)[i][2] = "exit"
      PROVE  Tail(s)[j][1] # Tail(s)[i][1]
  <2>1. i + 1 < j + 1
    BY <1>1, <1>3
  <2> QED BY <1>1, <1>2, <1>3, <2>1 DEF ExitsLast
<1>4. ASSUME NEW i \in 1 .. Len(s) - 1, s[1][2] = "exit" PROVE Tail(s)[i][1] # s[1][1]
  <2>1. 1 \in 1 .. Len(s)
    BY <1>1
  <2> QED BY <1>1, <1>2, <1>4, <2>1 DEF ExitsLast
<1> QED BY <1>1, <1>3, <1>4 DEF ExitsLast, NothingOf

\* Queues nobody touches stay as they are: who is over stays over.
LEMMA MqKeepsQueue ==
    ASSUME \A s \in Senders : Over(s) => Over(s)', NEW q,
           queues'[q] = queues[q], received'[q] = received[q],
           queues[q] \in Seq(Messages)
    PROVE  /\ Orderly(q) => Orderly(q)'
           /\ TakenUpToExit(q) => TakenUpToExit(q)'
<1>1. \A i \in 1 .. Len(queues[q]) : queues[q][i][1] \in Senders
  BY ElementOfSeq DEF Messages
<1> QED BY <1>1 DEF Orderly, TakenUpToExit

\* There is no queue at first.
LEMMA MqInit == Init => MqInv
<1> SUFFICES ASSUME Init PROVE MqInv
  OBVIOUS
<1>1. Mq!Init /\ MaxRuns \in Nat /\ MaxCrashes \in Nat
  BY CountsAssumption DEF Init
<1>2. queues \in Seq(Seq(Messages)) /\ received \in Seq(Seq(Messages)) /\ Len(queues) = 0 /\ Len(received) = 0
  BY <1>1, EmptySeq DEF Mq!Init
<1>3. named \in 0 .. Len(queues) /\ runs \in 0 .. MaxRuns /\ kills \in 0 .. MaxCrashes
      /\ using \in [Mq!Procs -> 0 .. Len(queues)]
  BY <1>1, <1>2 DEF Mq!Init
<1>4. MqTypes
  BY <1>1, <1>2, <1>3 DEF MqTypes, Mq!Init, Steps
<1>5. /\ \A p \in Mq!Procs : does[p] = "start" /\ using[p] = 0
      /\ 0 \in Mq!Procs
  BY <1>1 DEF Mq!Init, Mq!Procs, Mq!Receiver
<1> QED BY <1>2, <1>4, <1>5 DEF MqInv

Acting == {"hello", "another", "exit", "receive"}

\* A step of process p that touches no queue, but may remove the name of a finished one.
LEMMA MqSame ==
    ASSUME MqInv, MqTypes', queues' = queues, received' = received, NEW p \in Mq!Procs,
           \A q \in Mq!Procs : q # p => does'[q] = does[q] /\ using'[q] = using[q],
           does'[p] \in Acting => using'[p] # 0,
           p \in Senders /\ Over(p) => Over(p)',
           using'[0] # 0 => using'[0] = named',
           does'[0] \in {"close", "unlink"} => named # 0 /\ named' = named /\ TakenUpToExit(named),
           does'[0] = "unlink" => using'[0] = 0,
           named' = named \/ TakenUpToExit(named)
    PROVE  MqInv'
<1>1. /\ queues \in Seq(Seq(Messages)) /\ Senders \subseteq Mq!Procs
      /\ \A q \in 1 .. Len(queues) : Orderly(q) /\ (q # named => TakenUpToExit(q))
      /\ named \in 0 .. Len(queues) /\ Len(queues) \in Nat
      /\ \A q \in Mq!Procs : does[q] \in Acting => using[q] # 0
  BY LenProperties DEF MqInv, MqTypes, Mq!Procs, Acting
<1>2. \A s \in Senders : Over(s) => Over(s)'
  BY <1>1 DEF Over
<1>3. ASSUME NEW q \in 1 .. Len(queues)
      PROVE  /\ Orderly(q) => Orderly(q)'
             /\ TakenUpToExit(q) => TakenUpToExit(q)'
  <2>1. queues[q] \in Seq(Messages)
    BY <1>1, ElementOfSeq
  <2> QED BY <1>2, <2>1, MqKeepsQueue
<1>4. \A q \in 1 .. Len(queues) : Orderly(q)' /\ (q # named' => TakenUpToExit(q)')
  BY <1>1, <1>3
<1>5. does'[0] \in {"close", "unlink"} => named' # 0 /\ TakenUpToExit(named)'
  <2> SUFFICES ASSUME does'[0] \in {"close", "unlink"} PROVE named' # 0 /\ TakenUpToExit(named)'
    OBVIOUS
  <2>1. named \in 1 .. Len(queues)
    BY <1>1, NotZero
  <2>2. \A s \in Senders : Over(s) => Over(s)'
    BY <1>2
  <2>3. TakenUpToExit(named) /\ named' = named
    OBVIOUS
  <2> QED BY <2>1, <2>2, <2>3 DEF TakenUpToExit
<1>6. \A q \in Mq!Procs : does'[q] \in Acting => using'[q] # 0
  BY <1>1
<1>7. Len(queues') = Len(queues)
  OBVIOUS
<1> QED BY <1>4, <1>5, <1>6, <1>7 DEF MqInv, Acting

\* A step of process p that puts another sequence in place of what queue n holds.
LEMMA MqPut ==
    ASSUME MqInv, NEW n \in 1 .. Len(queues), NEW s \in Seq(Messages), NEW t \in Seq(Messages),
           Len(s) <= BufferSize,
           queues' = [queues EXCEPT ![n] = s], received' = [received EXCEPT ![n] = t]
    PROVE  /\ queues' \in Seq(Seq(Messages)) /\ received' \in Seq(Seq(Messages))
           /\ Len(queues') = Len(queues) /\ Len(received') = Len(queues)
           /\ queues'[n] = s /\ received'[n] = t
           /\ \A q \in 1 .. Len(queues) : q # n => queues'[q] = queues[q] /\ received'[q] = received[q]
           /\ \A q \in 1 .. Len(queues) : Len(queues'[q]) <= BufferSize
<1>1. /\ Len(queues) \in Nat
      /\ queues \in [1 .. Len(queues) -> Seq(Messages)] /\ received \in [1 .. Len(queues) -> Seq(Messages)]
      /\ \A q \in 1 .. Len(queues) : Len(queues[q]) <= BufferSize
  BY LenProperties, ElementOfSeq DEF MqInv, MqTypes
<1>2. /\ queues' \in [1 .. Len(queues) -> Seq(Messages)] /\ received' \in [1 .. Len(queues) -> Seq(Messages)]
      /\ queues'[n] = s /\ received'[n] = t
      /\ \A q \in 1 .. Len(queues) : q # n => queues'[q] = queues[q] /\ received'[q] = received[q]
  BY <1>1
<1>3. /\ queues' \in Seq(Seq(Messages)) /\ received' \in Seq(Seq(Messages))
      /\ Len(queues') = Len(queues) /\ Len(received') = Len(queues)
  BY <1>1, <1>2, SameLength
<1>4. ASSUME NEW q \in 1 .. Len(queues) PROVE Len(queues'[q]) <= BufferSize
  <2>1. CASE q = n
    BY <1>2, <2>1
  <2>2. CASE q # n
    BY <1>1, <1>2, <2>2
  <2> QED BY <2>1, <2>2
<1> QED BY <1>2, <1>3, <1>4

-----------------------------------------------------------------------------
\* Opening, by a sender or a receiver, creates a queue or finds one.
LEMMA MqOpens ==
    ASSUME MqInv, NEW p \in Mq!Procs, NEW d, Mq!Open(p, d), UNCHANGED kills, runs' \in 0 .. MaxRuns,
           p = 0 => d = "receive", p # 0 => d = "hello", p # 0 => does[p] = "start"
    PROVE  MqInv'
<1>a. /\ queues \in Seq(Seq(Messages)) /\ received \in Seq(Seq(Messages))
      /\ Len(queues) \in Nat /\ Len(received) = Len(queues)
      /\ \A q \in 1 .. Len(queues) : Len(queues[q]) <= BufferSize
      /\ named \in 0 .. Len(queues)
  BY LenProperties DEF MqInv, MqTypes
<1>b. /\ using \in [Mq!Procs -> 0 .. Len(queues)] /\ does \in [Mq!Procs -> Steps]
      /\ kills \in 0 .. MaxCrashes
  BY DEF MqInv, MqTypes
<1>c. /\ \A q \in 1 .. Len(queues) : Orderly(q) /\ (q # named => TakenUpToExit(q))
      /\ \A q \in Mq!Procs : does[q] \in Acting => using[q] # 0
      /\ using[0] # 0 => using[0] = named
      /\ does[0] \in {"close", "unlink"} => named # 0 /\ TakenUpToExit(named)
      /\ does[0] = "unlink" => using[0] = 0
      /\ 0 \in Mq!Procs /\ Senders \subseteq Mq!Procs
  BY DEF MqInv, Acting, Mq!Procs, Mq!Receiver
<1>d. does' = [does EXCEPT ![p] = d] /\ d \in {"hello", "receive"}
  BY DEF Mq!Open, Mq!Then
<1>e. /\ does'[p] = d /\ does' \in [Mq!Procs -> Steps]
      /\ \A q \in Mq!Procs : q # p => does'[q] = does[q]
      /\ p \in Senders => ~Over(p)
      /\ does'[0] = "receive" \/ (p # 0 /\ does'[0] = does[0])
  BY <1>b, <1>c, <1>d, ProcessesAssumption DEF Steps, Over
<1>1. CASE named # 0
  <2>1. UNCHANGED <<queues, named, received>> /\ using' = [using EXCEPT ![p] = named]
    BY <1>1 DEF Mq!Open
  <2>2. /\ using'[p] = named /\ using' \in [Mq!Procs -> 0 .. Len(queues)]
        /\ \A q \in Mq!Procs : q # p => using'[q] = using[q]
    BY <1>a, <1>b, <2>1
  <2>3. MqTypes'
    BY <1>a, <1>b, <1>e, <2>1, <2>2 DEF MqTypes
  <2>4. using'[0] # 0 => using'[0] = named'
    BY <1>c, <2>1, <2>2
  <2>5. /\ does'[0] \in {"close", "unlink"} => named # 0 /\ named' = named /\ TakenUpToExit(named)
        /\ does'[0] = "unlink" => using'[0] = 0
    BY <1>c, <1>e, <2>1, <2>2
  <2> QED BY <1>1, <1>e, <2>1, <2>2, <2>3, <2>4, <2>5, MqSame
<1>2. CASE named = 0
  <2>1. /\ queues' = Append(queues, <<>>) /\ received' = Append(received, <<>>)
        /\ named' = Len(queues') /\ using' = [using EXCEPT ![p] = named']
    BY <1>2 DEF Mq!Open
  <2>2. <<>> \in Seq(Messages) /\ Len(<<>>) = 0
    BY EmptySeq
  <2>3. /\ queues' \in Seq(Seq(Messages)) /\ Len(queues') = Len(queues) + 1
        /\ \A q \in 1 .. Len(queues) : queues'[q] = queues[q]
        /\ queues'[Len(queues) + 1] = <<>>
    BY <1>a, <2>1, <2>2, AddLast
  <2>4. /\ received' \in Seq(Seq(Messages)) /\ Len(received') = Len(queues) + 1
        /\ \A q \in 1 .. Len(queues) : received'[q] = received[q]
    BY <1>a, <2>1, <2>2, AddLast
  <2>5. named' = Len(queues) + 1 /\ named' \in 0 .. Len(queues') /\ named' # 0
    BY <1>a, <2>1, <2>3
  <2>6. using' \in [Mq!Procs -> 0 .. Len(queues')]
    <3>1. \A q \in Mq!Procs : using[q] \in 0 .. Len(queues')
      BY <1>a, <1>b, <2>3
    <3> QED BY <1>b, <2>1, <2>5, <3>1
  <2>7. using'[p] = named' /\ \A q \in Mq!Procs : q # p => using'[q] = using[q]
    BY <1>b, <2>1
  <2>8. ASSUME NEW q \in 1 .. Len(queues')
        PROVE  /\ Len(queues'[q]) <= BufferSize
               /\ Orderly(q)' /\ (q # named' => TakenUpToExit(q)')
    <3>1. CASE q \in 1 .. Len(queues)
      <4>1. queues[q] \in Seq(Messages) /\ queues'[q] = queues[q] /\ received'[q] = received[q]
        BY <1>a, <2>3, <2>4, <3>1, ElementOfSeq
      <4>2. Orderly(q) /\ TakenUpToExit(q)
        BY <1>2, <1>c, <3>1
      <4>3. \A s \in Senders : Over(s) => Over(s)'
        BY <1>c, <1>e DEF Over
      <4>4. Orderly(q)' /\ TakenUpToExit(q)'
        BY <4>1, <4>2, <4>3, MqKeepsQueue
      <4> QED BY <1>a, <3>1, <4>1, <4>4
    <3>2. CASE q = Len(queues) + 1
      <4>1. queues'[q] = <<>> /\ q = named'
        BY <2>3, <2>5, <3>2
      <4>2. Len(queues'[q]) = 0 /\ \A i \in 1 .. Len(queues'[q]) : FALSE
        BY <2>2, <4>1
      <4>3. Orderly(q)'
        BY <4>2 DEF Orderly, ExitsLast
      <4>4. 0 <= BufferSize
        BY CountsAssumption
      <4> QED BY <4>1, <4>2, <4>3, <4>4
    <3> QED BY <1>a, <2>3, <3>1, <3>2
  <2>9. MqTypes'
    <3>1. Len(received') = Len(queues')
      BY <2>3, <2>4
    <3> QED BY <1>b, <1>e, <2>3, <2>4, <2>5, <2>6, <2>8, <3>1 DEF MqTypes
  <2>10. \A q \in Mq!Procs : does'[q] \in Acting => using'[q] # 0
    BY <1>c, <1>e, <2>5, <2>7
  <2>11. using'[0] # 0 => using'[0] = named'
    BY <1>2, <1>c, <2>7
  <2>12. does'[0] \notin {"close", "unlink"}
    BY <1>2, <1>c, <1>e
  <2> QED BY <2>8, <2>9, <2>10, <2>11, <2>12 DEF MqInv, Acting
<1> QED BY <1>1, <1>2

\* A sender appends its next message, or waits while the queue is full.
LEMMA MqSends == ASSUME MqInv, NEW s \in Senders, Mq!Send(s) PROVE MqInv'
<1>a. /\ queues \in Seq(Seq(Messages)) /\ received \in Seq(Seq(Messages))
      /\ Len(queues) \in Nat /\ Len(received) = Len(queues)
      /\ \A q \in 1 .. Len(queues) : Len(queues[q]) <= BufferSize
      /\ named \in 0 .. Len(queues)
  BY LenProperties DEF MqInv, MqTypes
<1>b. /\ using \in [Mq!Procs -> 0 .. Len(queues)] /\ does \in [Mq!Procs -> Steps]
      /\ kills \in 0 .. MaxCrashes /\ runs \in 0 .. MaxRuns
  BY DEF MqInv, MqTypes
<1>c. /\ \A q \in 1 .. Len(queues) : Orderly(q) /\ (q # named => TakenUpToExit(q))
      /\ \A q \in Mq!Procs : does[q] \in Acting => using[q] # 0
      /\ using[0] # 0 => using[0] = named
      /\ does[0] \in {"close", "unlink"} => named # 0 /\ TakenUpToExit(named)
      /\ does[0] = "unlink" => using[0] = 0
      /\ 0 \in Mq!Procs /\ s \in Mq!Procs /\ s # 0
  BY ProcessesAssumption DEF MqInv, Acting, Mq!Procs, Mq!Receiver
<1>1. PICK i \in 1 .. 3 :
        /\ does[s] = Mq!Texts[i]
        /\ Len(queues[using[s]]) < BufferSize
        /\ queues' = [queues EXCEPT ![using[s]] = Append(@, <<s, Mq!Texts[i]>>)]
        /\ does' = [does EXCEPT ![s] = Mq!Following(i)]
        /\ UNCHANGED <<named, using, received, runs, kills>>
  BY DEF Mq!Send, Mq!Then
<1>2. /\ Mq!Texts[i] \in {"hello", "another", "exit"}
      /\ Mq!Following(i) \in {"another", "exit", "close"}
      /\ Mq!Texts[i] = "exit" => Mq!Following(i) = "close"
  <2>1. i = 1 \/ i = 2 \/ i = 3
    OBVIOUS
  <2> QED BY <2>1, MqTexts
<1>3. PICK m : m = <<s, Mq!Texts[i]>>
  OBVIOUS
<1>4. m \in Messages /\ m[1] = s /\ m[2] = Mq!Texts[i]
  BY <1>2, <1>3 DEF Messages
<1>5. PICK n : n = using[s]
  OBVIOUS
<1>6. n \in 1 .. Len(queues) /\ n # 0
  <2>1. n # 0
    BY <1>1, <1>2, <1>c, <1>5 DEF Acting
  <2>2. n \in 0 .. Len(queues)
    BY <1>b, <1>c, <1>5
  <2> QED BY <1>a, <2>1, <2>2, NotZero
<1>7. queues[n] \in Seq(Messages) /\ received[n] \in Seq(Messages) /\ Len(queues[n]) \in Nat
      /\ Len(queues[n]) < BufferSize
  <2>1. n \in 1 .. Len(received)
    BY <1>6, <1>a
  <2>2. queues[n] \in Seq(Messages) /\ received[n] \in Seq(Messages)
    BY <1>a, <1>6, <2>1, ElementOfSeq
  <2> QED BY <1>1, <1>5, <2>2, LenProperties
<1>8. PICK x : x = Append(queues[n], m)
  OBVIOUS
<1>9. /\ x \in Seq(Messages) /\ Len(x) = Len(queues[n]) + 1
      /\ \A j \in 1 .. Len(queues[n]) : x[j] = queues[n][j]
      /\ x[Len(queues[n]) + 1] = m
  BY <1>4, <1>7, <1>8, AddLast
<1>10. Len(x) <= BufferSize
  <2>1. BufferSize \in Nat
    BY CountsAssumption
  <2> QED BY <1>7, <1>9, <2>1
<1>11. queues' = [queues EXCEPT ![n] = x]
  BY <1>1, <1>3, <1>5, <1>8
<1>12. received' = [received EXCEPT ![n] = received[n]]
  <2>1. received \in [1 .. Len(queues) -> Seq(Messages)]
    BY <1>a, LenProperties, ElementOfSeq
  <2> QED BY <1>1, <2>1
<1>13. /\ queues' \in Seq(Seq(Messages)) /\ received' \in Seq(Seq(Messages))
       /\ Len(queues') = Len(queues) /\ Len(received') = Len(queues)
       /\ queues'[n] = x
       /\ \A q \in 1 .. Len(queues) : q # n => queues'[q] = queues[q]
       /\ \A q \in 1 .. Len(queues) : Len(queues'[q]) <= BufferSize
  BY <1>6, <1>7, <1>9, <1>10, <1>11, <1>12, MqPut
<1>14. /\ does'[s] = Mq!Following(i) /\ does' \in [Mq!Procs -> Steps]
       /\ \A q \in Mq!Procs : q # s => does'[q] = does[q]
  BY <1>1, <1>2, <1>b, <1>c DEF Steps
<1>15. MqTypes'
  BY <1>1, <1>a, <1>b, <1>13, <1>14 DEF MqTypes
<1>16. ~Over(s) /\ \A o \in Senders : Over(o) => Over(o)'
  <2>1. ~Over(s)
    BY <1>1, <1>2 DEF Over
  <2>2. Senders \subseteq Mq!Procs
    BY DEF Mq!Procs
  <2> QED BY <1>14, <2>1, <2>2 DEF Over
<1>17. Orderly(n)'
  <2>1. /\ ExitsLast(queues[n])
        /\ \A j \in 1 .. Len(queues[n]) : queues[n][j][2] = "exit" => Over(queues[n][j][1])
    BY <1>6, <1>c DEF Orderly
  <2>2. \A j \in 1 .. Len(queues[n]) : queues[n][j][2] = "exit" => queues[n][j][1] # m[1]
    BY <1>4, <1>16, <2>1
  <2>3. ExitsLast(x)
    BY <1>4, <1>7, <1>8, <2>1, <2>2, ExitsLastAppend
  <2>4. ASSUME NEW j \in 1 .. Len(x), x[j][2] = "exit" PROVE Over(x[j][1])'
    <3>1. CASE j \in 1 .. Len(queues[n])
      <4>1. x[j] = queues[n][j] /\ queues[n][j] \in Messages
        BY <1>7, <1>9, <3>1, ElementOfSeq
      <4>2. Over(x[j][1]) /\ x[j][1] \in Senders
        BY <2>1, <2>4, <3>1, <4>1 DEF Messages
      <4> QED BY <1>16, <4>2
    <3>2. CASE j = Len(queues[n]) + 1
      <4>1. x[j] = m /\ Mq!Texts[i] = "exit"
        BY <1>4, <1>9, <2>4, <3>2
      <4>2. x[j][1] = s /\ does'[s] = "close"
        BY <1>2, <1>4, <1>14, <4>1
      <4> QED BY <4>2 DEF Over
    <3> QED BY <1>7, <1>9, <3>1, <3>2
  <2> QED BY <1>13, <2>3, <2>4 DEF Orderly
<1>18. TakenUpToExit(n) => TakenUpToExit(n)'
  <2> SUFFICES ASSUME TakenUpToExit(n) PROVE TakenUpToExit(n)'
    OBVIOUS
  <2>1. PICK t \in Senders : /\ Over(t) /\ NothingOf(t, queues[n])
                             /\ received[n] # <<>> /\ received[n][Len(received[n])] = <<t, "exit">>
    BY DEF TakenUpToExit
  <2>2. t # s
    BY <1>16, <2>1
  <2>3. NothingOf(t, x)
    <3>1. ASSUME NEW j \in 1 .. Len(x) PROVE x[j][1] # t
      <4>1. j \in 1 .. Len(queues[n]) \/ j = Len(queues[n]) + 1
        BY <1>7, <1>9
      <4> QED BY <1>4, <1>9, <2>1, <2>2, <4>1 DEF NothingOf
    <3> QED BY <3>1 DEF NothingOf
  <2>4. Over(t)' /\ received'[n] = received[n] /\ queues'[n] = x
    BY <1>1, <1>13, <1>16, <2>1
  <2> QED BY <2>1, <2>3, <2>4 DEF TakenUpToExit
<1>19. ASSUME NEW q \in 1 .. Len(queues)
       PROVE  Orderly(q)' /\ (TakenUpToExit(q) => TakenUpToExit(q)')
  <2>1. CASE q = n
    BY <1>17, <1>18, <2>1
  <2>2. CASE q # n
    <3>1. queues[q] \in Seq(Messages) /\ queues'[q] = queues[q] /\ received'[q] = received[q]
      BY <1>1, <1>a, <1>13, <2>2, ElementOfSeq
    <3> QED BY <1>c, <1>16, <3>1, MqKeepsQueue
  <2> QED BY <2>1, <2>2
<1>20. does'[0] \in {"close", "unlink"} => named' # 0 /\ TakenUpToExit(named)'
  <2> SUFFICES ASSUME does[0] \in {"close", "unlink"} PROVE named # 0 /\ TakenUpToExit(named)'
    BY <1>1, <1>14, <1>c
  <2>1. named \in 1 .. Len(queues) /\ TakenUpToExit(named)
    BY <1>a, <1>c, NotZero
  <2>2. PICK q \in 1 .. Len(queues) : q = named
    BY <2>1
  <2>3. TakenUpToExit(q)'
    BY <1>19, <2>1, <2>2
  <2>4. named' = q
    BY <1>1, <2>2
  <2> QED BY <1>c, <2>3, <2>4, <2>2 DEF TakenUpToExit
<1>21. \A q \in Mq!Procs : does'[q] \in Acting => using'[q] # 0
  BY <1>1, <1>5, <1>6, <1>c, <1>14
<1>22. /\ using'[0] # 0 => using'[0] = named'
       /\ does'[0] = "unlink" => using'[0] = 0
  BY <1>1, <1>c, <1>14
<1>23. \A q \in 1 .. Len(queues') : Orderly(q)' /\ (q # named' => TakenUpToExit(q)')
  BY <1>1, <1>c, <1>13, <1>19
<1> QED BY <1>15, <1>20, <1>21, <1>22, <1>23 DEF MqInv, Acting
\* The receiver takes the first message, and its own exit ends it.
LEMMA MqReceives == ASSUME MqInv, Mq!Receive PROVE MqInv'
<1>a. /\ queues \in Seq(Seq(Messages)) /\ received \in Seq(Seq(Messages))
      /\ Len(queues) \in Nat /\ Len(received) = Len(queues)
      /\ \A q \in 1 .. Len(queues) : Len(queues[q]) <= BufferSize
      /\ named \in 0 .. Len(queues)
  BY LenProperties DEF MqInv, MqTypes
<1>b. /\ using \in [Mq!Procs -> 0 .. Len(queues)] /\ does \in [Mq!Procs -> Steps]
      /\ kills \in 0 .. MaxCrashes /\ runs \in 0 .. MaxRuns
  BY DEF MqInv, MqTypes
<1>c. /\ \A q \in 1 .. Len(queues) : Orderly(q) /\ (q # named => TakenUpToExit(q))
      /\ \A q \in Mq!Procs : does[q] \in Acting => using[q] # 0
      /\ using[0] # 0 => using[0] = named
      /\ 0 \in Mq!Procs /\ Senders \subseteq Mq!Procs /\ 0 \notin Senders
  BY ProcessesAssumption DEF MqInv, Acting, Mq!Procs, Mq!Receiver
<1>1. PICK n : n = using[0]
  OBVIOUS
<1>2. /\ does[0] = "receive" /\ queues[n] # <<>>
      /\ queues' = [queues EXCEPT ![n] = Tail(@)]
      /\ received' = [received EXCEPT ![n] = Append(@, Head(queues[n]))]
      /\ does' = [does EXCEPT ![0] = IF Head(queues[n])[2] = "exit" THEN "close" ELSE "receive"]
      /\ UNCHANGED <<named, using, runs, kills>>
  BY <1>1 DEF Mq!Receive, Mq!Then, Mq!Receiver, Mq!EndsLoop
<1>3. n \in 1 .. Len(queues) /\ n # 0 /\ n = named
  <2>1. n # 0 /\ n = named
    BY <1>1, <1>2, <1>c DEF Acting
  <2> QED BY <1>a, <2>1, NotZero
<1>4. queues[n] \in Seq(Messages) /\ received[n] \in Seq(Messages) /\ Len(queues[n]) <= BufferSize
  <2>1. n \in 1 .. Len(received)
    BY <1>3, <1>a
  <2> QED BY <1>a, <1>3, <2>1, ElementOfSeq
<1>5. PICK m : m = Head(queues[n])
  OBVIOUS
<1>6. /\ m = queues[n][1] /\ m \in Messages /\ Len(queues[n]) \in Nat \ {0}
      /\ Tail(queues[n]) \in Seq(Messages) /\ Len(Tail(queues[n])) = Len(queues[n]) - 1
      /\ \A j \in 1 .. Len(queues[n]) - 1 : Tail(queues[n])[j] = queues[n][j + 1]
  BY <1>2, <1>4, <1>5, TakeFirst
<1>7. m[1] \in Senders /\ m = <<m[1], m[2]>>
  BY <1>6 DEF Messages
<1>8. PICK x : x = Tail(queues[n])
  OBVIOUS
<1>9. PICK t : t = Append(received[n], m)
  OBVIOUS
<1>10. /\ t \in Seq(Messages) /\ Len(t) = Len(received[n]) + 1 /\ t[Len(t)] = m /\ t # <<>>
  <2>1. /\ t \in Seq(Messages) /\ Len(t) = Len(received[n]) + 1 /\ t[Len(received[n]) + 1] = m
    BY <1>4, <1>6, <1>9, AddLast
  <2>2. Len(received[n]) \in Nat
    BY <1>4, LenProperties
  <2>3. t # <<>>
    BY <2>1, <2>2, EmptySeq
  <2> QED BY <2>1, <2>3
<1>11. x \in Seq(Messages) /\ Len(x) <= BufferSize
  <2>1. BufferSize \in Nat
    BY CountsAssumption
  <2> QED BY <1>4, <1>6, <1>8, <2>1
<1>12. queues' = [queues EXCEPT ![n] = x] /\ received' = [received EXCEPT ![n] = t]
  BY <1>2, <1>5, <1>8, <1>9
<1>13. /\ queues' \in Seq(Seq(Messages)) /\ received' \in Seq(Seq(Messages))
       /\ Len(queues') = Len(queues) /\ Len(received') = Len(queues)
       /\ queues'[n] = x /\ received'[n] = t
       /\ \A q \in 1 .. Len(queues) : q # n => queues'[q] = queues[q] /\ received'[q] = received[q]
       /\ \A q \in 1 .. Len(queues) : Len(queues'[q]) <= BufferSize
  <2>1. n \in 1 .. Len(queues)
    BY <1>3
  <2>2. t \in Seq(Messages)
    BY <1>10
  <2> QED BY <1>11, <1>12, <2>1, <2>2, MqPut
<1>14. /\ does'[0] = IF m[2] = "exit" THEN "close" ELSE "receive"
       /\ does' \in [Mq!Procs -> Steps]
       /\ \A q \in Mq!Procs : q # 0 => does'[q] = does[q]
  BY <1>2, <1>5, <1>b, <1>c DEF Steps
<1>15. MqTypes'
  BY <1>2, <1>a, <1>b, <1>13, <1>14 DEF MqTypes
<1>16. \A s \in Senders : Over(s) => Over(s)'
  BY <1>c, <1>14 DEF Over
<1>17. /\ ExitsLast(queues[n])
       /\ \A j \in 1 .. Len(queues[n]) : queues[n][j][2] = "exit" => Over(queues[n][j][1])
  BY <1>3, <1>c DEF Orderly
<1>18. ExitsLast(x) /\ (m[2] = "exit" => NothingOf(m[1], x))
  BY <1>2, <1>4, <1>5, <1>8, <1>17, ExitsLastTail
<1>19. Orderly(n)'
  <2>1. ASSUME NEW j \in 1 .. Len(x), x[j][2] = "exit" PROVE Over(x[j][1])'
    <3>1. j \in 1 .. Len(queues[n]) - 1 /\ j + 1 \in 1 .. Len(queues[n])
      BY <1>6, <1>8
    <3>2. x[j] = queues[n][j + 1] /\ queues[n][j + 1] \in Messages
      BY <1>4, <1>6, <1>8, <3>1, ElementOfSeq
    <3>3. Over(x[j][1]) /\ x[j][1] \in Senders
      BY <1>17, <2>1, <3>1, <3>2 DEF Messages
    <3> QED BY <1>16, <3>3
  <2> QED BY <1>13, <1>18, <2>1 DEF Orderly
<1>20. ASSUME NEW q \in 1 .. Len(queues) PROVE Orderly(q)' /\ (q # named => TakenUpToExit(q)')
  <2>1. CASE q = n
    BY <1>3, <1>19, <2>1
  <2>2. CASE q # n
    <3>1. queues[q] \in Seq(Messages) /\ queues'[q] = queues[q] /\ received'[q] = received[q]
      BY <1>a, <1>13, <2>2, ElementOfSeq
    <3> QED BY <1>c, <1>16, <3>1, MqKeepsQueue
  <2> QED BY <2>1, <2>2
<1>21. m[2] = "exit" => TakenUpToExit(n)'
  <2> SUFFICES ASSUME m[2] = "exit" PROVE TakenUpToExit(n)'
    OBVIOUS
  <2>1. Over(m[1])
    <3>1. 1 \in 1 .. Len(queues[n])
      BY <1>6
    <3> QED BY <1>6, <1>17, <3>1
  <2>2. Over(m[1])' /\ NothingOf(m[1], queues'[n])
    BY <1>7, <1>13, <1>16, <1>18, <2>1
  <2>3. received'[n] # <<>> /\ received'[n][Len(received'[n])] = <<m[1], "exit">>
    BY <1>7, <1>10, <1>13
  <2> QED BY <1>7, <2>2, <2>3 DEF TakenUpToExit
<1>22. does'[0] \in {"close", "unlink"} => named' # 0 /\ TakenUpToExit(named)'
  <2>1. does'[0] \in {"close", "unlink"} => TakenUpToExit(n)'
    BY <1>14, <1>21
  <2>2. named' = n
    BY <1>2, <1>3
  <2> QED BY <1>3, <2>1, <2>2 DEF TakenUpToExit
<1>23. /\ \A q \in Mq!Procs : does'[q] \in Acting => using'[q] # 0
       /\ using'[0] # 0 => using'[0] = named'
       /\ does'[0] # "unlink"
  BY <1>1, <1>2, <1>3, <1>c, <1>14
<1>24. \A q \in 1 .. Len(queues') : Orderly(q)' /\ (q # named' => TakenUpToExit(q)')
  BY <1>2, <1>13, <1>20
<1> QED BY <1>15, <1>22, <1>23, <1>24 DEF MqInv, Acting

\* Every step of the senders and the receiver keeps the queues and what was received.
LEMMA MqStep == MqInv /\ (Mq!Next \/ UNCHANGED mqVars) => MqInv'
<1> SUFFICES ASSUME MqInv, Mq!Next \/ UNCHANGED mqVars PROVE MqInv'
  OBVIOUS
<1>a. /\ using \in [Mq!Procs -> 0 .. Len(queues)] /\ does \in [Mq!Procs -> Steps]
      /\ kills \in 0 .. MaxCrashes /\ runs \in 0 .. MaxRuns
      /\ queues \in Seq(Seq(Messages)) /\ received \in Seq(Seq(Messages))
      /\ Len(queues) \in Nat /\ Len(received) = Len(queues)
      /\ \A q \in 1 .. Len(queues) : Len(queues[q]) <= BufferSize
      /\ named \in 0 .. Len(queues)
  BY LenProperties DEF MqInv, MqTypes
<1>b. MaxRuns \in Nat /\ MaxCrashes \in Nat
  BY CountsAssumption
<1>c. /\ \A q \in Mq!Procs : does[q] \in Acting => using[q] # 0
      /\ using[0] # 0 => using[0] = named
      /\ does[0] \in {"close", "unlink"} => named # 0 /\ TakenUpToExit(named)
      /\ does[0] = "unlink" => using[0] = 0
      /\ 0 \in Mq!Procs /\ Senders \subseteq Mq!Procs /\ 0 \notin Senders
  BY ProcessesAssumption DEF MqInv, Acting, Mq!Procs, Mq!Receiver
<1>1. ASSUME NEW s \in Senders, does[s] = "start", Mq!Open(s, Mq!Texts[1]), UNCHANGED runs PROVE MqInv'
  <2>1. Mq!Texts[1] = "hello" /\ UNCHANGED kills /\ s # 0 /\ s \in Mq!Procs
    BY <1>1, <1>c, MqTexts DEF Mq!Open
  <2> QED BY <1>1, <1>a, <2>1, MqOpens
<1>2. ASSUME runs < MaxRuns, Mq!Open(0, "receive"), runs' = runs + 1 PROVE MqInv'
  <2>1. UNCHANGED kills /\ runs' \in 0 .. MaxRuns
    BY <1>2, <1>a, <1>b DEF Mq!Open
  <2> QED BY <1>2, <1>c, <2>1, MqOpens
<1>3. ASSUME NEW s \in Senders, Mq!Close(s, "end") PROVE MqInv'
  <2>1. /\ does' = [does EXCEPT ![s] = "end"] /\ using' = [using EXCEPT ![s] = 0]
        /\ UNCHANGED <<queues, named, received, runs, kills>>
    BY <1>3 DEF Mq!Close, Mq!Then
  <2>2. /\ does'[s] = "end" /\ using'[s] = 0 /\ s # 0
        /\ does' \in [Mq!Procs -> Steps] /\ using' \in [Mq!Procs -> 0 .. Len(queues)]
        /\ \A q \in Mq!Procs : q # s => does'[q] = does[q] /\ using'[q] = using[q]
    BY <2>1, <1>a, <1>c DEF Steps
  <2>3. MqTypes'
    BY <2>1, <2>2, <1>a DEF MqTypes
  <2>4. /\ does'[0] = does[0] /\ using'[0] = using[0] /\ Over(s)' /\ does'[s] \notin Acting
    BY <2>2, <1>c DEF Over, Acting
  <2> QED BY <2>1, <2>2, <2>3, <2>4, <1>c, MqSame
<1>4. ASSUME Mq!Close(0, "unlink") PROVE MqInv'
  <2>1. /\ does[0] = "close" /\ does' = [does EXCEPT ![0] = "unlink"] /\ using' = [using EXCEPT ![0] = 0]
        /\ UNCHANGED <<queues, named, received, runs, kills>>
    BY <1>4 DEF Mq!Close, Mq!Then
  <2>2. /\ does'[0] = "unlink" /\ using'[0] = 0
        /\ does' \in [Mq!Procs -> Steps] /\ using' \in [Mq!Procs -> 0 .. Len(queues)]
        /\ \A q \in Mq!Procs : q # 0 => does'[q] = does[q] /\ using'[q] = using[q]
    BY <2>1, <1>a, <1>c DEF Steps
  <2>3. MqTypes'
    BY <2>1, <2>2, <1>a DEF MqTypes
  <2>4. named # 0 /\ TakenUpToExit(named) /\ does'[0] \notin Acting
    BY <2>1, <2>2, <1>c DEF Acting
  <2> QED BY <2>1, <2>2, <2>3, <2>4, <1>c, MqSame
<1>5. ASSUME Mq!Unlink PROVE MqInv'
  <2>1. /\ does[0] = "unlink" /\ does' = [does EXCEPT ![0] = "end"] /\ named' = 0
        /\ UNCHANGED <<queues, using, received, runs, kills>>
    BY <1>5 DEF Mq!Unlink, Mq!Then, Mq!Receiver
  <2>2. /\ does'[0] = "end" /\ using'[0] = 0
        /\ does' \in [Mq!Procs -> Steps]
        /\ \A q \in Mq!Procs : q # 0 => does'[q] = does[q] /\ using'[q] = using[q]
    BY <2>1, <1>a, <1>c DEF Steps
  <2>3. MqTypes'
    <3>1. 0 \in 0 .. Len(queues)
      BY <1>a
    <3> QED BY <2>1, <2>2, <3>1, <1>a DEF MqTypes
  <2>4. TakenUpToExit(named) /\ does'[0] \notin Acting \cup {"close", "unlink"}
    BY <2>1, <2>2, <1>c DEF Acting
  <2> QED BY <2>1, <2>2, <2>3, <2>4, <1>c, MqSame
<1>6. ASSUME NEW p \in Mq!Procs, Mq!Kill(p) PROVE MqInv'
  <2>1. /\ does' = [does EXCEPT ![p] = "end"] /\ using' = [using EXCEPT ![p] = 0]
        /\ kills' = kills + 1 /\ kills < MaxCrashes
        /\ UNCHANGED <<queues, named, received, runs>>
    BY <1>6 DEF Mq!Kill, Mq!Then
  <2>2. /\ does'[p] = "end" /\ using'[p] = 0
        /\ does' \in [Mq!Procs -> Steps] /\ using' \in [Mq!Procs -> 0 .. Len(queues)]
        /\ \A q \in Mq!Procs : q # p => does'[q] = does[q] /\ using'[q] = using[q]
    BY <2>1, <1>a DEF Steps
  <2>3. kills' \in 0 .. MaxCrashes
    BY <2>1, <1>a, <1>b
  <2>4. MqTypes'
    BY <2>1, <2>2, <2>3, <1>a DEF MqTypes
  <2>5. /\ (does'[0] = does[0] /\ using'[0] = using[0]) \/ (does'[0] = "end" /\ using'[0] = 0)
        /\ p \in Senders => Over(p)'
        /\ does'[p] \notin Acting
    BY <2>2, <1>c DEF Over, Acting
  <2>6. /\ using'[0] # 0 => using'[0] = named'
        /\ does'[0] \in {"close", "unlink"} => named # 0 /\ named' = named /\ TakenUpToExit(named)
        /\ does'[0] = "unlink" => using'[0] = 0
    BY <2>1, <2>5, <1>c
  <2> QED BY <2>1, <2>2, <2>4, <2>5, <2>6, MqSame
<1>7. CASE UNCHANGED mqVars
  BY <1>7 DEF mqVars, MqInv, MqTypes, Orderly, TakenUpToExit, Over
<1> QED
  <2>1. Mq!Next => \/ \E s \in Senders : does[s] = "start" /\ Mq!Open(s, Mq!Texts[1]) /\ UNCHANGED runs
                   \/ runs < MaxRuns /\ Mq!Open(0, "receive") /\ runs' = runs + 1
                   \/ \E s \in Senders : Mq!Send(s) \/ Mq!Close(s, "end")
                   \/ Mq!Receive \/ Mq!Close(0, "unlink") \/ Mq!Unlink
                   \/ \E p \in Mq!Procs : Mq!Kill(p)
    BY DEF Mq!Next, Mq!Start, Mq!ReceiverStep, Mq!Sender, Mq!Receiver
  <2> QED BY <2>1, <1>1, <1>2, <1>3, <1>4, <1>5, <1>6, <1>7, MqSends, MqReceives

\* What is lost was behind the exit of another sender.
LEMMA MqLost == MqInv => Mq!TypeOK /\ Mq!LostBehindExit
<1> SUFFICES ASSUME MqInv PROVE Mq!TypeOK /\ Mq!LostBehindExit
  OBVIOUS
<1>1. /\ queues \in Seq(Seq(Messages)) /\ DOMAIN queues = 1 .. Len(queues)
      /\ received \in Seq(Seq(Messages)) /\ Len(received) = Len(queues)
      /\ \A q \in 1 .. Len(queues) : q # named => TakenUpToExit(q)
  BY LenProperties DEF MqInv, MqTypes
<1>2. Mq!TypeOK
  <2>1. Steps = Mq!Range(Mq!Texts) \cup {"start", "receive", "close", "unlink", "end"}
    BY MqTexts DEF Steps
  <2>2. Messages = Senders \X Mq!Range(Mq!Texts)
    BY MqTexts DEF Messages
  <2> QED BY <1>1, <2>1, <2>2 DEF MqInv, MqTypes, Mq!TypeOK
<1>3. ASSUME NEW q \in DOMAIN queues, Mq!Removed(q)
      PROVE  /\ received[q] # <<>> /\ Mq!Last(received[q])[2] = "exit"
             /\ \A m \in Mq!Range(queues[q]) : m[1] # Mq!Last(received[q])[1]
  <2>1. q \in 1 .. Len(queues) /\ q # named
    BY <1>1, <1>3 DEF Mq!Removed
  <2>2. PICK s \in Senders : /\ NothingOf(s, queues[q])
                             /\ received[q] # <<>> /\ received[q][Len(received[q])] = <<s, "exit">>
    BY <1>1, <2>1 DEF TakenUpToExit
  <2>3. Mq!Last(received[q]) = <<s, "exit">>
    BY <2>2 DEF Mq!Last
  <2>4. queues[q] \in Seq(Messages) /\ DOMAIN queues[q] = 1 .. Len(queues[q])
    BY <1>1, <2>1, ElementOfSeq, LenProperties
  <2>5. \A m \in Mq!Range(queues[q]) : m[1] # s
    BY <2>2, <2>4 DEF Mq!Range, NothingOf
  <2> QED BY <2>2, <2>3, <2>5
<1> QED BY <1>2, <1>3 DEF Mq!LostBehindExit

-----------------------------------------------------------------------------
\* ipc_pipe_named.cpp.
Parent(r) == <<r, "parent">>
Child(r) == <<r, "child">>

\* Nobody knows of the pipe of a run that has not started.
NotStarted(r) == place[Parent(r)] = "none" =>
                     /\ place[Child(r)] = "none" /\ fifo # r /\ r \notin filled
                     /\ \A q \in Pipe!Procs : open[q] # r

\* Nobody but the run itself has its pipe open, and it has no other open.
Alone(r) == /\ \A q \in Pipe!Procs : open[q] = r => q[1] = r
            /\ open[Parent(r)] \in {0, r} /\ open[Child(r)] \in {0, r}

Outside(r) == /\ place[Parent(r)] \in {"none", "no pipe"} /\ place[Child(r)] \in {"none", "no pipe"}
              /\ open[Parent(r)] = 0 /\ open[Child(r)] = 0

BothToOpen(r) == /\ place[Parent(r)] = "open" /\ place[Child(r)] = "open"
                 /\ open[Parent(r)] = 0 /\ open[Child(r)] = 0
                 /\ fifo = r /\ r \notin filled

ParentWaits(r) == /\ place[Parent(r)] = "opening" /\ place[Child(r)] = "open"
                  /\ open[Parent(r)] = r /\ open[Child(r)] = 0
                  /\ fifo = r /\ r \notin filled

ChildWaits(r) == /\ place[Parent(r)] = "open" /\ place[Child(r)] = "opening"
                 /\ open[Parent(r)] = 0 /\ open[Child(r)] = r
                 /\ fifo = r /\ r \notin filled

BothOpen(r) == /\ place[Parent(r)] = "write" /\ place[Child(r)] = "read"
               /\ open[Parent(r)] = r /\ open[Child(r)] = r
               /\ r \notin filled

Written(r) == /\ place[Parent(r)] \in {"close", "unlink", "end"} /\ place[Child(r)] = "read"
              /\ open[Child(r)] = r /\ r \in filled

Heard(r) == /\ place[Parent(r)] \in {"close", "unlink", "end"}
            /\ place[Child(r)] \in {"close", "unlink", "end"}
            /\ heard[r] = "message"

Undisturbed(r) == /\ Alone(r)
                  /\ \/ Outside(r) \/ BothToOpen(r) \/ ParentWaits(r) \/ ChildWaits(r)
                     \/ BothOpen(r) \/ Written(r) \/ Heard(r)

PipeInv ==
    /\ Pipe!TypeOK
    /\ \A p \in Pipe!Procs : place[p] \in {"opening", "write"} => open[p] # 0
    /\ \A r \in Runs : NotStarted(r) /\ (r \notin disturbed => Undisturbed(r))

\* The two processes of a run, and which run a process belongs to.
LEMMA PipeProcs ==
    /\ \A r \in Runs : Parent(r) \in Pipe!Procs /\ Child(r) \in Pipe!Procs /\ Parent(r) # Child(r)
    /\ \A r \in Runs : /\ Parent(r)[1] = r /\ Parent(r)[2] = "parent"
                       /\ Child(r)[1] = r /\ Child(r)[2] = "child"
    /\ \A p \in Pipe!Procs : p[1] \in Runs /\ (p = Parent(p[1]) \/ p = Child(p[1]))
    /\ \A r \in Runs, p \in Pipe!Procs : p[1] # r => p # Parent(r) /\ p # Child(r)
    /\ 0 \notin Runs
<1>1. \A r \in Runs : Parent(r) \in Pipe!Procs /\ Child(r) \in Pipe!Procs /\ Parent(r) # Child(r)
  BY DEF Parent, Child, Pipe!Procs, Pipe!Sides
<1>2. \A r : /\ Parent(r)[1] = r /\ Parent(r)[2] = "parent"
             /\ Child(r)[1] = r /\ Child(r)[2] = "child"
  BY DEF Parent, Child
<1>3. \A p \in Pipe!Procs : p[1] \in Runs /\ (p = Parent(p[1]) \/ p = Child(p[1]))
  BY DEF Parent, Child, Pipe!Procs, Pipe!Sides
<1>4. 0 \notin Runs
  BY ProcessesAssumption
<1> QED BY <1>1, <1>2, <1>3, <1>4

\* No run has started at first.
LEMMA PipeInit == Init => PipeInv
<1> SUFFICES ASSUME Init PROVE PipeInv
  OBVIOUS
<1>1. Pipe!Init /\ MaxCrashes \in Nat
  BY CountsAssumption DEF Init
<1>2. Pipe!TypeOK
  BY <1>1 DEF Pipe!Init, Pipe!TypeOK
<1>3. ASSUME NEW r \in Runs PROVE NotStarted(r) /\ Undisturbed(r)
  <2>1. /\ place[Parent(r)] = "none" /\ place[Child(r)] = "none"
        /\ open[Parent(r)] = 0 /\ open[Child(r)] = 0
        /\ fifo = 0 /\ filled = {} /\ \A q \in Pipe!Procs : open[q] = 0
    BY <1>1, PipeProcs DEF Pipe!Init
  <2>2. r # 0
    BY PipeProcs
  <2>3. NotStarted(r) /\ Alone(r) /\ Outside(r)
    BY <2>1, <2>2 DEF NotStarted, Alone, Outside
  <2> QED BY <2>3 DEF Undisturbed
<1>4. \A p \in Pipe!Procs : place[p] = "none"
  BY <1>1 DEF Pipe!Init
<1> QED BY <1>2, <1>3, <1>4 DEF PipeInv

\* An undisturbed run is at one of its stages, and heard the message at the last.
LEMMA PipeHears == PipeInv => Pipe!TypeOK /\ Pipe!ChildHears
<1> SUFFICES ASSUME PipeInv, NEW r \in Runs \ disturbed
             PROVE  /\ \A side \in Pipe!Sides : place[r, side] # "failed"
                    /\ place[r, "child"] \in {"close", "unlink", "end"} => heard[r] = "message"
  BY DEF Pipe!ChildHears, PipeInv
<1>1. \/ Outside(r) \/ BothToOpen(r) \/ ParentWaits(r) \/ ChildWaits(r)
      \/ BothOpen(r) \/ Written(r) \/ Heard(r)
  BY DEF PipeInv, Undisturbed
<1>2. place[Parent(r)] # "failed" /\ place[Child(r)] # "failed"
      /\ (place[Child(r)] \in {"close", "unlink", "end"} => heard[r] = "message")
  BY <1>1 DEF Outside, BothToOpen, ParentWaits, ChildWaits, BothOpen, Written, Heard
<1> QED BY <1>2 DEF Parent, Child, Pipe!Sides

-----------------------------------------------------------------------------
\* Parent and child are the two sides.
LEMMA OtherSides == Pipe!Other("parent") = "child" /\ Pipe!Other("child") = "parent"
<1>1. \E s \in Pipe!Sides : s # "parent"
  BY DEF Pipe!Sides
<1>2. \E s \in Pipe!Sides : s # "child"
  BY DEF Pipe!Sides
<1>3. Pipe!Other("parent") \in Pipe!Sides /\ Pipe!Other("parent") # "parent"
  BY <1>1 DEF Pipe!Other
<1>4. Pipe!Other("child") \in Pipe!Sides /\ Pipe!Other("child") # "child"
  BY <1>2 DEF Pipe!Other
<1> QED BY <1>3, <1>4 DEF Pipe!Sides

\* A step that does not touch a run and its pipe leaves it undisturbed.
LEMMA PipeOther ==
    ASSUME NEW r \in Runs, Undisturbed(r),
           place'[Parent(r)] = place[Parent(r)], place'[Child(r)] = place[Child(r)],
           open'[Parent(r)] = open[Parent(r)], open'[Child(r)] = open[Child(r)],
           heard'[r] = heard[r], r \in filled' => r \in filled, Written(r) => r \in filled',
           fifo = r => fifo' = r,
           \A q \in Pipe!Procs : open'[q] = r => open[q] = r
    PROVE  Undisturbed(r)'
<1>1. Alone(r)'
  BY DEF Undisturbed, Alone, Parent, Child
<1>2. \/ Outside(r) \/ BothToOpen(r) \/ ParentWaits(r) \/ ChildWaits(r)
      \/ BothOpen(r) \/ Written(r) \/ Heard(r)
  BY DEF Undisturbed
<1>3. \/ Outside(r)' \/ BothToOpen(r)' \/ ParentWaits(r)' \/ ChildWaits(r)'
      \/ BothOpen(r)' \/ Written(r)' \/ Heard(r)'
  BY <1>2 DEF Outside, BothToOpen, ParentWaits, ChildWaits, BothOpen, Written, Heard, Parent, Child
<1> QED BY <1>1, <1>3 DEF Undisturbed

\* A step of a process that has started makes no pipe known.
LEMMA PipeUnknown ==
    ASSUME NEW r \in Runs, NotStarted(r),
           place'[Parent(r)] = "none" => place[Parent(r)] = "none" /\ place'[Child(r)] = place[Child(r)],
           fifo' \in {0, fifo},
           \A q \in Pipe!Procs : open'[q] \in {0, fifo, open[q]},
           r \in filled' => r \in filled \/ \E q \in Pipe!Procs : open[q] = r
    PROVE  NotStarted(r)'
<1>1. r # 0
  BY PipeProcs
<1> QED BY <1>1 DEF NotStarted, Parent, Child

\* A run that starts makes the pipe, or finds the name taken.
LEMMA PipeStarts == ASSUME PipeInv, NEW s \in Runs, Pipe!Start(s) PROVE PipeInv'
<1>a. /\ fifo \in Runs \cup {0}
      /\ place \in [Pipe!Procs -> {"none", "no pipe", "open", "opening", "write", "read",
                                   "close", "unlink", "failed", "end"}]
      /\ \A r \in Runs : NotStarted(r) /\ (r \notin disturbed => Undisturbed(r))
  BY DEF PipeInv, Pipe!TypeOK
<1>1. /\ place[Parent(s)] = "none"
      /\ fifo' = IF fifo = 0 THEN s ELSE fifo
      /\ UNCHANGED <<open, filled, heard, disturbed, deaths>>
  BY DEF Pipe!Start, Parent
<1>2. PICK l \in {"open", "no pipe"} : l = IF fifo = 0 THEN "open" ELSE "no pipe"
  OBVIOUS
<1>3. place' = [p \in Pipe!Procs |-> IF p[1] # s THEN place[p] ELSE l]
  BY <1>2 DEF Pipe!Start
<1>4. /\ place'[Parent(s)] = l /\ place'[Child(s)] = l
      /\ \A p \in Pipe!Procs : p[1] # s => place'[p] = place[p]
      /\ \A p \in Pipe!Procs : place'[p] \in {l, place[p]}
  BY <1>3, PipeProcs
<1>5. Pipe!TypeOK'
  <2>1. place' \in [Pipe!Procs -> {"none", "no pipe", "open", "opening", "write", "read",
                                   "close", "unlink", "failed", "end"}]
    BY <1>a, <1>2, <1>3
  <2>2. fifo' \in Runs \cup {0}
    BY <1>a, <1>1
  <2> QED BY <1>1, <2>1, <2>2 DEF PipeInv, Pipe!TypeOK
<1>6. \A p \in Pipe!Procs : place'[p] \in {"opening", "write"} => open'[p] # 0
  BY <1>1, <1>2, <1>4 DEF PipeInv
<1>7. ASSUME NEW r \in Runs PROVE NotStarted(r)'
  <2>1. CASE r = s
    BY <1>2, <1>4, <2>1 DEF NotStarted, Parent, Child
  <2>2. CASE r # s
    <3>1. place'[Parent(r)] = place[Parent(r)] /\ place'[Child(r)] = place[Child(r)] /\ NotStarted(r)
      <4>1. Parent(r) \in Pipe!Procs /\ Child(r) \in Pipe!Procs
        BY PipeProcs
      <4>2. Parent(r)[1] # s /\ Child(r)[1] # s
        BY <2>2 DEF Parent, Child
      <4> QED BY <1>a, <1>4, <4>1, <4>2
    <3> QED BY <1>1, <2>2, <3>1 DEF NotStarted, Parent, Child
  <2> QED BY <2>1, <2>2
<1>8. ASSUME NEW r \in Runs, r \notin disturbed' PROVE Undisturbed(r)'
  <2>1. Undisturbed(r) /\ NotStarted(r) /\ r # 0
    BY <1>a, <1>1, <1>8, PipeProcs
  <2>2. CASE r = s
    <3>1. Outside(s)
      BY <1>1, <2>1, <2>2 DEF Undisturbed, Outside, BothToOpen, ParentWaits, ChildWaits, BothOpen,
                              Written, Heard
    <3>2. Alone(s)'
      BY <1>1, <2>1, <2>2 DEF Undisturbed, Alone, Parent, Child
    <3>3. s \notin filled
      BY <1>1, <2>1, <2>2 DEF NotStarted
    <3>4. Outside(s)' \/ BothToOpen(s)'
      BY <1>1, <1>2, <1>4, <3>1, <3>3 DEF Outside, BothToOpen, Parent, Child
    <3> QED BY <2>2, <3>2, <3>4 DEF Undisturbed
  <2>3. CASE r # s
    <3>1. place'[Parent(r)] = place[Parent(r)] /\ place'[Child(r)] = place[Child(r)]
      <4>1. Parent(r) \in Pipe!Procs /\ Child(r) \in Pipe!Procs
        BY PipeProcs
      <4>2. Parent(r)[1] # s /\ Child(r)[1] # s
        BY <2>3 DEF Parent, Child
      <4> QED BY <1>4, <4>1, <4>2
    <3> QED BY <1>1, <2>1, <3>1, PipeOther DEF Written
  <2> QED BY <2>2, <2>3
<1> QED BY <1>5, <1>6, <1>7, <1>8 DEF PipeInv

\* Who waits at the other side of an undisturbed run's pipe is of that run.
LEMMA PipeMeets ==
    ASSUME NEW r \in Runs, Alone(r)
    PROVE  /\ Pipe!At(r, "parent") # {} <=> open[Parent(r)] = r
           /\ Pipe!At(r, "child") # {} <=> open[Child(r)] = r
<1>1. \A p \in Pipe!At(r, "parent") : p = Parent(r)
  BY PipeProcs DEF Pipe!At, Alone
<1>2. \A p \in Pipe!At(r, "child") : p = Child(r)
  BY PipeProcs DEF Pipe!At, Alone
<1>3. open[Parent(r)] = r => Parent(r) \in Pipe!At(r, "parent")
  BY PipeProcs DEF Pipe!At
<1>4. open[Child(r)] = r => Child(r) \in Pipe!At(r, "child")
  BY PipeProcs DEF Pipe!At
<1> QED BY <1>1, <1>2, <1>3, <1>4 DEF Pipe!At

-----------------------------------------------------------------------------
PipePlaces == {"none", "no pipe", "open", "opening", "write", "read", "close", "unlink", "failed", "end"}

\* A process of one run is neither process of another.
LEMMA OtherRun == ASSUME NEW r, NEW p, p[1] # r PROVE p # Parent(r) /\ p # Child(r)
  BY DEF Parent, Child

\* Opening waits for the other side; whoever opens the pipe of another run disturbs
\* both.
LEMMA PipeOpens == ASSUME PipeInv, NEW p \in Pipe!Procs, Pipe!Open(p) PROVE PipeInv'
<1>a. /\ fifo \in Runs \cup {0} /\ disturbed \subseteq Runs
      /\ place \in [Pipe!Procs -> PipePlaces] /\ open \in [Pipe!Procs -> Runs \cup {0}]
      /\ \A r \in Runs : NotStarted(r) /\ (r \notin disturbed => Undisturbed(r))
      /\ \A q \in Pipe!Procs : place[q] \in {"opening", "write"} => open[q] # 0
  BY DEF PipeInv, Pipe!TypeOK, PipePlaces
<1>b. PICK s \in Runs : s = p[1] /\ (p = Parent(s) \/ p = Child(s))
  BY PipeProcs
<1>c. s # 0 /\ Parent(s) \in Pipe!Procs /\ Child(s) \in Pipe!Procs /\ Parent(s) # Child(s)
  BY PipeProcs
<1>1. place[p] = "open" /\ UNCHANGED <<fifo, filled, heard, deaths>>
  BY DEF Pipe!Open
<1>d. s \notin disturbed => Undisturbed(s) /\ (BothToOpen(s) \/ ParentWaits(s) \/ ChildWaits(s))
  <2> SUFFICES ASSUME s \notin disturbed
               PROVE  Undisturbed(s) /\ (BothToOpen(s) \/ ParentWaits(s) \/ ChildWaits(s))
    OBVIOUS
  <2>1. Undisturbed(s)
    BY <1>a
  <2>2. ~Outside(s) /\ ~BothOpen(s) /\ ~Written(s) /\ ~Heard(s)
    BY <1>1, <1>b DEF Outside, BothOpen, Written, Heard
  <2> QED BY <2>1, <2>2 DEF Undisturbed
<1>2. CASE fifo = 0
  <2>1. place' = [place EXCEPT ![p] = "failed"] /\ UNCHANGED <<open, disturbed>>
    BY <1>2 DEF Pipe!Open, Pipe!Goes
  <2>2. s \in disturbed
    BY <1>2, <1>c, <1>d DEF BothToOpen, ParentWaits, ChildWaits
  <2>3. place'[p] = "failed" /\ \A q \in Pipe!Procs : q # p => place'[q] = place[q]
    BY <1>a, <2>1
  <2>4. Pipe!TypeOK'
    BY <1>1, <2>1 DEF PipeInv, Pipe!TypeOK
  <2>5. ASSUME NEW r \in Runs PROVE NotStarted(r)' /\ (r \notin disturbed' => Undisturbed(r)')
    <3>0. Parent(r) \in Pipe!Procs /\ Child(r) \in Pipe!Procs
      BY PipeProcs
    <3>1. CASE r = s
      <4>1. place'[Parent(s)] = "none" => place[Parent(s)] = "none" /\ p # Parent(s)
        BY <1>1, <1>c, <2>3
      <4>2. place[Parent(s)] # "none"
        BY <1>1, <1>a, <1>b DEF NotStarted
      <4>3. NotStarted(s)'
        BY <4>1, <4>2 DEF NotStarted, Parent
      <4> QED BY <2>1, <2>2, <3>1, <4>3
    <3>2. CASE r # s
      <4>1. p # Parent(r) /\ p # Child(r)
        BY <1>b, <3>2, OtherRun
      <4>2. place'[Parent(r)] = place[Parent(r)] /\ place'[Child(r)] = place[Child(r)]
        BY <2>3, <3>0, <4>1
      <4>3. NotStarted(r)'
        BY <1>1, <1>a, <2>1, <4>2, PipeUnknown
      <4>4. r \notin disturbed' => Undisturbed(r)'
        BY <1>1, <1>a, <2>1, <4>2, PipeOther DEF Written
      <4> QED BY <4>3, <4>4
    <3> QED BY <3>1, <3>2
  <2>6. \A q \in Pipe!Procs : place'[q] \in {"opening", "write"} => open'[q] # 0
    BY <1>a, <2>1, <2>3
  <2> QED BY <2>4, <2>5, <2>6 DEF PipeInv
<1>3. CASE fifo # 0
  <2>1. PICK l \in {"write", "read"} : l = IF p[2] = "parent" THEN "write" ELSE "read"
    OBVIOUS
  <2>2. /\ place' = Pipe!Opened(p, l)
        /\ open' = [open EXCEPT ![p] = fifo]
        /\ disturbed' = IF fifo = s THEN disturbed ELSE disturbed \cup {fifo, s}
    BY <1>3, <1>b, <2>1 DEF Pipe!Open
  <2>3. PICK m \in {l, "opening"} : m = IF Pipe!At(fifo, Pipe!Other(p[2])) # {} THEN l ELSE "opening"
    OBVIOUS
  <2>4. /\ place'[p] = m
        /\ \A q \in Pipe!Procs : q # p /\ ~(q[2] # p[2] /\ place[q] = "opening" /\ open[q] = fifo)
                                    => place'[q] = place[q]
        /\ \A q \in Pipe!Procs : q # p /\ q[2] # p[2] /\ place[q] = "opening" /\ open[q] = fifo
                                    => place'[q] = IF q[2] = "parent" THEN "write" ELSE "read"
    BY <2>2, <2>3 DEF Pipe!Opened
  <2>5. place' \in [Pipe!Procs -> PipePlaces]
    <3>1. \A q \in Pipe!Procs : place'[q] \in PipePlaces
      BY <1>a, <2>4 DEF PipePlaces
    <3>2. place' = [q \in Pipe!Procs |-> place'[q]]
      BY <2>2 DEF Pipe!Opened
    <3> QED BY <3>1, <3>2
  <2>6. /\ open' \in [Pipe!Procs -> Runs \cup {0}] /\ open'[p] = fifo
        /\ \A q \in Pipe!Procs : q # p => open'[q] = open[q]
    BY <1>a, <2>2
  <2>7. disturbed \subseteq disturbed' /\ disturbed' \subseteq Runs
    BY <1>3, <1>a, <2>2
  <2>8. Pipe!TypeOK'
    BY <1>1, <2>5, <2>6, <2>7 DEF PipeInv, Pipe!TypeOK, PipePlaces
  <2>9. \A q \in Pipe!Procs : place'[q] \in {"opening", "write"} => open'[q] # 0
    BY <1>3, <1>a, <2>4, <2>6
  <2>10. ASSUME NEW r \in Runs PROVE NotStarted(r)'
    <3>0. Parent(r) \in Pipe!Procs /\ Child(r) \in Pipe!Procs
      BY PipeProcs
    <3>1. place'[Parent(r)] = "none" => place[Parent(r)] = "none" /\ p # Parent(r)
      BY <2>4, <3>0
    <3>2. place[Parent(r)] = "none" => p # Child(r)
      BY <1>1, <1>a DEF NotStarted
    <3>3. place[Parent(r)] = "none" => place'[Child(r)] = place[Child(r)]
      BY <1>a, <2>4, <3>0, <3>2 DEF NotStarted
    <3> QED BY <1>1, <1>a, <2>6, <3>1, <3>3, PipeUnknown
  <2>11. ASSUME NEW r \in Runs, r \notin disturbed', r # s PROVE Undisturbed(r)'
    <3>1. Undisturbed(r) /\ r # fifo
      BY <1>a, <2>2, <2>7, <2>11
    <3>2. open[Parent(r)] # fifo /\ open[Child(r)] # fifo
      BY <1>3, <3>1 DEF Undisturbed, Alone
    <3>3. p # Parent(r) /\ p # Child(r) /\ Parent(r) \in Pipe!Procs /\ Child(r) \in Pipe!Procs
      BY <1>b, <2>11, OtherRun, PipeProcs
    <3>4. /\ place'[Parent(r)] = place[Parent(r)] /\ place'[Child(r)] = place[Child(r)]
          /\ open'[Parent(r)] = open[Parent(r)] /\ open'[Child(r)] = open[Child(r)]
      BY <2>4, <2>6, <3>2, <3>3
    <3>5. \A q \in Pipe!Procs : open'[q] = r => open[q] = r
      BY <2>6, <3>1
    <3> QED BY <1>1, <3>1, <3>4, <3>5, PipeOther DEF Written
  <2>12. ASSUME s \notin disturbed' PROVE Undisturbed(s)'
    <3>1. fifo = s /\ Undisturbed(s) /\ (BothToOpen(s) \/ ParentWaits(s) \/ ChildWaits(s))
      BY <1>d, <2>2, <2>7, <2>12
    <3>2. /\ Pipe!At(s, "parent") # {} <=> open[Parent(s)] = s
          /\ Pipe!At(s, "child") # {} <=> open[Child(s)] = s
      BY <3>1, PipeMeets DEF Undisturbed
    <3>3. Alone(s)'
      <4>1. \A q \in Pipe!Procs : open'[q] = s => q[1] = s
        BY <1>b, <2>6, <3>1 DEF Undisturbed, Alone
      <4>2. open'[Parent(s)] \in {0, s} /\ open'[Child(s)] \in {0, s}
        BY <1>c, <2>6, <3>1 DEF Undisturbed, Alone
      <4> QED BY <4>1, <4>2 DEF Alone, Parent, Child
    <3>4. CASE p = Parent(s)
      <4>1. p[2] = "parent" /\ l = "write" /\ Child(s)[2] = "child" /\ Child(s) # p
        BY <1>c, <2>1, <3>4 DEF Parent, Child
      <4>2. m = IF open[Child(s)] = s THEN "write" ELSE "opening"
        BY <2>3, <3>1, <3>2, <4>1, OtherSides
      <4>3. open'[Parent(s)] = s /\ open'[Child(s)] = open[Child(s)] /\ place'[Parent(s)] = m
        BY <1>c, <2>4, <2>6, <3>1, <3>4, <4>1
      <4>4. CASE BothToOpen(s)
        <5>1. place'[Child(s)] = "open" /\ m = "opening"
          BY <1>c, <2>4, <4>1, <4>2, <4>4 DEF BothToOpen
        <5>2. ParentWaits(s)'
          BY <1>1, <4>3, <4>4, <5>1 DEF BothToOpen, ParentWaits, Parent, Child
        <5> QED BY <3>3, <5>2 DEF Undisturbed
      <4>5. CASE ChildWaits(s)
        <5>1. place'[Child(s)] = "read" /\ m = "write"
          BY <1>c, <2>4, <3>1, <4>1, <4>2, <4>5 DEF ChildWaits
        <5>2. BothOpen(s)'
          BY <1>1, <4>3, <4>5, <5>1 DEF ChildWaits, BothOpen, Parent, Child
        <5> QED BY <3>3, <5>2 DEF Undisturbed
      <4>6. ~ParentWaits(s)
        BY <1>1, <3>4 DEF ParentWaits
      <4> QED BY <3>1, <4>4, <4>5, <4>6
    <3>5. CASE p = Child(s)
      <4>1. p[2] = "child" /\ l = "read" /\ Parent(s)[2] = "parent" /\ Parent(s) # p
        BY <1>c, <2>1, <3>5 DEF Parent, Child
      <4>2. m = IF open[Parent(s)] = s THEN "read" ELSE "opening"
        BY <2>3, <3>1, <3>2, <4>1, OtherSides
      <4>3. open'[Child(s)] = s /\ open'[Parent(s)] = open[Parent(s)] /\ place'[Child(s)] = m
        BY <1>c, <2>4, <2>6, <3>1, <3>5, <4>1
      <4>4. CASE BothToOpen(s)
        <5>1. place'[Parent(s)] = "open" /\ m = "opening"
          BY <1>c, <2>4, <4>1, <4>2, <4>4 DEF BothToOpen
        <5>2. ChildWaits(s)'
          BY <1>1, <4>3, <4>4, <5>1 DEF BothToOpen, ChildWaits, Parent, Child
        <5> QED BY <3>3, <5>2 DEF Undisturbed
      <4>5. CASE ParentWaits(s)
        <5>1. place'[Parent(s)] = "write" /\ m = "read"
          BY <1>c, <2>4, <3>1, <4>1, <4>2, <4>5 DEF ParentWaits
        <5>2. BothOpen(s)'
          BY <1>1, <4>3, <4>5, <5>1 DEF ParentWaits, BothOpen, Parent, Child
        <5> QED BY <3>3, <5>2 DEF Undisturbed
      <4>6. ~ChildWaits(s)
        BY <1>1, <3>5 DEF ChildWaits
      <4> QED BY <3>1, <4>4, <4>5, <4>6
    <3> QED BY <1>b, <3>4, <3>5
  <2> QED BY <2>8, <2>9, <2>10, <2>11, <2>12 DEF PipeInv
<1> QED BY <1>2, <1>3

-----------------------------------------------------------------------------
\* A step of one process that opens no pipe.
LEMMA PipeActs ==
    ASSUME PipeInv, Pipe!TypeOK', NEW p \in Pipe!Procs, NEW s \in Runs, s = p[1],
           place[p] \notin {"none", "no pipe"}, place'[p] \in {"close", "failed", "unlink", "end"},
           \A q \in Pipe!Procs \ {p} : place'[q] = place[q] /\ open'[q] = open[q],
           open'[p] \in {0, open[p]}, fifo' \in {0, fifo}, disturbed \subseteq disturbed',
           \A r \in Runs \ {s} : heard'[r] = heard[r] /\ (r \notin disturbed' => (fifo = r => fifo' = r)),
           \A r \in Runs \ {s} : r \notin disturbed' =>
               (r \in filled' => r \in filled) /\ (Written(r) => r \in filled'),
           \A r \in filled' : r \in filled \/ \E q \in Pipe!Procs : open[q] = r,
           s \notin disturbed' => Undisturbed(s)'
    PROVE  PipeInv'
<1>a. /\ \A r \in Runs : NotStarted(r) /\ (r \notin disturbed => Undisturbed(r))
      /\ \A q \in Pipe!Procs : place[q] \in {"opening", "write"} => open[q] # 0
  BY DEF PipeInv
<1>1. \A q \in Pipe!Procs : place'[q] \in {"opening", "write"} => open'[q] # 0
  BY <1>a
<1>2. ASSUME NEW r \in Runs PROVE NotStarted(r)'
  <2>0. Parent(r) \in Pipe!Procs /\ Child(r) \in Pipe!Procs
    BY PipeProcs
  <2>1. place'[Parent(r)] = "none" => place[Parent(r)] = "none" /\ p # Parent(r)
    BY <2>0
  <2>2. place[Parent(r)] = "none" => p # Child(r)
    BY <1>a DEF NotStarted
  <2>3. place'[Parent(r)] = "none" => place'[Child(r)] = place[Child(r)]
    BY <2>0, <2>1, <2>2
  <2>4. \A q \in Pipe!Procs : open'[q] \in {0, fifo, open[q]}
    OBVIOUS
  <2> QED BY <1>a, <2>1, <2>3, <2>4, PipeUnknown
<1>3. ASSUME NEW r \in Runs, r \notin disturbed' PROVE Undisturbed(r)'
  <2>1. CASE r # s
    <3>1. p # Parent(r) /\ p # Child(r) /\ Parent(r) \in Pipe!Procs /\ Child(r) \in Pipe!Procs
      BY <2>1, OtherRun, PipeProcs
    <3>2. /\ place'[Parent(r)] = place[Parent(r)] /\ place'[Child(r)] = place[Child(r)]
          /\ open'[Parent(r)] = open[Parent(r)] /\ open'[Child(r)] = open[Child(r)]
      BY <3>1
    <3>0. r # 0
      BY PipeProcs
    <3>3. \A q \in Pipe!Procs : open'[q] = r => open[q] = r
      BY <3>0
    <3>4. /\ Undisturbed(r) /\ heard'[r] = heard[r] /\ (r \in filled' => r \in filled)
          /\ (Written(r) => r \in filled') /\ (fifo = r => fifo' = r)
      BY <1>a, <1>3, <2>1
    <3> QED BY <3>2, <3>3, <3>4, PipeOther
  <2> QED BY <1>3, <2>1
<1> QED BY <1>1, <1>2, <1>3 DEF PipeInv

\* A process closes what it has open, or keeps it: its run still meets nobody else.
LEMMA PipeAlone ==
    ASSUME NEW s \in Runs, Alone(s), \A q \in Pipe!Procs : open'[q] \in {0, open[q]}
    PROVE  Alone(s)'
<1>1. Parent(s) \in Pipe!Procs /\ Child(s) \in Pipe!Procs /\ s # 0
  BY PipeProcs
<1> QED BY <1>1 DEF Alone, Parent, Child

\* The parent writes to the pipe that its child has open.
LEMMA PipeWrites == ASSUME PipeInv, NEW s \in Runs, Pipe!Write(s) PROVE PipeInv'
<1>a. /\ place \in [Pipe!Procs -> PipePlaces] /\ open \in [Pipe!Procs -> Runs \cup {0}] /\ filled \subseteq Runs
      /\ \A r \in Runs : r \notin disturbed => Undisturbed(r)
      /\ \A q \in Pipe!Procs : place[q] \in {"opening", "write"} => open[q] # 0
  BY DEF PipeInv, Pipe!TypeOK, PipePlaces
<1>b. PICK p \in Pipe!Procs : p = Parent(s) /\ p[1] = s
  BY PipeProcs
<1>c. Child(s) \in Pipe!Procs /\ Child(s) # p
  BY <1>b, PipeProcs
<1>1. /\ place[p] = "write" /\ UNCHANGED <<fifo, heard, disturbed, deaths>>
      /\ \/ /\ Pipe!At(open[p], "child") # {} /\ place' = [place EXCEPT ![p] = "close"]
            /\ filled' = filled \cup {open[p]} /\ UNCHANGED open
         \/ /\ Pipe!At(open[p], "child") = {} /\ place' = [place EXCEPT ![p] = "failed"]
            /\ open' = [open EXCEPT ![p] = 0] /\ UNCHANGED filled
  BY <1>b DEF Pipe!Write, Pipe!Goes, Parent
<1>2. open[p] \in Runs
  BY <1>1, <1>a
<1>3. /\ place'[p] \in {"close", "failed"} /\ open'[p] \in {0, open[p]}
      /\ \A q \in Pipe!Procs \ {p} : place'[q] = place[q] /\ open'[q] = open[q]
      /\ filled \subseteq filled' /\ filled' \subseteq filled \cup {open[p]}
  BY <1>1, <1>a
<1>4. Pipe!TypeOK'
  <2>1. filled' \subseteq Runs
    BY <1>2, <1>3, <1>a
  <2>2. place' \in [Pipe!Procs -> PipePlaces] /\ open' \in [Pipe!Procs -> Runs \cup {0}]
    BY <1>1, <1>a DEF PipePlaces
  <2> QED BY <1>1, <2>1, <2>2 DEF PipeInv, Pipe!TypeOK, PipePlaces
<1>5. \A r \in Runs \ {s} : r \notin disturbed => open[p] # r
  BY <1>a, <1>b DEF Undisturbed, Alone
<1>6. s \notin disturbed' => Undisturbed(s)'
  <2> SUFFICES ASSUME s \notin disturbed PROVE Undisturbed(s)'
    BY <1>1
  <2>1. Undisturbed(s) /\ BothOpen(s)
    BY <1>1, <1>a, <1>b DEF Undisturbed, Outside, BothToOpen, ParentWaits, ChildWaits, Written, Heard
  <2>2. open[p] = s /\ open[Child(s)] = s /\ place[Child(s)] = "read"
    BY <2>1, <1>b DEF BothOpen
  <2>3. Pipe!At(open[p], "child") # {}
    BY <2>1, <2>2, PipeMeets DEF Undisturbed
  <2>4. place'[p] = "close" /\ s \in filled'
    BY <1>1, <1>a, <2>2, <2>3
  <2>5. place'[Child(s)] = "read" /\ open'[Child(s)] = s
    BY <1>3, <1>c, <2>2
  <2>6. Written(s)'
    BY <1>b, <2>4, <2>5 DEF Written, Parent, Child
  <2>7. Alone(s)'
    <3>1. \A q \in Pipe!Procs : open'[q] \in {0, open[q]}
      BY <1>3
    <3> QED BY <2>1, <3>1, PipeAlone DEF Undisturbed
  <2> QED BY <2>6, <2>7 DEF Undisturbed
<1>7. \A r \in filled' : r \in filled \/ \E q \in Pipe!Procs : open[q] = r
  BY <1>3
<1>8. \A r \in Runs \ {s} : r \notin disturbed' =>
          (r \in filled' => r \in filled) /\ (Written(r) => r \in filled')
  BY <1>1, <1>3, <1>5 DEF Written
<1>9. /\ place[p] \notin {"none", "no pipe"} /\ place'[p] \in {"close", "failed", "unlink", "end"}
      /\ fifo' \in {0, fifo} /\ disturbed \subseteq disturbed'
      /\ \A r \in Runs \ {s} : heard'[r] = heard[r] /\ (r \notin disturbed' => (fifo = r => fifo' = r))
  BY <1>1, <1>3
<1> QED BY <1>b, <1>3, <1>4, <1>6, <1>7, <1>8, <1>9, PipeActs

\* The child reads the message of its parent.
LEMMA PipeReads == ASSUME PipeInv, NEW s \in Runs, Pipe!Read(s) PROVE PipeInv'
<1>a. /\ place \in [Pipe!Procs -> PipePlaces] /\ filled \subseteq Runs
      /\ heard \in [Runs -> {"nothing", "message", "end of file"}]
      /\ \A r \in Runs : r \notin disturbed => Undisturbed(r)
  BY DEF PipeInv, Pipe!TypeOK, PipePlaces
<1>b. PICK p \in Pipe!Procs : p = Child(s) /\ p[1] = s
  BY PipeProcs
<1>c. Parent(s) \in Pipe!Procs /\ Parent(s) # p
  BY <1>b, PipeProcs
<1>1. PICK h \in {"message", "end of file"} : h = IF open[p] \in filled THEN "message" ELSE "end of file"
  OBVIOUS
<1>2. /\ place[p] = "read" /\ ~Pipe!Waits(p)
      /\ heard' = [heard EXCEPT ![s] = h]
      /\ filled' = filled \ {open[p]} /\ place' = [place EXCEPT ![p] = "close"]
      /\ UNCHANGED <<fifo, open, disturbed, deaths>>
  BY <1>b, <1>1 DEF Pipe!Read, Pipe!Goes, Child
<1>3. /\ place'[p] = "close" /\ heard'[s] = h
      /\ \A q \in Pipe!Procs \ {p} : place'[q] = place[q] /\ open'[q] = open[q]
      /\ \A r \in Runs \ {s} : heard'[r] = heard[r]
  BY <1>2, <1>a
<1>4. Pipe!TypeOK'
  <2>1. place' \in [Pipe!Procs -> PipePlaces] /\ filled' \subseteq Runs
        /\ heard' \in [Runs -> {"nothing", "message", "end of file"}]
    BY <1>2, <1>a DEF PipePlaces
  <2> QED BY <1>2, <2>1 DEF PipeInv, Pipe!TypeOK, PipePlaces
<1>5. \A r \in Runs \ {s} : r \notin disturbed => open[p] # r
  BY <1>a, <1>b DEF Undisturbed, Alone
<1>6. s \notin disturbed' => Undisturbed(s)'
  <2> SUFFICES ASSUME s \notin disturbed PROVE Undisturbed(s)'
    BY <1>2
  <2>1. Undisturbed(s) /\ (BothOpen(s) \/ Written(s))
    BY <1>2, <1>a, <1>b DEF Undisturbed, Outside, BothToOpen, ParentWaits, ChildWaits, Heard
  <2>2. open[p] = s
    BY <2>1, <1>b DEF BothOpen, Written
  <2>3. ~BothOpen(s)
    <3> SUFFICES ASSUME BothOpen(s) PROVE FALSE
      OBVIOUS
    <3>1. open[Parent(s)] = s /\ s \notin filled
      BY DEF BothOpen
    <3>2. Pipe!At(open[p], "parent") # {}
      BY <2>1, <2>2, <3>1, PipeMeets DEF Undisturbed
    <3> QED BY <1>2, <2>2, <3>1, <3>2 DEF Pipe!Waits
  <2>4. place[Parent(s)] \in {"close", "unlink", "end"} /\ s \in filled
    BY <2>1, <2>3 DEF Written
  <2>5. h = "message" /\ place'[Parent(s)] = place[Parent(s)]
    BY <1>1, <1>3, <1>c, <2>2, <2>4
  <2>6. Heard(s)'
    BY <1>3, <1>b, <2>4, <2>5 DEF Heard, Parent, Child
  <2>7. Alone(s)'
    BY <1>2, <2>1, PipeAlone DEF Undisturbed
  <2> QED BY <2>6, <2>7 DEF Undisturbed
<1>7. \A r \in filled' : r \in filled \/ \E q \in Pipe!Procs : open[q] = r
  BY <1>2
<1>8. \A r \in Runs \ {s} : r \notin disturbed' =>
          (r \in filled' => r \in filled) /\ (Written(r) => r \in filled')
  BY <1>2, <1>5 DEF Written
<1>9. /\ place[p] \notin {"none", "no pipe"} /\ place'[p] \in {"close", "failed", "unlink", "end"}
      /\ fifo' \in {0, fifo} /\ disturbed \subseteq disturbed' /\ open'[p] \in {0, open[p]}
      /\ \A r \in Runs \ {s} : heard'[r] = heard[r] /\ (r \notin disturbed' => (fifo = r => fifo' = r))
  BY <1>2, <1>3
<1> QED BY <1>b, <1>3, <1>4, <1>6, <1>7, <1>8, <1>9, PipeActs

-----------------------------------------------------------------------------
\* Closing a pipe leaves what another process can still read from it.
LEMMA PipeShuts ==
    ASSUME PipeInv, NEW p \in Pipe!Procs, Pipe!Shut(p)
    PROVE  /\ open' \in [Pipe!Procs -> Runs \cup {0}] /\ filled' \subseteq Runs
           /\ open'[p] = 0 /\ \A q \in Pipe!Procs \ {p} : open'[q] = open[q]
           /\ filled' \subseteq filled
           /\ \A r \in Runs : Written(r) /\ p # Child(r) => r \in filled'
<1>a. open \in [Pipe!Procs -> Runs \cup {0}] /\ filled \subseteq Runs
  BY DEF PipeInv, Pipe!TypeOK
<1>1. /\ open' = [open EXCEPT ![p] = 0]
      /\ filled' = filled \ {f \in filled : \A q \in Pipe!Procs : open'[q] # f}
  BY DEF Pipe!Shut
<1>2. open'[p] = 0 /\ \A q \in Pipe!Procs \ {p} : open'[q] = open[q]
  BY <1>1, <1>a
<1>3. ASSUME NEW r \in Runs, Written(r), p # Child(r) PROVE r \in filled'
  <2>1. Child(r) \in Pipe!Procs
    BY PipeProcs
  <2>2. open'[Child(r)] = r /\ r \in filled
    BY <1>2, <1>3, <2>1 DEF Written
  <2> QED BY <1>1, <2>1, <2>2
<1>4. open' \in [Pipe!Procs -> Runs \cup {0}] /\ filled' \subseteq Runs /\ filled' \subseteq filled
  BY <1>1, <1>a
<1> QED BY <1>2, <1>3, <1>4

\* A process that has closed or removes the name has written or has heard.
LEMMA PipeLeaves ==
    ASSUME PipeInv, NEW p \in Pipe!Procs, NEW s \in Runs, s = p[1], Undisturbed(s),
           place[p] \in {"close", "unlink"}, place'[p] \in {"unlink", "end"},
           \A q \in Pipe!Procs \ {p} : place'[q] = place[q] /\ open'[q] = open[q],
           open'[p] \in {0, open[p]}, heard'[s] = heard[s],
           Written(s) /\ p # Child(s) => s \in filled'
    PROVE  Undisturbed(s)'
<1>1. /\ Parent(s) \in Pipe!Procs /\ Child(s) \in Pipe!Procs /\ Parent(s) # Child(s)
      /\ (p = Parent(s) \/ p = Child(s))
  BY PipeProcs
<1>2. (Written(s) /\ p = Parent(s)) \/ Heard(s)
  BY <1>1 DEF Undisturbed, Outside, BothToOpen, ParentWaits, ChildWaits, BothOpen, Written, Heard
<1>3. \A q \in Pipe!Procs : open'[q] \in {0, open[q]}
  OBVIOUS
<1>4. Alone(s)'
  BY <1>3, PipeAlone DEF Undisturbed
<1>5. CASE Written(s) /\ p = Parent(s)
  <2>1. /\ place'[Parent(s)] \in {"close", "unlink", "end"}
        /\ place'[Child(s)] = place[Child(s)] /\ open'[Child(s)] = open[Child(s)] /\ s \in filled'
    BY <1>1, <1>5
  <2>2. Written(s)'
    BY <1>5, <2>1 DEF Written, Parent, Child
  <2> QED BY <1>4, <2>2 DEF Undisturbed
<1>6. CASE Heard(s)
  <2>1. /\ place'[Parent(s)] \in {"close", "unlink", "end"}
        /\ place'[Child(s)] \in {"close", "unlink", "end"}
    BY <1>1, <1>6 DEF Heard
  <2>2. Heard(s)'
    BY <1>6, <2>1 DEF Heard, Parent, Child
  <2> QED BY <1>4, <2>2 DEF Undisturbed
<1> QED BY <1>2, <1>5, <1>6

\* Closing leaves the message to the child that has not read it.
LEMMA PipeCloses == ASSUME PipeInv, NEW p \in Pipe!Procs, Pipe!Close(p) PROVE PipeInv'
<1>a. /\ place \in [Pipe!Procs -> PipePlaces] /\ \A r \in Runs : r \notin disturbed => Undisturbed(r)
  BY DEF PipeInv, Pipe!TypeOK, PipePlaces
<1>b. PICK s \in Runs : s = p[1]
  BY PipeProcs
<1>1. /\ place[p] = "close" /\ Pipe!Shut(p) /\ place' = [place EXCEPT ![p] = "unlink"]
      /\ UNCHANGED <<fifo, heard, disturbed, deaths>>
  BY DEF Pipe!Close, Pipe!Goes
<1>2. /\ open' \in [Pipe!Procs -> Runs \cup {0}] /\ filled' \subseteq Runs
      /\ open'[p] = 0 /\ \A q \in Pipe!Procs \ {p} : open'[q] = open[q]
      /\ filled' \subseteq filled
      /\ \A r \in Runs : Written(r) /\ p # Child(r) => r \in filled'
  BY <1>1, PipeShuts
<1>3. /\ place' \in [Pipe!Procs -> PipePlaces] /\ place'[p] = "unlink"
      /\ \A q \in Pipe!Procs \ {p} : place'[q] = place[q] /\ open'[q] = open[q]
  BY <1>1, <1>2, <1>a DEF PipePlaces
<1>4. Pipe!TypeOK'
  BY <1>1, <1>2, <1>3 DEF PipeInv, Pipe!TypeOK, PipePlaces
<1>5. s \notin disturbed' => Undisturbed(s)'
  <2> SUFFICES ASSUME s \notin disturbed PROVE Undisturbed(s)'
    BY <1>1
  <2> QED BY <1>a, <1>b, <1>1, <1>2, <1>3, PipeLeaves
<1>6. \A r \in Runs \ {s} : p # Child(r)
  BY <1>b, PipeProcs
<1>7. \A r \in Runs \ {s} : r \notin disturbed' =>
          (r \in filled' => r \in filled) /\ (Written(r) => r \in filled')
  BY <1>2, <1>6
<1>8. /\ place[p] \notin {"none", "no pipe"} /\ place'[p] \in {"close", "failed", "unlink", "end"}
      /\ fifo' \in {0, fifo} /\ disturbed \subseteq disturbed' /\ open'[p] \in {0, open[p]}
      /\ \A r \in Runs \ {s} : heard'[r] = heard[r] /\ (r \notin disturbed' => (fifo = r => fifo' = r))
      /\ \A r \in filled' : r \in filled \/ \E q \in Pipe!Procs : open[q] = r
  BY <1>1, <1>2, <1>3
<1> QED BY <1>b, <1>3, <1>4, <1>5, <1>7, <1>8, PipeActs

\* Removing the name disturbs a run whose pipe it stands for.
LEMMA PipeUnlinks == ASSUME PipeInv, NEW p \in Pipe!Procs, Pipe!Unlink(p) PROVE PipeInv'
<1>a. /\ place \in [Pipe!Procs -> PipePlaces] /\ \A r \in Runs : r \notin disturbed => Undisturbed(r)
      /\ fifo \in Runs \cup {0} /\ disturbed \subseteq Runs
  BY DEF PipeInv, Pipe!TypeOK, PipePlaces
<1>b. PICK s \in Runs : s = p[1]
  BY PipeProcs
<1>1. /\ place[p] = "unlink" /\ fifo' = 0 /\ place' = [place EXCEPT ![p] = "end"]
      /\ disturbed' = disturbed \cup ({fifo} \ {0, s}) /\ UNCHANGED <<open, filled, heard, deaths>>
  BY <1>b DEF Pipe!Unlink, Pipe!Goes
<1>3. /\ place' \in [Pipe!Procs -> PipePlaces] /\ place'[p] = "end"
      /\ \A q \in Pipe!Procs \ {p} : place'[q] = place[q] /\ open'[q] = open[q]
  BY <1>1, <1>a DEF PipePlaces
<1>4. Pipe!TypeOK'
  <2>1. disturbed' \subseteq Runs /\ disturbed \subseteq disturbed'
    BY <1>1, <1>a
  <2> QED BY <1>1, <1>3, <2>1 DEF PipeInv, Pipe!TypeOK, PipePlaces
<1>5. s \notin disturbed' => Undisturbed(s)'
  <2> SUFFICES ASSUME s \notin disturbed PROVE Undisturbed(s)'
    BY <1>1
  <2>1. Written(s) => s \in filled'
    BY <1>1 DEF Written
  <2>2. heard'[s] = heard[s] /\ open'[p] \in {0, open[p]}
    BY <1>1
  <2> QED BY <1>a, <1>b, <1>1, <1>3, <2>1, <2>2, PipeLeaves
<1>6. \A r \in Runs \ {s} : r \notin disturbed' => fifo # r
  <2>1. 0 \notin Runs
    BY PipeProcs
  <2> QED BY <1>1, <2>1
<1>7. \A r \in Runs \ {s} : r \notin disturbed' =>
          (r \in filled' => r \in filled) /\ (Written(r) => r \in filled')
  BY <1>1 DEF Written
<1>8. /\ place[p] \notin {"none", "no pipe"} /\ place'[p] \in {"close", "failed", "unlink", "end"}
      /\ fifo' \in {0, fifo} /\ disturbed \subseteq disturbed' /\ open'[p] \in {0, open[p]}
      /\ \A r \in Runs \ {s} : heard'[r] = heard[r] /\ (r \notin disturbed' => (fifo = r => fifo' = r))
      /\ \A r \in filled' : r \in filled \/ \E q \in Pipe!Procs : open[q] = r
  BY <1>1, <1>3, <1>6
<1> QED BY <1>b, <1>3, <1>4, <1>5, <1>7, <1>8, PipeActs

\* A killed process disturbs its run, and no other.
LEMMA PipeKills == ASSUME PipeInv, NEW p \in Pipe!Procs, Pipe!Kill(p) PROVE PipeInv'
<1>a. /\ place \in [Pipe!Procs -> PipePlaces] /\ disturbed \subseteq Runs
  BY DEF PipeInv, Pipe!TypeOK, PipePlaces
<1>b. PICK s \in Runs : s = p[1]
  BY PipeProcs
<1>1. /\ place[p] \notin {"none", "no pipe"} /\ Pipe!Shut(p) /\ place' = [place EXCEPT ![p] = "failed"]
      /\ disturbed' = disturbed \cup {s} /\ UNCHANGED <<fifo, heard>>
  BY <1>b DEF Pipe!Kill, Pipe!Goes, Pipe!Stopped
<1>2. /\ open' \in [Pipe!Procs -> Runs \cup {0}] /\ filled' \subseteq Runs
      /\ open'[p] = 0 /\ \A q \in Pipe!Procs \ {p} : open'[q] = open[q]
      /\ filled' \subseteq filled
      /\ \A r \in Runs : Written(r) /\ p # Child(r) => r \in filled'
  BY <1>1, PipeShuts
<1>3. /\ place' \in [Pipe!Procs -> PipePlaces] /\ place'[p] = "failed"
      /\ \A q \in Pipe!Procs \ {p} : place'[q] = place[q] /\ open'[q] = open[q]
  BY <1>1, <1>2, <1>a DEF PipePlaces
<1>4. Pipe!TypeOK'
  <2>1. disturbed' \subseteq Runs
    BY <1>1, <1>a
  <2>2. MaxCrashes \in Nat
    BY CountsAssumption
  <2>3. deaths \in 0 .. MaxCrashes /\ deaths < MaxCrashes /\ deaths' = deaths + 1
    BY DEF Pipe!Kill, PipeInv, Pipe!TypeOK
  <2>4. deaths' \in 0 .. MaxCrashes
    BY <2>2, <2>3
  <2> QED BY <1>1, <1>2, <1>3, <2>1, <2>4 DEF PipeInv, Pipe!TypeOK, PipePlaces
<1>5. s \in disturbed' /\ disturbed \subseteq disturbed'
  BY <1>1
<1>6. \A r \in Runs \ {s} : p # Child(r)
  BY <1>b, PipeProcs
<1>7. \A r \in Runs \ {s} : r \notin disturbed' =>
          (r \in filled' => r \in filled) /\ (Written(r) => r \in filled')
  BY <1>2, <1>6
<1>8. /\ place[p] \notin {"none", "no pipe"} /\ place'[p] \in {"close", "failed", "unlink", "end"}
      /\ fifo' \in {0, fifo} /\ open'[p] \in {0, open[p]}
      /\ \A r \in Runs \ {s} : heard'[r] = heard[r] /\ (r \notin disturbed' => (fifo = r => fifo' = r))
      /\ \A r \in filled' : r \in filled \/ \E q \in Pipe!Procs : open[q] = r
  BY <1>1, <1>2, <1>3
<1> QED BY <1>b, <1>3, <1>4, <1>5, <1>7, <1>8, PipeActs

\* Every step of every process keeps the stages of the undisturbed runs.
LEMMA PipeStep == PipeInv /\ (Pipe!Next \/ UNCHANGED pipeVars) => PipeInv'
<1> SUFFICES ASSUME PipeInv, Pipe!Next \/ UNCHANGED pipeVars PROVE PipeInv'
  OBVIOUS
<1>1. CASE UNCHANGED pipeVars
  <2>1. UNCHANGED <<fifo, place, open, filled, heard, disturbed, deaths>>
    BY <1>1 DEF pipeVars
  <2>2. Pipe!TypeOK' /\ \A p \in Pipe!Procs : place'[p] \in {"opening", "write"} => open'[p] # 0
    BY <2>1 DEF PipeInv, Pipe!TypeOK
  <2>3. ASSUME NEW r \in Runs PROVE NotStarted(r)' /\ (r \notin disturbed' => Undisturbed(r)')
    <3>1. NotStarted(r)'
      BY <2>1 DEF PipeInv, NotStarted, Parent, Child
    <3>2. r \notin disturbed => Undisturbed(r)
      BY DEF PipeInv
    <3>3. /\ \A q : place'[q] = place[q] /\ open'[q] = open[q]
          /\ heard'[r] = heard[r] /\ filled' = filled /\ fifo' = fifo /\ disturbed' = disturbed
      BY <2>1
    <3>4. Written(r) => r \in filled
      BY DEF Written
    <3> QED BY <3>1, <3>2, <3>3, <3>4, PipeOther
  <2> QED BY <2>2, <2>3 DEF PipeInv
<1>2. ASSUME NEW r \in Runs, NEW side \in Pipe!Sides, Pipe!Step(<<r, side>>) PROVE PipeInv'
  <2>1. <<r, side>> \in Pipe!Procs
    BY DEF Pipe!Procs
  <2>2. <<r, side>>[1] = r
    OBVIOUS
  <2>3. \/ Pipe!Open(<<r, side>>) \/ Pipe!Close(<<r, side>>) \/ Pipe!Unlink(<<r, side>>)
        \/ Pipe!Write(r) \/ Pipe!Read(r)
    BY <1>2, <2>2 DEF Pipe!Step
  <2> QED BY <2>1, <2>3, PipeOpens, PipeCloses, PipeUnlinks, PipeWrites, PipeReads
<1> QED BY <1>1, <1>2, PipeStarts, PipeKills DEF Pipe!Next, Pipe!RunStep

-----------------------------------------------------------------------------
(***************************************************************************)
(* The servers.                                                            *)
(***************************************************************************)

\* server_http.cpp and client_http.cpp.

\* A client whose request was read whole, if at all.
Served(b) == /\ reply[b] # "none" => reply[b] = Http!Found(asks[b]) /\ pieces[b] = 2
             /\ b \notin reset
             /\ browser[b] # "terminated"
             /\ browser[b] = "answered" => reply[b] # "none"

HttpInv ==
    /\ Http!TypeOK
    /\ serving = NoClient => took = -1
    /\ took \in {0, 1} => serving \in partial
    /\ took = 2 => pieces[serving] = 2
    /\ took = -1 /\ serving # NoClient => reply[serving] = "none"
    /\ \A b \in EpollClients \ partial : Served(b)

\* Nothing is asked at first.
LEMMA HttpInit == Init => HttpInv
<1> SUFFICES ASSUME Init PROVE HttpInv
  OBVIOUS
<1>1. Http!Init /\ MaxCrashes \in Nat
  BY CountsAssumption DEF Init
<1>2. Http!TypeOK
  BY <1>1 DEF Http!Init, Http!TypeOK
<1> QED BY <1>1, <1>2 DEF Http!Init, HttpInv, Served

\* Every step of the browsers and the server keeps the pieces of a request together.
LEMMA HttpStep == HttpInv /\ (Http!Next \/ UNCHANGED httpVars) => HttpInv'
<1> SUFFICES ASSUME HttpInv, Http!Next \/ UNCHANGED httpVars PROVE HttpInv'
  OBVIOUS
<1>a. /\ asks \in [EpollClients -> Http!Paths]
      /\ browser \in [EpollClients -> {"off", "connected", "answered", "terminated", "gone"}]
      /\ pieces \in [EpollClients -> 0 .. 2]
      /\ serving \in EpollClients \cup {NoClient} /\ took \in -1 .. 2
      /\ reply \in [EpollClients -> {"none", "text", "audio", "not found"}]
      /\ partial \subseteq EpollClients /\ reset \subseteq EpollClients
      /\ aborts \in 0 .. MaxCrashes /\ MaxCrashes \in Nat
  BY CountsAssumption DEF HttpInv, Http!TypeOK
<1>b. NoClient \notin EpollClients
  BY ProcessesAssumption
<1>n. aborts \in 0 .. MaxCrashes /\ MaxCrashes \in Nat
  BY <1>a
<1>t. took = -1 \/ took = 0 \/ took = 1 \/ took = 2
  <2>1. took \in -1 .. 2
    BY <1>a
  <2> QED BY <2>1
<1>d. (took = 0 => took # 1 /\ took # 2) /\ (took = 1 => took # 0 /\ took # 2)
  <2>1. took \in -1 .. 2
    BY <1>a
  <2> QED BY <2>1
<1>p. \A b \in EpollClients : pieces[b] = 0 \/ pieces[b] = 1 \/ pieces[b] = 2
  <2>1. \A b \in EpollClients : pieces[b] \in 0 .. 2
    BY <1>a
  <2> QED BY <2>1
<1>c. /\ serving = NoClient => took = -1
      /\ took \in {0, 1} => serving \in partial
      /\ took = 2 => pieces[serving] = 2
      /\ took = -1 /\ serving # NoClient => reply[serving] = "none"
      /\ \A b \in EpollClients \ partial : Served(b)
  BY DEF HttpInv
<1>1. ASSUME NEW b \in EpollClients, Http!Connect(b) PROVE HttpInv'
  <2>1. /\ browser' = [browser EXCEPT ![b] = "connected"]
        /\ UNCHANGED <<asks, serving, took, reply, partial, pieces, reset, aborts>>
    BY <1>1 DEF Http!Connect, Http!Becomes, Http!ServerKeeps
  <2>2. Http!TypeOK'
    BY <1>a, <2>1 DEF Http!TypeOK
  <2>3. \A c \in EpollClients \ partial' : Served(c)'
    BY <1>a, <1>c, <2>1 DEF Served, Http!Found
  <2> QED BY <1>c, <2>1, <2>2, <2>3 DEF HttpInv
<1>2. ASSUME NEW b \in EpollClients, Http!Arrive(b) PROVE HttpInv'
  <2>1. /\ pieces[b] < 2 /\ UNCHANGED <<asks, serving, took, reply, partial, browser, aborts>>
        /\ reset' = reset \/ (reset' = reset \cup {b} /\ reply[b] # "none")
    BY <1>2 DEF Http!Arrive, Http!ServerKeeps, Http!Replied
  <2>2. PICK n \in pieces[b] + 1 .. 2 : pieces' = [pieces EXCEPT ![b] = n]
    BY <1>2 DEF Http!Arrive
  <2>3. n \in 0 .. 2
    BY <1>p, <2>2
  <2>4. /\ pieces' \in [EpollClients -> 0 .. 2] /\ reset' \subseteq EpollClients
        /\ \A c \in EpollClients : pieces[c] = 2 => pieces'[c] = 2 /\ c # b
    <3>1. pieces[b] # 2
      BY <2>1
    <3>2. \A c \in EpollClients \ {b} : pieces'[c] = pieces[c]
      BY <1>a, <2>2
    <3>3. pieces' \in [EpollClients -> 0 .. 2]
      BY <1>a, <2>2, <2>3
    <3>4. reset' \subseteq EpollClients
      BY <1>a, <2>1
    <3> QED BY <3>1, <3>2, <3>3, <3>4
  <2>5. Http!TypeOK'
    BY <1>a, <2>1, <2>4 DEF Http!TypeOK
  <2>6. ASSUME NEW c \in EpollClients \ partial' PROVE Served(c)'
    <3>1. Served(c)
      BY <1>c, <2>1
    <3>2. c \notin reset'
      BY <2>1, <2>4, <3>1 DEF Served
    <3> QED BY <2>1, <2>4, <3>1, <3>2 DEF Served, Http!Found
  <2>7. took' = 2 => pieces'[serving'] = 2
    <3>1. took = 2 => serving # NoClient /\ pieces[serving] = 2
      BY <1>c
    <3>2. serving # NoClient => serving \in EpollClients
      BY <1>a
    <3> QED BY <2>1, <2>4, <3>1, <3>2
  <2> QED BY <1>c, <2>1, <2>5, <2>6, <2>7 DEF HttpInv
<1>3. ASSUME NEW b \in EpollClients, Http!Receive(b) PROVE HttpInv'
  <2>1. /\ reply[b] # "none"
        /\ UNCHANGED <<asks, serving, took, reply, partial, pieces, reset, aborts>>
        /\ \/ browser' = [browser EXCEPT ![b] = "answered"]
           \/ b \in reset /\ browser' = [browser EXCEPT ![b] = "terminated"]
    BY <1>3 DEF Http!Receive, Http!Becomes, Http!ServerKeeps, Http!Replied
  <2>2. Http!TypeOK'
    BY <1>a, <2>1 DEF Http!TypeOK
  <2>3. \A c \in EpollClients \ partial' : Served(c)'
    BY <1>a, <1>c, <2>1 DEF Served, Http!Found
  <2> QED BY <1>c, <2>1, <2>2, <2>3 DEF HttpInv
<1>4. ASSUME NEW b \in EpollClients, Http!Kill(b) PROVE HttpInv'
  <2>1. /\ aborts < MaxCrashes /\ aborts' = aborts + 1
        /\ browser' = [browser EXCEPT ![b] = "gone"]
        /\ UNCHANGED <<asks, serving, took, reply, partial, pieces, reset>>
    BY <1>4 DEF Http!Kill, Http!Becomes, Http!ServerKeeps
  <2>2. aborts' \in 0 .. MaxCrashes
    BY <1>n, <2>1
  <2>3. Http!TypeOK'
    BY <1>a, <2>1, <2>2 DEF Http!TypeOK
  <2>4. \A c \in EpollClients \ partial' : Served(c)'
    BY <1>a, <1>c, <2>1 DEF Served, Http!Found
  <2> QED BY <1>c, <2>1, <2>3, <2>4 DEF HttpInv
<1>5. ASSUME NEW b \in EpollClients, Http!Accept(b) PROVE HttpInv'
  <2>1. /\ serving = NoClient /\ reply[b] = "none" /\ serving' = b
        /\ UNCHANGED <<asks, browser, pieces, aborts, took, reply, partial, reset>>
    BY <1>5 DEF Http!Accept, Http!ClientsKeep, Http!Replied
  <2>2. Http!TypeOK'
    BY <1>a, <2>1 DEF Http!TypeOK
  <2>3. took = -1
    BY <1>c, <2>1
  <2>4. \A c \in EpollClients \ partial' : Served(c)'
    BY <1>c, <2>1 DEF Served, Http!Found
  <2> QED BY <1>b, <2>1, <2>2, <2>3, <2>4 DEF HttpInv
<1>6. ASSUME NEW b \in EpollClients, Http!Read(b) PROVE HttpInv'
  <2>1. /\ serving = b /\ took = -1 /\ took' = pieces[b]
        /\ partial' = IF pieces[b] < 2 THEN partial \cup {b} ELSE partial
        /\ UNCHANGED <<asks, browser, pieces, aborts, serving, reply, reset>>
    BY <1>6 DEF Http!Read, Http!ClientsKeep
  <2>2. took' \in 0 .. 2 /\ partial \subseteq partial' /\ partial' \subseteq EpollClients
        /\ (took' \in {0, 1} => b \in partial')
    <3>1. took' = 0 \/ took' = 1 \/ took' = 2
      BY <1>p, <2>1
    <3>2. partial \subseteq partial' /\ partial' \subseteq EpollClients
      BY <1>a, <2>1
    <3>3. took' \in {0, 1} => pieces[b] < 2
      BY <2>1
    <3> QED BY <2>1, <3>1, <3>2, <3>3
  <2>3. took' \in -1 .. 2
    BY <2>2
  <2>4. Http!TypeOK'
    BY <1>a, <2>1, <2>2, <2>3 DEF Http!TypeOK
  <2>5. \A c \in EpollClients \ partial' : Served(c)'
    BY <1>c, <2>1, <2>2 DEF Served, Http!Found
  <2> QED BY <1>b, <1>c, <2>1, <2>2, <2>4, <2>5 DEF HttpInv
<1>7. ASSUME NEW b \in EpollClients, Http!Respond(b) PROVE HttpInv'
  <2>1. /\ serving = b /\ took # -1 /\ reply[b] = "none"
        /\ UNCHANGED <<asks, browser, pieces, aborts, serving, took, partial, reset>>
    BY <1>7 DEF Http!Respond, Http!ClientsKeep, Http!Replied
  <2>2. PICK a \in Http!Answers(b) : reply' = [reply EXCEPT ![b] = a]
    BY <1>7 DEF Http!Respond
  <2>3. Http!Found(asks[b]) \in {"text", "audio", "not found"}
    BY <1>a DEF Http!Found, Http!Paths
  <2>4. took = 0 \/ took = 1 \/ took = 2
    BY <1>t, <2>1
  <2>5. a \in {"text", "audio", "not found"} /\ (took = 2 => a = Http!Found(asks[b]))
    <3>1. CASE took = 0
      <4>1. Http!Answers(b) = {"not found"}
        BY <1>d, <3>1 DEF Http!Answers
      <4> QED BY <1>d, <2>2, <3>1, <4>1
    <3>2. CASE took = 1
      <4>1. Http!Answers(b) = {Http!Found(asks[b]), "not found"}
        BY <1>d, <3>2 DEF Http!Answers
      <4> QED BY <1>d, <2>2, <2>3, <3>2, <4>1
    <3>3. CASE took = 2
      <4>1. Http!Answers(b) = {Http!Found(asks[b])}
        BY <3>3 DEF Http!Answers
      <4> QED BY <2>2, <2>3, <3>3, <4>1
    <3> QED BY <2>4, <3>1, <3>2, <3>3
  <2>6. Http!TypeOK'
    BY <1>a, <2>1, <2>2, <2>5 DEF Http!TypeOK
  <2>7. ASSUME NEW c \in EpollClients \ partial' PROVE Served(c)'
    <3>1. Served(c)
      BY <1>c, <2>1
    <3>2. CASE c = b
      <4>1. took = 2 /\ pieces[b] = 2
        BY <1>c, <2>1, <2>4, <2>7, <3>2
      <4>2. reply'[b] = Http!Found(asks[b]) /\ reply'[b] # "none"
        BY <1>a, <2>2, <2>5, <4>1
      <4> QED BY <2>1, <3>1, <3>2, <4>1, <4>2 DEF Served, Http!Found
    <3>3. CASE c # b
      BY <1>a, <2>1, <2>2, <3>1, <3>3 DEF Served, Http!Found
    <3> QED BY <3>2, <3>3
  <2> QED BY <1>c, <2>1, <2>6, <2>7 DEF HttpInv
<1>8. ASSUME NEW b \in EpollClients, Http!Close(b) PROVE HttpInv'
  <2>1. /\ serving = b /\ reply[b] # "none" /\ serving' = NoClient /\ took' = -1
        /\ reset' = reset \/ (reset' = reset \cup {b} /\ pieces[b] > took)
        /\ UNCHANGED <<asks, browser, pieces, aborts, reply, partial>>
    BY <1>8 DEF Http!Close, Http!ClientsKeep, Http!Replied
  <2>2. took # -1
    BY <1>b, <1>c, <2>1
  <2>3. pieces[b] > took => b \in partial
    <3>1. CASE took = 0 \/ took = 1
      BY <1>c, <2>1, <3>1
    <3>2. CASE took = 2
      <4>1. pieces[b] = 2
        BY <1>c, <2>1, <3>2
      <4> QED BY <3>2, <4>1
    <3> QED BY <1>t, <2>2, <3>1, <3>2
  <2>4. Http!TypeOK'
    <3>1. took' \in -1 .. 2
      BY <2>1
    <3>2. reset' \subseteq EpollClients
      BY <1>a, <2>1
    <3> QED BY <1>a, <2>1, <3>1, <3>2 DEF Http!TypeOK
  <2>5. ASSUME NEW c \in EpollClients \ partial' PROVE Served(c)'
    <3>1. Served(c)
      BY <1>c, <2>1
    <3>2. c \notin reset'
      BY <2>1, <2>3, <3>1 DEF Served
    <3> QED BY <2>1, <3>1, <3>2 DEF Served, Http!Found
  <2> QED BY <2>1, <2>4, <2>5 DEF HttpInv
<1>9. CASE UNCHANGED httpVars
  BY <1>9 DEF httpVars, HttpInv, Http!TypeOK, Served, Http!Found
<1> QED BY <1>1, <1>2, <1>3, <1>4, <1>5, <1>6, <1>7, <1>8, <1>9
        DEF Http!Next, Http!ServerStep, Http!BrowserStep

\* A request that was read whole gets its answer.
LEMMA HttpAnswers == HttpInv => Http!TypeOK /\ Http!RightAnswer
  BY DEF HttpInv, Served, Http!RightAnswer, Http!TypeOK

-----------------------------------------------------------------------------
\* A set of naturals that is not empty has a least one.
LEMMA LeastNatural ==
    ASSUME NEW S \in SUBSET Nat, S # {}
    PROVE  \E x \in S : \A y \in S : x <= y
<1>1. IsWellFoundedOn(OpToRel(<, Nat), Nat)
  BY NatLessThanWellFounded
<1>2. PICK x \in S : \A y \in S : ~(<<y, x>> \in OpToRel(<, Nat))
  BY <1>1, WFMin
<1>3. \A y \in S : ~(y < x)
  BY <1>2 DEF OpToRel
<1>4. \A y \in S : y \in Nat
  OBVIOUS
<1>5. ASSUME NEW y \in S PROVE x <= y
  <2>1. x \in Nat /\ y \in Nat /\ ~(y < x)
    BY <1>3, <1>4
  <2> QED BY <2>1
<1> QED BY <1>5

\* The least free slot or descriptor is one of those.
LEMMA MinIsIn ==
    ASSUME NEW S \in SUBSET Nat, S # {}
    PROVE  Poll!Min(S) \in S /\ Nio!Min(S) \in S
  BY LeastNatural DEF Poll!Min, Nio!Min

-----------------------------------------------------------------------------
\* What the server has read, and what it has replied, of what it was sent.
Counting(C) == /\ sent \in [C -> Nat] /\ got \in [C -> Nat]
               /\ replied \in [C -> Nat] /\ recvd \in [C -> Nat]

CountsAgree(c, most) == /\ got[c] <= sent[c] /\ sent[c] <= most
                        /\ recvd[c] <= replied[c] /\ replied[c] <= got[c]

\* Counts that agree are in their ranges.
LEMMA CountsInRange ==
    ASSUME NEW C, Counting(C), NEW most \in Nat, NEW c \in C, CountsAgree(c, most)
    PROVE  /\ got[c] \in 0 .. sent[c] /\ sent[c] \in 0 .. most
           /\ recvd[c] \in 0 .. replied[c] /\ replied[c] \in 0 .. got[c]
<1>1. got[c] \in Nat /\ sent[c] \in Nat /\ recvd[c] \in Nat /\ replied[c] \in Nat
  BY DEF Counting
<1> QED BY <1>1 DEF CountsAgree

\* server_poll_bio.cpp.
SocketStates(C) == /\ conn \in [C -> {"new", "backlog", "open", "rejected", "closed"}]
                   /\ peer \in [C -> {"up", "fin", "reset"}]

PollTypes ==
    /\ Counting(PollClients) /\ \A c \in PollClients : CountsAgree(c, PollMsgs)
    /\ SocketStates(PollClients)
    /\ table \in [Fds -> PollClients \cup {NoClient}]
    /\ killed \in BOOLEAN
    /\ fds \in [Poll!Slots -> Fds \cup {-1}]
    /\ due \subseteq Poll!Slots \cup {0}
    /\ echo \in Poll!Slots \cup {0}

\* Used slots, used descriptors and open connections correspond one to one.
Seated ==
    /\ \A i \in Poll!Slots : fds[i] # -1 => table[fds[i]] # NoClient
    /\ \A i, j \in Poll!Slots : fds[i] # -1 /\ fds[i] = fds[j] => i = j
    /\ \A f \in Fds : table[f] # NoClient => \E i \in Poll!Slots : fds[i] = f
    /\ \A f \in Fds : table[f] # NoClient => conn[table[f]] = "open"
    /\ \A f, g \in Fds : table[f] # NoClient /\ table[f] = table[g] => f = g
    /\ \A c \in PollClients : conn[c] = "open" => \E f \in Fds : table[f] = c

\* A slot that waits for its recv has something to return, and one that waits for
\* its echo has been read from.
Due(i) == fds[i] # -1 /\ Poll!Readable(Poll!Of(i))
Echoing(i) == fds[i] # -1 /\ replied[Poll!Of(i)] < got[Poll!Of(i)]

PollInv ==
    /\ PollTypes
    /\ Seated
    /\ \A c \in PollClients : conn[c] = "closed" => peer[c] # "up"
    /\ \A i \in due : i # 0 => Due(i)
    /\ echo # 0 => Echoing(echo)

\* A used slot has a descriptor and is served for its client.
LEMMA SlotsAreNumbers ==
    /\ Poll!Slots \subseteq Nat /\ 0 \notin Poll!Slots /\ -1 \notin Fds
    /\ IsFiniteSet(Poll!Slots) /\ Cardinality(Poll!Slots) = MaxClients
<1>1. MaxClients \in Nat
  BY CountsAssumption
<1>2. Poll!Slots \subseteq Nat /\ 0 \notin Poll!Slots
  BY DEF Poll!Slots
<1>3. -1 \notin Fds
  BY DescriptorsAssumption
<1>4. IsFiniteSet(1 .. MaxClients) /\ Cardinality(1 .. MaxClients) = MaxClients
  BY <1>1, FS_Interval
<1> QED BY <1>2, <1>3, <1>4 DEF Poll!Slots

\* No client is connected at first.
LEMMA PollInit == Init /\ program = "server_poll" => PollInv
<1> SUFFICES ASSUME Init, program = "server_poll" PROVE PollInv
  OBVIOUS
<1>1. Poll!SocketsInit /\ Poll!New /\ PollMsgs \in Nat
  BY CountsAssumption DEF Init
<1>2. Counting(PollClients) /\ \A c \in PollClients : CountsAgree(c, PollMsgs)
  BY <1>1 DEF Poll!SocketsInit, Counting, CountsAgree
<1>3. PollTypes
  BY <1>1, <1>2 DEF Poll!SocketsInit, Poll!New, PollTypes, SocketStates
<1>4. /\ \A i \in Poll!Slots : fds[i] = -1
      /\ \A f \in Fds : table[f] = NoClient
      /\ \A c \in PollClients : conn[c] = "new"
      /\ due = {} /\ echo = 0
  BY <1>1 DEF Poll!SocketsInit, Poll!New
<1>5. Seated
  BY <1>4 DEF Seated
<1> QED BY <1>3, <1>4, <1>5 DEF PollInv

\* Used slots stand for clients, different ones for different clients.
LEMMA SlotsOfClients ==
    ASSUME PollTypes, Seated
    PROVE  /\ \A i \in Poll!Slots : fds[i] # -1 => /\ fds[i] \in Fds /\ Poll!Of(i) \in PollClients
                                                  /\ conn[Poll!Of(i)] = "open"
           /\ \A i, j \in Poll!Slots : fds[i] # -1 /\ fds[j] # -1 /\ Poll!Of(i) = Poll!Of(j) => i = j
<1>1. \A i \in Poll!Slots : fds[i] # -1 => fds[i] \in Fds
  BY DEF PollTypes
<1>2. \A i \in Poll!Slots : fds[i] # -1 => table[fds[i]] # NoClient
  BY DEF Seated
<1>3. \A i \in Poll!Slots : fds[i] # -1 => Poll!Of(i) \in PollClients /\ Poll!Of(i) # NoClient
  BY <1>1, <1>2 DEF PollTypes, Poll!Of
<1>4. \A i \in Poll!Slots : fds[i] # -1 => conn[Poll!Of(i)] = "open"
  BY <1>1, <1>2 DEF Seated, Poll!Of
<1>5. \A i, j \in Poll!Slots : fds[i] # -1 /\ fds[j] # -1 /\ Poll!Of(i) = Poll!Of(j) => fds[i] = fds[j]
  BY <1>1, <1>2 DEF Seated, Poll!Of
<1>6. \A i, j \in Poll!Slots : fds[i] # -1 /\ fds[i] = fds[j] => i = j
  BY DEF Seated
<1> QED BY <1>1, <1>3, <1>4, <1>5, <1>6

\* While a slot is free a descriptor is.
LEMMA DescriptorLeft ==
    ASSUME PollTypes, Seated, NEW k \in Poll!Slots, fds[k] = -1
    PROVE  \E f \in Fds : table[f] = NoClient
<1> SUFFICES ASSUME \A f \in Fds : table[f] # NoClient PROVE FALSE
  OBVIOUS
<1> DEFINE T == Poll!Slots \ {k}
           seat == [f \in Fds |-> CHOOSE i \in Poll!Slots : fds[i] = f]
<1>1. \A f \in Fds : seat[f] \in Poll!Slots /\ fds[seat[f]] = f
  BY DEF Seated
<1>2. \A f \in Fds : seat[f] # k
  BY <1>1, SlotsAreNumbers
<1>3. seat \in [Fds -> T]
  BY <1>1, <1>2
<1>4. IsFiniteSet(T) /\ Cardinality(T) = MaxClients - 1
  BY SlotsAreNumbers, FS_RemoveElement
<1>5. IsFiniteSet(Fds) /\ MaxClients <= Cardinality(Fds) /\ MaxClients \in Nat
  BY DescriptorsAssumption, CountsAssumption
<1>6. Cardinality(Fds) \in Nat
  BY <1>5, FS_CardinalityType
<1>7. Cardinality(T) < Cardinality(Fds)
  BY <1>4, <1>5, <1>6
<1> HIDE DEF seat, T
<1>8. PICK f, g \in Fds : f # g /\ seat[f] = seat[g]
  BY <1>3, <1>4, <1>5, <1>7, FS_PigeonHole
<1> QED BY <1>1, <1>8

-----------------------------------------------------------------------------
\* One client sends, receives, leaves or resets; the server reads or replies.
LEMMA CountsAfter ==
    ASSUME NEW C, NEW most \in Nat, Counting(C), \A d \in C : CountsAgree(d, most), NEW c \in C,
           \/ /\ sent[c] < most /\ sent' = [sent EXCEPT ![c] = @ + 1] /\ UNCHANGED <<got, replied, recvd>>
           \/ /\ recvd[c] < replied[c] /\ recvd' = [recvd EXCEPT ![c] = @ + 1] /\ UNCHANGED <<sent, got, replied>>
           \/ /\ got[c] < sent[c] /\ got' = [got EXCEPT ![c] = @ + 1] /\ UNCHANGED <<sent, replied, recvd>>
           \/ /\ replied[c] < got[c] /\ replied' = [replied EXCEPT ![c] = @ + 1] /\ UNCHANGED <<sent, got, recvd>>
           \/ UNCHANGED <<sent, got, replied, recvd>>
    PROVE  /\ Counting(C)' /\ \A d \in C : CountsAgree(d, most)'
           /\ \A d \in C : got[d] < sent[d] /\ (d # c \/ got' = got) => got'[d] < sent'[d]
           /\ \A d \in C : replied[d] < got[d] /\ (d # c \/ replied' = replied) => replied'[d] < got'[d]
<1>1. \A d \in C : sent[d] \in Nat /\ got[d] \in Nat /\ replied[d] \in Nat /\ recvd[d] \in Nat
  BY DEF Counting
<1>2. Counting(C)'
  BY <1>1 DEF Counting
<1>3. \A d \in C : /\ sent'[d] = sent[d] \/ (d = c /\ sent'[d] = sent[d] + 1 /\ sent[d] < most)
                   /\ got'[d] = got[d] \/ (d = c /\ got'[d] = got[d] + 1 /\ got[d] < sent[d])
                   /\ replied'[d] = replied[d] \/ (d = c /\ replied'[d] = replied[d] + 1 /\ replied[d] < got[d])
                   /\ recvd'[d] = recvd[d] \/ (d = c /\ recvd'[d] = recvd[d] + 1 /\ recvd[d] < replied[d])
  BY DEF Counting
<1>4. ASSUME NEW d \in C PROVE CountsAgree(d, most)'
  <2>1. CountsAgree(d, most)
    OBVIOUS
  <2> QED BY <1>1, <1>3, <2>1 DEF CountsAgree
<1>5. \A d \in C : got[d] < sent[d] /\ (d # c \/ got' = got) => got'[d] < sent'[d]
  BY <1>1, <1>3
<1>6. \A d \in C : replied[d] < got[d] /\ (d # c \/ replied' = replied) => replied'[d] < got'[d]
  BY <1>1, <1>3
<1> QED BY <1>2, <1>4, <1>5, <1>6

\* A step that leaves slots, descriptors and what connections are open alone, after
\* which no client has returned and no data is gone.
LEMMA PollSame ==
    ASSUME PollInv, UNCHANGED <<fds, table, echo>>, due' \subseteq due,
           Counting(PollClients)', \A c \in PollClients : CountsAgree(c, PollMsgs)',
           SocketStates(PollClients)', killed' \in BOOLEAN,
           \A c \in PollClients : /\ peer[c] # "up" => peer'[c] # "up"
                                  /\ got[c] < sent[c] => got'[c] < sent'[c]
                                  /\ replied[c] < got[c] => replied'[c] < got'[c]
                                  /\ conn'[c] = conn[c] \/ (conn[c] = "new" /\ conn'[c] = "backlog")
    PROVE  PollInv'
<1>1. PollTypes'
  BY DEF PollInv, PollTypes
<1>2. Seated'
  <2>1. \A f \in Fds : table[f] # NoClient => table[f] \in PollClients
    BY DEF PollInv, PollTypes
  <2> QED BY <2>1 DEF PollInv, Seated
<1>3. \A c \in PollClients : conn'[c] = "closed" => peer'[c] # "up"
  BY DEF PollInv
<1>4. /\ due \subseteq Poll!Slots \cup {0} /\ echo \in Poll!Slots \cup {0}
      /\ \A i \in Poll!Slots : fds[i] # -1 => Poll!Of(i) \in PollClients
  BY SlotsOfClients DEF PollInv, PollTypes
<1>5. ASSUME NEW i \in due', i # 0 PROVE Due(i)'
  <2>1. Due(i) /\ i \in Poll!Slots
    BY <1>4, <1>5 DEF PollInv
  <2>2. Poll!Of(i) \in PollClients /\ Poll!Of(i)' = Poll!Of(i)
    BY <1>4, <2>1 DEF Due, Poll!Of
  <2> QED BY <2>1, <2>2 DEF Due, Poll!Readable, Poll!HasData
<1>6. echo' # 0 => Echoing(echo)'
  <2> SUFFICES ASSUME echo # 0 PROVE Echoing(echo)'
    OBVIOUS
  <2>1. Echoing(echo) /\ echo \in Poll!Slots
    BY <1>4 DEF PollInv
  <2>2. Poll!Of(echo) \in PollClients /\ Poll!Of(echo)' = Poll!Of(echo)
    BY <1>4, <2>1 DEF Echoing, Poll!Of
  <2> QED BY <2>1, <2>2 DEF Echoing
<1> QED BY <1>1, <1>2, <1>3, <1>5, <1>6 DEF PollInv

\* What clients do leaves the slots as they are.
LEMMA PollClientStep ==
    ASSUME PollInv, NEW c \in PollClients, UNCHANGED <<fds, due, echo>>,
           Poll!Receive(c) \/ Poll!Connect(c) \/ Poll!Send(c) \/ Poll!Finish(c) \/ Poll!Reset(c)
    PROVE  PollInv'
<1>1. PollMsgs \in Nat
  BY CountsAssumption
<1>2. /\ Counting(PollClients) /\ \A d \in PollClients : CountsAgree(d, PollMsgs)
      /\ SocketStates(PollClients) /\ killed \in BOOLEAN
  BY DEF PollInv, PollTypes
<1>3. UNCHANGED <<table, killed, got, replied>>
  BY DEF Poll!Receive, Poll!Connect, Poll!Send, Poll!Finish, Poll!Reset
<1>4. /\ SocketStates(PollClients)'
      /\ \A d \in PollClients : /\ peer[d] # "up" => peer'[d] # "up"
                                /\ conn'[d] = conn[d] \/ (conn[d] = "new" /\ conn'[d] = "backlog")
  BY <1>2 DEF Poll!Receive, Poll!Connect, Poll!Send, Poll!Finish, Poll!Reset, SocketStates
<1>5. \/ sent[c] < PollMsgs /\ sent' = [sent EXCEPT ![c] = @ + 1] /\ UNCHANGED recvd
      \/ recvd[c] < replied[c] /\ recvd' = [recvd EXCEPT ![c] = @ + 1] /\ UNCHANGED sent
      \/ UNCHANGED <<sent, recvd>>
  BY DEF Poll!Receive, Poll!Connect, Poll!Send, Poll!Finish, Poll!Reset
<1>6. /\ Counting(PollClients)' /\ \A d \in PollClients : CountsAgree(d, PollMsgs)'
      /\ \A d \in PollClients : got[d] < sent[d] => got'[d] < sent'[d]
      /\ \A d \in PollClients : replied[d] < got[d] => replied'[d] < got'[d]
  BY <1>1, <1>2, <1>3, <1>5, CountsAfter
<1> QED BY <1>2, <1>3, <1>4, <1>6, PollSame

\* poll reports what can be read and who waits.
LEMMA PollReports == ASSUME PollInv, Poll!Poll PROVE PollInv'
<1>1. /\ due' = Poll!Reported /\ UNCHANGED <<conn, peer, sent, got, replied, recvd, table, killed, fds, echo>>
  BY DEF Poll!Poll, Poll!sockets
<1>2. Poll!Reported \subseteq Poll!Slots \cup {0} /\ \A i \in Poll!Reported : i # 0 => Due(i)
  BY DEF Poll!Reported, Due
<1>3. PollTypes' /\ Seated' /\ \A c \in PollClients : conn'[c] = "closed" => peer'[c] # "up"
  BY <1>1, <1>2 DEF PollInv, PollTypes, Seated, Counting, CountsAgree, SocketStates
<1>4. \A i \in due' : i # 0 => Due(i)'
  BY <1>1, <1>2 DEF Due, Poll!Of, Poll!Readable, Poll!HasData
<1>5. echo' # 0 => Echoing(echo)'
  BY <1>1 DEF PollInv, Echoing, Poll!Of
<1> QED BY <1>3, <1>4, <1>5 DEF PollInv

\* accept gives a client the least free slot and descriptor.
LEMMA PollAccepts == ASSUME PollInv, NEW c \in PollClients, Poll!Accept(c) PROVE PollInv'
<1>a. PollTypes /\ Seated /\ \A d \in PollClients : conn[d] = "closed" => peer[d] # "up"
  BY DEF PollInv
<1>b. /\ \A i \in Poll!Slots : fds[i] # -1 => /\ fds[i] \in Fds /\ Poll!Of(i) \in PollClients
                                             /\ conn[Poll!Of(i)] = "open"
      /\ \A i, j \in Poll!Slots : fds[i] # -1 /\ fds[j] # -1 /\ Poll!Of(i) = Poll!Of(j) => i = j
  BY <1>a, SlotsOfClients
<1>1. /\ echo = 0 /\ echo' = 0 /\ due' = due \ {0} /\ conn[c] = "backlog"
      /\ UNCHANGED <<peer, sent, got, replied, recvd, killed>>
  BY DEF Poll!Accept, Poll!Backlog, Poll!Opened, Poll!Rejected
<1>2. CASE Poll!FreeSlots # {} /\ Poll!Opened(c) /\ fds' = [fds EXCEPT ![Poll!Min(Poll!FreeSlots)] = Poll!NewFd]
  <2>1. PICK k : k = Poll!Min(Poll!FreeSlots)
    OBVIOUS
  <2>2. k \in Poll!Slots /\ fds[k] = -1
    <3>1. Poll!FreeSlots \in SUBSET Nat
      BY SlotsAreNumbers DEF Poll!FreeSlots
    <3>2. k \in Poll!FreeSlots
      BY <1>2, <2>1, <3>1, MinIsIn
    <3> QED BY <3>2 DEF Poll!FreeSlots
  <2>3. PICK f : f = Poll!NewFd
    OBVIOUS
  <2>4. f \in Fds /\ table[f] = NoClient
    <3>1. \E g \in Fds : table[g] = NoClient
      BY <1>a, <2>2, DescriptorLeft
    <3>2. {g \in Fds : table[g] = NoClient} \in SUBSET Nat /\ {g \in Fds : table[g] = NoClient} # {}
      BY <3>1, DescriptorsAssumption
    <3>3. f \in {g \in Fds : table[g] = NoClient}
      BY <2>3, <3>2, MinIsIn DEF Poll!NewFd
    <3> QED BY <3>3
  <2>5. /\ fds' = [fds EXCEPT ![k] = f]
        /\ conn' = [conn EXCEPT ![c] = "open"] /\ table' = [table EXCEPT ![f] = c]
    BY <1>2, <2>1, <2>3 DEF Poll!Opened
  <2>6. /\ fds \in [Poll!Slots -> Fds \cup {-1}] /\ table \in [Fds -> PollClients \cup {NoClient}]
        /\ conn \in [PollClients -> {"new", "backlog", "open", "rejected", "closed"}]
        /\ c # NoClient /\ f # -1
    BY <1>a, <2>4, DescriptorsAssumption, SlotsAreNumbers DEF PollTypes, SocketStates
  <2>7. /\ fds'[k] = f /\ table'[f] = c /\ conn'[c] = "open"
        /\ \A i \in Poll!Slots : i # k => fds'[i] = fds[i]
        /\ \A g \in Fds : g # f => table'[g] = table[g]
        /\ \A d \in PollClients : d # c => conn'[d] = conn[d]
    BY <2>2, <2>4, <2>5, <2>6
  <2>8. PollTypes'
    <3>1. /\ fds' \in [Poll!Slots -> Fds \cup {-1}] /\ table' \in [Fds -> PollClients \cup {NoClient}]
          /\ SocketStates(PollClients)'
      BY <1>a, <1>1, <2>4, <2>5, <2>6 DEF PollTypes, SocketStates
    <3> QED BY <1>a, <1>1, <3>1 DEF PollTypes, Counting, CountsAgree
  <2>9. \A g \in Fds : table[g] # NoClient => table[g] # c
    BY <1>a, <1>1 DEF Seated
  <2>10. \A i \in Poll!Slots : fds[i] # -1 => fds[i] # f
    BY <1>a, <2>4 DEF Seated
  <2>11. Seated'
    <3>1. \A i \in Poll!Slots : fds'[i] # -1 => table'[fds'[i]] # NoClient
      BY <1>a, <1>b, <2>6, <2>7 DEF Seated
    <3>2. \A i, j \in Poll!Slots : fds'[i] # -1 /\ fds'[i] = fds'[j] => i = j
      BY <1>a, <2>6, <2>7, <2>10 DEF Seated
    <3>3. \A g \in Fds : table'[g] # NoClient => \E i \in Poll!Slots : fds'[i] = g
      <4>1. ASSUME NEW g \in Fds, g # f, table[g] # NoClient PROVE \E i \in Poll!Slots : fds'[i] = g
        <5>1. PICK i \in Poll!Slots : fds[i] = g
          BY <1>a, <4>1 DEF Seated
        <5>2. i # k
          BY <2>2, <5>1, SlotsAreNumbers
        <5> QED BY <2>7, <5>1, <5>2
      <4> QED BY <2>2, <2>7, <4>1
    <3>4. \A g \in Fds : table'[g] # NoClient => conn'[table'[g]] = "open"
      BY <1>a, <2>6, <2>7, <2>9 DEF Seated
    <3>5. \A g, h \in Fds : table'[g] # NoClient /\ table'[g] = table'[h] => g = h
      BY <1>a, <2>6, <2>7, <2>9 DEF Seated
    <3>6. \A d \in PollClients : conn'[d] = "open" => \E g \in Fds : table'[g] = d
      <4>1. ASSUME NEW d \in PollClients, d # c, conn[d] = "open" PROVE \E g \in Fds : table'[g] = d
        <5>1. PICK g \in Fds : table[g] = d
          BY <1>a, <4>1 DEF Seated
        <5>2. g # f
          BY <2>4, <4>1, <5>1, DescriptorsAssumption
        <5> QED BY <2>7, <5>1, <5>2
      <4> QED BY <2>4, <2>7, <4>1
    <3> QED BY <3>1, <3>2, <3>3, <3>4, <3>5, <3>6 DEF Seated
  <2>12. \A d \in PollClients : conn'[d] = "closed" => peer'[d] # "up"
    BY <1>a, <1>1, <2>7
  <2>13. ASSUME NEW i \in due' PROVE Due(i)'
    <3>1. Due(i) /\ i \in Poll!Slots
      BY <1>1, <1>a DEF PollInv, PollTypes
    <3>2. i # k /\ fds'[i] = fds[i] /\ fds[i] \in Fds /\ fds[i] # f
      BY <1>b, <2>2, <2>7, <2>10, <3>1 DEF Due
    <3>3. Poll!Of(i)' = Poll!Of(i)
      BY <2>7, <3>2 DEF Poll!Of
    <3> QED BY <1>1, <3>1, <3>2, <3>3 DEF Due, Poll!Readable, Poll!HasData
  <2> QED BY <1>1, <2>8, <2>11, <2>12, <2>13 DEF PollInv
<1>3. CASE Poll!Rejected(c) /\ UNCHANGED fds
  <2>1. conn' = [conn EXCEPT ![c] = "rejected"] /\ UNCHANGED <<table, fds>>
    BY <1>3 DEF Poll!Rejected
  <2>2. PollTypes'
    BY <1>a, <1>1, <2>1 DEF PollTypes, Counting, CountsAgree, SocketStates
  <2>3. conn'[c] = "rejected" /\ \A d \in PollClients : d # c => conn'[d] = conn[d]
    BY <1>a, <2>1 DEF PollTypes, SocketStates
  <2>4. \A g \in Fds : table[g] # NoClient => table[g] # c /\ table[g] \in PollClients
    BY <1>a, <1>1 DEF Seated, PollTypes
  <2>5. Seated'
    BY <1>a, <2>1, <2>3, <2>4 DEF Seated
  <2>6. \A i \in due' : Due(i)'
    BY <1>1, <2>1 DEF PollInv, Due, Poll!Of, Poll!Readable, Poll!HasData
  <2> QED BY <1>a, <1>1, <2>2, <2>3, <2>5, <2>6 DEF PollInv
<1> QED BY <1>2, <1>3 DEF Poll!Accept

-----------------------------------------------------------------------------
\* The slot being served is due.
LEMMA ServedIsDue ==
    ASSUME PollInv, NEW i \in Poll!Slots, Poll!Serving(i)
    PROVE  i \in due /\ i # 0 /\ Due(i) /\ echo = 0
<1>1. due \in SUBSET Nat /\ due # {} /\ i = Poll!Min(due) /\ i # 0 /\ echo = 0
  BY SlotsAreNumbers DEF PollInv, PollTypes, Poll!Serving
<1>2. i \in due
  BY <1>1, MinIsIn
<1> QED BY <1>1, <1>2 DEF PollInv

\* recv reads what a client has sent.
LEMMA PollReads == ASSUME PollInv, NEW i \in Poll!Slots, Poll!Recv(i) PROVE PollInv'
<1>a. PollTypes /\ Seated /\ \A d \in PollClients : conn[d] = "closed" => peer[d] # "up"
  BY DEF PollInv
<1>b. /\ \A j \in Poll!Slots : fds[j] # -1 => Poll!Of(j) \in PollClients
      /\ \A j \in Poll!Slots : fds[i] # -1 /\ fds[j] # -1 /\ Poll!Of(i) = Poll!Of(j) => i = j
  BY <1>a, SlotsOfClients
<1>c. i \in due /\ i # 0 /\ Due(i)
  BY ServedIsDue DEF Poll!Recv
<1>1. PICK c \in PollClients : c = Poll!Of(i)
  BY <1>b, <1>c DEF Due
<1>2. /\ got[c] < sent[c] /\ got' = [got EXCEPT ![c] = @ + 1] /\ echo' = i /\ due' = due \ {i}
      /\ UNCHANGED <<conn, peer, sent, replied, recvd, table, killed, fds>>
  BY <1>1 DEF Poll!Recv, Poll!HasData, Poll!ReadUnit
<1>3. PollMsgs \in Nat /\ Counting(PollClients) /\ \A d \in PollClients : CountsAgree(d, PollMsgs)
  BY <1>a, CountsAssumption DEF PollTypes
<1>4. /\ Counting(PollClients)' /\ \A d \in PollClients : CountsAgree(d, PollMsgs)'
      /\ \A d \in PollClients : got[d] < sent[d] /\ d # c => got'[d] < sent'[d]
  BY <1>2, <1>3, CountsAfter
<1>5. replied'[c] < got'[c]
  <2>1. got[c] \in Nat /\ replied[c] \in Nat /\ replied[c] <= got[c]
    BY <1>3 DEF Counting, CountsAgree
  <2>2. got'[c] = got[c] + 1 /\ replied'[c] = replied[c]
    BY <1>2, <1>3 DEF Counting
  <2> QED BY <2>1, <2>2
<1>6. PollTypes' /\ Seated'
  BY <1>a, <1>2, <1>4 DEF PollTypes, Seated, SocketStates
<1>7. ASSUME NEW j \in due', j # 0 PROVE Due(j)'
  <2>1. Due(j) /\ j \in Poll!Slots /\ j # i
    BY <1>2, <1>7, <1>a DEF PollInv, PollTypes
  <2>2. Poll!Of(j) \in PollClients /\ Poll!Of(j) # c /\ Poll!Of(j)' = Poll!Of(j)
    BY <1>b, <1>c, <1>1, <1>2, <2>1 DEF Due, Poll!Of
  <2> QED BY <1>2, <1>4, <2>1, <2>2 DEF Due, Poll!Readable, Poll!HasData
<1>8. Echoing(i)'
  BY <1>1, <1>2, <1>5, <1>c DEF Echoing, Due, Poll!Of
<1>9. echo' # 0 => Echoing(echo)'
  BY <1>2, <1>8 DEF Echoing, Poll!Of
<1> QED BY <1>a, <1>2, <1>6, <1>7, <1>9 DEF PollInv

\* A client that has left gives back its slot and descriptor.
LEMMA PollCloses == ASSUME PollInv, NEW i \in Poll!Slots, Poll!Close(i) PROVE PollInv'
<1>a. PollTypes /\ Seated /\ \A d \in PollClients : conn[d] = "closed" => peer[d] # "up"
  BY DEF PollInv
<1>b. /\ \A j \in Poll!Slots : fds[j] # -1 => fds[j] \in Fds /\ Poll!Of(j) \in PollClients
      /\ \A j \in Poll!Slots : fds[i] # -1 /\ fds[j] # -1 /\ Poll!Of(i) = Poll!Of(j) => i = j
  BY <1>a, SlotsOfClients
<1>c. i \in due /\ i # 0 /\ Due(i) /\ echo = 0
  BY ServedIsDue DEF Poll!Close
<1>1. PICK f \in Fds : f = fds[i]
  BY <1>b, <1>c DEF Due
<1>2. PICK c \in PollClients : c = Poll!Of(i)
  BY <1>b, <1>c DEF Due
<1>3. c = table[f] /\ c # NoClient
  BY <1>1, <1>2, DescriptorsAssumption DEF Poll!Of
<1>4. /\ peer[c] # "up"
      /\ conn' = [conn EXCEPT ![c] = "closed"] /\ table' = [table EXCEPT ![f] = NoClient]
      /\ fds' = [fds EXCEPT ![i] = -1] /\ due' = due \ {i} /\ UNCHANGED echo
      /\ UNCHANGED <<peer, sent, got, replied, recvd, killed>>
  BY <1>1, <1>2, <1>3 DEF Poll!Close, Poll!Closed, Poll!Vacated
<1>5. /\ fds \in [Poll!Slots -> Fds \cup {-1}] /\ table \in [Fds -> PollClients \cup {NoClient}]
      /\ conn \in [PollClients -> {"new", "backlog", "open", "rejected", "closed"}]
  BY <1>a DEF PollTypes, SocketStates
<1>6. /\ fds'[i] = -1 /\ table'[f] = NoClient /\ conn'[c] = "closed"
      /\ \A j \in Poll!Slots : j # i => fds'[j] = fds[j]
      /\ \A g \in Fds : g # f => table'[g] = table[g]
      /\ \A d \in PollClients : d # c => conn'[d] = conn[d]
  BY <1>4, <1>5
<1>7. PollTypes'
  BY <1>a, <1>4, <1>5 DEF PollTypes, Counting, CountsAgree, SocketStates
<1>8. /\ \A g \in Fds : table[g] # NoClient /\ g # f => table[g] # c /\ table[g] \in PollClients
      /\ \A j \in Poll!Slots : fds[j] # -1 /\ j # i => fds[j] # f
  BY <1>a, <1>1, <1>3, <1>5 DEF Seated
<1>9. Seated'
  <2>1. \A j \in Poll!Slots : fds'[j] # -1 => table'[fds'[j]] # NoClient
    BY <1>a, <1>b, <1>6, <1>8 DEF Seated
  <2>2. \A j, k \in Poll!Slots : fds'[j] # -1 /\ fds'[j] = fds'[k] => j = k
    BY <1>a, <1>6 DEF Seated
  <2>3. \A g \in Fds : table'[g] # NoClient => \E j \in Poll!Slots : fds'[j] = g
    <3>1. ASSUME NEW g \in Fds, g # f, table[g] # NoClient PROVE \E j \in Poll!Slots : fds'[j] = g
      <4>1. PICK j \in Poll!Slots : fds[j] = g
        BY <1>a, <3>1 DEF Seated
      <4>2. j # i
        BY <1>1, <3>1, <4>1
      <4> QED BY <1>6, <4>1, <4>2
    <3> QED BY <1>6, <3>1
  <2>4. \A g \in Fds : table'[g] # NoClient => conn'[table'[g]] = "open"
    BY <1>a, <1>6, <1>8 DEF Seated
  <2>5. \A g, h \in Fds : table'[g] # NoClient /\ table'[g] = table'[h] => g = h
    BY <1>a, <1>6 DEF Seated
  <2>6. \A d \in PollClients : conn'[d] = "open" => \E g \in Fds : table'[g] = d
    <3>1. ASSUME NEW d \in PollClients, d # c, conn[d] = "open" PROVE \E g \in Fds : table'[g] = d
      <4>1. PICK g \in Fds : table[g] = d
        BY <1>a, <3>1 DEF Seated
      <4>2. g # f
        BY <1>3, <3>1, <4>1
      <4> QED BY <1>6, <4>1, <4>2
    <3> QED BY <1>6, <3>1
  <2> QED BY <2>1, <2>2, <2>3, <2>4, <2>5, <2>6 DEF Seated
<1>10. \A d \in PollClients : conn'[d] = "closed" => peer'[d] # "up"
  BY <1>a, <1>4, <1>6
<1>11. ASSUME NEW j \in due', j # 0 PROVE Due(j)'
  <2>1. Due(j) /\ j \in Poll!Slots /\ j # i
    BY <1>4, <1>11, <1>a DEF PollInv, PollTypes
  <2>2. fds'[j] = fds[j] /\ fds[j] \in Fds /\ fds[j] # f
    BY <1>b, <1>6, <1>8, <2>1 DEF Due
  <2>3. Poll!Of(j)' = Poll!Of(j)
    BY <1>6, <2>2 DEF Poll!Of
  <2> QED BY <1>4, <2>1, <2>2, <2>3 DEF Due, Poll!Readable, Poll!HasData
<1> QED BY <1>c, <1>4, <1>7, <1>9, <1>10, <1>11 DEF PollInv

\* send returns what was read.
LEMMA PollEchoes == ASSUME PollInv, Poll!Echo PROVE PollInv'
<1>a. PollTypes /\ Seated /\ \A d \in PollClients : conn[d] = "closed" => peer[d] # "up"
  BY DEF PollInv
<1>1. /\ echo \in Poll!Slots /\ Echoing(echo) /\ Poll!Wrote(Poll!Of(echo))
      /\ echo' = 0 /\ UNCHANGED <<fds, due>>
  BY <1>a DEF PollInv, PollTypes, Poll!Echo
<1>2. PICK c \in PollClients : c = Poll!Of(echo)
  BY <1>a, <1>1, SlotsOfClients DEF Echoing
<1>3. /\ UNCHANGED <<conn, peer, sent, got, recvd, table>> /\ replied[c] < got[c]
      /\ replied' = [replied EXCEPT ![c] = @ + 1] \/ UNCHANGED replied
      /\ killed' \in BOOLEAN
  BY <1>a, <1>1, <1>2 DEF Poll!Wrote, Echoing, PollTypes
<1>4. PollMsgs \in Nat /\ Counting(PollClients) /\ \A d \in PollClients : CountsAgree(d, PollMsgs)
  BY <1>a, CountsAssumption DEF PollTypes
<1>5. Counting(PollClients)' /\ \A d \in PollClients : CountsAgree(d, PollMsgs)'
  BY <1>3, <1>4, CountsAfter
<1>6. PollTypes' /\ Seated'
  BY <1>a, <1>1, <1>3, <1>5, SlotsAreNumbers DEF PollTypes, Seated, SocketStates
<1>7. \A j \in due' : j # 0 => Due(j)'
  BY <1>1, <1>3 DEF PollInv, Due, Poll!Of, Poll!Readable, Poll!HasData
<1> QED BY <1>a, <1>1, <1>3, <1>6, <1>7 DEF PollInv

\* Every step of the clients and the server keeps the slots.
LEMMA PollStep == PollInv /\ (Poll!Next \/ UNCHANGED <<socketVars, pollVars>>) => PollInv'
<1>1. PollInv /\ UNCHANGED <<socketVars, pollVars>> => PollInv'
  <2> SUFFICES ASSUME PollInv, UNCHANGED <<socketVars, pollVars>> PROVE PollInv'
    OBVIOUS
  <2>1. PollTypes' /\ Seated'
    BY DEF PollInv, PollTypes, Seated, Counting, CountsAgree, SocketStates, socketVars, pollVars
  <2>2. \A i \in due' : i # 0 => Due(i)'
    BY DEF PollInv, Due, Poll!Of, Poll!Readable, Poll!HasData, socketVars, pollVars
  <2>3. echo' # 0 => Echoing(echo)'
    BY DEF PollInv, Echoing, Poll!Of, socketVars, pollVars
  <2>4. \A d \in PollClients : conn'[d] = "closed" => peer'[d] # "up"
    BY DEF PollInv, socketVars
  <2> QED BY <2>1, <2>2, <2>3, <2>4 DEF PollInv
<1>2. Poll!ClientStep => \E c \in PollClients :
          /\ Poll!Receive(c) \/ Poll!Connect(c) \/ Poll!Send(c) \/ Poll!Finish(c) \/ Poll!Reset(c)
          /\ UNCHANGED <<fds, due, echo>>
  BY DEF Poll!ClientStep, Poll!ClientReceives, Poll!server
<1>3. PollInv /\ Poll!ClientStep => PollInv'
  BY <1>2, PollClientStep
<1>4. PollInv /\ Poll!ServerStep => PollInv'
  BY PollReports, PollEchoes, PollAccepts, PollReads, PollCloses DEF Poll!ServerStep
<1> QED BY <1>1, <1>3, <1>4 DEF Poll!Next

\* The cardinality that the module of the server uses is that of the library.
LEMMA PollCardinality == \A S : Poll!Cardinality(S) = Cardinality(S)
  BY DEF Poll!Cardinality, Cardinality

\* Slots and descriptors that agree serve every client once.
LEMMA PollSlotsAgree == PollInv => Poll!TypeOK /\ Poll!SlotsAgree
<1> SUFFICES ASSUME PollInv PROVE Poll!TypeOK /\ Poll!SlotsAgree
  OBVIOUS
<1>a. PollTypes /\ Seated /\ \A d \in PollClients : conn[d] = "closed" => peer[d] # "up"
  BY DEF PollInv
<1>b. /\ \A i \in Poll!Slots : fds[i] # -1 => /\ fds[i] \in Fds /\ Poll!Of(i) \in PollClients
                                             /\ conn[Poll!Of(i)] = "open"
      /\ \A i, j \in Poll!Slots : fds[i] # -1 /\ fds[j] # -1 /\ Poll!Of(i) = Poll!Of(j) => i = j
  BY <1>a, SlotsOfClients
<1>1. PollMsgs \in Nat /\ Counting(PollClients) /\ \A d \in PollClients : CountsAgree(d, PollMsgs)
  BY <1>a, CountsAssumption DEF PollTypes
<1>2. \A c \in PollClients : /\ got[c] \in 0 .. sent[c] /\ sent[c] \in 0 .. PollMsgs
                             /\ recvd[c] \in 0 .. replied[c] /\ replied[c] \in 0 .. got[c]
  BY <1>1, CountsInRange
<1>3. Poll!TypeOK
  BY <1>a, <1>2 DEF PollTypes, SocketStates, Poll!TypeOK, Poll!SocketsTypeOK
<1>4. \A i \in Poll!Slots : fds[i] # -1 => Poll!Of(i) # NoClient /\ conn[Poll!Of(i)] = "open"
  BY <1>b, DescriptorsAssumption
<1>5. ASSUME NEW c \in PollClients, conn[c] = "open"
      PROVE  Poll!Cardinality({i \in Poll!Slots : fds[i] # -1 /\ Poll!Of(i) = c}) = 1
  <2>1. PICK f \in Fds : table[f] = c
    BY <1>a, <1>5 DEF Seated
  <2>2. PICK k \in Poll!Slots : fds[k] = f
    BY <1>a, <2>1, DescriptorsAssumption DEF Seated
  <2>3. fds[k] # -1 /\ Poll!Of(k) = c
    BY <2>1, <2>2, SlotsAreNumbers DEF Poll!Of
  <2>4. {i \in Poll!Slots : fds[i] # -1 /\ Poll!Of(i) = c} = {k}
    BY <1>b, <2>3
  <2> QED BY <2>4, PollCardinality, FS_Singleton
<1>6. \A i \in Poll!Slots : Poll!Serving(i) => fds[i] # -1 /\ Poll!Readable(Poll!Of(i))
  BY ServedIsDue DEF Due
<1> QED BY <1>a, <1>3, <1>4, <1>5, <1>6 DEF Poll!SlotsAgree

-----------------------------------------------------------------------------
\* server_epoll_nio.cpp.
Events == {Nio!Event(f, way) : f \in Fds \cup {ListenFd}, way \in {"in", "out"}}

NioTypes ==
    /\ Counting(EpollClients) /\ \A c \in EpollClients : CountsAgree(c, EpollMsgs)
    /\ SocketStates(EpollClients)
    /\ table \in [Fds -> EpollClients \cup {NoClient}]
    /\ killed \in BOOLEAN
    /\ interest \in [Fds -> {"in", "out"}]
    /\ ready \subseteq Fds
    /\ batch \subseteq Events

\* Descriptors in use stand for different clients with an open connection.
Connected ==
    /\ \A f \in Fds : table[f] # NoClient => conn[table[f]] = "open"
    /\ \A f, g \in Fds : table[f] # NoClient /\ table[f] = table[g] => f = g

Noticed(f) == table[f] # NoClient /\ Nio!HasEvent(f, interest[f])
                  => f \in ready \/ Nio!Event(f, interest[f]) \in batch

\* An event of the batch is still true, and of the kind the server waits for.
Holds(e) == e.fd # ListenFd => /\ e.fd \in Fds /\ table[e.fd] # NoClient
                               /\ e.way = interest[e.fd] /\ Nio!HasEvent(e.fd, e.way)

\* The server waits to write only where it has read more than it has replied.
OwesReply(f) == table[f] # NoClient /\ interest[f] = "out" => replied[table[f]] < got[table[f]]

NioInv ==
    /\ NioTypes
    /\ Connected
    /\ \A f \in ready : table[f] # NoClient
    /\ \A f \in Fds : Noticed(f) /\ OwesReply(f)
    /\ \A e \in batch : Holds(e)
    /\ \A c \in EpollClients : conn[c] = "closed" => peer[c] # "up"

\* No client is connected and no event is ready at first.
LEMMA NioInit == Init /\ program = "server_epoll" => NioInv
<1> SUFFICES ASSUME Init, program = "server_epoll" PROVE NioInv
  OBVIOUS
<1>1. Nio!SocketsInit /\ Nio!New /\ EpollMsgs \in Nat
  BY CountsAssumption DEF Init
<1>2. Counting(EpollClients) /\ \A c \in EpollClients : CountsAgree(c, EpollMsgs)
  BY <1>1 DEF Nio!SocketsInit, Counting, CountsAgree
<1>3. NioTypes
  BY <1>1, <1>2 DEF Nio!SocketsInit, Nio!New, NioTypes, SocketStates
<1>4. /\ \A f \in Fds : table[f] = NoClient
      /\ \A c \in EpollClients : conn[c] = "new"
      /\ ready = {} /\ batch = {}
  BY <1>1 DEF Nio!SocketsInit, Nio!New
<1> QED BY <1>3, <1>4 DEF NioInv, Connected, Noticed, OwesReply

\* An event of the batch is determined by its descriptor.
LEMMA OneEvent ==
    ASSUME NioInv, NEW e \in batch, NEW d \in batch, e.fd = d.fd, e.fd # ListenFd
    PROVE  e = d
<1>1. e.way = d.way
  BY DEF NioInv, Holds
<1>2. e = [fd |-> e.fd, way |-> e.way] /\ d = [fd |-> d.fd, way |-> d.way]
  BY DEF NioInv, NioTypes, Events, Nio!Event
<1> QED BY <1>1, <1>2

\* The parts of an event.
LEMMA EventFields == ASSUME NEW f, NEW way PROVE Nio!Event(f, way).fd = f /\ Nio!Event(f, way).way = way
  BY DEF Nio!Event

\* Of another client nothing has changed, so neither has what epoll reports of it.
LEMMA SameEvents ==
    ASSUME NEW f, NEW way, table'[f] = table[f], peer'[table[f]] = peer[table[f]],
           sent'[table[f]] = sent[table[f]], got'[table[f]] = got[table[f]],
           replied'[table[f]] = replied[table[f]], recvd'[table[f]] = recvd[table[f]]
    PROVE  Nio!HasEvent(f, way)' <=> Nio!HasEvent(f, way)
  BY DEF Nio!HasEvent, Nio!Readable, Nio!HasData, Nio!HasRoom

\* The event e is handled on descriptor f of client c.
LEMMA NioHandled ==
    ASSUME NioInv, NEW e \in batch, batch' = batch \ {e}, NEW f \in Fds, NEW c \in EpollClients,
           NioTypes', Connected', \A d \in EpollClients : conn'[d] = "closed" => peer'[d] # "up",
           \A d \in batch' : d.fd # f, e.fd \in {f, ListenFd},
           \A g \in Fds \ {f} : /\ table'[g] = table[g] /\ interest'[g] = interest[g]
                                /\ g \in ready' <=> g \in ready
                                /\ table[g] # c,
           peer' = peer,
           \A d \in EpollClients \ {c} : /\ sent'[d] = sent[d] /\ got'[d] = got[d]
                                         /\ replied'[d] = replied[d] /\ recvd'[d] = recvd[d],
           f \in ready' => table'[f] # NoClient,
           Noticed(f)', OwesReply(f)'
    PROVE  NioInv'
<1>1. ASSUME NEW g \in Fds, g # f, table[g] # NoClient
      PROVE  /\ \A way : Nio!HasEvent(g, way)' <=> Nio!HasEvent(g, way)
             /\ replied'[table[g]] = replied[table[g]] /\ got'[table[g]] = got[table[g]]
  <2>1. table[g] \in EpollClients \ {c}
    BY <1>1 DEF NioInv, NioTypes
  <2>2. /\ table'[g] = table[g] /\ peer'[table[g]] = peer[table[g]]
        /\ sent'[table[g]] = sent[table[g]] /\ got'[table[g]] = got[table[g]]
        /\ replied'[table[g]] = replied[table[g]] /\ recvd'[table[g]] = recvd[table[g]]
    BY <1>1, <2>1
  <2>3. \A way : Nio!HasEvent(g, way)' <=> Nio!HasEvent(g, way)
    BY <2>2, SameEvents
  <2> QED BY <2>2, <2>3
<1>2. ASSUME NEW g \in Fds, g # f PROVE Noticed(g)'
  <2>1. Nio!Event(g, interest[g]) \in batch => Nio!Event(g, interest[g]) \in batch'
    <3>1. ListenFd # g
      BY DescriptorsAssumption
    <3>2. Nio!Event(g, interest[g]).fd # e.fd
      BY <1>2, <3>1, EventFields
    <3> QED BY <3>2
  <2>2. Noticed(g) /\ table'[g] = table[g] /\ interest'[g] = interest[g] /\ (g \in ready' <=> g \in ready)
    BY <1>2 DEF NioInv
  <2>3. table[g] # NoClient => (Nio!HasEvent(g, interest[g])' <=> Nio!HasEvent(g, interest[g]))
    <3>1. PICK w : w = interest[g]
      OBVIOUS
    <3>2. table[g] # NoClient => (Nio!HasEvent(g, w)' <=> Nio!HasEvent(g, w))
      BY <1>1, <1>2
    <3>3. interest'[g] = w /\ interest[g] = w
      BY <2>2, <3>1
    <3> QED BY <3>2, <3>3 DEF Nio!HasEvent
  <2> QED BY <2>1, <2>2, <2>3 DEF Noticed
<1>3. ASSUME NEW g \in Fds, g # f PROVE OwesReply(g)'
  BY <1>1, <1>3 DEF NioInv, OwesReply
<1>4. ASSUME NEW d \in batch' PROVE Holds(d)'
  <2>1. Holds(d) /\ d.fd # f
    BY <1>4 DEF NioInv
  <2>2. CASE d.fd = ListenFd
    BY <2>2 DEF Holds
  <2>3. CASE d.fd # ListenFd
    <3>1. /\ d.fd \in Fds /\ d.fd # f /\ table[d.fd] # NoClient
          /\ d.way = interest[d.fd] /\ Nio!HasEvent(d.fd, d.way)
      BY <2>1, <2>3 DEF Holds
    <3>2. table'[d.fd] = table[d.fd] /\ interest'[d.fd] = interest[d.fd]
      BY <3>1
    <3>3. Nio!HasEvent(d.fd, d.way)'
      BY <1>1, <3>1
    <3> QED BY <3>1, <3>2, <3>3 DEF Holds
  <2> QED BY <2>2, <2>3
<1>5. \A g \in ready' : table'[g] # NoClient
  BY DEF NioInv, NioTypes
<1> QED BY <1>2, <1>3, <1>4, <1>5 DEF NioInv

-----------------------------------------------------------------------------
\* What clients do makes their descriptors ready.
LEMMA NioClientStep ==
    ASSUME NioInv, NEW c \in EpollClients, UNCHANGED <<interest, batch>>,
           \/ Nio!Receive(c) /\ Nio!Edge(c, "out")
           \/ Nio!Connect(c) /\ UNCHANGED ready
           \/ (Nio!Send(c) \/ Nio!Finish(c)) /\ Nio!Edge(c, "in")
           \/ Nio!Reset(c) /\ Nio!Edge(c, "reset")
    PROVE  NioInv'
<1>a. EpollMsgs \in Nat /\ Room \in Nat
  BY CountsAssumption
<1>b. /\ Counting(EpollClients) /\ \A d \in EpollClients : CountsAgree(d, EpollMsgs)
      /\ SocketStates(EpollClients) /\ killed \in BOOLEAN
      /\ table \in [Fds -> EpollClients \cup {NoClient}] /\ ready \subseteq Fds
      /\ interest \in [Fds -> {"in", "out"}]
  BY DEF NioInv, NioTypes
<1>c. NoClient # c
  BY ProcessesAssumption
<1>1. UNCHANGED <<table, killed, got, replied>>
  BY DEF Nio!Receive, Nio!Connect, Nio!Send, Nio!Finish, Nio!Reset
<1>2. /\ SocketStates(EpollClients)'
      /\ \A d \in EpollClients : /\ peer[d] # "up" => peer'[d] # "up"
                                 /\ peer[d] = "reset" => peer'[d] = "reset"
                                 /\ conn'[d] = conn[d] \/ (conn[d] = "new" /\ conn'[d] = "backlog")
                                 /\ d # c => peer'[d] = peer[d]
  BY <1>b DEF Nio!Receive, Nio!Connect, Nio!Send, Nio!Finish, Nio!Reset, SocketStates
<1>3. \/ sent[c] < EpollMsgs /\ sent' = [sent EXCEPT ![c] = @ + 1] /\ UNCHANGED recvd
      \/ recvd[c] < replied[c] /\ recvd' = [recvd EXCEPT ![c] = @ + 1] /\ UNCHANGED sent
      \/ UNCHANGED <<sent, recvd>>
  BY DEF Nio!Receive, Nio!Connect, Nio!Send, Nio!Finish, Nio!Reset
<1>4. /\ Counting(EpollClients)' /\ \A d \in EpollClients : CountsAgree(d, EpollMsgs)'
      /\ \A d \in EpollClients : got[d] < sent[d] => got'[d] < sent'[d]
      /\ \A d \in EpollClients : replied[d] < got[d] => replied'[d] < got'[d]
  BY <1>a, <1>b, <1>1, <1>3, CountsAfter
<1>5. \A d \in EpollClients : replied[d] - recvd[d] < Room => replied'[d] - recvd'[d] < Room
  <2>1. \A d \in EpollClients : recvd'[d] = recvd[d] \/ recvd'[d] = recvd[d] + 1
    BY <1>3, <1>b DEF Counting
  <2>2. \A d \in EpollClients : replied[d] \in Nat /\ recvd[d] \in Nat /\ replied'[d] = replied[d]
    BY <1>1, <1>b DEF Counting
  <2> QED BY <1>a, <2>1, <2>2
<1>6. ready \subseteq ready' /\ ready' \subseteq Fds /\ \A f \in ready' : f \in ready \/ table[f] = c
  BY <1>b DEF Nio!Edge
<1>7. NioTypes'
  BY <1>1, <1>2, <1>4, <1>6 DEF NioInv, NioTypes
<1>8. Connected'
  <2>1. \A f \in Fds : table[f] # NoClient => table[f] \in EpollClients
    BY <1>b
  <2> QED BY <1>1, <1>2, <2>1 DEF NioInv, Connected
<1>9. \A f \in ready' : table'[f] # NoClient
  BY <1>1, <1>6, <1>c DEF NioInv
<1>10. ASSUME NEW f \in Fds, table[f] # NoClient, NEW way, Nio!HasEvent(f, way) PROVE Nio!HasEvent(f, way)'
  <2>1. PICK d \in EpollClients : d = table[f]
    BY <1>b, <1>10
  <2>2. table'[f] = d
    BY <1>1, <2>1
  <2> QED BY <1>2, <1>4, <1>5, <1>10, <2>1, <2>2 DEF Nio!HasEvent, Nio!Readable, Nio!HasData, Nio!HasRoom
<1>11. ASSUME NEW f \in Fds, table[f] # NoClient, NEW w \in {"in", "out"}, w = interest[f],
              Nio!HasEvent(f, w)', ~Nio!HasEvent(f, w)
       PROVE  f \in ready'
  <2>1. table[f] = c
    <3> SUFFICES ASSUME table[f] # c PROVE FALSE
      OBVIOUS
    <3>1. PICK d \in EpollClients : d = table[f] /\ d # c
      BY <1>b, <1>11
    <3>2. sent'[d] = sent[d] /\ recvd'[d] = recvd[d]
      BY <1>3, <1>b, <3>1 DEF Counting
    <3>3. /\ table'[f] = table[f] /\ peer'[table[f]] = peer[table[f]]
          /\ sent'[table[f]] = sent[table[f]] /\ got'[table[f]] = got[table[f]]
          /\ replied'[table[f]] = replied[table[f]] /\ recvd'[table[f]] = recvd[table[f]]
      BY <1>1, <1>2, <3>1, <3>2
    <3> QED BY <1>11, <3>3, SameEvents
  <2>2. table'[f] = c
    BY <1>1, <2>1
  <2>3. CASE Nio!Receive(c) /\ Nio!Edge(c, "out")
    <3>1. UNCHANGED <<peer, sent, got>>
      BY <2>3 DEF Nio!Receive
    <3>2. w # "in"
      BY <1>11, <2>1, <2>2, <3>1 DEF Nio!HasEvent, Nio!Readable, Nio!HasData
    <3> QED BY <1>11, <2>1, <2>3, <3>2 DEF Nio!Edge
  <2>4. CASE Nio!Connect(c)
    <3>1. UNCHANGED <<peer, sent, got, replied, recvd>>
      BY <2>4 DEF Nio!Connect
    <3> QED BY <1>11, <2>1, <2>2, <3>1 DEF Nio!HasEvent, Nio!Readable, Nio!HasData, Nio!HasRoom
  <2>5. CASE (Nio!Send(c) \/ Nio!Finish(c)) /\ Nio!Edge(c, "in")
    <3>1. UNCHANGED <<replied, recvd>> /\ (peer'[c] = "reset" => peer[c] = "reset")
      BY <1>b, <2>5 DEF Nio!Send, Nio!Finish, SocketStates
    <3>2. w # "out"
      BY <1>11, <2>1, <2>2, <3>1 DEF Nio!HasEvent, Nio!HasRoom
    <3> QED BY <1>11, <2>1, <2>5, <3>2 DEF Nio!Edge
  <2>6. CASE Nio!Reset(c) /\ Nio!Edge(c, "reset")
    BY <1>11, <2>1, <2>6 DEF Nio!Edge
  <2> QED BY <2>3, <2>4, <2>5, <2>6
<1>12. ASSUME NEW f \in Fds PROVE Noticed(f)' /\ OwesReply(f)'
  <2>1. PICK w \in {"in", "out"} : w = interest[f]
    BY <1>b
  <2>2. Noticed(f) /\ OwesReply(f) /\ interest'[f] = w /\ table'[f] = table[f]
    BY <1>1, <2>1 DEF NioInv
  <2>3. Noticed(f)'
    <3> SUFFICES ASSUME table[f] # NoClient, Nio!HasEvent(f, w)'
                 PROVE  f \in ready' \/ Nio!Event(f, w) \in batch
      BY <2>1, <2>2 DEF Noticed, Nio!HasEvent
    <3>1. CASE Nio!HasEvent(f, w)
      BY <1>6, <2>1, <2>2, <3>1 DEF Noticed
    <3>2. CASE ~Nio!HasEvent(f, w)
      BY <1>11, <2>1, <3>2
    <3> QED BY <3>1, <3>2
  <2>4. OwesReply(f)'
    BY <1>1, <2>2 DEF OwesReply
  <2> QED BY <2>3, <2>4
<1>13. ASSUME NEW e \in batch' PROVE Holds(e)'
  <2>1. Holds(e)
    BY <1>13 DEF NioInv
  <2>2. e.fd # ListenFd => Nio!HasEvent(e.fd, e.way)'
    BY <1>10, <2>1 DEF Holds
  <2> QED BY <1>1, <2>1, <2>2 DEF Holds
<1>14. \A d \in EpollClients : conn'[d] = "closed" => peer'[d] # "up"
  BY <1>2 DEF NioInv
<1> QED BY <1>7, <1>8, <1>9, <1>12, <1>13, <1>14 DEF NioInv

\* epoll_wait hands out what is ready.
LEMMA NioWaits == ASSUME NioInv, Nio!Wait PROVE NioInv'
<1>1. /\ batch = {} /\ batch' = Nio!Reported /\ ready' = {}
      /\ UNCHANGED <<conn, peer, sent, got, replied, recvd, table, killed, interest>>
  BY DEF Nio!Wait, Nio!sockets
<1>2. NioTypes
  BY DEF NioInv
<1>3. batch' \subseteq Events
  BY <1>1, <1>2 DEF Nio!Reported, Events, NioTypes
<1>4. NioTypes' /\ Connected'
  BY <1>1, <1>2, <1>3 DEF NioInv, NioTypes, Connected, Counting, CountsAgree, SocketStates
<1>5. \A f, way : Nio!HasEvent(f, way)' <=> Nio!HasEvent(f, way)
  BY <1>1 DEF Nio!HasEvent, Nio!Readable, Nio!HasData, Nio!HasRoom
<1>6. ASSUME NEW f \in Fds PROVE Noticed(f)' /\ OwesReply(f)'
  <2>1. Noticed(f) /\ OwesReply(f)
    BY DEF NioInv
  <2>2. table[f] # NoClient /\ Nio!HasEvent(f, interest[f]) => Nio!Event(f, interest[f]) \in batch'
    BY <1>1, <2>1 DEF Noticed, Nio!Reported
  <2>3. Noticed(f)'
    BY <1>1, <2>2 DEF Noticed, Nio!HasEvent, Nio!Readable, Nio!HasData, Nio!HasRoom
  <2> QED BY <1>1, <2>1, <2>3 DEF OwesReply
<1>7. ASSUME NEW e \in batch' PROVE Holds(e)'
  <2>1. CASE e = Nio!Event(ListenFd, "in")
    BY <2>1, EventFields DEF Holds
  <2>2. ASSUME NEW f \in ready, Nio!HasEvent(f, interest[f]), e = Nio!Event(f, interest[f]) PROVE Holds(e)'
    <3>1. e.fd = f /\ e.way = interest[f] /\ f \in Fds /\ table[f] # NoClient
      BY <1>2, <2>2, EventFields DEF NioInv, NioTypes
    <3>2. Nio!HasEvent(e.fd, e.way)'
      BY <1>5, <2>2, <3>1
    <3> QED BY <1>1, <3>1, <3>2 DEF Holds
  <2> QED BY <1>1, <1>7, <2>1, <2>2 DEF Nio!Reported
<1> QED BY <1>1, <1>4, <1>6, <1>7 DEF NioInv

-----------------------------------------------------------------------------
\* A descriptor that is watched anew is ready if there is something to do.
LEMMA NioWatch ==
    ASSUME NioInv, NEW f \in Fds, NEW w \in {"in", "out"}, Nio!Watch(f, w)
    PROVE  /\ interest' \in [Fds -> {"in", "out"}] /\ interest'[f] = w
           /\ ready' \subseteq Fds
           /\ \A g \in Fds \ {f} : interest'[g] = interest[g] /\ (g \in ready' <=> g \in ready)
           /\ Noticed(f)'
<1>1. /\ interest \in [Fds -> {"in", "out"}] /\ interest' = [interest EXCEPT ![f] = w]
      /\ ready \subseteq Fds
  BY DEF NioInv, NioTypes, Nio!Watch
<1>2. interest'[f] = w
  BY <1>1
<1>3. Nio!HasEvent(f, w)' => f \in ready'
  BY DEF Nio!Watch
<1>4. Noticed(f)'
  BY <1>2, <1>3 DEF Noticed, Nio!HasEvent
<1>5. ready' \subseteq Fds /\ \A g \in Fds \ {f} : g \in ready' <=> g \in ready
  BY <1>1 DEF Nio!Watch
<1> QED BY <1>1, <1>2, <1>4, <1>5

\* An event that is being handled is of a client.
LEMMA NioEvent ==
    ASSUME NioInv, NEW e \in batch, e.fd # ListenFd
    PROVE  /\ e.fd \in Fds /\ table[e.fd] \in EpollClients /\ table[e.fd] # NoClient
           /\ e.way = interest[e.fd] /\ Nio!HasEvent(e.fd, e.way)
           /\ \A d \in batch \ {e} : d.fd # e.fd
           /\ \A g \in Fds \ {e.fd} : table[g] # table[e.fd]
<1>1. /\ e.fd \in Fds /\ table[e.fd] # NoClient
      /\ e.way = interest[e.fd] /\ Nio!HasEvent(e.fd, e.way)
  BY DEF NioInv, Holds
<1>2. table[e.fd] \in EpollClients
  BY <1>1 DEF NioInv, NioTypes
<1>3. \A d \in batch \ {e} : d.fd # e.fd
  BY OneEvent
<1>4. \A g \in Fds \ {e.fd} : table[g] # table[e.fd]
  BY <1>1 DEF NioInv, Connected
<1> QED BY <1>1, <1>2, <1>3, <1>4

\* The handler reads and watches for room to write.
LEMMA NioReads == ASSUME NioInv, NEW e \in batch, Nio!Read(e) PROVE NioInv'
<1>a. PICK f \in Fds : f = e.fd
  BY NioEvent DEF Nio!Read
<1>b. PICK c \in EpollClients : c = table[f]
  BY <1>a, NioEvent DEF Nio!Read
<1>c. /\ \A d \in batch \ {e} : d.fd # f
      /\ \A g \in Fds \ {f} : table[g] # c
      /\ c # NoClient
  BY <1>a, <1>b, NioEvent DEF Nio!Read
<1>1. /\ batch' = batch \ {e} /\ Nio!Watch(f, "out")
      /\ got[c] < sent[c] /\ got' = [got EXCEPT ![c] = @ + 1]
      /\ UNCHANGED <<conn, peer, sent, replied, recvd, table, killed>>
  BY <1>a, <1>b DEF Nio!Read, Nio!Handle, Nio!HasData, Nio!ReadUnit, Nio!ThenWrite
<1>2. EpollMsgs \in Nat /\ Counting(EpollClients) /\ \A d \in EpollClients : CountsAgree(d, EpollMsgs)
  BY CountsAssumption DEF NioInv, NioTypes
<1>3. Counting(EpollClients)' /\ \A d \in EpollClients : CountsAgree(d, EpollMsgs)'
  BY <1>1, <1>2, CountsAfter
<1>4. replied'[c] < got'[c] /\ \A d \in EpollClients \ {c} : got'[d] = got[d]
  <2>1. got[c] \in Nat /\ replied[c] \in Nat /\ replied[c] <= got[c]
    BY <1>2 DEF Counting, CountsAgree
  <2>2. got'[c] = got[c] + 1 /\ replied'[c] = replied[c] /\ \A d \in EpollClients \ {c} : got'[d] = got[d]
    BY <1>1, <1>2 DEF Counting
  <2> QED BY <2>1, <2>2
<1>5. /\ interest' \in [Fds -> {"in", "out"}] /\ ready' \subseteq Fds
      /\ \A g \in Fds \ {f} : interest'[g] = interest[g] /\ (g \in ready' <=> g \in ready)
      /\ Noticed(f)'
  BY <1>1, NioWatch
<1>6. NioTypes'
  BY <1>1, <1>3, <1>5 DEF NioInv, NioTypes, SocketStates
<1>7. Connected' /\ \A d \in EpollClients : conn'[d] = "closed" => peer'[d] # "up"
  BY <1>1 DEF NioInv, Connected
<1>8. OwesReply(f)' /\ table'[f] # NoClient
  BY <1>1, <1>4, <1>b, <1>c DEF OwesReply
<1>9. \A d \in batch' : d.fd # f
  BY <1>1, <1>c
<1>10. \A g \in Fds \ {f} : /\ table'[g] = table[g] /\ interest'[g] = interest[g]
                            /\ g \in ready' <=> g \in ready
                            /\ table[g] # c
  BY <1>1, <1>5, <1>c
<1>11. peer' = peer /\ \A d \in EpollClients \ {c} : /\ sent'[d] = sent[d] /\ got'[d] = got[d]
                                                     /\ replied'[d] = replied[d] /\ recvd'[d] = recvd[d]
  BY <1>1, <1>4
<1>12. batch' = batch \ {e} /\ e.fd \in {f, ListenFd}
  BY <1>1, <1>a
<1> QED BY <1>5, <1>6, <1>7, <1>8, <1>9, <1>10, <1>11, <1>12, NioHandled

\* The handler lets a client go that has left.
LEMMA NioCloses == ASSUME NioInv, NEW e \in batch, Nio!Close(e) PROVE NioInv'
<1>a. PICK f \in Fds : f = e.fd
  BY NioEvent DEF Nio!Close
<1>b. PICK c \in EpollClients : c = table[f]
  BY <1>a, NioEvent DEF Nio!Close
<1>c. /\ \A d \in batch \ {e} : d.fd # f
      /\ \A g \in Fds \ {f} : table[g] # c
      /\ c # NoClient /\ Nio!HasEvent(f, "in")
  BY <1>a, <1>b, NioEvent DEF Nio!Close
<1>1. /\ batch' = batch \ {e} /\ ready' = ready \ {f} /\ UNCHANGED interest
      /\ ~Nio!HasData(c)
      /\ conn' = [conn EXCEPT ![c] = "closed"] /\ table' = [table EXCEPT ![f] = NoClient]
      /\ UNCHANGED <<peer, sent, got, replied, recvd, killed>>
  BY <1>a, <1>b, <1>c DEF Nio!Close, Nio!Handle, Nio!Closed
<1>2. peer[c] # "up"
  BY <1>1, <1>b, <1>c DEF Nio!HasEvent, Nio!Readable
<1>3. /\ table \in [Fds -> EpollClients \cup {NoClient}] /\ ready \subseteq Fds
      /\ conn \in [EpollClients -> {"new", "backlog", "open", "rejected", "closed"}]
  BY DEF NioInv, NioTypes, SocketStates
<1>4. /\ table'[f] = NoClient /\ conn'[c] = "closed"
      /\ \A g \in Fds \ {f} : table'[g] = table[g]
      /\ \A d \in EpollClients \ {c} : conn'[d] = conn[d]
  BY <1>1, <1>3
<1>5. NioTypes'
  BY <1>1, <1>3 DEF NioInv, NioTypes, Counting, CountsAgree, SocketStates
<1>6. Connected'
  <2>1. \A g \in Fds \ {f} : table[g] # NoClient => table[g] \in EpollClients \ {c}
    BY <1>3, <1>c
  <2> QED BY <1>4, <2>1 DEF NioInv, Connected
<1>7. \A d \in EpollClients : conn'[d] = "closed" => peer'[d] # "up"
  BY <1>1, <1>2, <1>4 DEF NioInv
<1>8. f \notin ready' /\ Noticed(f)' /\ OwesReply(f)'
  BY <1>1, <1>4 DEF Noticed, OwesReply
<1>9. \A d \in batch' : d.fd # f
  BY <1>1, <1>c
<1>10. \A g \in Fds \ {f} : /\ table'[g] = table[g] /\ interest'[g] = interest[g]
                            /\ g \in ready' <=> g \in ready
                            /\ table[g] # c
  BY <1>1, <1>4, <1>c
<1>11. peer' = peer /\ \A d \in EpollClients \ {c} : /\ sent'[d] = sent[d] /\ got'[d] = got[d]
                                                     /\ replied'[d] = replied[d] /\ recvd'[d] = recvd[d]
  BY <1>1
<1>12. batch' = batch \ {e} /\ e.fd \in {f, ListenFd}
  BY <1>1, <1>a
<1> QED BY <1>5, <1>6, <1>7, <1>8, <1>9, <1>10, <1>11, <1>12, NioHandled

\* The handler writes and watches for data to read.
LEMMA NioWrites == ASSUME NioInv, NEW e \in batch, Nio!Write(e) PROVE NioInv'
<1>a. PICK f \in Fds : f = e.fd
  BY NioEvent DEF Nio!Write
<1>b. PICK c \in EpollClients : c = table[f]
  BY <1>a, NioEvent DEF Nio!Write
<1>c. /\ \A d \in batch \ {e} : d.fd # f
      /\ \A g \in Fds \ {f} : table[g] # c
      /\ c # NoClient /\ interest[f] = "out"
  BY <1>a, <1>b, NioEvent DEF Nio!Write
<1>1. /\ batch' = batch \ {e} /\ Nio!Watch(f, "in")
      /\ replied' = [replied EXCEPT ![c] = @ + 1] \/ UNCHANGED replied
      /\ UNCHANGED <<conn, peer, sent, got, recvd, table>> /\ killed' \in BOOLEAN
  BY <1>a, <1>b DEF Nio!Write, Nio!Handle, Nio!Wrote, NioInv, NioTypes
<1>2. EpollMsgs \in Nat /\ Counting(EpollClients) /\ \A d \in EpollClients : CountsAgree(d, EpollMsgs)
  BY CountsAssumption DEF NioInv, NioTypes
<1>3. replied[c] < got[c]
  BY <1>b, <1>c DEF NioInv, OwesReply
<1>4. Counting(EpollClients)' /\ \A d \in EpollClients : CountsAgree(d, EpollMsgs)'
  BY <1>1, <1>2, <1>3, CountsAfter
<1>5. /\ interest' \in [Fds -> {"in", "out"}] /\ ready' \subseteq Fds /\ interest'[f] = "in"
      /\ \A g \in Fds \ {f} : interest'[g] = interest[g] /\ (g \in ready' <=> g \in ready)
      /\ Noticed(f)'
  BY <1>1, NioWatch
<1>6. NioTypes'
  BY <1>1, <1>4, <1>5 DEF NioInv, NioTypes, SocketStates
<1>7. Connected' /\ \A d \in EpollClients : conn'[d] = "closed" => peer'[d] # "up"
  BY <1>1 DEF NioInv, Connected
<1>8. OwesReply(f)' /\ table'[f] # NoClient
  BY <1>1, <1>5, <1>b, <1>c DEF OwesReply
<1>9. \A d \in batch' : d.fd # f
  BY <1>1, <1>c
<1>10. \A g \in Fds \ {f} : /\ table'[g] = table[g] /\ interest'[g] = interest[g]
                            /\ g \in ready' <=> g \in ready
                            /\ table[g] # c
  BY <1>1, <1>5, <1>c
<1>11. peer' = peer /\ \A d \in EpollClients \ {c} : /\ sent'[d] = sent[d] /\ got'[d] = got[d]
                                                     /\ replied'[d] = replied[d] /\ recvd'[d] = recvd[d]
  BY <1>1, <1>2 DEF Counting
<1>12. batch' = batch \ {e} /\ e.fd \in {f, ListenFd}
  BY <1>1, <1>a
<1> QED BY <1>5, <1>6, <1>7, <1>8, <1>9, <1>10, <1>11, <1>12, NioHandled

-----------------------------------------------------------------------------
\* There is a descriptor left for a client that waits.
LEMMA DescriptorForClient ==
    ASSUME NioInv, NEW c \in EpollClients, conn[c] = "backlog"
    PROVE  \E f \in Fds : table[f] = NoClient
<1> SUFFICES ASSUME \A f \in Fds : table[f] # NoClient PROVE FALSE
  OBVIOUS
<1>1. \A f \in Fds : table[f] \in EpollClients \ {c}
  BY DEF NioInv, NioTypes, Connected
<1>2. table \in [Fds -> EpollClients \ {c}]
  BY <1>1 DEF NioInv, NioTypes
<1>3. /\ IsFiniteSet(Fds) /\ IsFiniteSet(EpollClients)
      /\ Cardinality(EpollClients) <= Cardinality(Fds)
  BY DescriptorsAssumption
<1>4. IsFiniteSet(EpollClients \ {c}) /\ Cardinality(EpollClients \ {c}) = Cardinality(EpollClients) - 1
  BY <1>3, FS_RemoveElement
<1>5. Cardinality(EpollClients) \in Nat /\ Cardinality(Fds) \in Nat
  BY <1>3, FS_CardinalityType
<1>6. Cardinality(EpollClients \ {c}) < Cardinality(Fds)
  BY <1>3, <1>4, <1>5
<1>7. PICK f, g \in Fds : f # g /\ table[f] = table[g]
  BY <1>2, <1>3, <1>4, <1>6, FS_PigeonHole
<1> QED BY <1>7 DEF NioInv, Connected

\* accept gives a client the least free descriptor and watches it.
LEMMA NioAccepts == ASSUME NioInv, NEW e \in batch, NEW c \in EpollClients, Nio!Accept(e, c) PROVE NioInv'
<1>a. PICK f : f = Nio!NewFd
  OBVIOUS
<1>b. f \in Fds /\ table[f] = NoClient
  <2>1. conn[c] = "backlog"
    BY DEF Nio!Accept, Nio!Backlog
  <2>2. {g \in Fds : table[g] = NoClient} \in SUBSET Nat /\ {g \in Fds : table[g] = NoClient} # {}
    BY <2>1, DescriptorForClient, DescriptorsAssumption
  <2>3. f \in {g \in Fds : table[g] = NoClient}
    BY <1>a, <2>2, MinIsIn DEF Nio!NewFd
  <2> QED BY <2>3
<1>1. /\ batch' = batch \ {e} /\ e.fd = ListenFd /\ Nio!Watch(f, "in") /\ conn[c] = "backlog"
      /\ conn' = [conn EXCEPT ![c] = "open"] /\ table' = [table EXCEPT ![f] = c]
      /\ UNCHANGED <<peer, sent, got, replied, recvd, killed>>
  BY <1>a DEF Nio!Accept, Nio!Handle, Nio!Opened, Nio!Backlog
<1>2. c # NoClient /\ f # ListenFd
  BY <1>b, ProcessesAssumption, DescriptorsAssumption
<1>3. /\ table \in [Fds -> EpollClients \cup {NoClient}]
      /\ conn \in [EpollClients -> {"new", "backlog", "open", "rejected", "closed"}]
  BY DEF NioInv, NioTypes, SocketStates
<1>4. /\ table'[f] = c /\ conn'[c] = "open"
      /\ \A g \in Fds \ {f} : table'[g] = table[g]
      /\ \A d \in EpollClients \ {c} : conn'[d] = conn[d]
  BY <1>1, <1>3, <1>b
<1>5. /\ interest' \in [Fds -> {"in", "out"}] /\ ready' \subseteq Fds /\ interest'[f] = "in"
      /\ \A g \in Fds \ {f} : interest'[g] = interest[g] /\ (g \in ready' <=> g \in ready)
      /\ Noticed(f)'
  BY <1>1, <1>b, NioWatch
<1>6. NioTypes'
  BY <1>1, <1>3, <1>5, <1>b DEF NioInv, NioTypes, Counting, CountsAgree, SocketStates
<1>7. \A g \in Fds : table[g] # c
  BY <1>1, <1>2 DEF NioInv, Connected
<1>8. Connected'
  <2>1. \A g \in Fds \ {f} : table[g] # NoClient => table[g] \in EpollClients \ {c}
    BY <1>3, <1>7
  <2> QED BY <1>4, <1>7, <2>1 DEF NioInv, Connected
<1>9. \A d \in EpollClients : conn'[d] = "closed" => peer'[d] # "up"
  BY <1>1, <1>4 DEF NioInv
<1>10. OwesReply(f)' /\ table'[f] # NoClient
  BY <1>2, <1>4, <1>5 DEF OwesReply
<1>11. \A d \in batch' : d.fd # f
  BY <1>1, <1>2, <1>b DEF NioInv, Holds
<1>12. \A g \in Fds \ {f} : /\ table'[g] = table[g] /\ interest'[g] = interest[g]
                            /\ g \in ready' <=> g \in ready
                            /\ table[g] # c
  BY <1>4, <1>5, <1>7
<1>13. peer' = peer /\ \A d \in EpollClients \ {c} : /\ sent'[d] = sent[d] /\ got'[d] = got[d]
                                                     /\ replied'[d] = replied[d] /\ recvd'[d] = recvd[d]
  BY <1>1
<1>14. batch' = batch \ {e} /\ e.fd \in {f, ListenFd}
  BY <1>1
<1> QED BY <1>b, <1>5, <1>6, <1>8, <1>9, <1>10, <1>11, <1>12, <1>13, <1>14, NioHandled

\* Every step of the clients and the server keeps the events complete.
LEMMA NioStep == NioInv /\ (Nio!Next \/ UNCHANGED <<socketVars, epollVars>>) => NioInv'
<1>1. NioInv /\ UNCHANGED <<socketVars, epollVars>> => NioInv'
  <2> SUFFICES ASSUME NioInv, UNCHANGED <<socketVars, epollVars>> PROVE NioInv'
    OBVIOUS
  <2>1. NioTypes' /\ Connected' /\ \A f \in ready' : table'[f] # NoClient
    BY DEF NioInv, NioTypes, Connected, Counting, CountsAgree, SocketStates, socketVars, epollVars
  <2>2. \A f \in Fds : Noticed(f)' /\ OwesReply(f)'
    BY DEF NioInv, Noticed, OwesReply, Nio!HasEvent, Nio!Readable, Nio!HasData, Nio!HasRoom,
           socketVars, epollVars
  <2>3. \A e \in batch' : Holds(e)'
    BY DEF NioInv, Holds, Nio!HasEvent, Nio!Readable, Nio!HasData, Nio!HasRoom, socketVars, epollVars
  <2>4. \A d \in EpollClients : conn'[d] = "closed" => peer'[d] # "up"
    BY DEF NioInv, socketVars
  <2> QED BY <2>1, <2>2, <2>3, <2>4 DEF NioInv
<1>2. Nio!ClientStep => \E c \in EpollClients :
          /\ \/ Nio!Receive(c) /\ Nio!Edge(c, "out")
             \/ Nio!Connect(c) /\ UNCHANGED ready
             \/ (Nio!Send(c) \/ Nio!Finish(c)) /\ Nio!Edge(c, "in")
             \/ Nio!Reset(c) /\ Nio!Edge(c, "reset")
          /\ UNCHANGED <<interest, batch>>
  BY DEF Nio!ClientStep, Nio!ClientReceives
<1>3. NioInv /\ Nio!ClientStep => NioInv'
  BY <1>2, NioClientStep
<1>4. NioInv /\ Nio!ServerStep => NioInv'
  BY NioWaits, NioReads, NioCloses, NioWrites, NioAccepts DEF Nio!ServerStep
<1> QED BY <1>1, <1>3, <1>4 DEF Nio!Next

\* What can be done for a client is ready or in hand.
LEMMA NioOverlooksNothing == NioInv => Nio!TypeOK /\ Nio!NothingOverlooked
<1> SUFFICES ASSUME NioInv PROVE Nio!TypeOK /\ Nio!NothingOverlooked
  OBVIOUS
<1>1. EpollMsgs \in Nat /\ Counting(EpollClients) /\ \A d \in EpollClients : CountsAgree(d, EpollMsgs)
  BY CountsAssumption DEF NioInv, NioTypes
<1>2. \A c \in EpollClients : /\ got[c] \in 0 .. sent[c] /\ sent[c] \in 0 .. EpollMsgs
                              /\ recvd[c] \in 0 .. replied[c] /\ replied[c] \in 0 .. got[c]
  BY <1>1, CountsInRange
<1>3. Nio!TypeOK
  BY <1>2 DEF NioInv, NioTypes, SocketStates, Events, Nio!TypeOK, Nio!SocketsTypeOK
<1>4. Nio!NothingOverlooked
  BY DEF NioInv, Noticed, Holds, Nio!NothingOverlooked
<1> QED BY <1>3, <1>4

-----------------------------------------------------------------------------
\* The invariant of the small programs: that of the program which runs.
SmallInv ==
    /\ program \in {"spinLock", "producer_consumer", "ipc_sem", "shared_ptr", "lazy",
                    "abc", "server_poll", "server_epoll", "deadlock", "condition_variable",
                    "ipc_mq", "ipc_shm", "ipc_pipe_named", "ipc_sign", "server_http"}
    /\ program = "spinLock" => SpinInv
    /\ program = "producer_consumer" => QueueInv
    /\ program = "ipc_sem" => SemInv
    /\ program = "shared_ptr" => PtrInv
    /\ program = "lazy" => SingleInv
    /\ program = "abc" => Abc!TypeOK
    /\ program = "server_poll" => PollInv
    /\ program = "server_epoll" => NioInv
    /\ program = "deadlock" => Lock!TypeOK
    /\ program = "condition_variable" => Bare!TypeOK
    /\ program = "ipc_mq" => MqInv
    /\ program = "ipc_shm" => ShmInv
    /\ program = "ipc_pipe_named" => PipeInv
    /\ program = "ipc_sign" => SignalInv
    /\ program = "server_http" => HttpInv

\* Every program starts in its invariant.
LEMMA SmallInit == Init => SmallInv
<1>1. Init => program \in {"spinLock", "producer_consumer", "ipc_sem", "shared_ptr", "lazy",
                    "abc", "server_poll", "server_epoll", "deadlock", "condition_variable",
                    "ipc_mq", "ipc_shm", "ipc_pipe_named", "ipc_sign", "server_http"}
  BY DEF Init
<1> QED BY <1>1, SpinInit, QueueInit, SemInit, PtrInit, SingleInit, TurnsInit, PollInit, NioInit,
           LockInit, BareInit, MqInit, ShmInit, PipeInit, SignalInit, HttpInit DEF SmallInv

\* A step is one of the program that runs and keeps its invariant.
LEMMA SmallStep == SmallInv /\ [Next]_vars => SmallInv'
<1> SUFFICES ASSUME SmallInv, [Next]_vars PROVE SmallInv'
  OBVIOUS
<1>1. program' = program
  BY Frame
<1>2. /\ program = "spinLock" => SpinInv'
      /\ program = "producer_consumer" => QueueInv'
      /\ program = "ipc_sem" => SemInv'
      /\ program = "shared_ptr" => PtrInv'
      /\ program = "lazy" => SingleInv'
  BY Frame, SpinStep, QueueStep, SemStep, PtrStep, SingleStep DEF SmallInv
<1>3. /\ program = "abc" => (Abc!TypeOK)'
      /\ program = "server_poll" => PollInv'
      /\ program = "server_epoll" => NioInv'
      /\ program = "deadlock" => (Lock!TypeOK)'
      /\ program = "condition_variable" => (Bare!TypeOK)'
  BY Frame, TurnsStep, PollStep, NioStep, LockStep, BareStep DEF SmallInv
<1>4. /\ program = "ipc_mq" => MqInv'
      /\ program = "ipc_shm" => ShmInv'
      /\ program = "ipc_pipe_named" => PipeInv'
      /\ program = "ipc_sign" => SignalInv'
      /\ program = "server_http" => HttpInv'
  BY Frame, MqStep, ShmStep, PipeStep, SignalStep, HttpStep DEF SmallInv
<1> QED BY <1>1, <1>2, <1>3, <1>4 DEF SmallInv

\* The invariant holds in every state of every program.
THEOREM Invariant == Spec => []SmallInv
  BY SmallInit, SmallStep, PTL DEF Spec

\* The variables of the program that runs have their types.
THEOREM TypeCorrect == Spec => []TypeOK
<1>1. SmallInv => TypeOK
  <2> SUFFICES ASSUME SmallInv PROVE TypeOK
    OBVIOUS
  <2>1. /\ program = "producer_consumer" => PC!TypeOK
        /\ program = "ipc_sem" => Sem!TypeOK
        /\ program = "shared_ptr" => Ptr!TypeOK
        /\ program = "lazy" => One!TypeOK
    BY SemKeepsSlots, PtrFrees DEF SmallInv, QueueInv, SingleInv
  <2>2. /\ program = "abc" => Abc!TypeOK
        /\ program = "server_poll" => Poll!TypeOK
        /\ program = "server_epoll" => Nio!TypeOK
        /\ program = "deadlock" => Lock!TypeOK
        /\ program = "condition_variable" => Bare!TypeOK
    BY PollSlotsAgree, NioOverlooksNothing DEF SmallInv
  <2>3. /\ program = "ipc_mq" => Mq!TypeOK
        /\ program = "ipc_shm" => Shm!TypeOK
        /\ program = "ipc_pipe_named" => Pipe!TypeOK
        /\ program = "ipc_sign" => Sign!TypeOK
        /\ program = "server_http" => Http!TypeOK
    BY MqLost, ShmReadsWhole, PipeHears, HttpAnswers DEF SmallInv, SignalInv
  <2>4. CASE program \in {"spinLock", "producer_consumer", "ipc_sem", "shared_ptr", "lazy"}
    BY <2>1, <2>4 DEF TypeOK
  <2>5. CASE program \in {"abc", "server_poll", "server_epoll", "deadlock", "condition_variable"}
    BY <2>2, <2>5 DEF TypeOK
  <2>6. CASE program \in {"ipc_mq", "ipc_shm", "ipc_pipe_named", "ipc_sign", "server_http"}
    BY <2>3, <2>6 DEF TypeOK
  <2> QED BY <2>4, <2>5, <2>6 DEF SmallInv
<1> QED BY <1>1, Invariant, PTL

\* Two threads hold the spin lock at once only after a compare_exchange has used
\* the FALSE another thread has left in expect (spinLock.cpp:18).
THEOREM LockExcludes == Spec => []SharedOnlyThroughExpect
<1>1. SmallInv => SharedOnlyThroughExpect
  BY SpinExcludes DEF SmallInv, SharedOnlyThroughExpect
<1> QED BY <1>1, Invariant, PTL

\* The consumers take every item once and in order, and none ends before the last
\* (producer_consumer_1v2.cpp).
THEOREM ItemsConsumedOnce == Spec => []ConsumedOnce
<1>1. SmallInv => ConsumedOnce
  BY QueueOnce DEF SmallInv, ConsumedOnce
<1> QED BY <1>1, Invariant, PTL

\* Semaphores that are only used together count the slots of their buffer, whoever is
\* killed, and one mutex admits one process (ipc_sem_write.cpp, ipc_sem_read.cpp).
THEOREM SemaphoresCount == Spec => []SlotsKept
<1>1. SmallInv => SlotsKept
  BY SemKeepsSlots DEF SmallInv, SlotsKept
<1> QED BY <1>1, Invariant, PTL

\* Shared_ptr deletes an object once and with its last owner (shared_ptr.cpp). SharedPtr
\* deletes none that has an owner, leaks exactly those of which an assignment has forgotten
\* one, and deletes one twice only if two destructors overlapped on it (shared_ptr.hpp).
THEOREM LastOwnerFrees == Spec => []FreedWithLastOwner
<1>1. SmallInv => FreedWithLastOwner
  BY PtrFrees DEF SmallInv, FreedWithLastOwner
<1> QED BY <1>1, Invariant, PTL

\* All callers of getInstance get the last instance constructed (lazy.cpp).
THEOREM CallersShareInstance == Spec => []OneInstance
<1>1. SmallInv => OneInstance
  BY SingleGetsOne DEF SmallInv, OneInstance
<1> QED BY <1>1, Invariant, PTL

\* Messages are lost only behind another sender's exit (ipc_mq_rev.cpp), written memory
\* is read whole (ipc_shm_read.cpp), the child of an undisturbed run hears its parent
\* (ipc_pipe_named.cpp) and no SIGINT is forgotten (ipc_sign.cpp).
THEOREM MessagesArrive == Spec => []IpcDelivers
<1>1. SmallInv => IpcDelivers
  BY MqLost, ShmReadsWhole, PipeHears DEF SmallInv, SignalInv, IpcDelivers
<1> QED BY <1>1, Invariant, PTL

\* The event loops agree with the kernel on who is there and what is to be read, and a
\* request that was read whole gets its answer (server_poll_bio.cpp,
\* server_epoll_nio.cpp, server_http.cpp).
THEOREM ServersKnow == Spec => []ServersAgree
<1>1. SmallInv => ServersAgree
  BY PollSlotsAgree, NioOverlooksNothing, HttpAnswers DEF SmallInv, ServersAgree
<1> QED BY <1>1, Invariant, PTL
=============================================================================
