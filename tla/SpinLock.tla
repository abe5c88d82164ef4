------------------------------ MODULE SpinLock ------------------------------
(***************************************************************************)
(* operating-systems/function/spinLock.cpp: a spin lock on one atomic flag *)
(* (TRUE is free), whose compare_exchange reads its expected value from,   *)
(* and on failure writes the observed value to, the member expect that all *)
(* threads share. expect is not atomic, so an access to it is a step of    *)
(* its own. Each thread runs func, Rounds times.                           *)
(***************************************************************************)
EXTENDS Integers

CONSTANTS Threads,
          Rounds    \* bound: how often a thread takes the lock

VARIABLES flag,
          expect,
          pc,       \* where each thread is
          arg,      \* the expected value its compare_exchange has read
          seen,     \* the value its failed compare_exchange has observed
          rounds,   \* how often it has released the lock
          stolen    \* a compare_exchange has exchanged FALSE for FALSE

vars == <<flag, expect, pc, arg, seen, rounds, stolen>>

Init == /\ flag = TRUE
        /\ expect = TRUE
        /\ pc = [t \in Threads |-> "idle"]
        /\ arg = [t \in Threads |-> TRUE]
        /\ seen = [t \in Threads |-> TRUE]
        /\ rounds = [t \in Threads |-> 0]
        /\ stolen = FALSE

Goto(t, l) == pc' = [pc EXCEPT ![t] = l]

KeepsFlag == flag

\* flag.store(true)
Released == TRUE

ComparesNothing(t) == TRUE

\* compare_exchange succeeds; the weak form does not fail otherwise on x86.
Succeeds(t) == flag = arg[t]

\* lock()
Call(t) ==
    /\ pc[t] = "idle" /\ rounds[t] < Rounds
    /\ Goto(t, "load")
    /\ UNCHANGED <<flag, expect, arg, seen, rounds, stolen>>

\* compare_exchange loads the expected value,
Load(t) ==
    /\ pc[t] = "load"
    /\ arg' = [arg EXCEPT ![t] = expect]
    /\ Goto(t, "cas")
    /\ UNCHANGED <<flag, expect, seen, rounds, stolen>>

\* compares and exchanges,
Acquire(t) ==
    /\ pc[t] = "cas" /\ Succeeds(t)
    /\ flag' = FALSE
    /\ stolen' = (stolen \/ ~arg[t])
    /\ Goto(t, "owner")
    /\ UNCHANGED <<expect, arg, seen, rounds>>

Miss(t) ==
    /\ pc[t] = "cas" /\ ~Succeeds(t)
    /\ seen' = [seen EXCEPT ![t] = flag]
    /\ Goto(t, "store")
    /\ UNCHANGED <<flag, expect, arg, rounds, stolen>>

\* and on failure stores what it observed.
Store(t) ==
    /\ pc[t] = "store"
    /\ expect' = seen[t]
    /\ Goto(t, "reset")
    /\ UNCHANGED <<flag, arg, seen, rounds, stolen>>

\* expect = true
Reset(t) ==
    /\ pc[t] = "reset"
    /\ expect' = TRUE
    /\ Goto(t, "load")
    /\ UNCHANGED <<flag, arg, seen, rounds, stolen>>

Unlock(t) ==
    /\ pc[t] = "owner"
    /\ flag' = Released
    /\ rounds' = [rounds EXCEPT ![t] = @ + 1]
    /\ Goto(t, "idle")
    /\ UNCHANGED <<expect, arg, seen, stolen>>

Step(t) == \/ Call(t) \/ Load(t) \/ Acquire(t) \/ Miss(t)
           \/ Store(t) \/ Reset(t) \/ Unlock(t)

Finished(t) == pc[t] = "idle" /\ rounds[t] = Rounds

Terminated == (\A t \in Threads : Finished(t)) /\ UNCHANGED vars

Next == (\E t \in Threads : Step(t)) \/ Terminated

Spec == Init /\ [][Next]_vars

\* The threads are scheduled.
FairSpec == Spec /\ \A t \in Threads : WF_vars(Step(t))

-----------------------------------------------------------------------------
\* The thread that prints that it has obtained the resource is alone until it
\* unlocks (spinLock.cpp:32). It is not: a waiter reads the FALSE another waiter
\* has just stored in expect, and its compare_exchange succeeds on a held lock.
MutualExclusion ==
    \A t, u \in Threads : pc[t] = "owner" /\ pc[u] = "owner" => t = u

\* That is the only way. Until a thread has exchanged FALSE for FALSE the lock
\* excludes, so an expected value of its own for each call would be enough.
SharedOnlyThroughExpect ==
    ~stolen => \A t, u \in Threads : pc[t] = "owner" /\ pc[u] = "owner" => t = u

\* Every thread gets the lock as often as it wants it: no value left in expect
\* makes the loop of lock() spin on a free lock for ever.
EverybodyGetsIt == \A t \in Threads : <>Finished(t)
=============================================================================
