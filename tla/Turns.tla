------------------------------- MODULE Turns -------------------------------
(***************************************************************************)
(* operating-systems/thread/abc.cpp: threads that print in turn, by a      *)
(* counter, a mutex and a condition variable. Everything a thread does     *)
(* between two waits it does with the mutex.                               *)
(***************************************************************************)
EXTENDS Integers

CONSTANT Letters   \* how many threads take turns, 3 in the code

VARIABLES count,   \* whose turn it is
          asleep,  \* the threads in wait
          printed  \* the last letter printed, -1 at first

vars == <<count, asleep, printed>>

Indices == 0 .. Letters - 1

Init == count = 0 /\ asleep = {} /\ printed = -1

NotWrapped == count + 1

\* count = (++count) % 3
Following == (count + 1) % Letters

StillAsleep == asleep

\* notify_all
Woken == {}

\* func(idx, c): with the mutex and its turn a thread prints, passes the turn on
\* and wakes all others; otherwise it waits.
TakeTurn(idx) == /\ idx \notin asleep /\ count = idx
                 /\ printed' = idx
                 /\ count' = Following
                 /\ asleep' = Woken

Wait(idx) == /\ idx \notin asleep /\ count # idx
             /\ asleep' = asleep \cup {idx}
             /\ UNCHANGED <<count, printed>>

Func(idx) == TakeTurn(idx) \/ Wait(idx)

\* wait looks at the predicate again.
SpuriousWakeup(idx) == /\ idx \in asleep
                       /\ asleep' = asleep \ {idx}
                       /\ UNCHANGED <<count, printed>>

Next == \E idx \in Indices : Func(idx) \/ SpuriousWakeup(idx)

-----------------------------------------------------------------------------
TypeOK == count \in Indices /\ asleep \subseteq Indices /\ printed \in Indices \cup {-1}
=============================================================================
