------------------------------ MODULE BareWait ------------------------------
(***************************************************************************)
(* operating-systems/thread/condition_variable.cpp: two threads wait on a  *)
(* condition variable without a predicate, and hello, which does not take  *)
(* the mutex, notifies whoever waits by then.                              *)
(***************************************************************************)

VARIABLES waiter,    \* where each thread is
          notified,  \* hello has called notify_all
          late       \* the threads that began to wait after it

vars == <<waiter, notified, late>>

Ids == {1, 2}

Init == /\ waiter = [t \in Ids |-> "started"]
        /\ notified = FALSE
        /\ late = {}

Wait(t) == /\ waiter[t] = "started"
           /\ waiter' = [waiter EXCEPT ![t] = "asleep"]
           /\ late' = IF notified THEN late \cup {t} ELSE late
           /\ UNCHANGED notified

Woken == [t \in Ids |-> IF waiter[t] = "asleep" THEN "woken" ELSE waiter[t]]

\* The three seconds of sleep promise nothing about where the threads are.
Hello == /\ ~notified
         /\ notified' = TRUE
         /\ waiter' = Woken
         /\ UNCHANGED late

Return(t) == /\ waiter[t] = "woken"
             /\ waiter' = [waiter EXCEPT ![t] = "ended"]
             /\ UNCHANGED <<notified, late>>

\* There is no predicate to look at again.
SpuriousWakeup(t) == /\ waiter[t] = "asleep"
                     /\ waiter' = [waiter EXCEPT ![t] = "woken"]
                     /\ UNCHANGED <<notified, late>>

Thread(t) == Wait(t) \/ Return(t)

Next == Hello \/ \E t \in Ids : Thread(t) \/ SpuriousWakeup(t)

-----------------------------------------------------------------------------
TypeOK == /\ waiter \in [Ids -> {"started", "asleep", "woken", "ended"}]
          /\ notified \in BOOLEAN
          /\ late \subseteq Ids

Returned(t) == t \in Ids /\ waiter[t] = "ended"
=============================================================================
