----------------------------- MODULE LockOrder -----------------------------
(***************************************************************************)
(* operating-systems/thread/deadlock.cpp: func1 and func2 lock the same    *)
(* two mutexes in opposite order and release them at their ends.           *)
(***************************************************************************)
EXTENDS Integers

VARIABLES holder,  \* the function that holds each mutex, 0 for none
          calls    \* the locks and unlocks each function has done

vars == <<holder, calls>>

Funcs == {1, 2}

Init == /\ holder = [m \in 1 .. 2 |-> 0]
        /\ calls = [f \in Funcs |-> 0]

Order(f) == IF f = 1 THEN <<1, 2>> ELSE <<2, 1>>

Changes(f, m, h) == /\ holder' = [holder EXCEPT ![m] = h]
                    /\ calls' = [calls EXCEPT ![f] = @ + 1]

Lock(f) == \E i \in 1 .. 2 : /\ calls[f] = i - 1 /\ holder[Order(f)[i]] = 0
                             /\ Changes(f, Order(f)[i], f)

\* The unique_locks release in reverse order.
Unlock(f) == \E i \in 1 .. 2 : calls[f] = 4 - i /\ Changes(f, Order(f)[i], 0)

Func(f) == Lock(f) \/ Unlock(f)

Next == \E f \in Funcs : Func(f)

-----------------------------------------------------------------------------
TypeOK == holder \in [1 .. 2 -> Funcs \cup {0}] /\ calls \in [Funcs -> 0 .. 4]

Ended == \A f \in Funcs : calls[f] = 4

\* Each function has its first mutex and wants the other's.
CircularWait == \A f \in Funcs : calls[f] = 1 /\ holder[Order(f)[2]] \notin {0, f}
=============================================================================
