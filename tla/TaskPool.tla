------------------------------ MODULE TaskPool ------------------------------
(***************************************************************************)
(* What operating-systems/thread/threadpool.cpp promises its user, without *)
(* threads, locks or wake-ups: tasks are numbered in the order of their    *)
(* submission, begin in that order, run once each, and the destructor of   *)
(* the pool returns only when every submitted task has finished            *)
(* (threadpool.cpp:88).                                                    *)
(***************************************************************************)
EXTENDS Integers

VARIABLES submitted,  \* how many tasks were submitted: tasks 0 .. submitted-1
          begun,      \* how many have begun
          running,    \* the tasks some thread is executing
          finished,   \* the tasks that returned
          closed      \* the destructor has returned

vars == <<submitted, begun, running, finished, closed>>

Init == /\ submitted = 0
        /\ begun = 0
        /\ running = {}
        /\ finished = {}
        /\ closed = FALSE

Submit == /\ ~closed
          /\ submitted' = submitted + 1
          /\ UNCHANGED <<begun, running, finished, closed>>

\* The oldest task that has not begun is the one that begins.
Begin == /\ begun < submitted
         /\ begun' = begun + 1
         /\ running' = running \cup {begun}
         /\ UNCHANGED <<submitted, finished, closed>>

Finish(t) == /\ t \in running
             /\ running' = running \ {t}
             /\ finished' = finished \cup {t}
             /\ UNCHANGED <<submitted, begun, closed>>

Close == /\ ~closed
         /\ running = {}
         /\ finished = 0 .. submitted - 1
         /\ closed' = TRUE
         /\ UNCHANGED <<submitted, begun, running, finished>>

Next == Submit \/ Begin \/ (\E t \in running : Finish(t)) \/ Close

Spec == Init /\ [][Next]_vars
=============================================================================
