------------------------------ MODULE FifoQueue ------------------------------
(***************************************************************************)
(* What data-structures-algorithms/queue/LockFreeQueue.cpp promises: values *)
(* leave in the order in which they entered, each of them once. Destroying *)
(* the queue drops what is left.                                           *)
(***************************************************************************)
EXTENDS Sequences

VARIABLES queue,   \* the values inside
          taken    \* the values dequeue() has returned, in order

Init == queue = <<>> /\ taken = <<>>

Enqueue(v) == queue' = Append(queue, v) /\ UNCHANGED taken

Dequeue == /\ queue # <<>>
           /\ taken' = Append(taken, Head(queue))
           /\ queue' = Tail(queue)

Drop == /\ queue # <<>>
        /\ queue' = Tail(queue)
        /\ UNCHANGED taken

Spec(Values) ==
    Init /\ [][(\E v \in Values : Enqueue(v)) \/ Dequeue \/ Drop]_<<queue, taken>>
=============================================================================
