---------------------------- MODULE PriorityQueue ----------------------------
(***************************************************************************)
(* data-structures-algorithms/queue/priority_queue.cpp: a binary heap in a *)
(* vector, with std::less as its order. c[i + 1] is the element c[i] of    *)
(* the code, whose indices start at 0.                                     *)
(***************************************************************************)
EXTENDS Integers, Sequences, SequencesExt, BagsExt

CONSTANTS Values,      \* numbers
          MaxHeap      \* bound: elements in the queue

VARIABLES c,
          pushed       \* bag of the values pushed and not popped

vars == <<c, pushed>>

Init == c = <<>> /\ pushed = <<>>

Parent(i) == (i - 1) \div 2
Swapped(s, i, j) == [s EXCEPT ![i + 1] = s[j + 1], ![j + 1] = s[i + 1]]

-----------------------------------------------------------------------------
\* The parent of the element at index i is smaller.
Rises(s, i) == i \in 1 .. Len(s) - 1 /\ s[Parent(i) + 1] < s[i + 1]

\* heapify_up: the element at index q[2] of q[1] rises while its parent is smaller.
HeapifyUp[q \in Seq(Values) \X Nat] ==
    IF Rises(q[1], q[2])
    THEN HeapifyUp[<<Swapped(q[1], Parent(q[2]), q[2]), Parent(q[2])>>]
    ELSE q[1]

\* The larger of two places, the first when they are equal or the second is outside.
LargerOf(s, i, j) == IF j < Len(s) /\ s[i + 1] < s[j + 1] THEN j ELSE i

LooksLeftOnly(s, i) == LargerOf(s, i, 2 * i + 1)

\* largest: an element or one of its children.
Largest(s, i) == LargerOf(s, LargerOf(s, i, 2 * i + 1), 2 * i + 2)

\* heapify_down: the element at index q[2] of q[1] sinks while a child is larger.
HeapifyDown[q \in Seq(Values) \X Nat] ==
    IF Largest(q[1], q[2]) # q[2]
    THEN HeapifyDown[<<Swapped(q[1], q[2], Largest(q[1], q[2])), Largest(q[1], q[2])>>]
    ELSE q[1]

Push(v) ==
    /\ Len(c) < MaxHeap
    /\ c' = HeapifyUp[<<Append(c, v), Len(c)>>]
    /\ pushed' = BagAdd(pushed, v)

\* The last element takes the place of the first and sinks. pop() of an empty
\* queue throws and changes nothing.
Pop ==
    /\ c # <<>>
    /\ c' = HeapifyDown[<<Front(Swapped(c, 0, Len(c) - 1)), 0>>]
    /\ pushed' = BagRemove(pushed, c[1])

Next == (\E v \in Values : Push(v)) \/ Pop
Spec == Init /\ [][Next]_vars

-----------------------------------------------------------------------------
TypeOK == c \in Seq(Values) /\ Len(c) <= MaxHeap

\* top() is a largest of the values in the queue and pop() removes that value and
\* no other, whatever pushes and pops came before: priority_queue.cpp:24, :55.
ServesLargest ==
    /\ ToBag(c) = pushed
    /\ \A v \in DOMAIN pushed : v <= c[1]
=============================================================================
