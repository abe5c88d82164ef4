-------------------------------- MODULE Deque --------------------------------
(***************************************************************************)
(* data-structures-algorithms/deque/deque.cpp: SimpleDeque keeps its items *)
(* in buffers of BufferSize places, behind a map of pointers to them, with *)
(* one cursor at each end; buffers that are left are reused.               *)
(***************************************************************************)
EXTENDS Integers, Sequences, FiniteSets

CONSTANTS Values,
          BufferSize,
          MaxItems,    \* bound: items in the deque
          MaxMap       \* bound: entries of the map, which never shrinks

NoBuffer == <<>>
\* What a buffer holds before it is written is not read.
NewBuffer == [o \in 0 .. BufferSize - 1 |-> 0]

VARIABLES map,         \* map[i + 1] is the buffer with index i
          freeList,    \* how many buffers wait to be reused
          startIndex, startOffset, endIndex, endOffset, totalSize,
          items        \* what a deque would hold

vars == <<map, freeList, startIndex, startOffset, endIndex, endOffset, totalSize, items>>

Init == /\ map = <<NewBuffer>> /\ freeList = 0
        /\ startIndex = 0 /\ startOffset = 0
        /\ endIndex = 0 /\ endOffset = 0
        /\ totalSize = 0 /\ items = <<>>

AfterNewBuffers(n) == IF freeList > n THEN freeList - n ELSE 0

\* pop_back has moved the end in front of its buffer: push_back() then writes there,
\* which is undefined behaviour and not followed any further.
Strayed == endOffset < 0

-----------------------------------------------------------------------------
\* ensureBackBuffer(), then the value is stored at the end.
PushBack(v) ==
    /\ totalSize < MaxItems /\ ~Strayed
    /\ IF endOffset < BufferSize
       THEN /\ map' = [map EXCEPT ![endIndex + 1][endOffset] = v]
            /\ endOffset' = endOffset + 1
            /\ UNCHANGED <<endIndex, freeList>>
       ELSE /\ endIndex + 1 < MaxMap
            /\ LET b == [NewBuffer EXCEPT ![0] = v]
               IN  IF endIndex + 1 >= Len(map)
                   THEN map' = Append(map, b) /\ freeList' = AfterNewBuffers(1)
                   ELSE IF map[endIndex + 2] = NoBuffer
                   THEN /\ map' = [map EXCEPT ![endIndex + 2] = b]
                        /\ freeList' = AfterNewBuffers(1)
                   ELSE /\ map' = [map EXCEPT ![endIndex + 2][0] = v]
                        /\ UNCHANGED freeList
            /\ endIndex' = endIndex + 1
            /\ endOffset' = 1
    /\ totalSize' = totalSize + 1
    /\ items' = Append(items, v)
    /\ UNCHANGED <<startIndex, startOffset>>

\* ensureFrontBuffer(), then the value is stored before the start. At index 0 a
\* buffer is put in front of the map and at once replaced by another.
PushFront(v) ==
    /\ totalSize < MaxItems
    /\ IF startOffset > 0
       THEN /\ map' = [map EXCEPT ![startIndex + 1][startOffset - 1] = v]
            /\ startOffset' = startOffset - 1
            /\ UNCHANGED <<startIndex, endIndex, freeList>>
       ELSE /\ startOffset' = BufferSize - 1
            /\ LET b == [NewBuffer EXCEPT ![BufferSize - 1] = v]
               IN  IF startIndex = 0
                   THEN /\ Len(map) < MaxMap
                        /\ map' = <<b>> \o map
                        /\ endIndex' = endIndex + 1
                        /\ freeList' = AfterNewBuffers(2)
                        /\ UNCHANGED startIndex
                   ELSE /\ map' = [map EXCEPT ![startIndex] = b]
                        /\ startIndex' = startIndex - 1
                        /\ freeList' = AfterNewBuffers(1)
                        /\ UNCHANGED endIndex
    /\ totalSize' = totalSize + 1
    /\ items' = <<v>> \o items
    /\ UNCHANGED endOffset

KeepsPointer(i) == map

\* recycleBuffer(map[i]); map[i] = nullptr
Recycled(i) == [map EXCEPT ![i + 1] = NoBuffer]

PopFront ==
    /\ totalSize > 0
    /\ IF startOffset + 1 = BufferSize
       THEN /\ map' = Recycled(startIndex)
            /\ freeList' = freeList + 1
            /\ startIndex' = startIndex + 1
            /\ startOffset' = 0
       ELSE /\ startOffset' = startOffset + 1
            /\ UNCHANGED <<map, freeList, startIndex>>
    /\ totalSize' = totalSize - 1
    /\ items' = Tail(items)
    /\ UNCHANGED <<endIndex, endOffset>>

\* endOffset == 0 && endIndex != startIndex
LeavesBuffer == endOffset - 1 = 0 /\ endIndex # startIndex

PopBack ==
    /\ totalSize > 0
    /\ IF LeavesBuffer
       THEN /\ map' = Recycled(endIndex)
            /\ freeList' = freeList + 1
            /\ endIndex' = endIndex - 1
            /\ endOffset' = BufferSize
       ELSE /\ endOffset' = endOffset - 1
            /\ UNCHANGED <<map, freeList, endIndex>>
    /\ totalSize' = totalSize - 1
    /\ items' = SubSeq(items, 1, Len(items) - 1)
    /\ UNCHANGED <<startIndex, startOffset>>

Mapped == {i \in 0 .. Len(map) - 1 : map[i + 1] # NoBuffer}

\* clear() recycles all buffers and takes one for the new map.
Clear ==
    /\ map' = <<NewBuffer>>
    /\ freeList' = IF Mapped = {} /\ freeList = 0 THEN 0
                   ELSE freeList + Cardinality(Mapped) - 1
    /\ startIndex' = 0 /\ startOffset' = 0
    /\ endIndex' = 0 /\ endOffset' = 0
    /\ totalSize' = 0 /\ items' = <<>>

Next == \/ \E v \in Values : PushBack(v) \/ PushFront(v)
        \/ PopFront \/ PopBack \/ Clear
Spec == Init /\ [][Next]_vars

-----------------------------------------------------------------------------
TypeOK ==
    /\ \A i \in 1 .. Len(map) :
          map[i] \in {NoBuffer} \cup [0 .. BufferSize - 1 -> Values \cup {0}]
    /\ freeList \in Nat /\ totalSize \in 0 .. MaxItems
    /\ startIndex \in 0 .. Len(map) /\ endIndex \in 0 .. Len(map) - 1
    /\ startOffset \in 0 .. BufferSize - 1 /\ endOffset \in -(BufferSize * MaxMap) .. BufferSize
    /\ items \in Seq(Values)

\* operator[]
At(i) == LET offset == startOffset + i
         IN  map[startIndex + (offset \div BufferSize) + 1][offset % BufferSize]

Back == map[endIndex + 1][endOffset - 1]

\* The cursors count the items, and exactly the buffers between them are mapped:
\* none that is in use is reused, and none that is not is kept.
Consistent ==
    /\ totalSize = (endIndex - startIndex) * BufferSize + endOffset - startOffset
    /\ Mapped = startIndex .. endIndex

\* Whatever the order of pushes and pops at both ends, operator[] finds the items
\* of a deque in order, and back() the last of them unless the end stands at the
\* front of its buffer, where push_front leaves it when it starts a buffer: back()
\* then reads, and after pop_back the next push_back writes, before the buffer.
IsDeque ==
    /\ Consistent
    /\ totalSize = Len(items)
    /\ \A i \in 0 .. totalSize - 1 : At(i) = items[i + 1]
    /\ totalSize > 0 /\ endOffset > 0 => Back = items[totalSize]

\* The end cursor stands in its buffer or just behind it:
\* "offset within the end buffer (pointing to the next free place)" (deque.cpp:20)
EndInBuffer == endOffset \in 0 .. BufferSize
=============================================================================
