--------------------------- MODULE SequenceProofs ---------------------------
(***************************************************************************)
(* The deque and the lists of ContainersMC, for all values of the          *)
(* constants, and then the types of all the containers.                    *)
(***************************************************************************)
EXTENDS TreeProofs

\* Places in the buffers, counted from the first place of the first buffer.
Slot(j, o) == j * BufferSize + o
\* The places of the two cursors.
First == Slot(startIndex, startOffset)
Beyond == Slot(endIndex, endOffset)
\* The places in a buffer, and what a buffer can be.
Offsets == 0 .. BufferSize - 1
Buffers == [Offsets -> Values \cup {0}]

\* One place, or one buffer, further.
LEMMA SlotNext ==
    ASSUME NEW j \in Int, NEW o \in Int
    PROVE  /\ Slot(j, o) \in Int /\ Slot(j, o) = Slot(j, 0) + o
           /\ Slot(j, o + 1) = Slot(j, o) + 1 /\ Slot(j, o - 1) = Slot(j, o) - 1
           /\ Slot(j + 1, o) = Slot(j, o) + BufferSize
           /\ Slot(j - 1, o) = Slot(j, o) - BufferSize
  BY BufferAssumption DEF Slot

\* Places are in the order of their buffers.
LEMMA SlotOrder ==
    ASSUME NEW j \in Int, NEW k \in Int, NEW o \in Offsets, NEW p \in Int
    PROVE  /\ p <= BufferSize /\ Slot(j, o) < Slot(k, p) => j <= k
           /\ p >= 0 /\ Slot(k, p) <= Slot(j, o) => k <= j
           /\ p \in Offsets /\ Slot(j, o) = Slot(k, p) => j = k /\ o = p
<1>1. o \in Int /\ 0 <= o /\ o < BufferSize /\ BufferSize \in Nat \ {0}
  BY BufferAssumption DEF Offsets
<1>2. j < k => j * BufferSize + BufferSize <= k * BufferSize
  BY <1>1
<1>3. k < j => k * BufferSize + BufferSize <= j * BufferSize
  BY <1>1
<1>4. j * BufferSize \in Int /\ k * BufferSize \in Int
  BY <1>1
<1>5. p <= BufferSize /\ Slot(j, o) < Slot(k, p) => j <= k
  BY <1>1, <1>3, <1>4 DEF Slot
<1>6. p >= 0 /\ Slot(k, p) <= Slot(j, o) => k <= j
  BY <1>1, <1>2, <1>4 DEF Slot
<1>7. p \in Offsets /\ Slot(j, o) = Slot(k, p) => j = k /\ o = p
  <2> SUFFICES ASSUME p \in Offsets, Slot(j, o) = Slot(k, p) PROVE j = k /\ o = p
    OBVIOUS
  <2>1. 0 <= p /\ p < BufferSize
    BY BufferAssumption DEF Offsets
  <2>2. j = k
    BY <1>1, <1>2, <1>3, <1>4, <2>1 DEF Slot
  <2> QED BY <1>1, <1>4, <2>2 DEF Slot
<1> QED BY <1>5, <1>6, <1>7

\* A buffer is not the null pointer.
LEMMA BufferThere == \A b \in Buffers : b # D!NoBuffer
<1> SUFFICES ASSUME NEW b \in Buffers, b = <<>> PROVE FALSE
  BY DEF D!NoBuffer
<1>1. 0 \in DOMAIN b
  BY BufferAssumption DEF Buffers, Offsets
<1>2. DOMAIN <<>> = {}
  OBVIOUS
<1> QED BY <1>1, <1>2

\* The types of the deque.
DequeTypes ==
    /\ map \in Seq({D!NoBuffer} \cup Buffers) /\ freeList \in Nat
    /\ startIndex \in Nat /\ startOffset \in Offsets
    /\ endIndex \in 0 .. Len(map) - 1 /\ endOffset \in Int /\ endOffset <= BufferSize
    /\ items \in Seq(Values)

\* The cursors count the items.
DequeCounts == totalSize = Len(items) /\ totalSize = Beyond - First

\* The buffers between the cursors are there, and no other.
DequeMapped == \A i \in 1 .. Len(map) : map[i] # D!NoBuffer <=> i - 1 \in startIndex .. endIndex

\* The items are in the places between the cursors.
DequeHolds ==
    \A j \in startIndex .. endIndex, o \in Offsets :
        First <= Slot(j, o) /\ Slot(j, o) < Beyond => map[j + 1][o] = items[Slot(j, o) - First + 1]

\* The inductive invariant of the deque.
DequeInv == DequeTypes /\ DequeCounts /\ DequeMapped /\ DequeHolds

\* What is known of the cursors.
LEMMA Cursors ==
    ASSUME DequeInv
    PROVE  /\ First \in Int /\ Beyond \in Int /\ totalSize \in Nat /\ Len(items) \in Nat
           /\ BufferSize \in Nat \ {0} /\ startIndex <= endIndex + 1
           /\ Len(map) \in Nat /\ startIndex \in Int /\ startOffset \in Int /\ endIndex \in Int
           /\ endIndex + 1 \in 1 .. Len(map)
           /\ startIndex > endIndex => startIndex = endIndex + 1 /\ endOffset = BufferSize
                                       /\ startOffset = 0 /\ totalSize = 0
           /\ \A i \in 1 .. Len(map) : i - 1 \in startIndex .. endIndex => map[i] \in Buffers
<1>1. /\ startIndex \in Int /\ startOffset \in Int /\ endIndex \in Int /\ endOffset \in Int
      /\ BufferSize \in Nat \ {0} /\ 0 <= startOffset /\ startOffset < BufferSize
      /\ endOffset <= BufferSize /\ Len(map) \in Nat /\ endIndex + 1 \in 1 .. Len(map)
  BY BufferAssumption DEF DequeInv, DequeTypes, Offsets
<1>2. First \in Int /\ Beyond \in Int
  BY <1>1, SlotNext DEF First, Beyond
<1>3. totalSize \in Nat /\ Len(items) \in Nat /\ totalSize = Beyond - First
  <2>1. Len(items) \in Nat
    BY DEF DequeInv, DequeTypes
  <2>2. totalSize = Len(items) /\ totalSize = Beyond - First
    BY DEF DequeInv, DequeCounts
  <2> QED BY <2>1, <2>2
<1>4. First <= Beyond
  BY <1>2, <1>3
<1>5. startIndex <= endIndex + 1
  <2>1. SUFFICES ASSUME startIndex > endIndex + 1 PROVE FALSE
    BY <1>1
  <2>2. (endIndex + 1) * BufferSize + BufferSize <= startIndex * BufferSize
    BY <1>1, <2>1
  <2>3. (endIndex + 1) * BufferSize = endIndex * BufferSize + BufferSize
        /\ endIndex * BufferSize \in Int /\ startIndex * BufferSize \in Int
    BY <1>1
  <2> QED BY <1>1, <1>4, <2>2, <2>3 DEF First, Beyond, Slot
<1>6. ASSUME startIndex > endIndex
      PROVE  startIndex = endIndex + 1 /\ endOffset = BufferSize /\ startOffset = 0 /\ totalSize = 0
  <2>1. startIndex = endIndex + 1
    BY <1>1, <1>5, <1>6
  <2>2. First = endIndex * BufferSize + BufferSize + startOffset /\ endIndex * BufferSize \in Int
    BY <1>1, <2>1 DEF First, Slot
  <2>3. Beyond = endIndex * BufferSize + endOffset
    BY DEF Beyond, Slot
  <2>4. endOffset = BufferSize /\ startOffset = 0
    BY <1>1, <1>4, <2>2, <2>3
  <2>5. totalSize = 0
    BY <1>1, <1>3, <2>2, <2>3, <2>4
  <2> QED BY <2>1, <2>4, <2>5
<1>7. \A i \in 1 .. Len(map) : i - 1 \in startIndex .. endIndex => map[i] \in Buffers
  <2> SUFFICES ASSUME NEW i \in 1 .. Len(map), i - 1 \in startIndex .. endIndex
               PROVE  map[i] \in Buffers
    OBVIOUS
  <2>1. map[i] # D!NoBuffer
    BY DEF DequeInv, DequeMapped
  <2>2. map[i] \in {D!NoBuffer} \cup Buffers
    BY ElementOfSeq DEF DequeInv, DequeTypes
  <2> QED BY <2>1, <2>2
<1> QED BY <1>1, <1>2, <1>3, <1>5, <1>6, <1>7

\* Each place is in a buffer between the cursors when it lies between the ends.
LEMMA InBuffers ==
    ASSUME DequeInv, NEW j \in Int, NEW o \in Offsets, First <= Slot(j, o), Slot(j, o) < Beyond
    PROVE  j \in startIndex .. endIndex
<1>1. /\ startIndex \in Int /\ endIndex \in Int /\ startOffset \in Offsets /\ startOffset >= 0
      /\ startOffset \in Int /\ endOffset \in Int /\ endOffset <= BufferSize
  BY Cursors DEF DequeInv, DequeTypes, Offsets
<1>2. j <= endIndex
  BY <1>1, SlotOrder DEF Beyond
<1>3. startIndex <= j
  BY <1>1, SlotOrder DEF First
<1> QED BY <1>1, <1>2, <1>3

\* A value that is stored in the buffer at i.
LEMMA Stored ==
    ASSUME NEW m \in Seq({D!NoBuffer} \cup Buffers), NEW i \in 1 .. Len(m), m[i] \in Buffers,
           NEW o \in Offsets, NEW v \in Values
    PROVE  LET n == [m EXCEPT ![i][o] = v]
           IN  /\ n \in Seq({D!NoBuffer} \cup Buffers) /\ Len(n) = Len(m)
               /\ \A j \in 1 .. Len(m) : n[j] = IF j = i THEN [m[i] EXCEPT ![o] = v] ELSE m[j]
               /\ n[i] \in Buffers
               /\ \A p \in Offsets : n[i][p] = IF p = o THEN v ELSE m[i][p]
<1> DEFINE b == [m[i] EXCEPT ![o] = v]
<1>1. b \in Buffers /\ \A p \in Offsets : b[p] = IF p = o THEN v ELSE m[i][p]
  BY DEF Buffers
<1>2. [m EXCEPT ![i][o] = v] = [m EXCEPT ![i] = b]
  OBVIOUS
<1> HIDE DEF b
<1>3. /\ [m EXCEPT ![i] = b] \in Seq({D!NoBuffer} \cup Buffers)
      /\ Len([m EXCEPT ![i] = b]) = Len(m)
      /\ \A j \in 1 .. Len(m) : [m EXCEPT ![i] = b][j] = IF j = i THEN b ELSE m[j]
  BY <1>1, ExceptSeq
<1> QED BY <1>1, <1>2, <1>3 DEF b

\* A new buffer with a value.
LEMMA FreshBuffer ==
    ASSUME NEW o \in Offsets, NEW v \in Values
    PROVE  /\ [D!NewBuffer EXCEPT ![o] = v] \in Buffers
           /\ [D!NewBuffer EXCEPT ![o] = v] # D!NoBuffer
           /\ [D!NewBuffer EXCEPT ![o] = v][o] = v
<1>1. [D!NewBuffer EXCEPT ![o] = v] \in Buffers /\ [D!NewBuffer EXCEPT ![o] = v][o] = v
  BY DEF D!NewBuffer, Buffers, Offsets
<1> QED BY <1>1, BufferThere

\* One more item at the end: the place that was behind the last one holds it.
LEMMA OneMoreBack ==
    ASSUME DequeInv, NEW v \in Values,
           DequeTypes', DequeMapped',
           UNCHANGED <<startIndex, startOffset>>, items' = Append(items, v),
           totalSize' = totalSize + 1, Beyond' = Beyond + 1,
           NEW k \in Int, NEW p \in Offsets, Slot(k, p) = Beyond, map'[k + 1][p] = v,
           \A j \in startIndex .. endIndex, o \in Offsets :
              First <= Slot(j, o) /\ Slot(j, o) < Beyond => map'[j + 1][o] = map[j + 1][o]
    PROVE  DequeInv'
<1>1. /\ First \in Int /\ Beyond \in Int /\ totalSize \in Nat /\ Len(items) \in Nat
      /\ items \in Seq(Values) /\ totalSize = Len(items) /\ totalSize = Beyond - First
      /\ First' = First
  BY Cursors DEF DequeInv, DequeTypes, DequeCounts, First, Slot
<1>2. /\ Len(items') = Len(items) + 1 /\ items'[Len(items) + 1] = v
      /\ \A i \in 1 .. Len(items) : items'[i] = items[i]
  <2>1. items \in Seq(Values)
    BY <1>1
  <2>2. /\ Len(Append(items, v)) = Len(items) + 1 /\ Append(items, v)[Len(items) + 1] = v
        /\ \A i \in 1 .. Len(items) : Append(items, v)[i] = items[i]
    BY <2>1, AppendProperties
  <2> QED BY <2>2
<1>3. DequeCounts'
  BY <1>1, <1>2 DEF DequeCounts
<1>4. ASSUME NEW j \in startIndex' .. endIndex', NEW o \in Offsets,
             First <= Slot(j, o), Slot(j, o) < Beyond + 1
      PROVE  map'[j + 1][o] = items'[Slot(j, o) - First + 1]
  <2>1. j \in Int /\ o \in Int /\ p \in Int
    BY DEF DequeTypes, Offsets
  <2>2. Slot(j, o) \in Int
    BY <2>1, SlotNext
  <2>3. CASE Slot(j, o) = Beyond
    <3>1. j = k /\ o = p
      BY <2>1, <2>3, SlotOrder
    <3>2. Slot(j, o) - First + 1 = Len(items) + 1
      BY <1>1, <2>3
    <3> QED BY <1>2, <3>1, <3>2
  <2>4. CASE Slot(j, o) # Beyond
    <3>1. Slot(j, o) < Beyond
      BY <1>1, <1>4, <2>2, <2>4
    <3>2. j \in startIndex .. endIndex
      BY <1>4, <2>1, <3>1, InBuffers
    <3>3. map'[j + 1][o] = items[Slot(j, o) - First + 1]
      BY <1>4, <3>1, <3>2 DEF DequeInv, DequeHolds
    <3>4. Slot(j, o) - First + 1 \in 1 .. Len(items)
      <4>1. First \in Int /\ Beyond \in Int /\ Len(items) = Beyond - First
        BY <1>1
      <4>2. First <= Slot(j, o)
        BY <1>4
      <4> QED BY <2>2, <3>1, <4>1, <4>2
    <3> QED BY <1>2, <3>3, <3>4
  <2> QED BY <2>3, <2>4
<1>5. DequeHolds'
  BY <1>1, <1>4 DEF DequeHolds, Slot
<1> QED BY <1>3, <1>5 DEF DequeInv

\* Buffers that move on by d, and places by n, and a first item put at k and p.
Fronted(d, n, v, k, p) ==
    /\ (d = 0 /\ n = 0) \/ (d = 1 /\ n = BufferSize)
    /\ First' = First + n - 1 /\ Beyond' = Beyond + n
    /\ Slot(k, p) = First' /\ map'[k + 1][p] = v
    /\ \A j \in startIndex .. endIndex, o \in Offsets :
          First <= Slot(j, o) /\ Slot(j, o) < Beyond => map'[j + d + 1][o] = map[j + 1][o]

\* One more item at the front. When a buffer is put in front of the map, all places move on
\* by a buffer, n places.
LEMMA OneMoreFront ==
    ASSUME DequeInv, NEW v \in Values, NEW d \in Int, NEW n \in Int,
           DequeTypes', DequeMapped', items' = <<v>> \o items, totalSize' = totalSize + 1,
           NEW k \in Int, NEW p \in Offsets, Fronted(d, n, v, k, p)
    PROVE  DequeInv'
<1>0. /\ First' = First + n - 1 /\ Beyond' = Beyond + n
      /\ Slot(k, p) = First' /\ map'[k + 1][p] = v
      /\ \A j \in startIndex .. endIndex, o \in Offsets :
            First <= Slot(j, o) /\ Slot(j, o) < Beyond => map'[j + d + 1][o] = map[j + 1][o]
  BY DEF Fronted
<1>1. /\ First \in Int /\ Beyond \in Int /\ totalSize \in Nat /\ Len(items) \in Nat
      /\ totalSize = Len(items) /\ totalSize = Beyond - First
      /\ BufferSize \in Nat /\ ((d = 0 /\ n = 0) \/ (d = 1 /\ n = BufferSize))
  BY Cursors, BufferAssumption DEF DequeInv, DequeCounts, Fronted
<1>2. /\ Len(items') = Len(items) + 1 /\ items'[1] = v
      /\ \A i \in 1 .. Len(items) : items'[i + 1] = items[i]
  <2>1. items \in Seq(Values) /\ <<v>> \in Seq(Values) /\ Len(<<v>>) = 1 /\ <<v>>[1] = v
    BY DEF DequeInv, DequeTypes
  <2>2. /\ Len(<<v>> \o items) = 1 + Len(items)
        /\ \A i \in 1 .. 1 + Len(items) :
              (<<v>> \o items)[i] = IF i <= 1 THEN <<v>>[i] ELSE items[i - 1]
    BY <2>1, ConcatProperties
  <2>3. items'[1] = v /\ Len(items') = Len(items) + 1
    BY <1>1, <2>1, <2>2
  <2>4. ASSUME NEW i \in 1 .. Len(items) PROVE items'[i + 1] = items[i]
    <3>1. i + 1 \in 1 .. 1 + Len(items) /\ ~(i + 1 <= 1) /\ i + 1 - 1 = i
      BY <1>1
    <3> QED BY <2>2, <3>1
  <2> QED BY <2>3, <2>4
<1>3. DequeCounts'
  <2>1. First \in Int /\ Beyond \in Int /\ n \in Int /\ Len(items) \in Nat
    BY <1>1
  <2>2. Beyond' - First' = Beyond - First + 1
    BY <1>0, <2>1
  <2> QED BY <1>1, <1>2, <2>2 DEF DequeCounts
<1>4. ASSUME NEW j \in startIndex' .. endIndex', NEW o \in Offsets,
             First' <= Slot(j, o), Slot(j, o) < Beyond'
      PROVE  map'[j + 1][o] = items'[Slot(j, o) - First' + 1]
  <2>1. j \in Int /\ o \in Int /\ p \in Int /\ j - d \in Int
    BY DEF DequeTypes, Offsets
  <2>2. Slot(j, o) \in Int
    BY <2>1, SlotNext
  <2>3. CASE Slot(j, o) = First'
    <3>1. j = k /\ o = p
      BY <1>0, <2>1, <2>3, SlotOrder
    <3>2. Slot(j, o) - First' + 1 = 1
      BY <2>2, <2>3
    <3> QED BY <1>0, <1>2, <3>1, <3>2
  <2>4. CASE Slot(j, o) # First'
    <3>1. Slot(j - d, o) = Slot(j, o) - n
      <4>1. CASE d = 0 /\ n = 0
        BY <2>1, <2>2, <4>1
      <4>2. CASE d = 1 /\ n = BufferSize
        BY <2>1, <4>2, SlotNext
      <4> QED BY <1>1, <4>1, <4>2
    <3>2. First <= Slot(j - d, o) /\ Slot(j - d, o) < Beyond
      <4>1. First \in Int /\ First' \in Int /\ First' = First + n - 1
        BY <1>0, <1>1
      <4>2. First' < Slot(j, o)
        BY <1>4, <2>2, <2>4, <4>1
      <4>3. First + n <= Slot(j, o)
        BY <2>2, <4>1, <4>2
      <4>4. First <= Slot(j, o) - n
        BY <1>1, <2>2, <4>3
      <4>5. Slot(j, o) - n < Beyond
        BY <1>0, <1>1, <1>4, <2>2
      <4> QED BY <3>1, <4>4, <4>5
    <3>3. j - d \in startIndex .. endIndex
      BY <2>1, <3>2, InBuffers
    <3>4. map'[j - d + d + 1][o] = items[Slot(j - d, o) - First + 1]
      BY <1>0, <3>2, <3>3 DEF DequeInv, DequeHolds
    <3>5. /\ Slot(j - d, o) - First + 1 \in 1 .. Len(items) /\ j - d + d + 1 = j + 1
          /\ Slot(j - d, o) - First + 1 + 1 = Slot(j, o) - First' + 1
      BY <1>0, <1>1, <2>1, <2>2, <3>1, <3>2
    <3> QED BY <1>2, <3>4, <3>5
  <2> QED BY <2>3, <2>4
<1>5. DequeHolds'
  BY <1>4 DEF DequeHolds, Slot
<1> QED BY <1>3, <1>5 DEF DequeInv

\* The same when the map stays.
LEMMA FrontStays ==
    ASSUME DequeInv, NEW v \in Values,
           DequeTypes', DequeMapped', items' = <<v>> \o items, totalSize' = totalSize + 1,
           First' = First - 1, Beyond' = Beyond,
           NEW k \in Int, NEW p \in Offsets, Slot(k, p) = First', map'[k + 1][p] = v,
           \A j \in startIndex .. endIndex, o \in Offsets :
              First <= Slot(j, o) /\ Slot(j, o) < Beyond => map'[j + 1][o] = map[j + 1][o]
    PROVE  DequeInv'
<1>1. First \in Int /\ Beyond \in Int
  BY Cursors
<1>2. ASSUME NEW j \in startIndex .. endIndex, NEW o \in Offsets, First <= Slot(j, o), Slot(j, o) < Beyond
      PROVE  map'[j + 0 + 1][o] = map[j + 1][o]
  <2>1. j + 0 + 1 = j + 1
    BY Cursors
  <2> QED BY <1>2, <2>1
<1>3. First' = First + 0 - 1 /\ Beyond' = Beyond + 0
  BY <1>1
<1>4. Fronted(0, 0, v, k, p)
  BY <1>2, <1>3 DEF Fronted
<1> QED BY <1>4, OneMoreFront

\* The same when a buffer is put in front of the map and all places move on.
LEMMA FrontMoves ==
    ASSUME DequeInv, NEW v \in Values,
           DequeTypes', DequeMapped', items' = <<v>> \o items, totalSize' = totalSize + 1,
           First' = First + BufferSize - 1, Beyond' = Beyond + BufferSize,
           NEW k \in Int, NEW p \in Offsets, Slot(k, p) = First', map'[k + 1][p] = v,
           \A j \in startIndex .. endIndex, o \in Offsets : map'[j + 1 + 1][o] = map[j + 1][o]
    PROVE  DequeInv'
<1>1. BufferSize \in Int
  BY BufferAssumption
<1>2. Fronted(1, BufferSize, v, k, p)
  BY DEF Fronted
<1> QED BY <1>1, <1>2, OneMoreFront

\* The first item less.
LEMMA OneLessFront ==
    ASSUME DequeInv, totalSize > 0, DequeTypes', DequeMapped',
           items' = Tail(items), totalSize' = totalSize - 1,
           First' = First + 1, Beyond' = Beyond,
           \A j \in startIndex' .. endIndex' : map'[j + 1] = map[j + 1]
    PROVE  DequeInv'
<1>1. /\ First \in Int /\ Beyond \in Int /\ totalSize \in Nat /\ Len(items) \in Nat
      /\ items \in Seq(Values) /\ totalSize = Len(items) /\ totalSize = Beyond - First
  BY Cursors DEF DequeInv, DequeTypes, DequeCounts
<1>2. /\ Len(items') = Len(items) - 1
      /\ \A i \in 1 .. Len(items) - 1 : items'[i] = items[i + 1]
  <2>1. Len(items) # 0
    BY <1>1
  <2>2. items # <<>>
    BY <2>1, Zenon, EmptySeq
  <2>3. items \in Seq(Values)
    BY <1>1
  <2> QED BY <2>2, <2>3, HeadTailProperties
<1>3. DequeCounts'
  BY <1>1, <1>2 DEF DequeCounts
<1>4. ASSUME NEW j \in startIndex' .. endIndex', NEW o \in Offsets,
             First' <= Slot(j, o), Slot(j, o) < Beyond'
      PROVE  map'[j + 1][o] = items'[Slot(j, o) - First' + 1]
  <2>1. j \in Int /\ Slot(j, o) \in Int
    BY SlotNext DEF DequeTypes, Offsets
  <2>2. First <= Slot(j, o) /\ Slot(j, o) < Beyond
    BY <1>1, <1>4, <2>1
  <2>3. map[j + 1][o] = items[Slot(j, o) - First + 1]
    BY <2>1, <2>2, InBuffers DEF DequeInv, DequeHolds
  <2>4. /\ Slot(j, o) - First' + 1 \in 1 .. Len(items) - 1
        /\ Slot(j, o) - First' + 1 + 1 = Slot(j, o) - First + 1
    BY <1>1, <1>4, <2>1
  <2> QED BY <1>2, <2>3, <2>4
<1>5. DequeHolds'
  BY <1>4 DEF DequeHolds, Slot
<1> QED BY <1>3, <1>5 DEF DequeInv

\* The last item less.
LEMMA OneLessBack ==
    ASSUME DequeInv, totalSize > 0, DequeTypes', DequeMapped',
           items' = SubSeq(items, 1, Len(items) - 1), totalSize' = totalSize - 1,
           First' = First, Beyond' = Beyond - 1,
           \A j \in startIndex' .. endIndex' : map'[j + 1] = map[j + 1]
    PROVE  DequeInv'
<1>1. /\ First \in Int /\ Beyond \in Int /\ totalSize \in Nat /\ Len(items) \in Nat
      /\ items \in Seq(Values) /\ totalSize = Len(items) /\ totalSize = Beyond - First
  BY Cursors DEF DequeInv, DequeTypes, DequeCounts
<1>2. /\ Len(items') = Len(items) - 1
      /\ \A i \in 1 .. Len(items) - 1 : items'[i] = items[i]
  <2>1. items \in Seq(Values) /\ Len(items) \in Nat /\ 1 <= Len(items)
    BY <1>1
  <2>2. \A i \in 1 .. Len(items) - 1 : items[i] \in Values
    BY <2>1, ElementOfSeq
  <2>3. /\ Len(SubSeq(items, 1, Len(items) - 1))
                = IF 1 <= Len(items) - 1 THEN Len(items) - 1 - 1 + 1 ELSE 0
        /\ \A i \in 1 .. Len(items) - 1 - 1 + 1 :
              SubSeq(items, 1, Len(items) - 1)[i] = items[1 + i - 1]
    BY <2>1, <2>2, SubSeqProperties
  <2>4. Len(items) - 1 - 1 + 1 = Len(items) - 1 /\ \A i \in 1 .. Len(items) - 1 : 1 + i - 1 = i
    BY <2>1
  <2>5. Len(items') = Len(items) - 1
    BY <2>1, <2>3, <2>4
  <2>6. \A i \in 1 .. Len(items) - 1 : items'[i] = items[i]
    BY <2>3, <2>4
  <2> QED BY <2>5, <2>6
<1>3. DequeCounts'
  BY <1>1, <1>2 DEF DequeCounts
<1>4. ASSUME NEW j \in startIndex' .. endIndex', NEW o \in Offsets,
             First' <= Slot(j, o), Slot(j, o) < Beyond'
      PROVE  map'[j + 1][o] = items'[Slot(j, o) - First' + 1]
  <2>1. j \in Int /\ Slot(j, o) \in Int
    BY SlotNext DEF DequeTypes, Offsets
  <2>2. First <= Slot(j, o) /\ Slot(j, o) < Beyond
    BY <1>1, <1>4, <2>1
  <2>3. map[j + 1][o] = items[Slot(j, o) - First + 1]
    BY <2>1, <2>2, InBuffers DEF DequeInv, DequeHolds
  <2>4. Slot(j, o) - First + 1 \in 1 .. Len(items) - 1
    BY <1>1, <1>4, <2>1
  <2> QED BY <1>2, <2>3, <2>4
<1>5. DequeHolds'
  BY <1>4 DEF DequeHolds, Slot
<1> QED BY <1>3, <1>5 DEF DequeInv

\* push_back.
LEMMA DequePushBack ==
    ASSUME DequeInv, NEW v \in Values, D!PushBack(v)
    PROVE  DequeInv'
<1>1. /\ First \in Int /\ Beyond \in Int /\ BufferSize \in Nat \ {0} /\ Len(map) \in Nat
      /\ startIndex \in Int /\ startOffset \in Offsets /\ endIndex \in Int /\ endIndex >= 0
      /\ endOffset \in Int /\ endOffset <= BufferSize /\ endOffset >= 0 /\ startIndex \in Nat
      /\ endIndex + 1 \in 1 .. Len(map) /\ startIndex <= endIndex + 1
      /\ startIndex > endIndex => endOffset = BufferSize
      /\ map \in Seq({D!NoBuffer} \cup Buffers)
      /\ \A i \in 1 .. Len(map) : i - 1 \in startIndex .. endIndex => map[i] \in Buffers
      /\ \A i \in 1 .. Len(map) : map[i] # D!NoBuffer <=> i - 1 \in startIndex .. endIndex
  BY Cursors DEF DequeInv, DequeTypes, DequeMapped, D!PushBack, D!Strayed
<1>2. /\ UNCHANGED <<startIndex, startOffset>> /\ items' = Append(items, v)
      /\ totalSize' = totalSize + 1 /\ items' \in Seq(Values)
  <2>1. items \in Seq(Values)
    BY DEF DequeInv, DequeTypes
  <2> QED BY <2>1, AppendProperties DEF D!PushBack
<1>3. freeList' \in Nat
  BY DEF D!PushBack, D!AfterNewBuffers, DequeInv, DequeTypes
<1>4. CASE endOffset < BufferSize
  <2>1. map' = [map EXCEPT ![endIndex + 1][endOffset] = v] /\ endOffset' = endOffset + 1
        /\ endIndex' = endIndex
    BY <1>4 DEF D!PushBack
  <2>2. endOffset \in Offsets /\ startIndex <= endIndex
    BY <1>1, <1>4 DEF Offsets
  <2>3. endIndex + 1 - 1 \in startIndex .. endIndex
    BY <1>1, <2>2
  <2>4. map[endIndex + 1] \in Buffers
    BY <1>1, <2>3
  <2>5. /\ map' \in Seq({D!NoBuffer} \cup Buffers) /\ Len(map') = Len(map)
        /\ \A i \in 1 .. Len(map) : i # endIndex + 1 => map'[i] = map[i]
        /\ map'[endIndex + 1] \in Buffers
        /\ \A p \in Offsets : map'[endIndex + 1][p] = IF p = endOffset THEN v ELSE map[endIndex + 1][p]
    <3>1. map \in Seq({D!NoBuffer} \cup Buffers) /\ endIndex + 1 \in 1 .. Len(map)
      BY <1>1
    <3> QED BY <2>1, <2>2, <2>4, <3>1, Stored
  <2>6. DequeTypes'
    BY <1>1, <1>2, <1>3, <1>4, <2>1, <2>5 DEF DequeTypes
  <2>7. DequeMapped'
    <3> SUFFICES ASSUME NEW i \in 1 .. Len(map)
                 PROVE  map'[i] # D!NoBuffer <=> i - 1 \in startIndex .. endIndex
      BY <1>2, <2>1, <2>5 DEF DequeMapped
    <3>1. CASE i = endIndex + 1
      <4>1. map'[i] # D!NoBuffer
        BY <2>5, <3>1, BufferThere
      <4>2. i - 1 \in startIndex .. endIndex
        BY <1>1, <2>2, <3>1
      <4> QED BY <4>1, <4>2
    <3>2. CASE i # endIndex + 1
      <4>1. map'[i] = map[i]
        BY <2>5, <3>2
      <4>2. map[i] # D!NoBuffer <=> i - 1 \in startIndex .. endIndex
        BY DEF DequeInv, DequeMapped
      <4> QED BY <4>1, <4>2
    <3> QED BY <3>1, <3>2
  <2>8. Beyond' = Beyond + 1
    BY <1>1, <2>1, SlotNext DEF Beyond, Slot
  <2>9. \A j \in startIndex .. endIndex, o \in Offsets :
           First <= Slot(j, o) /\ Slot(j, o) < Beyond => map'[j + 1][o] = map[j + 1][o]
    <3> SUFFICES ASSUME NEW j \in startIndex .. endIndex, NEW o \in Offsets, Slot(j, o) < Beyond
                 PROVE  map'[j + 1][o] = map[j + 1][o]
      OBVIOUS
    <3>1. j + 1 \in 1 .. Len(map)
      BY <1>1
    <3>2. ~(j = endIndex /\ o = endOffset)
      BY <1>1 DEF Beyond
    <3>3. CASE j = endIndex
      BY <2>5, <3>2, <3>3
    <3>4. CASE j # endIndex
      <4>1. j + 1 # endIndex + 1
        BY <1>1, <3>4
      <4> QED BY <2>5, <3>1, <4>1
    <3> QED BY <3>3, <3>4
  <2>10. Slot(endIndex, endOffset) = Beyond /\ map'[endIndex + 1][endOffset] = v
    BY <2>2, <2>5 DEF Beyond
  <2> QED BY <1>1, <1>2, <2>2, <2>6, <2>7, <2>8, <2>9, <2>10, OneMoreBack
<1>5. CASE ~(endOffset < BufferSize)
  <2> DEFINE b == [D!NewBuffer EXCEPT ![0] = v]
  <2>1. endOffset = BufferSize /\ endIndex' = endIndex + 1 /\ endOffset' = 1 /\ 0 \in Offsets
        /\ BufferSize >= 1
    BY <1>1, <1>5 DEF D!PushBack, Offsets
  <2>2. b \in Buffers /\ b # D!NoBuffer /\ b[0] = v
    BY <2>1, FreshBuffer
  <2>3. \/ endIndex + 1 >= Len(map) /\ map' = Append(map, b)
        \/ /\ ~(endIndex + 1 >= Len(map)) /\ map[endIndex + 2] = D!NoBuffer
           /\ map' = [map EXCEPT ![endIndex + 2] = b]
        \/ ~(endIndex + 1 >= Len(map)) /\ map[endIndex + 2] # D!NoBuffer
    BY <1>5 DEF D!PushBack
  <2> HIDE DEF b
  <2>4. /\ map' \in Seq({D!NoBuffer} \cup Buffers) /\ endIndex + 2 \in 1 .. Len(map')
        /\ map'[endIndex + 2] = b /\ Len(map') >= Len(map) /\ Len(map') \in Nat
        /\ \A i \in 1 .. Len(map') : i # endIndex + 2 => i \in 1 .. Len(map) /\ map'[i] = map[i]
    <3>1. CASE endIndex + 1 >= Len(map) /\ map' = Append(map, b)
      <4>1. Len(map) = endIndex + 1
        BY <1>1, <3>1
      <4>2. /\ map' \in Seq({D!NoBuffer} \cup Buffers) /\ Len(map') = Len(map) + 1
            /\ \A i \in 1 .. Len(map) : map'[i] = map[i]
            /\ map'[Len(map) + 1] = b
        BY <1>1, <2>2, <3>1, AppendProperties
      <4> QED BY <1>1, <4>1, <4>2
    <3>2. CASE /\ ~(endIndex + 1 >= Len(map)) /\ map[endIndex + 2] = D!NoBuffer
               /\ map' = [map EXCEPT ![endIndex + 2] = b]
      <4>1. endIndex + 2 \in 1 .. Len(map)
        BY <1>1, <3>2
      <4>2. /\ map' \in Seq({D!NoBuffer} \cup Buffers) /\ Len(map') = Len(map)
            /\ \A i \in 1 .. Len(map) : map'[i] = IF i = endIndex + 2 THEN b ELSE map[i]
        BY <1>1, <2>2, <3>2, <4>1, ExceptSeq
      <4> QED BY <1>1, <4>1, <4>2
    <3>3. CASE ~(endIndex + 1 >= Len(map)) /\ map[endIndex + 2] # D!NoBuffer
      <4>1. endIndex + 2 \in 1 .. Len(map) /\ ~(endIndex + 2 - 1 \in startIndex .. endIndex)
        BY <1>1, <3>3
      <4> QED BY <1>1, <3>3, <4>1
    <3> QED BY <2>3, <3>1, <3>2, <3>3
  <2>5. DequeTypes'
    BY <1>1, <1>2, <1>3, <2>1, <2>4 DEF DequeTypes
  <2>6. DequeMapped'
    <3> SUFFICES ASSUME NEW i \in 1 .. Len(map')
                 PROVE  map'[i] # D!NoBuffer <=> i - 1 \in startIndex .. endIndex + 1
      BY <1>2, <2>1 DEF DequeMapped
    <3>1. CASE i = endIndex + 2
      BY <1>1, <2>2, <2>4, <3>1
    <3>2. CASE i # endIndex + 2
      <4>1. i \in 1 .. Len(map) /\ map'[i] = map[i]
        BY <2>4, <3>2
      <4>2. i - 1 \in startIndex .. endIndex + 1 <=> i - 1 \in startIndex .. endIndex
        BY <1>1, <3>2
      <4> QED BY <1>1, <4>1, <4>2
    <3> QED BY <3>1, <3>2
  <2>7. Slot(endIndex + 1, 0) = Beyond /\ Beyond' = Beyond + 1
    <3>1. Slot(endIndex + 1, 0) = Slot(endIndex, 0) + BufferSize
      BY <1>1, SlotNext
    <3>2. Slot(endIndex, endOffset) = Slot(endIndex, 0) + endOffset
      BY <1>1, SlotNext
    <3>3. Slot(endIndex + 1, 1) = Slot(endIndex + 1, 0) + 1
      BY <1>1, SlotNext
    <3>4. Beyond' = Slot(endIndex + 1, 1)
      BY <2>1 DEF Beyond, Slot
    <3> QED BY <2>1, <3>1, <3>2, <3>3, <3>4 DEF Beyond
  <2>8. \A j \in startIndex .. endIndex, o \in Offsets :
           First <= Slot(j, o) /\ Slot(j, o) < Beyond => map'[j + 1][o] = map[j + 1][o]
    <3> SUFFICES ASSUME NEW j \in startIndex .. endIndex PROVE map'[j + 1] = map[j + 1]
      OBVIOUS
    <3>1. j + 1 \in 1 .. Len(map') /\ j + 1 # endIndex + 2
      BY <1>1, <2>4
    <3> QED BY <2>4, <3>1
  <2>9. endIndex + 1 \in Int /\ endIndex + 1 + 1 = endIndex + 2 /\ map'[endIndex + 1 + 1][0] = v
    BY <1>1, <2>2, <2>4
  <2> QED BY <1>2, <2>1, <2>5, <2>6, <2>7, <2>8, <2>9, OneMoreBack
<1> QED BY <1>4, <1>5

\* What an operation can use of the cursors and the map.
LEMMA Around ==
    ASSUME DequeInv
    PROVE  /\ First \in Int /\ Beyond \in Int /\ BufferSize \in Nat /\ 1 <= BufferSize
           /\ Len(map) \in Nat /\ startIndex \in Int /\ 0 <= startIndex
           /\ startOffset \in Offsets /\ startOffset \in Int /\ 0 <= startOffset
           /\ startOffset < BufferSize
           /\ endIndex \in Int /\ 0 <= endIndex /\ endIndex + 1 <= Len(map)
           /\ endOffset \in Int /\ endOffset <= BufferSize /\ startIndex <= endIndex + 1
           /\ startIndex > endIndex => startOffset = 0 /\ totalSize = 0
           /\ map \in Seq({D!NoBuffer} \cup Buffers) /\ items \in Seq(Values)
           /\ Len(items) \in Nat /\ totalSize = Len(items) /\ freeList \in Nat
  BY Cursors DEF DequeInv, DequeTypes, DequeCounts, Offsets

\* push_front.
LEMMA DequePushFront ==
    ASSUME DequeInv, NEW v \in Values, D!PushFront(v)
    PROVE  DequeInv'
<1>1. /\ BufferSize \in Nat /\ 1 <= BufferSize /\ Len(map) \in Nat
      /\ startIndex \in Int /\ 0 <= startIndex /\ startOffset \in Offsets
      /\ startOffset \in Int /\ 0 <= startOffset /\ startOffset < BufferSize
      /\ endIndex \in Int /\ 0 <= endIndex /\ endIndex + 1 <= Len(map)
      /\ endOffset \in Int /\ endOffset <= BufferSize /\ startIndex <= endIndex + 1
      /\ startIndex > endIndex => startOffset = 0
  BY Around
<1>2. map \in Seq({D!NoBuffer} \cup Buffers) /\ First \in Int /\ Beyond \in Int
  BY Around
<1>3. /\ endOffset' = endOffset /\ items' = <<v>> \o items /\ totalSize' = totalSize + 1
      /\ items' \in Seq(Values)
  <2>1. items \in Seq(Values) /\ <<v>> \in Seq(Values)
    BY Around
  <2> QED BY <2>1, ConcatProperties DEF D!PushFront
<1>4. freeList' \in Nat
  <2>1. freeList \in Nat
    BY Around
  <2>2. D!AfterNewBuffers(1) \in Nat /\ D!AfterNewBuffers(2) \in Nat
    BY <2>1 DEF D!AfterNewBuffers
  <2> QED BY <2>1, <2>2 DEF D!PushFront
<1>5. CASE startOffset > 0
  <2>1. /\ map' = [map EXCEPT ![startIndex + 1][startOffset - 1] = v]
        /\ startOffset' = startOffset - 1 /\ startIndex' = startIndex /\ endIndex' = endIndex
    BY <1>5 DEF D!PushFront
  <2>2. /\ startOffset - 1 \in Offsets /\ startIndex <= endIndex
        /\ startIndex + 1 \in 1 .. Len(map) /\ startIndex \in startIndex .. endIndex
        /\ startIndex + 1 - 1 \in startIndex .. endIndex
    BY <1>1, <1>5 DEF Offsets
  <2>3. map[startIndex + 1] \in Buffers
    BY <2>2, Cursors
  <2>4. /\ map' \in Seq({D!NoBuffer} \cup Buffers) /\ Len(map') = Len(map)
        /\ \A i \in 1 .. Len(map) : i # startIndex + 1 => map'[i] = map[i]
        /\ map'[startIndex + 1] \in Buffers
        /\ \A p \in Offsets : map'[startIndex + 1][p] =
                                 IF p = startOffset - 1 THEN v ELSE map[startIndex + 1][p]
    BY <1>2, <2>1, <2>2, <2>3, Stored
  <2>5. DequeTypes'
    BY <1>1, <1>3, <1>4, <2>1, <2>2, <2>4 DEF DequeTypes
  <2>6. DequeMapped'
    <3> SUFFICES ASSUME NEW i \in 1 .. Len(map)
                 PROVE  map'[i] # D!NoBuffer <=> i - 1 \in startIndex .. endIndex
      BY <2>1, <2>4 DEF DequeMapped
    <3>1. CASE i = startIndex + 1
      <4>1. map'[i] # D!NoBuffer
        BY <2>4, <3>1, BufferThere
      <4>2. i - 1 \in startIndex .. endIndex
        BY <1>1, <2>2, <3>1
      <4> QED BY <4>1, <4>2
    <3>2. CASE i # startIndex + 1
      <4>1. map'[i] = map[i]
        BY <2>4, <3>2
      <4>2. map[i] # D!NoBuffer <=> i - 1 \in startIndex .. endIndex
        BY DEF DequeInv, DequeMapped
      <4> QED BY <4>1, <4>2
    <3> QED BY <3>1, <3>2
  <2>7. First' = First - 1 /\ Beyond' = Beyond /\ Slot(startIndex, startOffset - 1) = First'
    <3>1. Slot(startIndex, startOffset - 1) = Slot(startIndex, startOffset) - 1
      BY <1>1, SlotNext
    <3> QED BY <1>3, <2>1, <3>1 DEF First, Beyond, Slot
  <2>8. ASSUME NEW j \in startIndex .. endIndex, NEW o \in Offsets, First <= Slot(j, o)
        PROVE  map'[j + 1][o] = map[j + 1][o]
    <3>1. j + 1 \in 1 .. Len(map)
      BY <1>1
    <3>2. ~(j = startIndex /\ o = startOffset - 1)
      <4>1. Slot(startIndex, startOffset - 1) < First
        BY <1>2, <2>7
      <4>2. Slot(startIndex, startOffset - 1) \in Int
        BY <1>1, SlotNext
      <4> QED BY <1>2, <2>8, <4>1, <4>2
    <3>3. CASE j = startIndex
      BY <2>4, <3>1, <3>2, <3>3
    <3>4. CASE j # startIndex
      <4>1. j + 1 # startIndex + 1
        BY <1>1, <3>4
      <4> QED BY <2>4, <3>1, <4>1
    <3> QED BY <3>3, <3>4
  <2>9. map'[startIndex + 1][startOffset - 1] = v
    BY <2>2, <2>4
  <2>10. startIndex \in Int
    BY <1>1
  <2> QED BY <1>3, <2>2, <2>5, <2>6, <2>7, <2>8, <2>9, <2>10, FrontStays
<1>6. CASE ~(startOffset > 0)
  <2> DEFINE b == [D!NewBuffer EXCEPT ![BufferSize - 1] = v]
  <2>1. /\ startOffset' = BufferSize - 1 /\ BufferSize - 1 \in Offsets /\ startOffset = 0
        /\ BufferSize - 1 \in Int
    BY <1>1, <1>6 DEF D!PushFront, Offsets
  <2>2. b \in Buffers /\ b # D!NoBuffer /\ b[BufferSize - 1] = v
    BY <2>1, FreshBuffer
  <2>3. \/ startIndex = 0 /\ map' = <<b>> \o map /\ endIndex' = endIndex + 1 /\ startIndex' = startIndex
        \/ startIndex # 0 /\ map' = [map EXCEPT ![startIndex] = b] /\ startIndex' = startIndex - 1
           /\ endIndex' = endIndex
    BY <1>6 DEF D!PushFront
  <2> HIDE DEF b
  <2>4. CASE startIndex = 0 /\ map' = <<b>> \o map /\ endIndex' = endIndex + 1 /\ startIndex' = startIndex
    <3>1. /\ map' \in Seq({D!NoBuffer} \cup Buffers) /\ Len(map') = Len(map) + 1 /\ map'[1] = b
          /\ \A i \in 1 .. Len(map) : map'[i + 1] = map[i]
      <4>1. <<b>> \in Seq({D!NoBuffer} \cup Buffers) /\ Len(<<b>>) = 1 /\ <<b>>[1] = b
        BY <2>2
      <4>2. /\ <<b>> \o map \in Seq({D!NoBuffer} \cup Buffers)
            /\ Len(<<b>> \o map) = 1 + Len(map)
            /\ \A i \in 1 .. 1 + Len(map) :
                  (<<b>> \o map)[i] = IF i <= 1 THEN <<b>>[i] ELSE map[i - 1]
        BY <1>2, <4>1, ConcatProperties
      <4>3. map'[1] = b /\ Len(map') = Len(map) + 1
        BY <1>1, <2>4, <4>1, <4>2
      <4>4. ASSUME NEW i \in 1 .. Len(map) PROVE map'[i + 1] = map[i]
        <5>1. i + 1 \in 1 .. 1 + Len(map) /\ ~(i + 1 <= 1) /\ i + 1 - 1 = i
          BY <1>1
        <5> QED BY <2>4, <4>2, <5>1
      <4> QED BY <2>4, <4>2, <4>3, <4>4
    <3>2. DequeTypes'
      BY <1>1, <1>3, <1>4, <2>1, <2>4, <3>1 DEF DequeTypes
    <3>3. DequeMapped'
      <4> SUFFICES ASSUME NEW i \in 1 .. Len(map) + 1
                   PROVE  map'[i] # D!NoBuffer <=> i - 1 \in 0 .. endIndex + 1
        BY <2>4, <3>1 DEF DequeMapped
      <4>1. CASE i = 1
        BY <1>1, <2>2, <3>1, <4>1
      <4>2. CASE i # 1
        <5>1. i - 1 \in 1 .. Len(map) /\ i - 1 + 1 = i
          BY <1>1, <4>2
        <5>2. map'[i] = map[i - 1]
          BY <3>1, <5>1
        <5>3. map[i - 1] # D!NoBuffer <=> i - 1 - 1 \in startIndex .. endIndex
          BY <5>1 DEF DequeInv, DequeMapped
        <5>4. i - 1 - 1 \in startIndex .. endIndex <=> i - 1 \in 0 .. endIndex + 1
          BY <1>1, <2>4, <4>2
        <5> QED BY <5>2, <5>3, <5>4
      <4> QED BY <4>1, <4>2
    <3>4. /\ First' = First + BufferSize - 1 /\ Beyond' = Beyond + BufferSize
          /\ Slot(0, BufferSize - 1) = First'
      <4>1. Slot(0, BufferSize - 1) = First'
        BY <2>1, <2>4 DEF First, Slot
      <4>2. Slot(0, BufferSize - 1) = Slot(0, 0) + (BufferSize - 1)
        BY <2>1, SlotNext
      <4>3. First = Slot(0, 0)
        BY <2>1, <2>4 DEF First
      <4>4. Slot(endIndex + 1, endOffset) = Slot(endIndex, endOffset) + BufferSize
        BY <1>1, SlotNext
      <4>5. Beyond' = Slot(endIndex + 1, endOffset)
        BY <1>3, <2>4 DEF Beyond, Slot
      <4>6. First' = First + BufferSize - 1
        BY <1>1, <1>2, <4>1, <4>2, <4>3
      <4> QED BY <4>1, <4>4, <4>5, <4>6 DEF Beyond
    <3>5. ASSUME NEW j \in startIndex .. endIndex, NEW o \in Offsets
          PROVE  map'[j + 1 + 1][o] = map[j + 1][o]
      <4>1. j + 1 \in 1 .. Len(map)
        BY <1>1
      <4> QED BY <3>1, <4>1
    <3>6. map'[0 + 1][BufferSize - 1] = v
      BY <2>2, <3>1
    <3>7. 0 \in Int /\ BufferSize - 1 \in Offsets
      BY <2>1
    <3> QED BY <1>3, <3>2, <3>3, <3>4, <3>5, <3>6, <3>7, FrontMoves
  <2>5. CASE /\ startIndex # 0 /\ map' = [map EXCEPT ![startIndex] = b]
             /\ startIndex' = startIndex - 1 /\ endIndex' = endIndex
    <3>1. startIndex \in 1 .. Len(map)
      BY <1>1, <2>5
    <3>2. /\ map' \in Seq({D!NoBuffer} \cup Buffers) /\ Len(map') = Len(map)
          /\ \A i \in 1 .. Len(map) : map'[i] = IF i = startIndex THEN b ELSE map[i]
      BY <1>2, <2>2, <2>5, <3>1, ExceptSeq
    <3>3. DequeTypes'
      BY <1>1, <1>3, <1>4, <2>1, <2>5, <3>1, <3>2 DEF DequeTypes
    <3>4. DequeMapped'
      <4> SUFFICES ASSUME NEW i \in 1 .. Len(map)
                   PROVE  map'[i] # D!NoBuffer <=> i - 1 \in startIndex - 1 .. endIndex
        BY <2>5, <3>2 DEF DequeMapped
      <4>1. CASE i = startIndex
        <5>1. i - 1 \in startIndex - 1 .. endIndex
          BY <1>1, <4>1
        <5> QED BY <2>2, <3>2, <4>1, <5>1
      <4>2. CASE i # startIndex
        <5>1. map'[i] = map[i]
          BY <3>2, <4>2
        <5>2. map[i] # D!NoBuffer <=> i - 1 \in startIndex .. endIndex
          BY DEF DequeInv, DequeMapped
        <5>3. i - 1 \in startIndex .. endIndex <=> i - 1 \in startIndex - 1 .. endIndex
          BY <1>1, <4>2
        <5> QED BY <5>1, <5>2, <5>3
      <4> QED BY <4>1, <4>2
    <3>5. /\ First' = First - 1 /\ Beyond' = Beyond
          /\ Slot(startIndex - 1, BufferSize - 1) = First'
      <4>1. Slot(startIndex - 1, BufferSize - 1) = First'
        BY <2>1, <2>5 DEF First, Slot
      <4>2. Slot(startIndex - 1, BufferSize - 1) = Slot(startIndex - 1, 0) + (BufferSize - 1)
        BY <1>1, <2>1, SlotNext
      <4>3. Slot(startIndex - 1, 0) = Slot(startIndex, 0) - BufferSize
        BY <1>1, SlotNext
      <4>4. First = Slot(startIndex, 0)
        BY <2>1 DEF First
      <4>5. First' = First - 1
        BY <1>1, <1>2, <4>1, <4>2, <4>3, <4>4
      <4>6. Beyond' = Beyond
        BY <1>3, <2>5 DEF Beyond, Slot
      <4> QED BY <4>1, <4>5, <4>6
    <3>6. ASSUME NEW j \in startIndex .. endIndex, NEW o \in Offsets
          PROVE  map'[j + 1][o] = map[j + 1][o]
      <4>1. j + 1 \in 1 .. Len(map) /\ j + 1 # startIndex
        BY <1>1
      <4> QED BY <3>2, <4>1
    <3>7. map'[startIndex - 1 + 1][BufferSize - 1] = v /\ startIndex - 1 \in Int
      <4>1. startIndex - 1 + 1 = startIndex
        BY <1>1
      <4> QED BY <1>1, <2>2, <3>1, <3>2, <4>1
    <3> QED BY <1>3, <2>1, <3>3, <3>4, <3>5, <3>6, <3>7, FrontStays
  <2> QED BY <2>3, <2>4, <2>5
<1> QED BY <1>5, <1>6

\* pop_front.
LEMMA DequePopFront ==
    ASSUME DequeInv, D!PopFront
    PROVE  DequeInv'
<1>1. /\ BufferSize \in Nat /\ 1 <= BufferSize /\ Len(map) \in Nat
      /\ startIndex \in Int /\ 0 <= startIndex /\ startOffset \in Offsets
      /\ startOffset \in Int /\ 0 <= startOffset /\ startOffset < BufferSize
      /\ endIndex \in Int /\ 0 <= endIndex /\ endIndex + 1 <= Len(map)
      /\ endOffset \in Int /\ endOffset <= BufferSize /\ startIndex <= endIndex
  BY Around DEF D!PopFront
<1>2. map \in Seq({D!NoBuffer} \cup Buffers) /\ First \in Int /\ Beyond \in Int
  BY Around
<1>3. /\ UNCHANGED <<endIndex, endOffset>> /\ items' = Tail(items) /\ totalSize' = totalSize - 1
      /\ totalSize > 0 /\ items' \in Seq(Values)
  <2>1. items \in Seq(Values) /\ totalSize = Len(items) /\ totalSize > 0
    BY Around DEF D!PopFront
  <2>2. items # <<>>
    BY <2>1, EmptySeq
  <2> QED BY <2>1, <2>2, HeadTailProperties DEF D!PopFront
<1>4. freeList' \in Nat
  BY Around DEF D!PopFront
<1>5. CASE startOffset + 1 = BufferSize
  <2>1. /\ map' = [map EXCEPT ![startIndex + 1] = D!NoBuffer]
        /\ startIndex' = startIndex + 1 /\ startOffset' = 0
    BY <1>5 DEF D!PopFront, D!Recycled
  <2>2. startIndex + 1 \in 1 .. Len(map)
    BY <1>1
  <2>3. /\ map' \in Seq({D!NoBuffer} \cup Buffers) /\ Len(map') = Len(map)
        /\ \A i \in 1 .. Len(map) : map'[i] = IF i = startIndex + 1 THEN D!NoBuffer ELSE map[i]
    BY <1>2, <2>1, <2>2, ExceptSeq
  <2>4. DequeTypes'
    BY <1>1, <1>3, <1>4, <2>1, <2>3 DEF DequeTypes, Offsets
  <2>5. DequeMapped'
    <3> SUFFICES ASSUME NEW i \in 1 .. Len(map)
                 PROVE  map'[i] # D!NoBuffer <=> i - 1 \in startIndex + 1 .. endIndex
      BY <1>3, <2>1, <2>3 DEF DequeMapped
    <3>1. CASE i = startIndex + 1
      <4>1. ~(i - 1 \in startIndex + 1 .. endIndex)
        BY <1>1, <3>1
      <4> QED BY <2>3, <3>1, <4>1
    <3>2. CASE i # startIndex + 1
      <4>1. map'[i] = map[i]
        BY <2>3, <3>2
      <4>2. map[i] # D!NoBuffer <=> i - 1 \in startIndex .. endIndex
        BY DEF DequeInv, DequeMapped
      <4>3. i - 1 \in startIndex .. endIndex <=> i - 1 \in startIndex + 1 .. endIndex
        BY <1>1, <3>2
      <4> QED BY <4>1, <4>2, <4>3
    <3> QED BY <3>1, <3>2
  <2>6. First' = First + 1 /\ Beyond' = Beyond
    <3>1. First' = Slot(startIndex + 1, 0)
      BY <2>1 DEF First, Slot
    <3>2. Slot(startIndex + 1, 0) = Slot(startIndex, 0) + BufferSize
      BY <1>1, SlotNext
    <3>3. First = Slot(startIndex, 0) + startOffset /\ Slot(startIndex, 0) \in Int
      <4>1. Slot(startIndex, startOffset) = Slot(startIndex, 0) + startOffset
        BY <1>1, SlotNext
      <4>2. 0 \in Int
        OBVIOUS
      <4>3. Slot(startIndex, 0) \in Int
        BY <1>1, <4>2, SlotNext
      <4> QED BY <4>1, <4>3 DEF First
    <3>4. First' = First + 1
      BY <1>1, <1>5, <3>1, <3>2, <3>3
    <3> QED BY <1>3, <3>4 DEF Beyond, Slot
  <2>7. \A j \in startIndex' .. endIndex' : map'[j + 1] = map[j + 1]
    <3> SUFFICES ASSUME NEW j \in startIndex + 1 .. endIndex PROVE map'[j + 1] = map[j + 1]
      BY <1>3, <2>1
    <3>1. j + 1 \in 1 .. Len(map) /\ j + 1 # startIndex + 1
      BY <1>1
    <3> QED BY <2>3, <3>1
  <2> QED BY <1>3, <2>4, <2>5, <2>6, <2>7, OneLessFront
<1>6. CASE startOffset + 1 # BufferSize
  <2>1. startOffset' = startOffset + 1 /\ UNCHANGED <<map, startIndex>>
    BY <1>6 DEF D!PopFront
  <2>2. DequeTypes' /\ DequeMapped'
    BY <1>1, <1>2, <1>3, <1>4, <1>6, <2>1 DEF DequeInv, DequeTypes, DequeMapped, Offsets
  <2>3. First' = First + 1 /\ Beyond' = Beyond
    <3>1. Slot(startIndex, startOffset + 1) = Slot(startIndex, startOffset) + 1
      BY <1>1, SlotNext
    <3> QED BY <1>3, <2>1, <3>1 DEF First, Beyond, Slot
  <2> QED BY <1>3, <2>1, <2>2, <2>3, OneLessFront
<1> QED BY <1>5, <1>6

\* pop_back.
LEMMA DequePopBack ==
    ASSUME DequeInv, D!PopBack
    PROVE  DequeInv'
<1>1. /\ BufferSize \in Nat /\ 1 <= BufferSize /\ Len(map) \in Nat
      /\ startIndex \in Int /\ 0 <= startIndex /\ startOffset \in Offsets
      /\ endIndex \in Int /\ 0 <= endIndex /\ endIndex + 1 <= Len(map)
      /\ endOffset \in Int /\ endOffset <= BufferSize /\ startIndex <= endIndex
  BY Around DEF D!PopBack
<1>2. map \in Seq({D!NoBuffer} \cup Buffers) /\ First \in Int /\ Beyond \in Int
  BY Around
<1>3. /\ UNCHANGED <<startIndex, startOffset>> /\ totalSize' = totalSize - 1
      /\ items' = SubSeq(items, 1, Len(items) - 1)
      /\ totalSize > 0 /\ items' \in Seq(Values)
  <2>1. items \in Seq(Values) /\ Len(items) \in Nat
    BY Around
  <2>2. \A i \in 1 .. Len(items) - 1 : items[i] \in Values
    BY <2>1, ElementOfSeq
  <2> QED BY <2>1, <2>2, SubSeqProperties DEF D!PopBack
<1>4. freeList' \in Nat
  BY Around DEF D!PopBack
<1>5. CASE D!LeavesBuffer
  <2>1. /\ map' = [map EXCEPT ![endIndex + 1] = D!NoBuffer]
        /\ endIndex' = endIndex - 1 /\ endOffset' = BufferSize
    BY <1>5 DEF D!PopBack, D!Recycled
  <2>2. endIndex + 1 \in 1 .. Len(map) /\ endOffset = 1 /\ startIndex < endIndex
    BY <1>1, <1>5 DEF D!LeavesBuffer
  <2>3. /\ map' \in Seq({D!NoBuffer} \cup Buffers) /\ Len(map') = Len(map)
        /\ \A i \in 1 .. Len(map) : map'[i] = IF i = endIndex + 1 THEN D!NoBuffer ELSE map[i]
    BY <1>2, <2>1, <2>2, ExceptSeq
  <2>4. DequeTypes'
    BY <1>1, <1>3, <1>4, <2>1, <2>2, <2>3 DEF DequeTypes
  <2>5. DequeMapped'
    <3> SUFFICES ASSUME NEW i \in 1 .. Len(map)
                 PROVE  map'[i] # D!NoBuffer <=> i - 1 \in startIndex .. endIndex - 1
      BY <1>3, <2>1, <2>3 DEF DequeMapped
    <3>1. CASE i = endIndex + 1
      <4>1. ~(i - 1 \in startIndex .. endIndex - 1)
        BY <1>1, <3>1
      <4> QED BY <2>3, <3>1, <4>1
    <3>2. CASE i # endIndex + 1
      <4>1. map'[i] = map[i]
        BY <2>3, <3>2
      <4>2. map[i] # D!NoBuffer <=> i - 1 \in startIndex .. endIndex
        BY DEF DequeInv, DequeMapped
      <4>3. i - 1 \in startIndex .. endIndex <=> i - 1 \in startIndex .. endIndex - 1
        BY <1>1, <3>2
      <4> QED BY <4>1, <4>2, <4>3
    <3> QED BY <3>1, <3>2
  <2>6. First' = First /\ Beyond' = Beyond - 1
    <3>1. Beyond' = Slot(endIndex - 1, BufferSize)
      BY <2>1 DEF Beyond, Slot
    <3>2. Slot(endIndex - 1, BufferSize) = Slot(endIndex, BufferSize) - BufferSize
      BY <1>1, SlotNext
    <3>3. Slot(endIndex, BufferSize) = Slot(endIndex, 0) + BufferSize /\ Slot(endIndex, 0) \in Int
      BY <1>1, SlotNext
    <3>4. Beyond = Slot(endIndex, 0) + 1
      BY <1>1, <2>2, SlotNext DEF Beyond
    <3>5. Beyond' = Beyond - 1
      BY <1>1, <3>1, <3>2, <3>3, <3>4
    <3> QED BY <1>3, <3>5 DEF First, Slot
  <2>7. \A j \in startIndex' .. endIndex' : map'[j + 1] = map[j + 1]
    <3> SUFFICES ASSUME NEW j \in startIndex .. endIndex - 1 PROVE map'[j + 1] = map[j + 1]
      BY <1>3, <2>1
    <3>1. j + 1 \in 1 .. Len(map) /\ j + 1 # endIndex + 1
      BY <1>1
    <3> QED BY <2>3, <3>1
  <2> QED BY <1>3, <2>4, <2>5, <2>6, <2>7, OneLessBack
<1>6. CASE ~D!LeavesBuffer
  <2>1. endOffset' = endOffset - 1 /\ UNCHANGED <<map, endIndex>>
    BY <1>6 DEF D!PopBack
  <2>2. DequeTypes' /\ DequeMapped'
    BY <1>1, <1>2, <1>3, <1>4, <2>1 DEF DequeInv, DequeTypes, DequeMapped
  <2>3. First' = First /\ Beyond' = Beyond - 1
    <3>1. Slot(endIndex, endOffset - 1) = Slot(endIndex, endOffset) - 1
      BY <1>1, SlotNext
    <3> QED BY <1>3, <2>1, <3>1 DEF First, Beyond, Slot
  <2> QED BY <1>3, <2>1, <2>2, <2>3, OneLessBack
<1> QED BY <1>5, <1>6

\* With one empty buffer and the cursors at its first place the deque is empty.
DequeEmpty ==
    /\ map = <<D!NewBuffer>> /\ freeList \in Nat /\ startIndex = 0 /\ startOffset = 0
    /\ endIndex = 0 /\ endOffset = 0 /\ totalSize = 0 /\ items = <<>>

\* An empty deque has its invariant.
LEMMA DequeEmptied == DequeEmpty => DequeInv
<1> SUFFICES ASSUME DequeEmpty PROVE DequeInv
  OBVIOUS
<1>1. /\ map = <<D!NewBuffer>> /\ freeList \in Nat /\ startIndex = 0 /\ startOffset = 0
      /\ endIndex = 0 /\ endOffset = 0 /\ totalSize = 0 /\ items = <<>>
  BY DEF DequeEmpty
<1>2. D!NewBuffer \in Buffers /\ D!NewBuffer # D!NoBuffer
  BY BufferThere DEF D!NewBuffer, Buffers, Offsets
<1>3. /\ map \in Seq({D!NoBuffer} \cup Buffers) /\ Len(map) = 1 /\ map[1] = D!NewBuffer
      /\ 1 .. Len(map) = {1}
  BY <1>1, <1>2
<1>4. items \in Seq(Values) /\ Len(items) = 0
  BY <1>1, EmptySeq
<1>5. DequeTypes
  BY <1>1, <1>3, <1>4, BufferAssumption DEF DequeTypes, Offsets
<1>6. First = 0 /\ Beyond = 0
  BY <1>1, BufferAssumption DEF First, Beyond, Slot
<1>7. DequeCounts
  BY <1>1, <1>4, <1>6 DEF DequeCounts
<1>8. DequeMapped
  BY <1>1, <1>2, <1>3 DEF DequeMapped
<1>9. DequeHolds
  <2> SUFFICES ASSUME NEW j \in startIndex .. endIndex, NEW o \in Offsets,
                      First <= Slot(j, o), Slot(j, o) < Beyond
               PROVE  FALSE
    BY DEF DequeHolds
  <2>1. Slot(j, o) \in Int
    BY SlotNext DEF Offsets
  <2> QED BY <1>6, <2>1
<1> QED BY <1>5, <1>7, <1>8, <1>9 DEF DequeInv

\* The deque starts empty, with one buffer.
LEMMA DequeInit == D!Init => DequeInv
  BY DequeEmptied DEF D!Init, DequeEmpty

\* The deque counts its buffers as FiniteSets counts.
LEMMA DequeCardinality == \A X : D!Cardinality(X) = Cardinality(X)
  BY DEF D!Cardinality, Cardinality

\* clear.
LEMMA DequeClear ==
    ASSUME DequeInv, D!Clear
    PROVE  DequeInv'
<1>1. /\ map' = <<D!NewBuffer>> /\ startIndex' = 0 /\ startOffset' = 0
      /\ endIndex' = 0 /\ endOffset' = 0 /\ totalSize' = 0 /\ items' = <<>>
  BY DEF D!Clear
<1>2. freeList' \in Nat
  <2>1. freeList \in Nat /\ Len(map) \in Nat
    BY Around
  <2>2. IsFiniteSet(0 .. Len(map) - 1)
    BY <2>1, FS_Interval
  <2>3. IsFiniteSet(D!Mapped)
    BY <2>2, FS_Subset DEF D!Mapped
  <2>4. Cardinality(D!Mapped) \in Nat /\ (Cardinality(D!Mapped) = 0 <=> D!Mapped = {})
    BY <2>3, FS_CardinalityType, FS_EmptySet
  <2>5. freeList' = IF D!Mapped = {} /\ freeList = 0 THEN 0
                    ELSE freeList + Cardinality(D!Mapped) - 1
    BY DequeCardinality DEF D!Clear
  <2>6. CASE D!Mapped = {} /\ freeList = 0
    BY <2>5, <2>6
  <2>7. CASE ~(D!Mapped = {} /\ freeList = 0)
    <3>1. freeList' = freeList + Cardinality(D!Mapped) - 1
      BY <2>5, <2>7
    <3>2. freeList # 0 \/ Cardinality(D!Mapped) # 0
      BY <2>4, <2>7
    <3> QED BY <2>1, <2>4, <3>1, <3>2
  <2> QED BY <2>6, <2>7
<1>3. DequeEmpty'
  BY <1>1, <1>2 DEF DequeEmpty
<1> QED BY <1>3, DequeEmptied, PTL

\* Every operation of the deque keeps its invariant.
LEMMA DequeStep == DequeInv /\ D!Next => DequeInv'
  BY DequePushBack, DequePushFront, DequePopFront, DequePopBack, DequeClear DEF D!Next

\* operator[] finds the items.
LEMMA DequeAt ==
    ASSUME DequeInv, NEW i \in 0 .. totalSize - 1
    PROVE  D!At(i) = items[i + 1]
<1>1. /\ First \in Int /\ Beyond \in Int /\ BufferSize \in Nat /\ 1 <= BufferSize
      /\ startIndex \in Int /\ startOffset \in Int /\ totalSize \in Nat /\ i \in Int
  BY Around
<1> DEFINE x == startOffset + i
           q == x \div BufferSize
           r == x % BufferSize
<1>2. x \in Int
  BY <1>1
<1> HIDE DEF x
<1>3. q \in Int /\ r \in 0 .. BufferSize - 1 /\ x = (q * BufferSize) + r
  BY <1>1, <1>2
<1> HIDE DEF q, r
<1>4. r \in Offsets /\ startIndex + q \in Int /\ r \in Int
  BY <1>1, <1>3 DEF Offsets
<1>5. Slot(startIndex + q, r) = First + i
  <2>1. Slot(startIndex + q, r) = (startIndex * BufferSize) + (q * BufferSize) + r
    BY <1>1, <1>3, <1>4 DEF Slot
  <2>2. First = (startIndex * BufferSize) + startOffset
    BY DEF First, Slot
  <2>3. startIndex * BufferSize \in Int /\ q * BufferSize \in Int
    BY <1>1, <1>3
  <2>4. (q * BufferSize) + r = startOffset + i
    BY <1>3 DEF x
  <2> QED BY <1>1, <1>4, <2>1, <2>2, <2>3, <2>4
<1>6. totalSize = Beyond - First
  BY DEF DequeInv, DequeCounts
<1>7. First <= First + i /\ First + i < Beyond /\ First + i - First + 1 = i + 1
  BY <1>1, <1>6
<1>8. startIndex + q \in startIndex .. endIndex
  BY <1>4, <1>5, <1>7, InBuffers
<1>9. First <= Slot(startIndex + q, r) /\ Slot(startIndex + q, r) < Beyond
  BY <1>5, <1>7
<1>10. map[startIndex + q + 1][r] = items[Slot(startIndex + q, r) - First + 1]
  BY <1>4, <1>8, <1>9 DEF DequeInv, DequeHolds
<1>11. D!At(i) = map[startIndex + q + 1][r]
  BY DEF D!At, x, q, r
<1>12. Slot(startIndex + q, r) - First + 1 = i + 1
  BY <1>1, <1>5
<1> QED BY <1>10, <1>11, <1>12

\* The deque holds its items.
LEMMA DequeIs == DequeInv => D!IsDeque
<1> SUFFICES ASSUME DequeInv PROVE D!IsDeque
  OBVIOUS
<1>1. /\ First \in Int /\ Beyond \in Int /\ BufferSize \in Nat /\ 1 <= BufferSize
      /\ Len(map) \in Nat /\ startIndex \in Int /\ 0 <= startIndex /\ startOffset \in Int
      /\ endIndex \in Int /\ endIndex + 1 <= Len(map) /\ endOffset \in Int
      /\ endOffset <= BufferSize /\ totalSize \in Nat /\ totalSize = Len(items)
  BY Around
<1>2. totalSize = Beyond - First
  BY DEF DequeInv, DequeCounts
<1>3. totalSize = (endIndex - startIndex) * BufferSize + endOffset - startOffset
  <2>1. First = (startIndex * BufferSize) + startOffset /\ Beyond = (endIndex * BufferSize) + endOffset
    BY DEF First, Beyond, Slot
  <2>2. (endIndex - startIndex) * BufferSize = (endIndex * BufferSize) - (startIndex * BufferSize)
        /\ endIndex * BufferSize \in Int /\ startIndex * BufferSize \in Int
    BY <1>1
  <2> QED BY <1>1, <1>2, <2>1, <2>2
<1>4. D!Mapped = startIndex .. endIndex
  <2>1. ASSUME NEW i \in 0 .. Len(map) - 1
        PROVE  map[i + 1] # D!NoBuffer <=> i \in startIndex .. endIndex
    <3>1. i + 1 \in 1 .. Len(map) /\ i + 1 - 1 = i
      BY <1>1
    <3> QED BY <3>1 DEF DequeInv, DequeMapped
  <2>2. startIndex .. endIndex \subseteq 0 .. Len(map) - 1
    BY <1>1
  <2> QED BY <2>1, <2>2 DEF D!Mapped
<1>5. ASSUME totalSize > 0, endOffset > 0 PROVE D!Back = items[totalSize]
  <2>1. Slot(endIndex, endOffset - 1) = Beyond - 1
    BY <1>1, SlotNext DEF Beyond
  <2>2. endOffset - 1 \in Offsets /\ First <= Beyond - 1 /\ Beyond - 1 < Beyond
    BY <1>1, <1>2, <1>5 DEF Offsets
  <2>3. endIndex \in startIndex .. endIndex
    BY <1>1, <2>1, <2>2, InBuffers
  <2>4. map[endIndex + 1][endOffset - 1] = items[Beyond - 1 - First + 1]
    BY <2>1, <2>2, <2>3 DEF DequeInv, DequeHolds
  <2>5. Beyond - 1 - First + 1 = totalSize
    BY <1>1, <1>2
  <2> QED BY <2>4, <2>5 DEF D!Back
<1> QED BY <1>1, <1>3, <1>4, <1>5, DequeAt DEF D!IsDeque, D!Consistent

-----------------------------------------------------------------------------
\* e gives the node at each place of the list, from 1, and null before and behind it.
Places == [Int -> Addresses \cup {L!Null}]
\* What a pointer, and what a node, can be.
Pointers == Addresses \cup {L!Null}
Nodes == [value : Values, prev : Pointers, next : Pointers]

\* The places of the list have nodes, each another one.
Placed(e) ==
    /\ e \in Places /\ size \in Nat /\ items \in Seq(Values) /\ Len(items) = size
    /\ \A i \in Int : e[i] # L!Null <=> 1 <= i /\ i <= size
    /\ \A i, j \in Int : e[i] = e[j] /\ e[i] # L!Null => i = j

\* What the node at place i holds.
NodeAt(e, i) == L!NewNode(items[i], IF L!IsList THEN e[i - 1] ELSE L!Null, e[i + 1])

\* The nodes that are allocated are those of the list, linked in its order.
Linked(e) ==
    /\ Placed(e)
    /\ node \in [DOMAIN node -> Nodes]
    /\ DOMAIN node = {x \in Addresses : \E i \in Int : e[i] = x}
    /\ head = e[1] /\ (L!IsList => tail = e[size])
    /\ \A i \in 1 .. size : node[e[i]] = NodeAt(e, i)

\* The inductive invariant of a list.
ListInv == \E e \in Places : Linked(e)

\* The null pointer is not an address.
LEMMA NullIsNone == L!Null \notin Addresses
  BY AddressAssumption DEF L!Null

\* A pointer set in a node.
LEMMA SetNextIs ==
    ASSUME NEW A, NEW N \in [A -> Nodes], A \subseteq Addresses, NEW y \in Pointers, NEW x \in Pointers
    PROVE  /\ L!SetNext(N, y, x) \in [A -> Nodes]
           /\ \A z \in A : L!SetNext(N, y, x)[z] =
                 IF z = y THEN L!NewNode(N[z].value, N[z].prev, x) ELSE N[z]
<1>1. CASE y \notin A
  <2>1. L!SetNext(N, y, x) = N
    <3>1. y = L!Null \/ [N EXCEPT ![y].next = x] = N
      BY <1>1
    <3> QED BY <3>1 DEF L!SetNext
  <2> QED BY <1>1, <2>1
<1>2. CASE y \in A
  <2>1. y # L!Null
    BY <1>2, NullIsNone
  <2>2. L!SetNext(N, y, x) = [N EXCEPT ![y].next = x]
    BY <2>1 DEF L!SetNext
  <2>3. N[y] \in Nodes
    BY <1>2
  <2>4. [N[y] EXCEPT !.next = x] = L!NewNode(N[y].value, N[y].prev, x)
        /\ L!NewNode(N[y].value, N[y].prev, x) \in Nodes
    BY <2>3 DEF Nodes, L!NewNode
  <2> QED BY <1>2, <2>2, <2>4
<1> QED BY <1>1, <1>2

\* The pointer back of a node is set; ForwardList has none.
LEMMA SetPrevIs ==
    ASSUME NEW A, NEW N \in [A -> Nodes], A \subseteq Addresses, NEW y \in Pointers, NEW x \in Pointers
    PROVE  /\ L!SetPrev(N, y, x) \in [A -> Nodes]
           /\ \A z \in A : L!SetPrev(N, y, x)[z] =
                 IF z = y /\ L!IsList THEN L!NewNode(N[z].value, x, N[z].next) ELSE N[z]
<1>1. CASE y \notin A \/ ~L!IsList
  <2>1. L!SetPrev(N, y, x) = N
    <3>1. y = L!Null \/ ~L!IsList \/ [N EXCEPT ![y].prev = x] = N
      BY <1>1
    <3> QED BY <3>1 DEF L!SetPrev
  <2> QED BY <1>1, <2>1
<1>2. CASE y \in A /\ L!IsList
  <2>1. y # L!Null
    BY <1>2, NullIsNone
  <2>2. L!SetPrev(N, y, x) = [N EXCEPT ![y].prev = x]
    BY <1>2, <2>1 DEF L!SetPrev
  <2>3. N[y] \in Nodes
    BY <1>2
  <2>4. [N[y] EXCEPT !.prev = x] = L!NewNode(N[y].value, x, N[y].next)
        /\ L!NewNode(N[y].value, x, N[y].next) \in Nodes
    BY <2>3 DEF Nodes, L!NewNode
  <2> QED BY <1>2, <2>2, <2>4
<1> QED BY <1>1, <1>2

\* A place put in at k, and the place k taken out.
Inserted(e, k, a) == [i \in Int |-> IF i < k THEN e[i] ELSE IF i = k THEN a ELSE e[i - 1]]
Removed(e, k) == [i \in Int |-> IF i < k THEN e[i] ELSE e[i + 1]]

\* The items with v put in at place k, and with the one at place k taken out.
ItemInserted(k, v) ==
    /\ items' \in Seq(Values) /\ Len(items') = Len(items) + 1
    /\ \A i \in 1 .. Len(items) + 1 :
          items'[i] = IF i < k THEN items[i] ELSE IF i = k THEN v ELSE items[i - 1]
ItemRemoved(k) ==
    /\ items' \in Seq(Values) /\ Len(items') = Len(items) - 1
    /\ \A i \in 1 .. Len(items) - 1 : items'[i] = IF i < k THEN items[i] ELSE items[i + 1]

\* A node, and nothing else, is put in at place k.
LEMMA PlacedInserted ==
    ASSUME NEW e, Placed(e), NEW k \in 1 .. size + 1, NEW a \in Addresses,
           \A i \in Int : e[i] # a, NEW v \in Values, ItemInserted(k, v), size' = size + 1
    PROVE  Placed(Inserted(e, k, a))'
<1> DEFINE f == Inserted(e, k, a)
<1>1. /\ e \in Places /\ size \in Nat /\ k \in Int /\ 1 <= k /\ k <= size + 1 /\ Len(items) = size
      /\ a # L!Null
  BY NullIsNone DEF Placed
<1>2. f \in Places /\ \A i \in Int : f[i] = IF i < k THEN e[i] ELSE IF i = k THEN a ELSE e[i - 1]
  BY <1>1 DEF Inserted, Places
<1> HIDE DEF f
<1>3. items' \in Seq(Values) /\ Len(items') = size' /\ size' \in Nat
  BY <1>1 DEF ItemInserted
<1>4. ASSUME NEW i \in Int PROVE f[i] # L!Null <=> 1 <= i /\ i <= size + 1
  <2>1. e[i] # L!Null <=> 1 <= i /\ i <= size
    BY DEF Placed
  <2>2. e[i - 1] # L!Null <=> 1 <= i - 1 /\ i - 1 <= size
    BY DEF Placed
  <2> QED BY <1>1, <1>2, <2>1, <2>2
<1>5. ASSUME NEW i \in Int, NEW j \in Int, f[i] = f[j], f[i] # L!Null PROVE i = j
  <2>1. \A p, q \in Int : e[p] = e[q] /\ e[p] # L!Null => p = q
    BY DEF Placed
  <2>2. i - 1 \in Int /\ j - 1 \in Int
    OBVIOUS
  <2>3. CASE i < k
    BY <1>1, <1>2, <1>5, <2>1, <2>2, <2>3
  <2>4. CASE i = k
    BY <1>1, <1>2, <1>5, <2>2, <2>4
  <2>5. CASE i > k
    BY <1>1, <1>2, <1>5, <2>1, <2>2, <2>5
  <2> QED BY <1>1, <2>3, <2>4, <2>5
<1>6. Placed(f)'
  BY <1>2, <1>3, <1>4, <1>5 DEF Placed
<1> QED BY <1>6 DEF f

\* The node at place k, and nothing else, is taken out.
LEMMA PlacedRemoved ==
    ASSUME NEW e, Placed(e), NEW k \in 1 .. size, ItemRemoved(k), size' = size - 1
    PROVE  Placed(Removed(e, k))'
<1> DEFINE f == Removed(e, k)
<1>1. e \in Places /\ size \in Nat /\ k \in Int /\ 1 <= k /\ k <= size /\ Len(items) = size
  BY DEF Placed
<1>2. f \in Places /\ \A i \in Int : f[i] = IF i < k THEN e[i] ELSE e[i + 1]
  BY <1>1 DEF Removed, Places
<1> HIDE DEF f
<1>3. items' \in Seq(Values) /\ Len(items') = size' /\ size' \in Nat
  BY <1>1 DEF ItemRemoved
<1>4. ASSUME NEW i \in Int PROVE f[i] # L!Null <=> 1 <= i /\ i <= size - 1
  <2>1. e[i] # L!Null <=> 1 <= i /\ i <= size
    BY DEF Placed
  <2>2. i + 1 \in Int /\ (1 <= i + 1 <=> 0 <= i) /\ (i + 1 <= size <=> i <= size - 1)
    BY <1>1
  <2>3. e[i + 1] # L!Null <=> 0 <= i /\ i <= size - 1
    BY <2>2 DEF Placed
  <2>4. CASE i < k
    BY <1>1, <1>2, <2>1, <2>4
  <2>5. CASE ~(i < k)
    <3>1. 1 <= i
      BY <1>1, <2>5
    <3> QED BY <1>2, <2>3, <2>5, <3>1
  <2> QED BY <2>4, <2>5
<1>5. ASSUME NEW i \in Int, NEW j \in Int, f[i] = f[j], f[i] # L!Null PROVE i = j
  <2>1. \A p, q \in Int : e[p] = e[q] /\ e[p] # L!Null => p = q
    BY DEF Placed
  <2>2. i + 1 \in Int /\ j + 1 \in Int
    OBVIOUS
  <2>3. CASE i < k /\ j < k
    BY <1>2, <1>5, <2>1, <2>3
  <2>4. CASE i < k /\ ~(j < k)
    <3>1. i = j + 1
      BY <1>2, <1>5, <2>1, <2>2, <2>4
    <3> QED BY <1>1, <2>4, <3>1
  <2>5. CASE ~(i < k) /\ j < k
    <3>1. i + 1 = j
      BY <1>2, <1>5, <2>1, <2>2, <2>5
    <3> QED BY <1>1, <2>5, <3>1
  <2>6. CASE ~(i < k) /\ ~(j < k)
    <3>1. i + 1 = j + 1
      BY <1>2, <1>5, <2>1, <2>2, <2>6
    <3> QED BY <3>1
  <2> QED BY <2>3, <2>4, <2>5, <2>6
<1>6. Placed(f)'
  BY <1>2, <1>3, <1>4, <1>5 DEF Placed
<1> QED BY <1>6 DEF f

\* What is known of a linked list.
LEMMA OfLinked ==
    ASSUME NEW e, Linked(e)
    PROVE  /\ Placed(e) /\ e \in Places /\ size \in Nat /\ items \in Seq(Values) /\ Len(items) = size
           /\ \A i \in Int : e[i] \in Pointers
           /\ \A i \in Int : e[i] # L!Null <=> 1 <= i /\ i <= size
           /\ \A i, j \in Int : e[i] = e[j] /\ e[i] # L!Null => i = j
           /\ \A i \in Int : e[i] \in DOMAIN node <=> 1 <= i /\ i <= size
           /\ DOMAIN node \subseteq Addresses
           /\ \A i \in 1 .. size : items[i] \in Values
<1>1. /\ Placed(e) /\ e \in Places /\ size \in Nat /\ items \in Seq(Values) /\ Len(items) = size
      /\ \A i \in Int : e[i] # L!Null <=> 1 <= i /\ i <= size
      /\ \A i, j \in Int : e[i] = e[j] /\ e[i] # L!Null => i = j
      /\ DOMAIN node = {x \in Addresses : \E i \in Int : e[i] = x}
  BY DEF Linked, Placed
<1>2. \A i \in Int : e[i] \in Pointers
  BY <1>1 DEF Places, Pointers
<1>3. \A i \in Int : e[i] \in DOMAIN node <=> 1 <= i /\ i <= size
  <2> SUFFICES ASSUME NEW i \in Int PROVE e[i] \in DOMAIN node <=> e[i] # L!Null
    BY <1>1
  <2> QED BY <1>1, <1>2, NullIsNone DEF Pointers
<1>4. \A i \in 1 .. size : items[i] \in Values
  BY <1>1, ElementOfSeq
<1> QED BY <1>1, <1>2, <1>3, <1>4

\* The node that is put in at place k, between two neighbours that then point to it.
LEMMA LinkInserted ==
    ASSUME NEW e, Linked(e), NEW k \in 1 .. size + 1, NEW a \in Addresses, a \notin DOMAIN node,
           NEW v \in Values, ItemInserted(k, v), size' = size + 1, kind' = kind,
           node' = L!SetNext(L!SetPrev(L!With(node, a, L!NewNode(v,
                        IF L!IsList THEN e[k - 1] ELSE L!Null, e[k])), e[k], a), e[k - 1], a),
           head' = (IF k = 1 THEN a ELSE head),
           L!IsList => tail' = IF k = size + 1 THEN a ELSE tail
    PROVE  ListInv'
<1> DEFINE f == Inserted(e, k, a)
           A == DOMAIN node \cup {a}
           N0 == L!With(node, a, L!NewNode(v, IF L!IsList THEN e[k - 1] ELSE L!Null, e[k]))
           N1 == L!SetPrev(N0, e[k], a)
<1>1. /\ e \in Places /\ size \in Nat /\ Len(items) = size
      /\ \A i \in Int : e[i] \in Pointers
      /\ \A i \in Int : e[i] # L!Null <=> 1 <= i /\ i <= size
      /\ \A i, j \in Int : e[i] = e[j] /\ e[i] # L!Null => i = j
      /\ DOMAIN node \subseteq Addresses
      /\ k \in Int /\ 1 <= k /\ k <= size + 1 /\ a # L!Null
  BY OfLinked, NullIsNone
<1>2. \A i \in Int : e[i] # a
  BY DEF Linked
<1>3. Placed(f)'
  BY <1>2, OfLinked, PlacedInserted
<1>4. f \in Places /\ \A i \in Int : f[i] = IF i < k THEN e[i] ELSE IF i = k THEN a ELSE e[i - 1]
  BY <1>1 DEF Inserted, Places
<1>5. e[k] \in Pointers /\ e[k - 1] \in Pointers /\ k - 1 \in Int /\ a \in Pointers
      /\ A \subseteq Addresses
  BY <1>1 DEF Pointers
<1>6. /\ N0 \in [A -> Nodes]
      /\ N0[a] = L!NewNode(v, IF L!IsList THEN e[k - 1] ELSE L!Null, e[k])
      /\ \A z \in DOMAIN node : N0[z] = node[z]
  <2>1. L!NewNode(v, IF L!IsList THEN e[k - 1] ELSE L!Null, e[k]) \in Nodes
    BY <1>5 DEF L!NewNode, Nodes, Pointers
  <2>2. node \in [DOMAIN node -> Nodes]
    BY DEF Linked
  <2> QED BY <2>1, <2>2 DEF L!With
<1> HIDE DEF N0
<1>7. /\ N1 \in [A -> Nodes]
      /\ \A z \in A : N1[z] = IF z = e[k] /\ L!IsList THEN L!NewNode(N0[z].value, a, N0[z].next)
                              ELSE N0[z]
  BY <1>5, <1>6, SetPrevIs
<1> HIDE DEF N1
<1>8. /\ node' \in [A -> Nodes]
      /\ \A z \in A : node'[z] = IF z = e[k - 1] THEN L!NewNode(N1[z].value, N1[z].prev, a)
                                 ELSE N1[z]
  <2>1. node' = L!SetNext(N1, e[k - 1], a)
    BY DEF N1, N0
  <2> QED BY <1>5, <1>7, <2>1, SetNextIs
<1> HIDE DEF f, A
<1>9. node' \in [DOMAIN node' -> Nodes] /\ DOMAIN node' = A
  BY <1>8
<1>10. A = {x \in Addresses : \E i \in Int : f[i] = x}
  <2>1. DOMAIN node = {x \in Addresses : \E i \in Int : e[i] = x}
    BY DEF Linked
  <2>2. f[k] = a
    BY <1>1, <1>4
  <2>3. ASSUME NEW i \in Int PROVE f[i] = a \/ \E j \in Int : e[j] = f[i]
    BY <1>4
  <2>4. ASSUME NEW i \in Int PROVE \E j \in Int : f[j] = e[i]
    <3>1. CASE i < k
      BY <1>4, <3>1
    <3>2. CASE ~(i < k)
      <4>1. i + 1 \in Int /\ ~(i + 1 < k) /\ i + 1 # k /\ i + 1 - 1 = i
        BY <1>1, <3>2
      <4> QED BY <1>4, <4>1
    <3> QED BY <3>1, <3>2
  <2> QED BY <2>1, <2>2, <2>3, <2>4 DEF A
<1>11. head' = f[1]
  <2>1. head = e[1]
    BY DEF Linked
  <2> QED BY <1>1, <1>4, <2>1
<1>12. L!IsList => tail' = f[size + 1]
  <2>1. L!IsList => tail = e[size]
    BY DEF Linked
  <2>2. size + 1 \in Int /\ size + 1 - 1 = size /\ (~(size + 1 < k))
    BY <1>1
  <2>3. CASE k = size + 1
    <3>1. f[k] = a
      BY <1>1, <1>4
    <3> QED BY <2>3, <3>1
  <2>4. CASE k # size + 1
    <3>1. ~(size + 1 < k) /\ size + 1 # k
      BY <2>2, <2>4
    <3>2. f[size + 1] = e[size + 1 - 1]
      BY <1>1, <1>4, <3>1
    <3>3. size + 1 - 1 = size
      BY <1>1
    <3> QED BY <2>1, <2>4, <3>2, <3>3
  <2> QED BY <2>3, <2>4
<1>13. ASSUME NEW i \in 1 .. size + 1
       PROVE  node'[f[i]] = L!NewNode(items'[i], IF L!IsList THEN f[i - 1] ELSE L!Null, f[i + 1])
  <2> DEFINE j == IF i < k THEN i ELSE i - 1
  <2>1. items'[i] = IF i < k THEN items[i] ELSE IF i = k THEN v ELSE items[i - 1]
    BY <1>1 DEF ItemInserted
  <2>2. /\ i - 1 \in Int /\ i + 1 \in Int /\ i \in Int
        /\ (i - 1 < k <=> i <= k) /\ (i - 1 = k <=> i = k + 1)
        /\ (i + 1 < k <=> i < k - 1) /\ (i + 1 = k <=> i = k - 1) /\ i + 1 - 1 = i
    BY <1>1
  <2>3. f[i - 1] = IF i <= k THEN e[i - 1] ELSE IF i = k + 1 THEN a ELSE e[i - 1 - 1]
    BY <1>4, <2>2
  <2>4. f[i + 1] = IF i < k - 1 THEN e[i + 1] ELSE IF i = k - 1 THEN a ELSE e[i]
    BY <1>4, <2>2
  <2>5. ASSUME NEW m \in Int, 1 <= m, m <= size
        PROVE  /\ e[m] \in DOMAIN node /\ e[m] \in A /\ e[m] # a
               /\ N0[e[m]] = L!NewNode(items[m], IF L!IsList THEN e[m - 1] ELSE L!Null, e[m + 1])
               /\ (e[m] = e[k] <=> m = k) /\ (e[m] = e[k - 1] <=> m = k - 1)
    <3>1. e[m] \in DOMAIN node /\ e[m] # L!Null
      BY <2>5, OfLinked
    <3>2. node[e[m]] = NodeAt(e, m)
      BY <1>1, <2>5 DEF Linked
    <3>3. (e[m] = e[k] <=> m = k) /\ (e[m] = e[k - 1] <=> m = k - 1)
      BY <1>1, <1>5, <3>1
    <3> QED BY <1>2, <1>6, <3>1, <3>2, <3>3 DEF NodeAt, A
  <2>6. CASE i = k
    <3>1. f[i] = a /\ a \in A /\ a # e[k] /\ a # e[k - 1]
      BY <1>2, <1>4, <1>5, <2>2, <2>6 DEF A
    <3>2. node'[a] = L!NewNode(v, IF L!IsList THEN e[k - 1] ELSE L!Null, e[k])
      BY <1>6, <1>7, <1>8, <3>1
    <3>3. items'[i] = v /\ f[i - 1] = e[k - 1] /\ f[i + 1] = e[k]
      BY <1>1, <2>1, <2>3, <2>4, <2>6
    <3> QED BY <3>1, <3>2, <3>3
  <2>7. CASE i < k - 1
    <3>1. 1 <= i /\ i <= size /\ i < k /\ i # k /\ i # k - 1 /\ i <= k
      BY <1>1, <2>7
    <3>2. f[i] = e[i] /\ f[i - 1] = e[i - 1] /\ f[i + 1] = e[i + 1] /\ items'[i] = items[i]
      BY <1>4, <2>1, <2>2, <2>3, <2>4, <2>7, <3>1
    <3>3. /\ e[i] \in A /\ e[i] # e[k] /\ e[i] # e[k - 1]
          /\ N0[e[i]] = L!NewNode(items[i], IF L!IsList THEN e[i - 1] ELSE L!Null, e[i + 1])
      BY <2>2, <2>5, <3>1
    <3>4. node'[e[i]] = N0[e[i]]
      BY <1>7, <1>8, <3>3
    <3> QED BY <3>2, <3>3, <3>4
  <2>8. CASE i = k - 1
    <3>1. 1 <= i /\ i <= size /\ i < k /\ i # k /\ i <= k /\ ~(i < k - 1)
      BY <1>1, <2>8
    <3>2. f[i] = e[i] /\ f[i - 1] = e[i - 1] /\ f[i + 1] = a /\ items'[i] = items[i]
      BY <1>4, <2>1, <2>2, <2>3, <2>4, <2>8, <3>1
    <3>3. /\ e[i] \in A /\ e[i] # e[k] /\ e[i] = e[k - 1]
          /\ N0[e[i]] = L!NewNode(items[i], IF L!IsList THEN e[i - 1] ELSE L!Null, e[i + 1])
      BY <2>2, <2>5, <2>8, <3>1
    <3>4. node'[e[i]] = L!NewNode(N0[e[i]].value, N0[e[i]].prev, a)
      BY <1>7, <1>8, <3>3
    <3> QED BY <3>2, <3>3, <3>4 DEF L!NewNode
  <2>9. CASE i = k + 1
    <3>1. 1 <= k /\ k <= size /\ k # k - 1 /\ i - 1 = k /\ ~(i < k) /\ i # k /\ ~(i <= k)
          /\ ~(i < k - 1) /\ i # k - 1
      BY <1>1, <2>9
    <3>2. f[i] = e[k] /\ f[i - 1] = a /\ f[i + 1] = e[i] /\ items'[i] = items[k]
      BY <1>4, <2>1, <2>2, <2>3, <2>4, <2>9, <3>1
    <3>3. /\ e[k] \in A /\ e[k] # e[k - 1]
          /\ N0[e[k]] = L!NewNode(items[k], IF L!IsList THEN e[k - 1] ELSE L!Null, e[k + 1])
      BY <1>1, <2>5, <3>1
    <3>4. /\ L!IsList => node'[e[k]] = L!NewNode(N0[e[k]].value, a, N0[e[k]].next)
          /\ ~L!IsList => node'[e[k]] = N0[e[k]]
      BY <1>7, <1>8, <3>3
    <3> QED BY <2>9, <3>2, <3>3, <3>4 DEF L!NewNode
  <2>10. CASE i > k + 1
    <3>1. 1 <= i - 1 /\ i - 1 <= size /\ i - 1 # k - 1 /\ i - 1 # k /\ ~(i < k) /\ i # k /\ ~(i <= k)
          /\ ~(i < k - 1) /\ i # k - 1 /\ i # k + 1 /\ i - 1 + 1 = i
      BY <1>1, <2>10
    <3>2. f[i] = e[i - 1] /\ f[i - 1] = e[i - 1 - 1] /\ f[i + 1] = e[i] /\ items'[i] = items[i - 1]
      BY <1>4, <2>1, <2>2, <2>3, <2>4, <3>1
    <3>3. /\ e[i - 1] \in A /\ e[i - 1] # e[k] /\ e[i - 1] # e[k - 1]
          /\ N0[e[i - 1]] = L!NewNode(items[i - 1], IF L!IsList THEN e[i - 1 - 1] ELSE L!Null, e[i - 1 + 1])
      BY <2>2, <2>5, <3>1
    <3>4. node'[e[i - 1]] = N0[e[i - 1]]
      BY <1>7, <1>8, <3>3
    <3> QED BY <3>1, <3>2, <3>3, <3>4
  <2>11. i = k \/ i < k - 1 \/ i = k - 1 \/ i = k + 1 \/ i > k + 1
    BY <1>1
  <2> QED BY <2>6, <2>7, <2>8, <2>9, <2>10, <2>11
<1>14. L!IsList' <=> L!IsList
  BY DEF L!IsList
<1>15. \A i \in 1 .. size' : node'[f[i]] = NodeAt(f, i)'
  BY <1>13, <1>14 DEF NodeAt
<1>16. Linked(f)'
  BY <1>3, <1>9, <1>10, <1>11, <1>12, <1>14, <1>15 DEF Linked
<1> QED BY <1>4, <1>16 DEF ListInv

\* The node at place k is taken out and its neighbours point to each other.
LEMMA LinkRemoved ==
    ASSUME NEW e, Linked(e), NEW k \in 1 .. size, ItemRemoved(k), size' = size - 1, kind' = kind,
           node' = L!Without(L!SetPrev(L!SetNext(node, e[k - 1], e[k + 1]), e[k + 1], e[k - 1]), e[k]),
           head' = (IF k = 1 THEN e[2] ELSE head),
           L!IsList => tail' = IF k = size THEN e[size - 1] ELSE tail
    PROVE  ListInv'
<1> DEFINE f == Removed(e, k)
           A == DOMAIN node
           N0 == L!SetNext(node, e[k - 1], e[k + 1])
           N1 == L!SetPrev(N0, e[k + 1], e[k - 1])
<1>1. /\ e \in Places /\ size \in Nat /\ Len(items) = size
      /\ \A i \in Int : e[i] \in Pointers
      /\ \A i \in Int : e[i] # L!Null <=> 1 <= i /\ i <= size
      /\ \A i, j \in Int : e[i] = e[j] /\ e[i] # L!Null => i = j
      /\ A \subseteq Addresses
      /\ k \in Int /\ 1 <= k /\ k <= size
  BY OfLinked
<1>2. e[k] \in A /\ e[k] # L!Null /\ e[k] \in Addresses
  BY <1>1, OfLinked
<1>3. Placed(f)'
  BY OfLinked, PlacedRemoved
<1>4. f \in Places /\ \A i \in Int : f[i] = IF i < k THEN e[i] ELSE e[i + 1]
  BY <1>1 DEF Removed, Places
<1>5. e[k + 1] \in Pointers /\ e[k - 1] \in Pointers /\ k - 1 \in Int /\ k + 1 \in Int
  BY <1>1
<1>6. /\ N0 \in [A -> Nodes]
      /\ \A z \in A : N0[z] = IF z = e[k - 1] THEN L!NewNode(node[z].value, node[z].prev, e[k + 1])
                              ELSE node[z]
  <2>1. node \in [A -> Nodes]
    BY DEF Linked
  <2> QED BY <1>1, <1>5, <2>1, SetNextIs
<1> HIDE DEF N0
<1>7. /\ N1 \in [A -> Nodes]
      /\ \A z \in A : N1[z] = IF z = e[k + 1] /\ L!IsList
                              THEN L!NewNode(N0[z].value, e[k - 1], N0[z].next) ELSE N0[z]
  BY <1>1, <1>5, <1>6, SetPrevIs
<1> HIDE DEF N1
<1>8. /\ node' \in [A \ {e[k]} -> Nodes]
      /\ \A z \in A \ {e[k]} : node'[z] = N1[z]
  <2>1. node' = L!Without(N1, e[k])
    BY DEF N1, N0
  <2> QED BY <1>7, <2>1 DEF L!Without
<1> HIDE DEF f, A
<1>9. node' \in [DOMAIN node' -> Nodes] /\ DOMAIN node' = A \ {e[k]}
  BY <1>8
<1>10. A \ {e[k]} = {x \in Addresses : \E i \in Int : f[i] = x}
  <2>1. A = {x \in Addresses : \E i \in Int : e[i] = x}
    BY DEF Linked, A
  <2>2. ASSUME NEW i \in Int PROVE f[i] # e[k] /\ \E j \in Int : e[j] = f[i]
    <3>1. CASE i < k
      <4>1. f[i] = e[i]
        BY <1>4, <3>1
      <4>2. i # k
        BY <1>1, <3>1
      <4> QED BY <1>1, <1>2, <4>1, <4>2
    <3>2. CASE ~(i < k)
      <4>1. f[i] = e[i + 1] /\ i + 1 # k /\ i + 1 \in Int
        BY <1>1, <1>4, <3>2
      <4> QED BY <1>1, <1>2, <4>1
    <3> QED BY <3>1, <3>2
  <2>3. ASSUME NEW i \in Int PROVE i = k \/ \E j \in Int : f[j] = e[i]
    <3>1. CASE i < k
      BY <1>4, <3>1
    <3>2. CASE i > k
      <4>1. i - 1 \in Int /\ ~(i - 1 < k) /\ i - 1 + 1 = i
        BY <1>1, <3>2
      <4>2. f[i - 1] = e[i]
        BY <1>4, <4>1
      <4> QED BY <4>1, <4>2
    <3>3. i < k \/ i > k \/ i = k
      BY <1>1
    <3> QED BY <3>1, <3>2, <3>3
  <2> QED BY <2>1, <2>2, <2>3
<1>11. head' = f[1]
  <2>1. head = e[1]
    BY DEF Linked
  <2>2. f[1] = IF 1 < k THEN e[1] ELSE e[2]
    BY <1>4
  <2>3. 1 < k <=> k # 1
    BY <1>1
  <2> QED BY <2>1, <2>2, <2>3
<1>12. L!IsList => tail' = f[size - 1]
  <2>1. L!IsList => tail = e[size]
    BY DEF Linked
  <2>2. size - 1 \in Int /\ size - 1 + 1 = size /\ (size - 1 < k <=> k = size)
    BY <1>1
  <2>3. f[size - 1] = IF size - 1 < k THEN e[size - 1] ELSE e[size - 1 + 1]
    BY <1>4, <2>2
  <2> QED BY <2>1, <2>2, <2>3
<1>13. ASSUME NEW i \in 1 .. size - 1
       PROVE  node'[f[i]] = L!NewNode(items'[i], IF L!IsList THEN f[i - 1] ELSE L!Null, f[i + 1])
  <2>1. items'[i] = IF i < k THEN items[i] ELSE items[i + 1]
    BY <1>1 DEF ItemRemoved
  <2>2. /\ i - 1 \in Int /\ i + 1 \in Int /\ i \in Int
        /\ (i - 1 < k <=> i <= k) /\ (i + 1 < k <=> i < k - 1) /\ i - 1 + 1 = i
    BY <1>1
  <2>3. f[i - 1] = IF i <= k THEN e[i - 1] ELSE e[i]
    BY <1>4, <2>2
  <2>4. f[i + 1] = IF i < k - 1 THEN e[i + 1] ELSE e[i + 1 + 1]
    BY <1>4, <2>2
  <2>5. ASSUME NEW m \in Int, 1 <= m, m <= size, m # k
        PROVE  /\ e[m] \in A \ {e[k]} /\ e[m] \in A
               /\ node[e[m]] = L!NewNode(items[m], IF L!IsList THEN e[m - 1] ELSE L!Null, e[m + 1])
               /\ (e[m] = e[k + 1] <=> m = k + 1) /\ (e[m] = e[k - 1] <=> m = k - 1)
    <3>1. e[m] \in DOMAIN node /\ e[m] # L!Null
      BY <2>5, OfLinked
    <3>2. node[e[m]] = NodeAt(e, m)
      BY <1>1, <2>5 DEF Linked
    <3>3. (e[m] = e[k + 1] <=> m = k + 1) /\ (e[m] = e[k - 1] <=> m = k - 1) /\ e[m] # e[k]
      BY <1>1, <1>5, <2>5, <3>1
    <3> QED BY <3>1, <3>2, <3>3 DEF NodeAt, A
  <2>6. CASE i < k - 1
    <3>1. 1 <= i /\ i <= size /\ i < k /\ i # k /\ i # k - 1 /\ i # k + 1 /\ i <= k
      BY <1>1, <2>6
    <3>2. f[i] = e[i] /\ f[i - 1] = e[i - 1] /\ f[i + 1] = e[i + 1] /\ items'[i] = items[i]
      BY <1>4, <2>1, <2>2, <2>3, <2>4, <2>6, <3>1
    <3>3. /\ e[i] \in A \ {e[k]} /\ e[i] \in A /\ e[i] # e[k + 1] /\ e[i] # e[k - 1]
          /\ node[e[i]] = L!NewNode(items[i], IF L!IsList THEN e[i - 1] ELSE L!Null, e[i + 1])
      BY <2>2, <2>5, <3>1
    <3>4. node'[e[i]] = node[e[i]]
      BY <1>6, <1>7, <1>8, <3>3
    <3> QED BY <3>2, <3>3, <3>4
  <2>7. CASE i = k - 1
    <3>1. 1 <= i /\ i <= size /\ i < k /\ i # k /\ i # k + 1 /\ i <= k /\ ~(i < k - 1) /\ i + 1 + 1 = k + 1
      BY <1>1, <2>7
    <3>2. f[i] = e[i] /\ f[i - 1] = e[i - 1] /\ f[i + 1] = e[k + 1] /\ items'[i] = items[i]
      BY <1>4, <2>1, <2>2, <2>3, <2>4, <3>1
    <3>3. /\ e[i] \in A \ {e[k]} /\ e[i] \in A /\ e[i] # e[k + 1] /\ e[i] = e[k - 1]
          /\ node[e[i]] = L!NewNode(items[i], IF L!IsList THEN e[i - 1] ELSE L!Null, e[i + 1])
      BY <2>2, <2>5, <2>7, <3>1
    <3>4. node'[e[i]] = L!NewNode(node[e[i]].value, node[e[i]].prev, e[k + 1])
      BY <1>6, <1>7, <1>8, <3>3
    <3> QED BY <3>2, <3>3, <3>4 DEF L!NewNode
  <2>8. CASE i = k
    <3>1. 1 <= k + 1 /\ k + 1 <= size /\ k + 1 # k /\ k + 1 # k - 1 /\ ~(i < k) /\ i <= k /\ ~(i < k - 1)
      BY <1>1, <2>8
    <3>2. f[i] = e[k + 1] /\ f[i - 1] = e[k - 1] /\ f[i + 1] = e[k + 1 + 1] /\ items'[i] = items[k + 1]
      BY <1>4, <2>1, <2>2, <2>3, <2>4, <2>8, <3>1
    <3>3. /\ e[k + 1] \in A \ {e[k]} /\ e[k + 1] \in A /\ e[k + 1] # e[k - 1]
          /\ node[e[k + 1]] = L!NewNode(items[k + 1], IF L!IsList THEN e[k + 1 - 1] ELSE L!Null, e[k + 1 + 1])
      BY <1>5, <2>5, <3>1
    <3>4. /\ L!IsList => node'[e[k + 1]] = L!NewNode(node[e[k + 1]].value, e[k - 1], node[e[k + 1]].next)
          /\ ~L!IsList => node'[e[k + 1]] = node[e[k + 1]]
      BY <1>6, <1>7, <1>8, <3>3
    <3> QED BY <3>2, <3>3, <3>4 DEF L!NewNode
  <2>9. CASE i > k
    <3>1. 1 <= i + 1 /\ i + 1 <= size /\ i + 1 # k /\ i + 1 # k - 1 /\ i + 1 # k + 1 /\ ~(i < k) /\ ~(i <= k)
          /\ ~(i < k - 1) /\ i + 1 - 1 = i
      BY <1>1, <2>9
    <3>2. f[i] = e[i + 1] /\ f[i - 1] = e[i] /\ f[i + 1] = e[i + 1 + 1] /\ items'[i] = items[i + 1]
      BY <1>4, <2>1, <2>2, <2>3, <2>4, <3>1
    <3>3. /\ e[i + 1] \in A \ {e[k]} /\ e[i + 1] \in A /\ e[i + 1] # e[k + 1] /\ e[i + 1] # e[k - 1]
          /\ node[e[i + 1]] = L!NewNode(items[i + 1], IF L!IsList THEN e[i + 1 - 1] ELSE L!Null, e[i + 1 + 1])
      BY <2>2, <2>5, <3>1
    <3>4. node'[e[i + 1]] = node[e[i + 1]]
      BY <1>6, <1>7, <1>8, <3>3
    <3> QED BY <3>1, <3>2, <3>3, <3>4
  <2>10. i < k - 1 \/ i = k - 1 \/ i = k \/ i > k
    BY <1>1
  <2> QED BY <2>6, <2>7, <2>8, <2>9, <2>10
<1>14. L!IsList' <=> L!IsList
  BY DEF L!IsList
<1>15. \A i \in 1 .. size' : node'[f[i]] = NodeAt(f, i)'
  BY <1>13, <1>14 DEF NodeAt
<1>16. Linked(f)'
  BY <1>3, <1>9, <1>10, <1>11, <1>12, <1>14, <1>15 DEF Linked
<1> QED BY <1>4, <1>16 DEF ListInv

-----------------------------------------------------------------------------
\* InsertAt of a sequence.
LEMMA InsertAtIs ==
    ASSUME items \in Seq(Values), NEW p \in 1 .. Len(items) + 1, NEW v \in Values,
           items' = L!InsertAt(items, p, v)
    PROVE  ItemInserted(p, v)
<1> DEFINE n == Len(items)
           a == SubSeq(items, 1, p - 1)
           b == SubSeq(items, p, n)
<1>1. n \in Nat /\ p \in Int /\ 1 <= p /\ p <= n + 1 /\ items \in Seq(Values)
  OBVIOUS
<1>2. items' = (a \o <<v>>) \o b
  BY DEF L!InsertAt
<1>3. a \in Seq(Values) /\ Len(a) = p - 1 /\ \A i \in 1 .. p - 1 : a[i] = items[i]
  <2>1. \A i \in 1 .. p - 1 : items[i] \in Values
    BY <1>1, ElementOfSeq
  <2> QED BY <1>1, <2>1, SubSeqProperties
<1>4. /\ b \in Seq(Values) /\ Len(b) = n - p + 1
      /\ \A i \in 1 .. n - p + 1 : b[i] = items[p + i - 1]
  <2>1. \A i \in p .. n : items[i] \in Values
    BY <1>1, ElementOfSeq
  <2> QED BY <1>1, <2>1, SubSeqProperties
<1> HIDE DEF n, a, b
<1>5. /\ a \o <<v>> \in Seq(Values) /\ Len(a \o <<v>>) = p
      /\ \A i \in 1 .. p : (a \o <<v>>)[i] = IF i <= p - 1 THEN a[i] ELSE v
  <2>1. <<v>> \in Seq(Values) /\ Len(<<v>>) = 1 /\ <<v>>[1] = v
    OBVIOUS
  <2>2. /\ a \o <<v>> \in Seq(Values) /\ Len(a \o <<v>>) = Len(a) + Len(<<v>>)
        /\ \A i \in 1 .. Len(a) + Len(<<v>>) :
              (a \o <<v>>)[i] = IF i <= Len(a) THEN a[i] ELSE <<v>>[i - Len(a)]
    BY <1>3, <2>1, ConcatProperties
  <2>3. Len(a) + Len(<<v>>) = p /\ Len(a) = p - 1
    BY <1>1, <1>3, <2>1
  <2>4. ASSUME NEW i \in 1 .. p PROVE (a \o <<v>>)[i] = IF i <= p - 1 THEN a[i] ELSE v
    <3>1. CASE i <= p - 1
      BY <2>2, <2>3, <3>1
    <3>2. CASE ~(i <= p - 1)
      <4>1. i - (p - 1) = 1
        BY <1>1, <3>2
      <4> QED BY <2>1, <2>2, <2>3, <3>2, <4>1
    <3> QED BY <3>1, <3>2
  <2> QED BY <2>2, <2>3, <2>4
<1> DEFINE l == a \o <<v>>
<1>6. l \in Seq(Values) /\ Len(l) = p /\ \A i \in 1 .. p : l[i] = IF i <= p - 1 THEN a[i] ELSE v
  BY <1>5
<1>7. items' = l \o b
  BY <1>2
<1> HIDE DEF l
<1>8. /\ items' \in Seq(Values) /\ Len(items') = n + 1
      /\ \A i \in 1 .. n + 1 : items'[i] = IF i <= p THEN l[i] ELSE b[i - p]
  <2>1. /\ l \o b \in Seq(Values) /\ Len(l \o b) = Len(l) + Len(b)
        /\ \A i \in 1 .. Len(l) + Len(b) :
              (l \o b)[i] = IF i <= Len(l) THEN l[i] ELSE b[i - Len(l)]
    BY <1>4, <1>6, ConcatProperties
  <2>2. Len(l) + Len(b) = n + 1 /\ Len(l) = p
    BY <1>1, <1>4, <1>6
  <2> QED BY <1>7, <2>1, <2>2
<1>9. ASSUME NEW i \in 1 .. n + 1
      PROVE  items'[i] = IF i < p THEN items[i] ELSE IF i = p THEN v ELSE items[i - 1]
  <2>1. CASE i < p
    <3>1. i <= p /\ i <= p - 1 /\ i \in 1 .. p /\ i \in 1 .. p - 1
      BY <1>1, <2>1
    <3> QED BY <1>3, <1>6, <1>8, <2>1, <3>1
  <2>2. CASE i = p
    <3>1. i <= p /\ ~(i <= p - 1) /\ i \in 1 .. p /\ ~(i < p)
      BY <1>1, <2>2
    <3> QED BY <1>6, <1>8, <2>2, <3>1
  <2>3. CASE i > p
    <3>1. ~(i <= p) /\ i - p \in 1 .. n - p + 1 /\ p + (i - p) - 1 = i - 1 /\ ~(i < p) /\ i # p
      BY <1>1, <2>3
    <3>2. b[i - p] = items[p + (i - p) - 1]
      BY <1>4, <3>1
    <3> QED BY <1>8, <3>1, <3>2
  <2>4. i < p \/ i = p \/ i > p
    BY <1>1
  <2> QED BY <2>1, <2>2, <2>3, <2>4
<1> QED BY <1>8, <1>9 DEF ItemInserted, n

\* RemoveAt of a sequence.
LEMMA RemoveAtIs ==
    ASSUME items \in Seq(Values), NEW p \in 1 .. Len(items), items' = L!RemoveAt(items, p)
    PROVE  ItemRemoved(p)
<1> DEFINE n == Len(items)
           a == SubSeq(items, 1, p - 1)
           b == SubSeq(items, p + 1, n)
<1>1. n \in Nat /\ p \in Int /\ 1 <= p /\ p <= n /\ items \in Seq(Values)
  OBVIOUS
<1>2. items' = a \o b
  BY DEF L!RemoveAt
<1>3. a \in Seq(Values) /\ Len(a) = p - 1 /\ \A i \in 1 .. p - 1 : a[i] = items[i]
  <2>1. \A i \in 1 .. p - 1 : items[i] \in Values
    BY <1>1, ElementOfSeq
  <2> QED BY <1>1, <2>1, SubSeqProperties
<1>4. b \in Seq(Values) /\ Len(b) = n - p /\ \A i \in 1 .. n - p : b[i] = items[p + i]
  <2>1. \A i \in p + 1 .. n : items[i] \in Values
    BY <1>1, ElementOfSeq
  <2> QED BY <1>1, <2>1, SubSeqProperties
<1> HIDE DEF n, a, b
<1>5. /\ items' \in Seq(Values) /\ Len(items') = n - 1
      /\ \A i \in 1 .. n - 1 : items'[i] = IF i <= p - 1 THEN a[i] ELSE b[i - (p - 1)]
  <2>1. /\ a \o b \in Seq(Values) /\ Len(a \o b) = Len(a) + Len(b)
        /\ \A i \in 1 .. Len(a) + Len(b) :
              (a \o b)[i] = IF i <= Len(a) THEN a[i] ELSE b[i - Len(a)]
    BY <1>3, <1>4, ConcatProperties
  <2>2. Len(a) + Len(b) = n - 1 /\ Len(a) = p - 1
    BY <1>1, <1>3, <1>4
  <2> QED BY <1>2, <2>1, <2>2
<1>6. ASSUME NEW i \in 1 .. n - 1 PROVE items'[i] = IF i < p THEN items[i] ELSE items[i + 1]
  <2>1. CASE i < p
    BY <1>1, <1>3, <1>5, <2>1
  <2>2. CASE ~(i < p)
    <3>1. i - (p - 1) \in 1 .. n - p /\ ~(i <= p - 1) /\ p + (i - (p - 1)) = i + 1
      BY <1>1, <2>2
    <3>2. b[i - (p - 1)] = items[p + (i - (p - 1))]
      BY <1>4, <3>1
    <3> QED BY <1>5, <2>2, <3>1, <3>2
  <2> QED BY <2>1, <2>2
<1> QED BY <1>5, <1>6 DEF ItemRemoved, n

\* The ends of a sequence.
LEMMA ItemsAtEnds ==
    ASSUME items \in Seq(Values)
    PROVE  /\ \A v \in Values : items' = Append(items, v) => ItemInserted(Len(items) + 1, v)
           /\ \A v \in Values : items' = <<v>> \o items => ItemInserted(1, v)
           /\ items # <<>> /\ items' = L!Front(items) => ItemRemoved(Len(items))
           /\ items # <<>> /\ items' = Tail(items) => ItemRemoved(1)
<1>1. Len(items) \in Nat
  OBVIOUS
<1>2. ASSUME NEW v \in Values, items' = Append(items, v) PROVE ItemInserted(Len(items) + 1, v)
  <2>1. /\ items' \in Seq(Values) /\ Len(items') = Len(items) + 1
        /\ items'[Len(items) + 1] = v /\ \A i \in 1 .. Len(items) : items'[i] = items[i]
    BY <1>2, AppendProperties
  <2>2. ASSUME NEW i \in 1 .. Len(items) + 1
        PROVE  items'[i] = IF i < Len(items) + 1 THEN items[i]
                           ELSE IF i = Len(items) + 1 THEN v ELSE items[i - 1]
    BY <1>1, <2>1
  <2> QED BY <2>1, <2>2 DEF ItemInserted
<1>3. ASSUME NEW v \in Values, items' = <<v>> \o items PROVE ItemInserted(1, v)
  <2>1. <<v>> \in Seq(Values) /\ Len(<<v>>) = 1 /\ <<v>>[1] = v
    OBVIOUS
  <2>2. /\ <<v>> \o items \in Seq(Values) /\ Len(<<v>> \o items) = 1 + Len(items)
        /\ \A i \in 1 .. 1 + Len(items) :
              (<<v>> \o items)[i] = IF i <= 1 THEN <<v>>[i] ELSE items[i - 1]
    BY <2>1, ConcatProperties
  <2>3. Len(items') = Len(items) + 1 /\ items' \in Seq(Values)
    BY <1>1, <1>3, <2>2
  <2>4. ASSUME NEW i \in 1 .. Len(items) + 1
        PROVE  items'[i] = IF i < 1 THEN items[i] ELSE IF i = 1 THEN v ELSE items[i - 1]
    <3>1. i \in 1 .. 1 + Len(items) /\ ~(i < 1) /\ (i <= 1 <=> i = 1)
      BY <1>1
    <3> QED BY <1>3, <2>1, <2>2, <3>1
  <2> QED BY <2>3, <2>4 DEF ItemInserted
<1>4. ASSUME items # <<>>, items' = L!Front(items) PROVE ItemRemoved(Len(items))
  <2>1. Len(items) # 0
    BY <1>4, EmptySeq
  <2>2. /\ SubSeq(items, 1, Len(items) - 1) \in Seq(Values)
        /\ Len(SubSeq(items, 1, Len(items) - 1)) = Len(items) - 1
        /\ \A i \in 1 .. Len(items) - 1 : SubSeq(items, 1, Len(items) - 1)[i] = items[i]
    <3>1. \A i \in 1 .. Len(items) - 1 : items[i] \in Values
      BY <1>1, ElementOfSeq
    <3>2. Len(items) - 1 \in Int /\ Len(items) - 1 >= 0 /\ 1 \in Int
      BY <1>1, <2>1
    <3>3. /\ SubSeq(items, 1, Len(items) - 1) \in Seq(Values)
          /\ Len(SubSeq(items, 1, Len(items) - 1))
                 = IF 1 <= Len(items) - 1 THEN Len(items) - 1 - 1 + 1 ELSE 0
          /\ \A i \in 1 .. Len(items) - 1 - 1 + 1 :
                SubSeq(items, 1, Len(items) - 1)[i] = items[1 + i - 1]
      BY <3>1, <3>2, SubSeqProperties
    <3>4. Len(items) - 1 - 1 + 1 = Len(items) - 1 /\ \A i \in 1 .. Len(items) - 1 : 1 + i - 1 = i
      BY <1>1
    <3>5. Len(SubSeq(items, 1, Len(items) - 1)) = Len(items) - 1
      BY <3>2, <3>3, <3>4
    <3>6. \A i \in 1 .. Len(items) - 1 : SubSeq(items, 1, Len(items) - 1)[i] = items[i]
      BY <3>3, <3>4
    <3> QED BY <3>3, <3>5, <3>6
  <2>3. items' = SubSeq(items, 1, Len(items) - 1)
    BY <1>4 DEF L!Front
  <2>4. \A i \in 1 .. Len(items) - 1 : i < Len(items)
    BY <1>1
  <2> QED BY <2>2, <2>3, <2>4 DEF ItemRemoved
<1>5. ASSUME items # <<>>, items' = Tail(items) PROVE ItemRemoved(1)
  <2>1. /\ items' \in Seq(Values) /\ Len(items') = Len(items) - 1
        /\ \A i \in 1 .. Len(items) - 1 : items'[i] = items[i + 1]
    BY <1>5, HeadTailProperties
  <2>2. \A i \in 1 .. Len(items) - 1 : ~(i < 1)
    BY <1>1
  <2> QED BY <2>1, <2>2 DEF ItemRemoved
<1> QED BY <1>2, <1>3, <1>4, <1>5

-----------------------------------------------------------------------------
\* Following next from head one gets the list, and then null.
LEMMA WalkIs ==
    ASSUME NEW e, Linked(e)
    PROVE  \A i \in Nat : L!Walk[i] = e[i + 1]
<1> DEFINE g == [i \in Nat |-> e[i + 1]]
<1>1. ASSUME NEW i \in Nat
      PROVE  g[i] = IF i = 0 THEN head
                    ELSE IF g[i - 1] \in L!Allocated THEN node[g[i - 1]].next ELSE L!Null
  <2>1. CASE i = 0
    BY <2>1 DEF Linked
  <2>2. CASE i # 0
    <3>1. i - 1 \in Nat /\ i - 1 + 1 = i /\ i \in Int /\ i + 1 \in Int /\ 1 <= i /\ size \in Nat
      BY <2>2, OfLinked
    <3>2. g[i - 1] = e[i] /\ g[i] = e[i + 1]
      BY <3>1
    <3>3. e[i] \in L!Allocated <=> i <= size
      BY <3>1, OfLinked DEF L!Allocated
    <3>4. CASE i <= size
      <4>1. node[e[i]] = NodeAt(e, i)
        BY <3>1, <3>4 DEF Linked
      <4>2. node[e[i]].next = e[i + 1]
        BY <4>1 DEF NodeAt, L!NewNode
      <4> QED BY <2>2, <3>2, <3>3, <3>4, <4>2
    <3>5. CASE ~(i <= size)
      <4>1. ~(i + 1 <= size)
        BY <3>1, <3>5
      <4>2. e[i + 1] = L!Null
        BY <3>1, <4>1, OfLinked
      <4> QED BY <2>2, <3>2, <3>3, <3>5, <4>2
    <3> QED BY <3>4, <3>5
  <2> QED BY <2>1, <2>2
<1>2. g = [i \in Nat |-> IF i = 0 THEN head
                         ELSE IF g[i - 1] \in L!Allocated THEN node[g[i - 1]].next ELSE L!Null]
  BY <1>1
<1>3. \A i \in Nat : g[i] = e[i + 1]
  OBVIOUS
<1> HIDE DEF g
<1>4. L!Walk = [i \in Nat |-> IF i = 0 THEN head
                ELSE IF L!Walk[i - 1] \in L!Allocated THEN node[L!Walk[i - 1]].next ELSE L!Null]
  BY <1>2, Zenon DEF L!Walk
<1>5. \A i \in Nat : L!Walk[i] = g[i]
  <2>1. SUFFICES ASSUME {i \in Nat : L!Walk[i] # g[i]} # {} PROVE FALSE
    OBVIOUS
  <2>2. PICK i \in Nat : L!Walk[i] # g[i] /\ \A j \in Nat : L!Walk[j] # g[j] => i <= j
    <3>1. {i \in Nat : L!Walk[i] # g[i]} \in SUBSET Nat
      OBVIOUS
    <3> QED BY <2>1, <3>1, LeastOf
  <2>3. CASE i = 0
    <3>1. L!Walk[i] = head
      BY <1>4, <2>3
    <3>2. g[i] = head
      BY <1>1, <2>3
    <3> QED BY <2>2, <3>1, <3>2
  <2>4. CASE i # 0
    <3>1. i - 1 \in Nat /\ ~(i <= i - 1)
      BY <2>4
    <3>2. L!Walk[i - 1] = g[i - 1]
      BY <2>2, <3>1
    <3>3. L!Walk[i] = IF L!Walk[i - 1] \in L!Allocated THEN node[L!Walk[i - 1]].next ELSE L!Null
      BY <1>4, <2>4
    <3>4. g[i] = IF g[i - 1] \in L!Allocated THEN node[g[i - 1]].next ELSE L!Null
      BY <1>1, <2>4
    <3> QED BY <2>2, <3>2, <3>3, <3>4
  <2> QED BY <2>3, <2>4
<1> QED BY <1>3, <1>5

\* Where a node of the list is.
LEMMA PlaceIs ==
    ASSUME NEW e, Linked(e), NEW i \in 1 .. size
    PROVE  L!Place(e[i]) = i
<1>1. /\ size \in Nat /\ Len(items) = size /\ i \in Int /\ 1 <= i /\ i <= size
      /\ \A p, q \in Int : e[p] = e[q] /\ e[p] # L!Null => p = q
      /\ e[i] # L!Null
  BY OfLinked
<1>2. ASSUME NEW p \in 1 .. size PROVE L!Walk[p - 1] = e[p]
  <2>1. p - 1 \in Nat /\ p - 1 + 1 = p
    BY <1>1
  <2> QED BY <2>1, WalkIs
<1>3. \A p \in 1 .. size : L!Walk[p - 1] = e[i] <=> p = i
  BY <1>1, <1>2
<1> QED BY <1>1, <1>3 DEF L!Place

\* The list counts its nodes as FiniteSets counts.
LEMMA ListCardinality == \A X : L!Cardinality(X) = Cardinality(X)
  BY DEF L!Cardinality, Cardinality

\* As many nodes are allocated as the list has.
LEMMA AllocatedCount ==
    ASSUME NEW e, Linked(e)
    PROVE  L!Cardinality(L!Allocated) = size
<1>1. /\ size \in Nat
      /\ \A p, q \in Int : e[p] = e[q] /\ e[p] # L!Null => p = q
      /\ \A p \in Int : e[p] # L!Null <=> 1 <= p /\ p <= size
      /\ \A p \in Int : e[p] \in DOMAIN node <=> 1 <= p /\ p <= size
      /\ DOMAIN node = {x \in Addresses : \E p \in Int : e[p] = x}
  BY OfLinked DEF Linked
<1> DEFINE g == [i \in 1 .. size |-> e[i]]
<1>2. g \in [1 .. size -> DOMAIN node]
  BY <1>1
<1>3. \A i, j \in 1 .. size : g[i] = g[j] => i = j
  BY <1>1
<1>4. \A x \in DOMAIN node : \E i \in 1 .. size : g[i] = x
  <2> SUFFICES ASSUME NEW x \in DOMAIN node PROVE \E i \in 1 .. size : e[i] = x
    OBVIOUS
  <2>1. PICK p \in Int : e[p] = x
    BY <1>1
  <2>2. p \in 1 .. size
    BY <1>1, <2>1
  <2> QED BY <2>1, <2>2
<1> HIDE DEF g
<1>5. g \in Bijection(1 .. size, DOMAIN node)
  BY <1>2, <1>3, <1>4, Fun_IsBij
<1>6. IsFiniteSet(1 .. size) /\ Cardinality(1 .. size) = size
  BY <1>1, FS_Interval
<1>7. Cardinality(DOMAIN node) = size
  BY <1>5, <1>6, FS_Bijection DEF ExistsBijection
<1> QED BY <1>7, ListCardinality DEF L!Allocated

\* The list is the one it should be.
LEMMA ListIs == ListInv => L!IsSequence
<1> SUFFICES ASSUME NEW e \in Places, Linked(e) PROVE L!IsSequence
  BY DEF ListInv
<1>1. /\ size \in Nat /\ items \in Seq(Values) /\ Len(items) = size /\ DOMAIN items = 1 .. size
      /\ \A p \in Int : e[p] # L!Null <=> 1 <= p /\ p <= size
      /\ \A p \in Int : e[p] \in DOMAIN node <=> 1 <= p /\ p <= size
  BY OfLinked
<1>2. L!Walk[Len(items)] = L!Null
  <2>1. L!Walk[size] = e[size + 1] /\ size + 1 \in Int /\ ~(size + 1 <= size)
    BY <1>1, WalkIs
  <2> QED BY <1>1, <2>1
<1>3. ASSUME NEW i \in DOMAIN items
      PROVE  /\ L!Walk[i - 1] \in L!Allocated
             /\ node[L!Walk[i - 1]].value = items[i]
             /\ L!IsList => node[L!Walk[i - 1]].prev = IF i = 1 THEN L!Null ELSE L!Walk[i - 2]
  <2>1. i \in 1 .. size /\ i - 1 \in Nat /\ i - 1 + 1 = i /\ i \in Int
    BY <1>1
  <2>2. L!Walk[i - 1] = e[i]
    BY <2>1, WalkIs
  <2>3. node[e[i]] = NodeAt(e, i)
    BY <2>1 DEF Linked
  <2>4. e[i] \in L!Allocated
    BY <1>1, <2>1 DEF L!Allocated
  <2>5. node[e[i]].value = items[i] /\ (L!IsList => node[e[i]].prev = e[i - 1])
    BY <2>3 DEF NodeAt, L!NewNode
  <2>6. e[i - 1] = IF i = 1 THEN L!Null ELSE L!Walk[i - 2]
    <3>1. CASE i = 1
      <4>1. ~(1 <= i - 1) /\ i - 1 \in Int
        BY <3>1
      <4> QED BY <1>1, <3>1, <4>1
    <3>2. CASE i # 1
      <4>1. i - 2 \in Nat /\ i - 2 + 1 = i - 1
        BY <2>1, <3>2
      <4> QED BY <3>2, <4>1, WalkIs
    <3> QED BY <3>1, <3>2
  <2> QED BY <2>2, <2>4, <2>5, <2>6
<1>4. L!IsList => tail = IF items = <<>> THEN L!Null ELSE L!Walk[Len(items) - 1]
  <2> SUFFICES ASSUME L!IsList PROVE tail = IF items = <<>> THEN L!Null ELSE L!Walk[Len(items) - 1]
    OBVIOUS
  <2>1. tail = e[size]
    BY DEF Linked
  <2>2. CASE items = <<>>
    <3>1. size = 0 /\ 0 \in Int /\ ~(1 <= 0)
      BY <1>1, <2>2
    <3> QED BY <1>1, <2>1, <2>2, <3>1
  <2>3. CASE items # <<>>
    <3>1. size # 0
      BY <1>1, <2>3, EmptySeq
    <3>2. size - 1 \in Nat /\ size - 1 + 1 = size
      BY <1>1, <3>1
    <3> QED BY <1>1, <2>1, <2>3, <3>2, WalkIs
  <2> QED BY <2>2, <2>3
<1>5. size = Len(items) /\ L!Cardinality(L!Allocated) = Len(items)
  BY <1>1, AllocatedCount
<1> QED BY <1>2, <1>3, <1>4, <1>5 DEF L!IsSequence

-----------------------------------------------------------------------------
\* A list without nodes.
LEMMA ListEmptied ==
    ASSUME items' = <<>>, size' = 0, DOMAIN node' = {}, node' = [x \in {} |-> 0],
           head' = L!Null, L!IsList' => tail' = L!Null
    PROVE  ListInv'
<1> DEFINE f == [i \in Int |-> L!Null]
<1>1. f \in Places /\ \A i \in Int : f[i] = L!Null
  BY DEF Places
<1> HIDE DEF f
<1>2. items' \in Seq(Values) /\ Len(items') = size' /\ size' \in Nat
  BY EmptySeq
<1>3. \A i \in Int : ~(1 <= i /\ i <= size')
  OBVIOUS
<1>4. Placed(f)'
  BY <1>1, <1>2, <1>3 DEF Placed
<1>5. node' \in [DOMAIN node' -> Nodes]
  OBVIOUS
<1>6. DOMAIN node' = {x \in Addresses : \E i \in Int : f[i] = x}
  BY <1>1, NullIsNone
<1>7. head' = f[1] /\ (L!IsList' => tail' = f[size'])
  BY <1>1, <1>2
<1>8. \A i \in 1 .. size' : FALSE
  BY <1>3
<1>9. Linked(f)'
  BY <1>4, <1>5, <1>6, <1>7, <1>8 DEF Linked
<1> QED BY <1>1, <1>9 DEF ListInv

\* A list starts empty.
LEMMA ListInit == L!New => ListInv
<1> SUFFICES ASSUME L!New PROVE ListInv
  OBVIOUS
<1> DEFINE f == [i \in Int |-> L!Null]
<1>1. f \in Places /\ \A i \in Int : f[i] = L!Null
  BY DEF Places
<1> HIDE DEF f
<1>2. head = L!Null /\ tail = L!Null /\ size = 0 /\ node = <<>> /\ items = <<>>
  BY DEF L!New
<1>3. items \in Seq(Values) /\ Len(items) = size /\ size \in Nat
  BY <1>2, EmptySeq
<1>4. \A i \in Int : ~(1 <= i /\ i <= size)
  BY <1>2
<1>5. Placed(f)
  BY <1>1, <1>3, <1>4 DEF Placed
<1>6. DOMAIN node = {} /\ node \in [DOMAIN node -> Nodes]
  BY <1>2
<1>7. DOMAIN node = {x \in Addresses : \E i \in Int : f[i] = x}
  BY <1>1, <1>6, NullIsNone
<1>8. head = f[1] /\ tail = f[size]
  BY <1>1, <1>2, <1>3
<1>9. \A i \in 1 .. size : FALSE
  BY <1>4
<1>10. Linked(f)
  BY <1>5, <1>6, <1>7, <1>8, <1>9 DEF Linked
<1> QED BY <1>1, <1>10 DEF ListInv

\* clear.
LEMMA ListClear ==
    ASSUME ListInv, L!Clear
    PROVE  ListInv'
<1>1. PICK e \in Places : Linked(e)
  BY DEF ListInv
<1>2. /\ head' = L!Null /\ tail' = L!Null /\ size' = 0 /\ items' = <<>>
      /\ node' = [a \in L!Allocated \ {L!Walk[i] : i \in 0 .. L!Cardinality(L!Allocated)} |-> node[a]]
  BY DEF L!Clear
<1>3. L!Cardinality(L!Allocated) = size /\ size \in Nat
  BY <1>1, AllocatedCount, OfLinked
<1>4. L!Allocated \ {L!Walk[i] : i \in 0 .. size} = {}
  <2> SUFFICES ASSUME NEW x \in L!Allocated PROVE \E i \in 0 .. size : L!Walk[i] = x
    OBVIOUS
  <2>1. PICK p \in Int : e[p] = x
    BY <1>1 DEF Linked, L!Allocated
  <2>2. 1 <= p /\ p <= size
    BY <1>1, <2>1, OfLinked DEF L!Allocated
  <2>3. p - 1 \in 0 .. size /\ p - 1 \in Nat /\ p - 1 + 1 = p
    BY <1>3, <2>2
  <2>4. L!Walk[p - 1] = e[p]
    BY <1>1, <2>3, WalkIs
  <2> QED BY <2>1, <2>3, <2>4
<1>5. node' = [a \in {} |-> node[a]]
  BY <1>2, <1>3, <1>4
<1>6. DOMAIN node' = {} /\ node' = [x \in {} |-> 0]
  BY <1>5
<1> QED BY <1>2, <1>6, ListEmptied

\* push_back.
LEMMA ListPushBack ==
    ASSUME ListInv, kind' = kind, NEW v \in Values, NEW a \in Addresses, L!PushBack(v, a)
    PROVE  ListInv'
<1>1. PICK e \in Places : Linked(e)
  BY DEF ListInv
<1>2. /\ L!IsList /\ a \notin DOMAIN node
      /\ node' = L!SetNext(L!With(node, a, L!NewNode(v, tail, L!Null)), tail, a)
      /\ head' = (IF size = 0 THEN a ELSE head) /\ tail' = a
      /\ size' = size + 1 /\ items' = Append(items, v)
  BY DEF L!PushBack, L!Allocated
<1>3. /\ size \in Nat /\ items \in Seq(Values) /\ Len(items) = size /\ head = e[1] /\ tail = e[size]
  BY <1>1, <1>2, OfLinked DEF Linked
<1> DEFINE k == size + 1
<1>4. k \in 1 .. size + 1 /\ k \in Int /\ k - 1 = size /\ (k = 1 <=> size = 0) /\ ~(k <= size) /\ k = size + 1
  BY <1>3
<1>5. ItemInserted(k, v)
  BY <1>2, <1>3, ItemsAtEnds
<1> HIDE DEF k
<1>6. e[k] = L!Null /\ e[k - 1] = tail
  BY <1>1, <1>3, <1>4, OfLinked
<1>7. node' = L!SetNext(L!SetPrev(L!With(node, a, L!NewNode(v,
                        IF L!IsList THEN e[k - 1] ELSE L!Null, e[k])), e[k], a), e[k - 1], a)
  BY <1>2, <1>6 DEF L!SetPrev
<1>8. head' = (IF k = 1 THEN a ELSE head) /\ (L!IsList => tail' = IF k = size + 1 THEN a ELSE tail)
  BY <1>2, <1>4
<1> QED BY <1>1, <1>2, <1>4, <1>5, <1>7, <1>8, LinkInserted

\* push_front.
LEMMA ListPushFront ==
    ASSUME ListInv, kind' = kind, NEW v \in Values, NEW a \in Addresses, L!PushFront(v, a)
    PROVE  ListInv'
<1>1. PICK e \in Places : Linked(e)
  BY DEF ListInv
<1>2. /\ a \notin DOMAIN node
      /\ node' = L!SetPrev(L!With(node, a, L!NewNode(v, L!Null, head)), head, a)
      /\ head' = a /\ tail' = (IF L!IsList /\ size = 0 THEN a ELSE tail)
      /\ size' = size + 1 /\ items' = <<v>> \o items
  BY DEF L!PushFront, L!Allocated
<1>3. /\ size \in Nat /\ items \in Seq(Values) /\ Len(items) = size /\ head = e[1]
  BY <1>1, <1>2, OfLinked DEF Linked
<1> DEFINE k == 1
<1>4. k \in 1 .. size + 1 /\ k - 1 = 0 /\ (k = size + 1 <=> size = 0) /\ k = 1
  BY <1>3
<1>5. ItemInserted(k, v)
  BY <1>2, <1>3, ItemsAtEnds
<1> HIDE DEF k
<1>6. e[k] = head /\ e[k - 1] = L!Null
  <2>1. 0 \in Int /\ ~(1 <= 0)
    OBVIOUS
  <2>2. e[0] = L!Null
    BY <1>1, <2>1, OfLinked
  <2> QED BY <1>3, <1>4, <2>2
<1>7. node' = L!SetNext(L!SetPrev(L!With(node, a, L!NewNode(v,
                        IF L!IsList THEN e[k - 1] ELSE L!Null, e[k])), e[k], a), e[k - 1], a)
  BY <1>2, <1>6 DEF L!SetNext
<1>8. head' = (IF k = 1 THEN a ELSE head) /\ (L!IsList => tail' = IF k = size + 1 THEN a ELSE tail)
  BY <1>2, <1>4
<1> QED BY <1>1, <1>2, <1>4, <1>5, <1>7, <1>8, LinkInserted

\* A node that a pointer can be to.
LEMMA AllocatedIs ==
    ASSUME NEW e, Linked(e), NEW n \in L!Allocated
    PROVE  \E i \in 1 .. size : n = e[i]
<1>1. PICK i \in Int : e[i] = n
  BY DEF Linked, L!Allocated
<1>2. 1 <= i /\ i <= size /\ size \in Nat
  BY <1>1, OfLinked DEF L!Allocated
<1> QED BY <1>1, <1>2

\* insert_after.
LEMMA ListInsertAfter ==
    ASSUME ListInv, kind' = kind, NEW v \in Values, NEW a \in Addresses, NEW n, L!InsertAfter(n, v, a)
    PROVE  ListInv'
<1>1. PICK e \in Places : Linked(e)
  BY DEF ListInv
<1>2. /\ n \in L!Allocated /\ a \notin DOMAIN node
      /\ node' = L!SetNext(L!SetPrev(L!With(node, a, L!NewNode(v,
                     IF L!IsList THEN n ELSE L!Null, node[n].next)), node[n].next, a), n, a)
      /\ tail' = (IF n = tail THEN a ELSE tail) /\ head' = head
      /\ size' = size + 1 /\ items' = L!InsertAt(items, L!Place(n) + 1, v)
  BY DEF L!InsertAfter, L!Allocated, L!TailAfter
<1>3. PICK i \in 1 .. size : n = e[i]
  BY <1>1, <1>2, AllocatedIs
<1>4. /\ size \in Nat /\ items \in Seq(Values) /\ Len(items) = size /\ (L!IsList => tail = e[size])
      /\ node[e[i]] = NodeAt(e, i) /\ L!Place(n) = i
      /\ \A p, q \in Int : e[p] = e[q] /\ e[p] # L!Null => p = q
      /\ \A p \in Int : e[p] # L!Null <=> 1 <= p /\ p <= size
  BY <1>1, <1>3, OfLinked, PlaceIs DEF Linked
<1> DEFINE k == i + 1
<1>5. /\ k \in 1 .. size + 1 /\ k - 1 = i /\ k # 1 /\ (k = size + 1 <=> i = size) /\ k = i + 1
      /\ k \in 1 .. Len(items) + 1
  BY <1>4
<1>6. ItemInserted(k, v)
  BY <1>2, <1>4, <1>5, InsertAtIs
<1> HIDE DEF k
<1>7. node[n].next = e[k]
  BY <1>3, <1>4, <1>5 DEF NodeAt, L!NewNode
<1>8. e[k - 1] = n
  BY <1>3, <1>5
<1>9. node' = L!SetNext(L!SetPrev(L!With(node, a, L!NewNode(v,
                        IF L!IsList THEN e[k - 1] ELSE L!Null, e[k])), e[k], a), e[k - 1], a)
  BY <1>2, <1>7, <1>8
<1>10. head' = (IF k = 1 THEN a ELSE head) /\ (L!IsList => tail' = IF k = size + 1 THEN a ELSE tail)
  <2>1. e[i] = e[size] <=> i = size
    BY <1>4
  <2> QED BY <1>2, <1>3, <1>4, <1>5, <2>1
<1> QED BY <1>1, <1>2, <1>5, <1>6, <1>9, <1>10, LinkInserted

\* What an operation that removes a node can use.
LEMMA AtPlace ==
    ASSUME NEW e, Linked(e), NEW k \in 1 .. size
    PROVE  /\ size \in Nat /\ items \in Seq(Values) /\ Len(items) = size /\ head = e[1]
           /\ (L!IsList => tail = e[size]) /\ k \in Int /\ 1 <= k /\ k <= size
           /\ \A p, q \in Int : e[p] = e[q] /\ e[p] # L!Null => p = q
           /\ \A p \in Int : e[p] # L!Null <=> 1 <= p /\ p <= size
           /\ node[e[k]].next = e[k + 1] /\ (L!IsList => node[e[k]].prev = e[k - 1])
           /\ e[0] = L!Null /\ e[size + 1] = L!Null /\ items # <<>>
<1>1. /\ size \in Nat /\ items \in Seq(Values) /\ Len(items) = size /\ head = e[1]
      /\ (L!IsList => tail = e[size]) /\ k \in Int /\ 1 <= k /\ k <= size
      /\ \A p, q \in Int : e[p] = e[q] /\ e[p] # L!Null => p = q
      /\ \A p \in Int : e[p] # L!Null <=> 1 <= p /\ p <= size
  BY OfLinked DEF Linked
<1>2. node[e[k]] = NodeAt(e, k)
  BY DEF Linked
<1>3. node[e[k]].next = e[k + 1] /\ (L!IsList => node[e[k]].prev = e[k - 1])
  BY <1>2 DEF NodeAt, L!NewNode
<1>4. e[0] = L!Null /\ e[size + 1] = L!Null
  BY <1>1
<1>5. items # <<>>
  <2>1. Len(items) # 0
    BY <1>1
  <2> QED BY <2>1, EmptySeq
<1> QED BY <1>1, <1>3, <1>4, <1>5

\* pop_front of a list that is not empty.
LEMMA ListRemoveFirst ==
    ASSUME ListInv, kind' = kind, size > 0, L!RemoveFirstNode
    PROVE  ListInv'
<1>1. PICK e \in Places : Linked(e)
  BY DEF ListInv
<1>2. /\ head' = node[head].next /\ tail' = (IF head = tail THEN L!Null ELSE tail)
      /\ node' = L!Without(L!SetPrev(node, node[head].next, L!Null), head)
      /\ size' = size - 1 /\ items' = Tail(items)
  BY DEF L!RemoveFirstNode
<1> DEFINE k == 1
<1>3. size \in Nat
  BY <1>1, OfLinked
<1>4. k \in 1 .. size /\ k = 1 /\ k - 1 = 0 /\ k + 1 = 2 /\ size \in Int
  BY <1>3
<1> HIDE DEF k
<1>5. /\ items \in Seq(Values) /\ items # <<>> /\ head = e[1] /\ (L!IsList => tail = e[size])
      /\ \A p, q \in Int : e[p] = e[q] /\ e[p] # L!Null => p = q
      /\ node[e[k]].next = e[k + 1] /\ e[0] = L!Null /\ e[k] # L!Null
  BY <1>1, <1>4, AtPlace
<1>6. ItemRemoved(k)
  BY <1>2, <1>4, <1>5, ItemsAtEnds
<1>7. node' = L!Without(L!SetPrev(L!SetNext(node, e[k - 1], e[k + 1]), e[k + 1], e[k - 1]), e[k])
  <2>1. L!SetNext(node, e[k - 1], e[k + 1]) = node
    BY <1>4, <1>5 DEF L!SetNext
  <2> QED BY <1>2, <1>4, <1>5, <2>1
<1>8. head' = (IF k = 1 THEN e[2] ELSE head)
  BY <1>2, <1>4, <1>5
<1>9. L!IsList => tail' = IF k = size THEN e[size - 1] ELSE tail
  <2> SUFFICES ASSUME L!IsList PROVE tail' = IF k = size THEN e[size - 1] ELSE tail
    OBVIOUS
  <2>1. head = tail <=> k = size
    BY <1>4, <1>5
  <2>2. CASE k = size
    <3>1. size - 1 = 0
      BY <1>4, <2>2
    <3> QED BY <1>2, <1>5, <2>1, <2>2, <3>1
  <2>3. CASE k # size
    BY <1>2, <2>1, <2>3
  <2> QED BY <2>2, <2>3
<1> QED BY <1>1, <1>2, <1>4, <1>6, <1>7, <1>8, <1>9, LinkRemoved

\* pop_back of a List that is not empty.
LEMMA ListRemoveLast ==
    ASSUME ListInv, kind' = kind, L!IsList, size > 0, L!RemoveLast
    PROVE  ListInv'
<1>1. PICK e \in Places : Linked(e)
  BY DEF ListInv
<1>2. /\ head' = (IF head = tail THEN L!Null ELSE head)
      /\ tail' = (IF head = tail THEN L!Null ELSE node[tail].prev)
      /\ node' = L!Without(IF head = tail THEN node ELSE L!SetNext(node, node[tail].prev, L!Null), tail)
      /\ size' = size - 1 /\ items' = L!Front(items)
  BY DEF L!RemoveLast
<1> DEFINE k == size
<1>3. size \in Nat
  BY <1>1, OfLinked
<1>4. k \in 1 .. size /\ k = size /\ k \in Int /\ (k = 1 => k - 1 = 0)
  BY <1>3
<1>5. /\ items \in Seq(Values) /\ items # <<>> /\ Len(items) = size /\ head = e[1] /\ tail = e[size]
      /\ \A p, q \in Int : e[p] = e[q] /\ e[p] # L!Null => p = q
      /\ node[e[k]].prev = e[k - 1] /\ e[0] = L!Null /\ e[k] # L!Null /\ e[size + 1] = L!Null
      /\ \A p \in Int : e[p] # L!Null <=> 1 <= p /\ p <= size
  BY <1>1, <1>4, AtPlace
<1>6. ItemRemoved(k)
  BY <1>2, <1>5, ItemsAtEnds
<1>7. e[k + 1] = L!Null /\ tail = e[k]
  BY <1>5
<1> HIDE DEF k
<1>8. head = tail <=> k = 1
  BY <1>4, <1>5, <1>7
<1>9. node' = L!Without(L!SetPrev(L!SetNext(node, e[k - 1], e[k + 1]), e[k + 1], e[k - 1]), e[k])
  <2>1. CASE k = 1
    <3>1. L!SetNext(node, e[k - 1], e[k + 1]) = node
      BY <1>4, <1>5, <2>1 DEF L!SetNext
    <3>2. L!SetPrev(node, e[k + 1], e[k - 1]) = node
      BY <1>7 DEF L!SetPrev
    <3> QED BY <1>2, <1>7, <1>8, <2>1, <3>1, <3>2
  <2>2. CASE k # 1
    <3>1. node' = L!Without(L!SetNext(node, e[k - 1], e[k + 1]), e[k])
      BY <1>2, <1>5, <1>7, <1>8, <2>2
    <3>2. L!SetPrev(L!SetNext(node, e[k - 1], e[k + 1]), e[k + 1], e[k - 1])
             = L!SetNext(node, e[k - 1], e[k + 1])
      BY <1>7 DEF L!SetPrev
    <3> QED BY <3>1, <3>2
  <2> QED BY <2>1, <2>2
<1>10. head' = (IF k = 1 THEN e[2] ELSE head)
  <2>1. k = 1 => e[2] = L!Null
    <3> SUFFICES ASSUME k = 1 PROVE e[2] = L!Null
      OBVIOUS
    <3>1. ~(2 <= size)
      BY <1>4
    <3> QED BY <1>5, <3>1
  <2> QED BY <1>2, <1>8, <2>1
<1>11. tail' = IF k = size THEN e[size - 1] ELSE tail
  <2>1. CASE k = 1
    <3>1. size - 1 = 0
      BY <1>4, <2>1
    <3> QED BY <1>2, <1>4, <1>5, <1>8, <2>1, <3>1
  <2>2. CASE k # 1
    <3>1. tail' = e[k - 1]
      BY <1>2, <1>5, <1>7, <1>8, <2>2
    <3> QED BY <1>4, <3>1
  <2> QED BY <2>1, <2>2
<1> QED BY <1>1, <1>2, <1>4, <1>6, <1>9, <1>10, <1>11, LinkRemoved

\* List::erase.
LEMMA ListErase ==
    ASSUME ListInv, kind' = kind, NEW n, L!Erase(n)
    PROVE  ListInv'
<1>1. PICK e \in Places : Linked(e)
  BY DEF ListInv
<1>2. L!IsList /\ n \in L!Allocated
  BY DEF L!Erase
<1>3. PICK k \in 1 .. size : n = e[k]
  BY <1>1, <1>2, AllocatedIs
<1>4. /\ size \in Nat /\ items \in Seq(Values) /\ Len(items) = size /\ head = e[1] /\ tail = e[size]
      /\ k \in Int /\ 1 <= k /\ k <= size
      /\ node[e[k]].next = e[k + 1] /\ node[e[k]].prev = e[k - 1]
  BY <1>1, <1>2, AtPlace
<1>5. L!Place(n) = k /\ size > 0
  BY <1>1, <1>3, <1>4, PlaceIs
<1>6. CASE n = head /\ L!RemoveFirstNode
  BY <1>5, <1>6, ListRemoveFirst
<1>7. CASE n # head /\ n = tail /\ L!RemoveLast
  BY <1>2, <1>5, <1>7, ListRemoveLast
<1>8. CASE /\ n # head /\ n # tail /\ node' = L!Unlinked(n)
           /\ size' = size - 1 /\ items' = L!RemoveAt(items, L!Place(n))
           /\ UNCHANGED <<head, tail>>
  <2>1. k # 1 /\ k # size
    BY <1>3, <1>4, <1>8
  <2>2. node' = L!Without(L!SetPrev(L!SetNext(node, e[k - 1], e[k + 1]), e[k + 1], e[k - 1]), e[k])
    BY <1>3, <1>4, <1>8 DEF L!Unlinked
  <2>3. k \in 1 .. Len(items)
    BY <1>4
  <2>4. ItemRemoved(k)
    BY <1>4, <1>5, <1>8, <2>3, RemoveAtIs
  <2>5. head' = (IF k = 1 THEN e[2] ELSE head) /\ (L!IsList => tail' = IF k = size THEN e[size - 1] ELSE tail)
    BY <1>8, <2>1
  <2> QED BY <1>1, <1>8, <2>2, <2>4, <2>5, LinkRemoved
<1> QED BY <1>6, <1>7, <1>8 DEF L!Erase

\* ForwardList::erase_after.
LEMMA ListEraseAfter ==
    ASSUME ListInv, kind' = kind, NEW n, L!EraseAfter(n)
    PROVE  ListInv'
<1>1. PICK e \in Places : Linked(e)
  BY DEF ListInv
<1>2. /\ ~L!IsList /\ n \in L!Allocated /\ node[n].next # L!Null
      /\ node' = L!Without(L!SetNext(node, n, node[node[n].next].next), node[n].next)
      /\ size' = size - 1 /\ items' = L!RemoveAt(items, L!Place(n) + 1)
      /\ head' = head
  BY DEF L!EraseAfter
<1>3. PICK i \in 1 .. size : n = e[i]
  BY <1>1, <1>2, AllocatedIs
<1>4. /\ size \in Nat /\ items \in Seq(Values) /\ Len(items) = size
      /\ i \in Int /\ 1 <= i /\ i <= size /\ node[e[i]].next = e[i + 1]
      /\ \A p \in Int : e[p] # L!Null <=> 1 <= p /\ p <= size
  BY <1>1, AtPlace
<1>5. L!Place(n) = i
  BY <1>1, <1>3, PlaceIs
<1> DEFINE k == i + 1
<1>6. k = i + 1 /\ k \in Int /\ k - 1 = i /\ k # 1
  BY <1>4
<1>7. e[k] # L!Null
  BY <1>2, <1>3, <1>4
<1> HIDE DEF k
<1>8. k \in 1 .. size
  BY <1>4, <1>6, <1>7
<1>9. node[e[k]].next = e[k + 1]
  BY <1>1, <1>8, AtPlace
<1>10. node' = L!Without(L!SetNext(node, e[k - 1], e[k + 1]), e[k])
  BY <1>2, <1>3, <1>4, <1>6, <1>9
<1>11. L!SetPrev(L!SetNext(node, e[k - 1], e[k + 1]), e[k + 1], e[k - 1])
         = L!SetNext(node, e[k - 1], e[k + 1])
  BY <1>2 DEF L!SetPrev
<1>12. node' = L!Without(L!SetPrev(L!SetNext(node, e[k - 1], e[k + 1]), e[k + 1], e[k - 1]), e[k])
  BY <1>10, <1>11
<1>13. k \in 1 .. Len(items) /\ items' = L!RemoveAt(items, k)
  BY <1>2, <1>4, <1>5, <1>6, <1>8
<1>14. ItemRemoved(k)
  BY <1>4, <1>13, RemoveAtIs
<1>15. head' = (IF k = 1 THEN e[2] ELSE head)
  BY <1>2, <1>6
<1> QED BY <1>1, <1>2, <1>8, <1>12, <1>14, <1>15, LinkRemoved

\* Every operation of the lists keeps the invariant.
LEMMA ListStep ==
    ASSUME ListInv, kind' = kind, L!Next
    PROVE  ListInv'
<1>1. ASSUME L!PopBack PROVE ListInv'
  BY <1>1, ListRemoveLast DEF L!PopBack
<1>2. ASSUME L!PopFront PROVE ListInv'
  BY <1>2, ListRemoveFirst DEF L!PopFront
<1> QED BY <1>1, <1>2, ListClear, ListErase, ListEraseAfter, ListPushBack, ListPushFront,
           ListInsertAfter DEF L!Next

\* What holds of the deque and of the lists.
SequencesInv == (kind = "Deque" => DequeInv) /\ (kind \in L!Kinds => ListInv)

\* The operations of the deque and of the lists keep their invariants.
LEMMA SequencesInvariant == Spec => []SequencesInv
<1> USE DEF SequencesInv
<1>1. Init => SequencesInv
  BY DequeInit, ListInit DEF Init
<1>2. SequencesInv /\ [Next]_vars => SequencesInv'
  <2> SUFFICES ASSUME SequencesInv, [Next]_vars PROVE SequencesInv'
    OBVIOUS
  <2>1. kind' = kind
    BY Frame
  <2>2. CASE kind = "Deque"
    <3>1. kind \notin L!Kinds
      BY <2>2 DEF L!Kinds
    <3>2. CASE D!Next
      BY <2>1, <2>2, <3>1, <3>2, DequeStep
    <3>3. CASE UNCHANGED <<items, dequeVars>>
      <4>1. UNCHANGED <<items, map, freeList, startIndex, startOffset, endIndex, endOffset, totalSize>>
        BY <3>3 DEF dequeVars
      <4>2. DequeInv
        BY <2>2
      <4>3. DequeInv'
        BY <4>1, <4>2 DEF DequeInv, DequeTypes, DequeCounts, DequeMapped, DequeHolds, First, Beyond,
                          Slot
      <4> QED BY <2>1, <3>1, <4>3
    <3> QED BY <2>2, <3>2, <3>3, Frame
  <2>3. CASE kind \in L!Kinds
    <3>1. kind # "Deque"
      BY <2>3 DEF L!Kinds
    <3>2. CASE L!Next
      BY <2>1, <2>3, <3>1, <3>2, ListStep
    <3>3. CASE UNCHANGED <<size, items, listVars>>
      <4>1. UNCHANGED <<kind, size, items, head, tail, node>>
        BY <2>1, <3>3 DEF listVars
      <4>2. PICK e \in Places : Linked(e)
        BY <2>3 DEF ListInv
      <4>3. Linked(e)'
        BY <4>1, <4>2 DEF Linked, Placed, NodeAt, L!IsList
      <4> QED BY <2>1, <3>1, <4>3 DEF ListInv
    <3> QED BY <2>3, <3>2, <3>3, Frame
  <2>4. CASE kind # "Deque" /\ kind \notin L!Kinds
    BY <2>1, <2>4
  <2> QED BY <2>2, <2>3, <2>4
<1> QED BY <1>1, <1>2, PTL DEF Spec

\* SimpleDeque holds its items in order between its cursors, with exactly the buffers mapped
\* that are in use, and List and ForwardList hold theirs in nodes linked in order, none lost
\* and none left, after any operations at both ends and in the middle.
THEOREM SequencesHeld == Spec => []HoldsSequence
<1> USE DEF SequencesInv
<1>1. SequencesInv => HoldsSequence
  BY DequeIs, ListIs DEF HoldsSequence
<1> QED BY <1>1, SequencesInvariant, PTL
-----------------------------------------------------------------------------
\* What TypeOK asks of a cache follows from its invariant.
LEMMA CacheTyped ==
    ASSUME CacheInv
    PROVE  C!TypeOK
<1>1. /\ capacity \in Nat /\ cache \in Seq(Addresses) /\ uses \in Seq(CacheKeys)
      /\ Len(cache) = IF Len(uses) < capacity THEN Len(uses) ELSE capacity
  BY DEF CacheInv, CacheLists
<1>2. /\ DOMAIN index = Firsts(uses, Len(cache))
      /\ \A i \in 1 .. Len(cache) : index[uses[i]] = cache[i]
  BY DEF CacheInv, CacheIndex
<1>3. /\ DOMAIN pair = Firsts(cache, Len(cache))
      /\ \A i \in 1 .. Len(uses) : latest[uses[i]] \in Values
      /\ \A i \in 1 .. Len(cache) : pair[cache[i]] = <<uses[i], latest[uses[i]]>>
  BY DEF CacheInv, CacheValues
<1>4. Len(cache) \in Nat /\ Len(uses) \in Nat /\ DOMAIN cache = 1 .. Len(cache)
  BY <1>1
<1>5. Len(cache) <= capacity /\ Len(cache) <= Len(uses)
  BY <1>1, <1>4
<1>6. \A i \in 1 .. Len(cache) : i \in 1 .. Len(uses) /\ uses[i] \in CacheKeys /\ cache[i] \in Addresses
  <2>1. \A i \in 1 .. Len(cache) : i \in 1 .. Len(uses)
    BY <1>4, <1>5
  <2> QED BY <1>1, <2>1
<1>7. DOMAIN pair = C!ToSet(cache)
  BY <1>3, <1>4 DEF Firsts, C!ToSet
<1>8. \A n \in DOMAIN pair : pair[n] \in CacheKeys \X Values
  <2> SUFFICES ASSUME NEW n \in DOMAIN pair PROVE pair[n] \in CacheKeys \X Values
    OBVIOUS
  <2>1. PICK i \in 1 .. Len(cache) : n = cache[i]
    BY <1>3 DEF Firsts
  <2>2. uses[i] \in CacheKeys /\ latest[uses[i]] \in Values
    BY <1>3, <1>6
  <2>3. pair[n] = <<uses[i], latest[uses[i]]>>
    BY <1>3, <2>1
  <2> QED BY <2>2, <2>3
<1>9. DOMAIN index \subseteq CacheKeys /\ \A k \in DOMAIN index : index[k] \in Addresses
  BY <1>2, <1>6 DEF Firsts
<1> QED BY <1>1, <1>5, <1>7, <1>8, <1>9 DEF C!TypeOK

\* Strings are no longer than their bound.
StringsFit == kind \in S!Kinds => \A s \in StringNames : length[s] <= MaxLength

\* A string becomes no longer than its bound.
LEMMA BecomesFits ==
    ASSUME StringInv, StringsFit, kind \in S!Kinds,
           NEW s, NEW a, NEW n, n \in Nat, n <= MaxLength, NEW t, S!Becomes(s, a, n, t)
    PROVE  StringsFit'
<1>1. length \in [StringNames -> Nat]
  BY DEF StringInv, StringTypes
<1>2. length' = [length EXCEPT ![s] = n] /\ kind' = kind
  BY DEF S!Becomes
<1> QED BY <1>1, <1>2 DEF StringsFit

\* The operations on strings keep to the bound.
LEMMA StringsFitStep ==
    ASSUME StringInv, StringsFit, kind \in S!Kinds, S!Next
    PROVE  StringsFit'
<1>1. /\ length \in [StringNames -> Nat] /\ MaxLength \in Nat
      /\ \A s \in StringNames : length[s] \in Nat /\ length[s] <= MaxLength
  BY BoundAssumption DEF StringInv, StringTypes, StringsFit
<1>2. PICK s \in StringNames :
         \/ S!Construct(s, <<>>) \/ S!Destroy(s)
         \/ \E x \in Characters : S!Construct(s, <<x>>)
         \/ \E x \in Characters \cup {S!Nul}, i \in 1 .. MaxLength : S!Write(s, i, x)
         \/ \E o \in StringNames : S!Copy(s, o) \/ S!Assign(s, o) \/ S!AppendTo(s, o)
         \/ \E o, p \in StringNames : S!Plus(s, o, p)
  BY DEF S!Next
<1>3. ASSUME NEW X, NEW str \in Seq(X), S!Construct(s, str) PROVE StringsFit'
  <2>1. Len(str) \in Nat /\ Len(str) <= MaxLength
    BY <1>3 DEF S!Construct
  <2>2. PICK a \in S!Fresh(S!Free) : S!Becomes(s, a, Len(str), str)
    BY <1>3 DEF S!Construct
  <2> QED BY <2>1, <2>2, BecomesFits
<1>4. ASSUME S!Destroy(s) PROVE StringsFit'
  <2>1. S!Becomes(s, S!None, 0, <<>>) /\ 0 \in Nat /\ 0 <= MaxLength
    BY <1>1, <1>4 DEF S!Destroy
  <2> QED BY <2>1, BecomesFits
<1>5. ASSUME NEW x, NEW i, S!Write(s, i, x) PROVE StringsFit'
  BY <1>5 DEF S!Write, StringsFit
<1>6. ASSUME NEW o \in StringNames, S!Copy(s, o) \/ S!Assign(s, o) PROVE StringsFit'
  <2>1. PICK a : S!Becomes(s, a, length[o], text[o])
    BY <1>6 DEF S!Copy, S!Assign
  <2>2. length[o] \in Nat /\ length[o] <= MaxLength
    BY <1>1
  <2> QED BY <2>1, <2>2, BecomesFits
<1>7. ASSUME NEW o \in StringNames, S!AppendTo(s, o) PROVE StringsFit'
  <2>1. length[s] + length[o] <= MaxLength /\ length[s] + length[o] \in Nat
    BY <1>1, <1>7 DEF S!AppendTo
  <2>2. PICK a : S!Becomes(s, a, length[s] + length[o], text[s] \o text[o])
    BY <1>7 DEF S!AppendTo
  <2> QED BY <2>1, <2>2, BecomesFits
<1>8. ASSUME NEW o \in StringNames, NEW p \in StringNames, S!Plus(s, o, p) PROVE StringsFit'
  <2> DEFINE n == length[o] + length[p]
             j == S!Joined(o, p)
             t == text[o] \o text[p]
  <2>1. n <= MaxLength /\ n \in Nat /\ S!Alive(o) /\ S!Alive(p)
    BY <1>1, <1>8 DEF S!Plus
  <2>2. Len(j) \in Nat /\ Len(j) <= n
    <3>1. j = t /\ Len(t) \in Nat /\ Len(t) <= n
      BY <2>1, JoinedIs
    <3> QED BY <3>1
  <2>3. PICK b : S!Becomes(s, b, n, t) \/ S!Becomes(s, b, Len(j), t)
    BY <1>8 DEF S!Plus
  <2> HIDE DEF n, j, t
  <2>4. Len(j) <= MaxLength
    BY <1>1, <2>1, <2>2
  <2> QED BY <2>1, <2>2, <2>3, <2>4, BecomesFits
<1>9. \A x \in Characters : <<x>> \in Seq(Characters) /\ <<>> \in Seq(Characters)
  OBVIOUS
<1>10. <<>> \in Seq({})
  OBVIOUS
<1> QED BY <1>2, <1>3, <1>4, <1>5, <1>6, <1>7, <1>8, <1>9, <1>10

\* What TypeOK asks of the strings.
LEMMA StringTyped ==
    ASSUME StringInv, StringsFit, kind \in S!Kinds
    PROVE  S!TypeOK
<1>1. /\ memory \in [Addresses -> Seq(Characters \cup {S!Nul, "junk"})]
      /\ data \in [StringNames -> Addresses \cup {S!None}]
      /\ length \in [StringNames -> Nat] /\ text \in [StringNames -> Seq(Characters)]
      /\ cut \in BOOLEAN
  BY DEF StringInv, StringTypes, Bytes
<1>2. \A s \in StringNames : length[s] \in 0 .. MaxLength
  BY <1>1, BoundAssumption DEF StringsFit
<1>3. length \in [StringNames -> 0 .. MaxLength]
  BY <1>1, <1>2
<1> QED BY <1>1, <1>3 DEF S!TypeOK

\* The priority queue is no longer than its bound.
HeapFits == kind = "PriorityQueue" => Len(c) <= MaxHeap

\* Pushes and pops keep to the bound.
LEMMA HeapFitsStep ==
    ASSUME HeapInv, Len(c) <= MaxHeap, Q!Next
    PROVE  Len(c') <= MaxHeap
<1>1. Len(c) \in Nat /\ MaxHeap \in Nat
  BY BoundAssumption DEF HeapInv
<1>2. ASSUME NEW v \in HeapValues, Q!Push(v) PROVE Len(c') <= MaxHeap
  <2>1. Len(c) < MaxHeap /\ Len(c') = Len(c) + 1
    BY <1>2, HeapPush DEF Q!Push
  <2> QED BY <1>1, <2>1
<1>3. ASSUME Q!Pop PROVE Len(c') <= MaxHeap
  <2>1. Len(c') = Len(c) - 1
    BY <1>3, HeapPop
  <2> QED BY <1>1, <2>1
<1> QED BY <1>2, <1>3 DEF Q!Next

\* What TypeOK asks of a hash table.
LEMMA TableTyped ==
    ASSUME TableInv
    PROVE  H!TypeOK
<1>1. /\ buckets \in H!Tables /\ DOMAIN content \subseteq TableKeys
      /\ size = Cardinality(DOMAIN content)
  BY DEF TableInv, Holds
<1>2. H!Nodes \subseteq H!Node
  <2> SUFFICES ASSUME NEW p \in H!Slots PROVE buckets[p[1]][p[2]] \in H!Node
    BY DEF H!Nodes
  <2>1. p[1] \in DOMAIN buckets /\ p[2] \in DOMAIN buckets[p[1]]
    BY DEF H!Slots
  <2>2. buckets \in Seq(Seq(H!Node))
    BY <1>1 DEF H!Tables
  <2>3. buckets[p[1]] \in Seq(H!Node)
    BY <2>1, <2>2
  <2> HIDE DEF H!Node
  <2> QED BY <2>1, <2>3
<1>3. size \in 0 .. H!Cardinality(TableKeys)
  <2>1. /\ IsFiniteSet(DOMAIN content) /\ Cardinality(DOMAIN content) <= Cardinality(TableKeys)
        /\ Cardinality(DOMAIN content) \in Nat /\ Cardinality(TableKeys) \in Nat
    BY <1>1, FiniteAssumption, FS_Subset, FS_CardinalityType
  <2> QED BY <1>1, <2>1, TableCardinality
<1> QED BY <1>2, <1>3 DEF H!TypeOK

\* What TypeOK asks of the red-black tree.
LEMMA TreeTyped ==
    ASSUME TreeInv
    PROVE  T!TypeOK
<1>1. /\ tree \in T!Trees /\ DOMAIN content \subseteq TreeKeys
      /\ size = Cardinality(DOMAIN content)
  BY DEF TreeInv, Mapping, Balanced, Shape
<1>2. size \in 0 .. T!Cardinality(TreeKeys)
  <2>1. /\ IsFiniteSet(DOMAIN content) /\ Cardinality(DOMAIN content) <= Cardinality(TreeKeys)
        /\ Cardinality(DOMAIN content) \in Nat /\ Cardinality(TreeKeys) \in Nat
    BY <1>1, FiniteAssumption, FS_Subset, FS_CardinalityType
  <2> QED BY <1>1, <2>1, TreeCardinality
<1> QED BY <1>1, <1>2 DEF T!TypeOK

\* A forward list has no tail pointer.
ForwardTail == kind \in L!Kinds /\ ~L!IsList => tail = L!Null

\* No operation of a forward list sets a tail.
LEMMA ForwardTailStep ==
    ASSUME ListInv, kind \in L!Kinds, ForwardTail, L!Next
    PROVE  ForwardTail'
<1>1. kind' = kind
  BY DEF L!Next
<1> SUFFICES ASSUME ~L!IsList PROVE tail' = L!Null
  BY <1>1 DEF ForwardTail, L!IsList
<1>2. tail = L!Null
  BY DEF ForwardTail
<1>3. CASE L!PopBack \/ L!PopFront \/ L!Clear
  BY <1>2, <1>3 DEF L!PopBack, L!PopFront, L!RemoveFirstNode, L!Clear
<1>4. ASSUME NEW n \in Addresses, L!Erase(n) \/ L!EraseAfter(n) PROVE tail' = L!Null
  BY <1>2, <1>4 DEF L!Erase, L!EraseAfter
<1>5. ASSUME NEW a \in Addresses, NEW v \in Values, L!PushBack(v, a) \/ L!PushFront(v, a)
      PROVE  tail' = L!Null
  BY <1>2, <1>5 DEF L!PushBack, L!PushFront
<1>6. ASSUME NEW a \in Addresses, NEW v \in Values, NEW n \in Addresses, L!InsertAfter(n, v, a)
      PROVE  tail' = L!Null
  <2>1. n # tail
    BY <1>2, NullIsNone
  <2> QED BY <1>2, <1>6, <2>1 DEF L!InsertAfter, L!TailAfter
<1> QED BY <1>3, <1>4, <1>5, <1>6 DEF L!Next

\* What TypeOK asks of a list.
LEMMA ListTyped ==
    ASSUME ListInv, kind \in L!Kinds, ForwardTail
    PROVE  L!TypeOK
<1>1. PICK e \in Places : Linked(e)
  BY DEF ListInv
<1>2. /\ size \in Nat /\ \A i \in Int : e[i] \in Pointers
      /\ DOMAIN node \subseteq Addresses /\ 1 \in Int /\ size \in Int
  BY <1>1, OfLinked
<1>3. /\ head = e[1] /\ (L!IsList => tail = e[size])
      /\ node \in [DOMAIN node -> Nodes]
  BY <1>1 DEF Linked
<1>4. head \in Pointers
  BY <1>2, <1>3
<1>5. tail \in Pointers
  <2>1. CASE L!IsList
    BY <1>2, <1>3, <2>1
  <2>2. CASE ~L!IsList
    BY <2>2 DEF ForwardTail, Pointers
  <2> QED BY <2>1, <2>2
<1>6. size \in 0 .. L!Cardinality(Addresses)
  <2>1. size = Cardinality(DOMAIN node)
    BY <1>1, AllocatedCount, ListCardinality DEF L!Allocated
  <2>2. Cardinality(DOMAIN node) <= Cardinality(Addresses) /\ Cardinality(Addresses) \in Nat
    BY <1>2, FiniteAssumption, FS_Subset, FS_CardinalityType
  <2> QED BY <1>2, <2>1, <2>2, ListCardinality
<1>7. L!Allocated \subseteq Addresses /\ \A a \in L!Allocated : node[a] \in Nodes
  BY <1>2, <1>3 DEF L!Allocated
<1> QED BY <1>4, <1>5, <1>6, <1>7 DEF L!TypeOK, Pointers, Nodes

\* The deque keeps to its bounds.
DequeFits == Len(map) <= MaxMap /\ totalSize <= MaxItems

\* Pushes and pops at the ends of the deque keep to the bounds.
LEMMA DequeFitsStep ==
    ASSUME DequeInv, DequeFits, D!Next
    PROVE  DequeFits'
<1>1. /\ Len(map) \in Nat /\ totalSize \in Nat /\ endIndex \in Int /\ endIndex + 1 <= Len(map)
      /\ map \in Seq({D!NoBuffer} \cup Buffers)
      /\ MaxMap \in Nat /\ MaxMap # 0 /\ MaxItems \in Nat
  BY Around, BoundAssumption DEF DequeInv, DequeCounts
<1>2. Len(map) <= MaxMap /\ totalSize <= MaxItems
  BY DEF DequeFits
<1>3. \A i, x : Len([map EXCEPT ![i] = x]) = Len(map)
  BY <1>1
<1>4. \A i, o, x : Len([map EXCEPT ![i][o] = x]) = Len(map)
  BY <1>1
<1>5. \A b : Len(Append(map, b)) = Len(map) + 1 /\ Len(<<b>> \o map) = Len(map) + 1
  BY <1>1
<1>6. ASSUME NEW v \in Values, D!PushBack(v) PROVE DequeFits'
  <2>1. totalSize' <= MaxItems
    BY <1>1, <1>6 DEF D!PushBack
  <2>2. Len(map') <= MaxMap
    <3>1. CASE Len(map') = Len(map)
      BY <1>2, <3>1
    <3>2. CASE Len(map') # Len(map)
      <4>1. endIndex + 1 < MaxMap /\ endIndex + 1 >= Len(map) /\ Len(map') = Len(map) + 1
        BY <1>3, <1>4, <1>5, <1>6, <3>2 DEF D!PushBack
      <4> QED BY <1>1, <4>1
    <3> QED BY <3>1, <3>2
  <2> QED BY <2>1, <2>2 DEF DequeFits
<1>7. ASSUME NEW v \in Values, D!PushFront(v) PROVE DequeFits'
  <2>1. totalSize' <= MaxItems
    BY <1>1, <1>7 DEF D!PushFront
  <2>2. Len(map') <= MaxMap
    <3>1. CASE Len(map') = Len(map)
      BY <1>2, <3>1
    <3>2. CASE Len(map') # Len(map)
      <4>1. Len(map) < MaxMap /\ Len(map') = Len(map) + 1
        BY <1>3, <1>4, <1>5, <1>7, <3>2 DEF D!PushFront
      <4> QED BY <1>1, <4>1
    <3> QED BY <3>1, <3>2
  <2> QED BY <2>1, <2>2 DEF DequeFits
<1>8. CASE D!PopFront \/ D!PopBack
  <2>1. totalSize' = totalSize - 1
    BY <1>8 DEF D!PopFront, D!PopBack
  <2>2. Len(map') = Len(map)
    BY <1>3, <1>8 DEF D!PopFront, D!PopBack, D!Recycled
  <2> QED BY <1>1, <1>2, <2>1, <2>2 DEF DequeFits
<1>9. CASE D!Clear
  <2>1. totalSize' = 0 /\ Len(map') = 1
    BY <1>9 DEF D!Clear
  <2> QED BY <1>1, <2>1 DEF DequeFits
<1> QED BY <1>6, <1>7, <1>8, <1>9 DEF D!Next

\* Products of larger numbers are larger.
LEMMA Larger ==
    ASSUME NEW i \in Nat, NEW j \in Nat, NEW n \in Nat, i <= j
    PROVE  i * n <= j * n /\ i * n \in Nat /\ j * n \in Nat
OBVIOUS

\* What TypeOK asks of the deque.
LEMMA DequeTyped ==
    ASSUME DequeInv, DequeFits
    PROVE  D!TypeOK
<1>1. /\ Len(map) \in Nat /\ BufferSize \in Nat /\ startIndex \in Nat /\ startOffset \in Offsets
      /\ endIndex \in Nat /\ endIndex + 1 <= Len(map) /\ startIndex <= endIndex + 1
      /\ endOffset \in Int /\ endOffset <= BufferSize /\ freeList \in Nat
      /\ map \in Seq({D!NoBuffer} \cup Buffers) /\ items \in Seq(Values) /\ totalSize \in Nat
      /\ startOffset \in Nat /\ MaxMap \in Nat /\ MaxItems \in Nat
  BY Around, BoundAssumption DEF DequeInv, DequeTypes, DequeCounts
<1>2. Len(map) <= MaxMap /\ totalSize <= MaxItems
  BY DEF DequeFits
<1>3. startIndex \in 0 .. Len(map) /\ endIndex \in 0 .. Len(map) - 1 /\ totalSize \in 0 .. MaxItems
  BY <1>1, <1>2
<1>4. -(BufferSize * MaxMap) <= endOffset
  <2> DEFINE s == startIndex * BufferSize
             e == endIndex * BufferSize
             m == MaxMap * BufferSize
  <2>1. s \in Nat /\ e \in Nat /\ m \in Nat /\ e <= m
    <3>1. endIndex <= MaxMap /\ startIndex <= startIndex
      BY <1>1, <1>2
    <3> QED BY <1>1, <3>1, Larger
  <2>2. totalSize = (e + endOffset) - (s + startOffset)
    BY DEF DequeInv, DequeCounts, Beyond, First, Slot
  <2>3. BufferSize * MaxMap = m
    BY <1>1
  <2> HIDE DEF s, e, m
  <2>4. -m <= endOffset
    BY <1>1, <2>1, <2>2
  <2> QED BY <2>3, <2>4
<1>5. endOffset \in -(BufferSize * MaxMap) .. BufferSize
  <2> DEFINE m == BufferSize * MaxMap
  <2>1. m \in Int
    BY <1>1
  <2> HIDE DEF m
  <2>2. -m <= endOffset
    BY <1>4 DEF m
  <2>3. endOffset \in -m .. BufferSize
    BY <1>1, <2>1, <2>2
  <2> QED BY <2>3 DEF m
<1>6. \A i \in 1 .. Len(map) : map[i] \in {D!NoBuffer} \cup Buffers
  BY <1>1
<1> QED BY <1>1, <1>3, <1>5, <1>6 DEF D!TypeOK, Offsets, Buffers

\* The bounds of what is in use.
WithinBounds == /\ StringsFit /\ HeapFits /\ ForwardTail
                /\ (kind = "Deque" => DequeFits)

\* The variables of the container in use keep their types, and the bounds of the model are
\* reached by no step but those that ask for them.
THEOREM TypeCorrect == Spec => []TypeOK
<1> DEFINE I == CachesInv /\ StringsInv /\ HeapsInv /\ TablesInv /\ TreesInv /\ SequencesInv
<1>1. Init => WithinBounds
  <2> SUFFICES ASSUME Init PROVE WithinBounds
    OBVIOUS
  <2>1. StringsFit
    BY BoundAssumption DEF Init, S!New, StringsFit
  <2>2. HeapFits
    <3>1. c = <<>> /\ Len(<<>>) = 0 /\ 0 <= MaxHeap
      BY BoundAssumption DEF Init, Q!Init
    <3> QED BY <3>1 DEF HeapFits
  <2>3. ForwardTail
    BY DEF Init, L!New, ForwardTail
  <2>4. DequeFits
    <3>1. Len(map) = 1 /\ totalSize = 0
      BY DEF Init, D!Init
    <3> QED BY <3>1, BoundAssumption DEF DequeFits
  <2> QED BY <2>1, <2>2, <2>3, <2>4 DEF WithinBounds
<1>2. I /\ WithinBounds /\ [Next]_vars => WithinBounds'
  <2> SUFFICES ASSUME I, WithinBounds, [Next]_vars PROVE WithinBounds'
    OBVIOUS
  <2>0. /\ StringsInv /\ HeapsInv /\ SequencesInv
        /\ StringsFit /\ HeapFits /\ ForwardTail
        /\ (kind = "Deque" => DequeFits)
    BY DEF I, WithinBounds
  <2>1. kind' = kind
    BY Frame
  <2>2. StringsFit'
    <3>1. CASE kind \in S!Kinds /\ S!Next
      BY <2>0, <3>1, StringsFitStep DEF StringsInv
    <3>2. CASE kind \in S!Kinds /\ UNCHANGED stringVars
      BY <2>0, <2>1, <3>2 DEF stringVars, StringsFit
    <3>3. CASE kind \notin S!Kinds
      BY <2>1, <3>3 DEF StringsFit
    <3> QED BY <3>1, <3>2, <3>3, Frame
  <2>3. HeapFits'
    <3>1. CASE kind = "PriorityQueue" /\ Q!Next
      BY <2>0, <2>1, <3>1, HeapFitsStep DEF HeapsInv, HeapFits
    <3>2. CASE kind = "PriorityQueue" /\ UNCHANGED heapVars
      BY <2>0, <2>1, <3>2 DEF heapVars, HeapFits
    <3>3. CASE kind # "PriorityQueue"
      BY <2>1, <3>3 DEF HeapFits
    <3> QED BY <3>1, <3>2, <3>3, Frame
  <2>4. ForwardTail'
    <3>1. CASE kind \in L!Kinds /\ L!Next
      BY <2>0, <3>1, ForwardTailStep DEF SequencesInv
    <3>2. CASE kind \in L!Kinds /\ UNCHANGED <<size, items, listVars>>
      BY <2>0, <2>1, <3>2 DEF listVars, ForwardTail, L!IsList
    <3>3. CASE kind \notin L!Kinds
      BY <2>1, <3>3 DEF ForwardTail
    <3> QED BY <3>1, <3>2, <3>3, Frame
  <2>5. kind = "Deque" => DequeFits'
    <3>1. CASE kind = "Deque" /\ D!Next
      BY <2>0, <3>1, DequeFitsStep DEF SequencesInv
    <3>2. CASE kind = "Deque" /\ UNCHANGED <<items, dequeVars>>
      BY <2>0, <3>2 DEF dequeVars, DequeFits
    <3> QED BY <3>1, <3>2, Frame
  <2> QED BY <2>1, <2>2, <2>3, <2>4, <2>5 DEF WithinBounds
<1>3. I /\ WithinBounds => TypeOK
  <2> SUFFICES ASSUME I, WithinBounds PROVE TypeOK
    OBVIOUS
  <2>0. /\ CachesInv /\ StringsInv /\ HeapsInv /\ TablesInv /\ TreesInv /\ SequencesInv
        /\ StringsFit /\ HeapFits /\ ForwardTail
        /\ (kind = "Deque" => DequeFits)
    BY DEF I, WithinBounds
  <2>1. kind \in C!Kinds => C!TypeOK
    BY <2>0, CacheTyped DEF CachesInv
  <2>2. kind \in S!Kinds => S!TypeOK
    BY <2>0, StringTyped DEF StringsInv
  <2>3. kind = "PriorityQueue" => Q!TypeOK
    BY <2>0 DEF HeapsInv, HeapInv, HeapFits, Q!TypeOK
  <2>4. kind \in H!Kinds => H!TypeOK
    BY <2>0, TableTyped DEF TablesInv
  <2>5. kind = "RBMap" => T!TypeOK
    BY <2>0, TreeTyped DEF TreesInv
  <2>6. kind = "Deque" => D!TypeOK
    BY <2>0, DequeTyped DEF SequencesInv
  <2>7. kind \in L!Kinds => L!TypeOK
    BY <2>0, ListTyped DEF SequencesInv
  <2> QED BY <2>1, <2>2, <2>3, <2>4, <2>5, <2>6, <2>7 DEF TypeOK
<1>4. Spec => []I
  BY CachesInvariant, StringsInvariant, HeapsInvariant, TablesInvariant, TreesInvariant,
     SequencesInvariant, PTL
<1> QED BY <1>1, <1>2, <1>3, <1>4, PTL DEF Spec
=============================================================================
