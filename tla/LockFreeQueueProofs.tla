------------------------- MODULE LockFreeQueueProofs -------------------------
(***************************************************************************)
(* What holds of LockFreeQueue for every set of threads and of addresses   *)
(* and every number of values. The invariant says that there is a list, a  *)
(* sequence of addresses without repetition that starts at head and that   *)
(* next goes along, and relates to it what every thread has read so far.   *)
(*                                                                         *)
(* Most of it says of an address a thread has read that it is Placed: in   *)
(* the list, or unlinked and not deleted yet. That no deletion takes it    *)
(* away is where being WellUsed comes in. Either no deletion so far was of *)
(* a node that another thread held; or there is one thread at each end,    *)
(* and then the producer has tail itself, which is in the list, and there  *)
(* is nobody else on the consumer's side.                                  *)
(***************************************************************************)
EXTENDS LockFreeQueue, TLAPS, SequenceTheorems, FiniteSetTheorems, FunctionTheorems,
        WellFoundedInduction

\* Where a producer has a node that is not linked; where it has read tail; where a
\* consumer has read head.
Preparing == {"loadTail", "loadNext", "compareTail", "link", "helpEnqueue"}
Looking == {"loadNext", "compareTail", "link", "helpEnqueue"}
Reading == {"readTail", "readNext", "compareHead", "null", "helpDequeue", "copy", "unlink"}

\* The local variables of a thread are those that its place l asks for.
OutAt(l, m) == l \in {"out", "joined", "again"} => m = NoLocals

ProducerAt(l, m) ==
    /\ l \in Preparing \cup {"out", "joined", "swing"}
    /\ OutAt(l, m)
    /\ l \in Preparing \cup {"swing"} => m.node # Nil
    /\ l \in Looking \cup {"swing"} => m.tail # Nil
    /\ l = "helpEnqueue" => m.next # Nil

ConsumerAt(l, m) ==
    /\ l \in Reading \cup {"out", "joined", "again", "delete"}
    /\ OutAt(l, m)
    /\ m.node = Nil
    /\ l \in Reading \cup {"delete"} => m.head # Nil
    /\ l \in {"readNext", "compareHead", "copy", "unlink"} => m.tail # Nil
    /\ l = "helpDequeue" => m.next # Nil /\ m.tail = m.head
    /\ l = "null" => m.next = Nil
    /\ l \in {"copy", "unlink"} => m.head # m.tail
    /\ l \in {"unlink", "delete"} => m.next # Nil

\* Threads that do not use the queue are out of it, and all are when it is destroyed.
Locals ==
    /\ \A p \in Producers : ProducerAt(pc[p], my[p])
    /\ \A c \in Consumers : ConsumerAt(pc[c], my[c])
    /\ \A t \in Threads : t \notin active => pc[t] \in {"out", "joined"}
    /\ head = Nil => \A t \in Threads : pc[t] = "joined"

-----------------------------------------------------------------------------
\* The node at a is in the list q.
On(q, a) == \E i \in 1 .. Len(q) : q[i] = a

\* q is the list: the nodes from the dummy on.
Line(q) ==
    /\ q \in Seq(Addrs)
    /\ head = IF q = <<>> THEN Nil ELSE q[1]
    /\ \A i \in 1 .. Len(q) : /\ q[i] \in live
                              /\ next[q[i]] = IF i = Len(q) THEN Nil ELSE q[i + 1]
    /\ \A i, j \in 1 .. Len(q) : q[i] = q[j] => i = j

\* A consumer has unlinked the node at a and is about to delete it.
Leaving(a) == \E c \in Consumers : pc[c] = "delete" /\ my[c].head = a

\* The node at a was linked and is not deleted.
Placed(q, a) == On(q, a) \/ Leaving(a)

\* One thread at each end.
Alone == OneProducer /\ OneConsumer

\* tail is at the last node, or one behind, and then a producer that read it there is
\* about to move it.
Behind(q) ==
    tail # q[Len(q)] => /\ Len(q) > 1 /\ tail = q[Len(q) - 1]
                        /\ \E p \in active \cap Producers : pc[p] = "swing" /\ my[p].tail = tail

\* The node a producer prepares is nobody else's yet.
Fresh(q, p) == pc[p] \in Preparing =>
    /\ my[p].node \in live /\ ~Placed(q, my[p].node)
    /\ next[my[p].node] = Nil /\ data[my[p].node] \in 1 .. made

Apart == \A p, o \in Producers :
    pc[p] \in Preparing /\ pc[o] \in Preparing /\ my[p].node = my[o].node => p = o

\* The node a consumer is about to delete is out of the list, and was not the last.
Left(q, c) == pc[c] = "delete" =>
    /\ my[c].head \in live /\ ~On(q, my[c].head) /\ next[my[c].head] # Nil

LeftApart == \A c, d \in Consumers :
    pc[c] = "delete" /\ pc[d] = "delete" /\ my[c].head = my[d].head => c = d

\* There is no other node.
Accounted(q) == \A a \in live : Placed(q, a) \/ \E p \in Producers : pc[p] \in Preparing /\ my[p].node = a

\* What a producer has read: a tail from which next is followed once, and which is the
\* last node only while tail is there.
TailSeen(q, p) ==
    /\ pc[p] \in Looking =>
          /\ Placed(q, my[p].tail)
          /\ my[p].tail = q[Len(q)] => tail = my[p].tail
          /\ Alone => my[p].tail = tail
    /\ pc[p] \in Looking \ {"loadNext"} /\ my[p].next # Nil => next[my[p].tail] = my[p].next
    /\ pc[p] = "swing" => /\ next[my[p].tail] = my[p].node
                          /\ Alone \/ Placed(q, my[p].tail)

\* What a consumer has read of the dummy, which is out of the list once head has moved.
HeadSeen(q, c) == pc[c] \in Reading =>
    /\ Placed(q, my[c].head)
    /\ On(q, my[c].head) => my[c].head = head
    /\ my[c].next # Nil => next[my[c].head] = my[c].next
    /\ my[c].tail # Nil /\ my[c].head = head /\ my[c].head # my[c].tail => tail # head

\* What it has read of the node behind the dummy, while head is where it was.
NextSeen(q, c) ==
    /\ pc[c] \in {"compareHead", "copy", "unlink"} /\ my[c].next # Nil
           /\ (pc[c] # "compareHead" \/ my[c].head = head) => Placed(q, my[c].next)
    /\ pc[c] = "unlink" /\ my[c].head = head => my[c].res = data[my[c].next]

\* It found no node behind the dummy: then there was a moment with nothing inside.
NullSeen(c) == pc[c] \in {"compareHead", "null"} /\ my[c].next = Nil => c \notin filled

\* No value is lost.
Preserved(q) == \A v \in 1 .. made :
    \/ \E i \in 1 .. Len(taken) : taken[i] = v
    \/ \E p \in Linking : data[my[p].node] = v
    \/ \E i \in 2 .. Len(q) : data[q[i]] = v

\* The list and the nodes outside of it; what the threads have seen of it.
Structure(q) ==
    /\ Line(q)
    /\ \A p \in Producers : Fresh(q, p)
    /\ \A c \in Consumers : Left(q, c)
    /\ Apart /\ LeftApart /\ Accounted(q)
    /\ Preserved(q)

Views(q) ==
    /\ \A p \in Producers : TailSeen(q, p)
    /\ \A c \in Consumers : HeadSeen(q, c) /\ NextSeen(q, c) /\ NullSeen(c)

\* The queue before and while it is destroyed.
InUse(q) == /\ q # <<>> /\ Structure(q) /\ Behind(q) /\ Views(q)
            /\ filled # {} => Inside # {}

Destroyed(q) == /\ Line(q) /\ \A t \in Threads : pc[t] = "joined"
                /\ \A a \in live : On(q, a)

-----------------------------------------------------------------------------
\* What a thread can have in its local variables.
LocalVariables == [node : Addrs \cup {Nil}, head : Addrs \cup {Nil}, tail : Addrs \cup {Nil},
                   next : Addrs \cup {Nil}, res : Values \cup {NoValue}]

\* The types of what the threads share.
SharedTypes ==
    /\ head \in Addrs \cup {Nil} /\ tail \in Addrs
    /\ next \in [Addrs -> Addrs \cup {Nil}]
    /\ data \in [Addrs -> Values \cup {NoValue}]
    /\ live \subseteq Addrs
    /\ made \in 0 .. MaxValues
    /\ taken \in Seq(Values \cup {NoValue})
    /\ filled \subseteq Consumers
    /\ early \in BOOLEAN /\ dangling \in BOOLEAN

\* A thread takes a step: it is at place l with the local variables m, the others stay.
Goes(t, l, m) == /\ active' = active
                 /\ pc' = [pc EXCEPT ![t] = l] /\ my' = [my EXCEPT ![t] = m]

\* What the step of one thread leaves to the others.
LEMMA GoesOnly ==
    ASSUME TypeOK, NEW t \in Threads, NEW l, NEW m, Goes(t, l, m)
    PROVE  /\ pc'[t] = l /\ my'[t] = m
           /\ \A u \in Threads : u # t => pc'[u] = pc[u] /\ my'[u] = my[u]
  BY DEF TypeOK, Goes

\* What is to be shown of a step: the place and the variables of the thread that takes
\* it, and the types of what it shares.
LEMMA OneStep ==
    ASSUME TypeOK, Locals, NEW t \in active, NEW l, NEW m \in LocalVariables, Goes(t, l, m),
           t \in Producers => ProducerAt(l, m), t \in Consumers => ConsumerAt(l, m),
           SharedTypes', head' = Nil => head = Nil, pc[t] # "joined"
    PROVE  TypeOK' /\ Locals'
<1>1. t \in Threads /\ active' = active /\ active \subseteq Threads
  BY DEF TypeOK, Goes
<1>2. pc'[t] = l /\ my'[t] = m /\ \A u \in Threads : u # t => pc'[u] = pc[u] /\ my'[u] = my[u]
  BY <1>1, GoesOnly
<1>3. TypeOK'
  <2>1. l \in {"out", "joined", "loadTail", "loadNext", "compareTail", "link",
               "helpEnqueue", "swing", "readTail", "readNext", "again",
               "compareHead", "null", "helpDequeue", "copy", "unlink", "delete"}
    BY <1>1 DEF Threads, ProducerAt, ConsumerAt, Preparing, Reading
  <2> QED BY <1>1, <2>1 DEF TypeOK, SharedTypes, Goes, LocalVariables
<1>4. \A p \in Producers : ProducerAt(pc'[p], my'[p])
  <2> TAKE p \in Producers
  <2>1. ProducerAt(pc[p], my[p])
    BY DEF Locals
  <2> QED BY <1>2, <2>1 DEF Threads
<1>5. \A c \in Consumers : ConsumerAt(pc'[c], my'[c])
  <2> TAKE c \in Consumers
  <2>1. ConsumerAt(pc[c], my[c])
    BY DEF Locals
  <2> QED BY <1>2, <2>1 DEF Threads
<1>6. head' # Nil
  BY <1>1 DEF Locals
<1>7. \A u \in Threads : u \notin active' => pc'[u] \in {"out", "joined"}
  BY <1>1, <1>2 DEF Locals
<1> QED BY <1>3, <1>4, <1>5, <1>6, <1>7 DEF Locals

\* What the steps of a producer do to it.
LEMMA ProducerGoes ==
    ASSUME TypeOK, NEW t \in active \cap Producers
    PROVE  /\ LoadTail(t) => pc[t] = "loadTail" /\ Goes(t, "loadNext", [my[t] EXCEPT !.tail = tail])
           /\ LoadNext(t) => /\ pc[t] = "loadNext"
                             /\ Goes(t, "compareTail", [my[t] EXCEPT !.next = next[my[t].tail]])
           /\ TailMoved(t) => /\ pc[t] = "compareTail"
                              /\ Goes(t, "loadTail", [NoLocals EXCEPT !.node = my[t].node])
           /\ TailIsLast(t) => /\ pc[t] = "compareTail"
                               /\ Goes(t, IF my[t].next = Nil THEN "link" ELSE "helpEnqueue", my[t])
           /\ Link(t) => pc[t] = "link" /\ Goes(t, "swing", my[t])
           /\ LinkFails(t) => /\ pc[t] = "link"
                              /\ Goes(t, "loadTail", [NoLocals EXCEPT !.node = my[t].node])
           /\ HelpEnqueue(t) => /\ pc[t] = "helpEnqueue"
                                /\ Goes(t, "loadTail", [NoLocals EXCEPT !.node = my[t].node])
           /\ Swing(t) => pc[t] = "swing" /\ Goes(t, "out", NoLocals)
<1>1. t \in Threads /\ my[t] \in LocalVariables
  BY DEF TypeOK, LocalVariables
<1>2. LoadTail(t) => pc[t] = "loadTail" /\ Goes(t, "loadNext", [my[t] EXCEPT !.tail = tail])
  BY <1>1 DEF LoadTail, Step, Goes
<1>3. LoadNext(t) => /\ pc[t] = "loadNext"
                     /\ Goes(t, "compareTail", [my[t] EXCEPT !.next = next[my[t].tail]])
  BY <1>1 DEF LoadNext, Step, Goes
<1>4. /\ TailMoved(t) => /\ pc[t] = "compareTail"
                         /\ Goes(t, "loadTail", [NoLocals EXCEPT !.node = my[t].node])
      /\ LinkFails(t) => /\ pc[t] = "link"
                         /\ Goes(t, "loadTail", [NoLocals EXCEPT !.node = my[t].node])
      /\ HelpEnqueue(t) => /\ pc[t] = "helpEnqueue"
                           /\ Goes(t, "loadTail", [NoLocals EXCEPT !.node = my[t].node])
  BY DEF TailMoved, LinkFails, HelpEnqueue, Step, Goes, Retry
<1>5. /\ TailIsLast(t) => /\ pc[t] = "compareTail"
                          /\ Goes(t, IF my[t].next = Nil THEN "link" ELSE "helpEnqueue", my[t])
      /\ Link(t) => pc[t] = "link" /\ Goes(t, "swing", my[t])
  BY DEF TailIsLast, Link, Step, Goes, TypeOK
<1>6. Swing(t) => pc[t] = "swing" /\ Goes(t, "out", NoLocals)
  BY DEF Swing, Step, Goes
<1> QED BY <1>2, <1>3, <1>4, <1>5, <1>6

\* What the steps of a consumer do to it.
LEMMA ConsumerGoes ==
    ASSUME TypeOK, NEW t \in active \cap Consumers
    PROVE  /\ LoadHead(t) => /\ pc[t] \in {"out", "again"}
                             /\ Goes(t, "readTail", [my[t] EXCEPT !.head = head])
           /\ ReadTail(t) => pc[t] = "readTail" /\ Goes(t, "readNext", [my[t] EXCEPT !.tail = tail])
           /\ ReadNext(t) => /\ pc[t] = "readNext"
                             /\ Goes(t, "compareHead", [my[t] EXCEPT !.next = next[my[t].head]])
           /\ HeadMoved(t) => /\ pc[t] = "compareHead"
                              /\ Goes(t, "again", [NoLocals EXCEPT !.node = my[t].node])
           /\ HeadIsDummy(t) => /\ pc[t] = "compareHead"
                                /\ Goes(t, IF my[t].head # my[t].tail THEN "copy"
                                           ELSE IF my[t].next = Nil THEN "null" ELSE "helpDequeue", my[t])
           /\ ReturnNull(t) => pc[t] = "null" /\ Goes(t, "out", NoLocals)
           /\ HelpDequeue(t) => /\ pc[t] = "helpDequeue"
                                /\ Goes(t, "again", [NoLocals EXCEPT !.node = my[t].node])
           /\ Copy(t) => /\ pc[t] = "copy" /\ my[t].next # Nil
                         /\ Goes(t, "unlink", [my[t] EXCEPT !.res = data[my[t].next]])
           /\ Unlink(t) => pc[t] = "unlink" /\ Goes(t, "delete", my[t])
           /\ UnlinkFails(t) => /\ pc[t] = "unlink"
                                /\ Goes(t, "again", [NoLocals EXCEPT !.node = my[t].node])
           /\ Delete(t) => pc[t] = "delete" /\ Goes(t, "out", NoLocals)
<1>1. t \in Threads /\ my[t] \in LocalVariables
  BY DEF TypeOK, LocalVariables
<1>2. LoadHead(t) => /\ pc[t] \in {"out", "again"}
                     /\ Goes(t, "readTail", [my[t] EXCEPT !.head = head])
  BY <1>1 DEF LoadHead, Step, Goes
<1>3. ReadTail(t) => pc[t] = "readTail" /\ Goes(t, "readNext", [my[t] EXCEPT !.tail = tail])
  BY <1>1 DEF ReadTail, Step, Goes
<1>4. ReadNext(t) => /\ pc[t] = "readNext"
                     /\ Goes(t, "compareHead", [my[t] EXCEPT !.next = next[my[t].head]])
  BY <1>1 DEF ReadNext, Step, Goes
<1>5. /\ HeadMoved(t) => /\ pc[t] = "compareHead"
                         /\ Goes(t, "again", [NoLocals EXCEPT !.node = my[t].node])
      /\ HelpDequeue(t) => /\ pc[t] = "helpDequeue"
                           /\ Goes(t, "again", [NoLocals EXCEPT !.node = my[t].node])
      /\ UnlinkFails(t) => /\ pc[t] = "unlink"
                           /\ Goes(t, "again", [NoLocals EXCEPT !.node = my[t].node])
  BY DEF HeadMoved, HelpDequeue, UnlinkFails, Step, Goes, Retry
<1>6. HeadIsDummy(t) => /\ pc[t] = "compareHead"
                        /\ Goes(t, IF my[t].head # my[t].tail THEN "copy"
                                   ELSE IF my[t].next = Nil THEN "null" ELSE "helpDequeue", my[t])
  BY DEF HeadIsDummy, Step, Goes, AtTail, Empty, TypeOK
<1>7. /\ ReturnNull(t) => pc[t] = "null" /\ Goes(t, "out", NoLocals)
      /\ Delete(t) => pc[t] = "delete" /\ Goes(t, "out", NoLocals)
  BY DEF ReturnNull, Delete, Step, Goes, Return
<1>8. Copy(t) => /\ pc[t] = "copy" /\ my[t].next # Nil
                 /\ Goes(t, "unlink", [my[t] EXCEPT !.res = data[my[t].next]])
  BY <1>1 DEF Copy, Front, Step, Goes
<1>9. Unlink(t) => pc[t] = "unlink" /\ Goes(t, "delete", my[t])
  BY DEF Unlink, Step, Goes, TypeOK
<1> QED BY <1>2, <1>3, <1>4, <1>5, <1>6, <1>7, <1>8, <1>9

\* Entering the loop again leaves a thread the node it prepares, if any.
LEMMA RetryLocals ==
    ASSUME NEW n \in Addrs \cup {Nil}
    PROVE  LET m == [NoLocals EXCEPT !.node = n]
           IN  /\ m \in LocalVariables /\ m.node = n
               /\ n = Nil => m = NoLocals
  BY DEF NoLocals, LocalVariables, NoValue

\* Allocating a node, with the value that is enqueued.
LEMMA EnqueueTypes ==
    ASSUME TypeOK, Locals, NEW t \in active \cap Producers, Enqueue(t)
    PROVE  TypeOK' /\ Locals'
<1>1. PICK a \in Addrs \ live : /\ live' = live \cup {a}
                                /\ next' = [next EXCEPT ![a] = Nil]
                                /\ data' = [data EXCEPT ![a] = made']
                                /\ my' = [my EXCEPT ![t].node = a]
  BY DEF Enqueue
<1> DEFINE m == [my[t] EXCEPT !.node = a]
<1>2. t \in Threads /\ t \notin Consumers /\ my[t] \in LocalVariables
  BY QueueAssumption DEF TypeOK, LocalVariables, Threads
<1>3. Goes(t, "loadTail", m) /\ pc[t] = "out"
  BY <1>1, <1>2 DEF Enqueue, Step, Goes
<1>4. m \in LocalVariables /\ m.node = a
  BY <1>2 DEF LocalVariables
<1>5. ProducerAt("loadTail", m)
  BY <1>4, QueueAssumption DEF ProducerAt, OutAt, Preparing, Looking
<1>6. made' \in Values /\ made' \in 0 .. MaxValues
  BY QueueAssumption DEF Enqueue, TypeOK, Values
<1>7. SharedTypes'
  BY <1>1, <1>6 DEF Enqueue, SharedTypes, TypeOK
<1> QED BY <1>2, <1>3, <1>4, <1>5, <1>7, OneStep DEF Enqueue

\* Every other step of a producer.
LEMMA ProducerTypes ==
    ASSUME TypeOK, Locals, NEW t \in active \cap Producers, Producer(t)
    PROVE  TypeOK' /\ Locals'
<1>1. /\ t \in Threads /\ t \notin Consumers
      /\ my[t] \in LocalVariables /\ ProducerAt(pc[t], my[t])
      /\ my[t].node \in Addrs \cup {Nil} /\ my[t].tail \in Addrs \cup {Nil} /\ my[t].next \in Addrs \cup {Nil}
  BY QueueAssumption DEF TypeOK, LocalVariables, Threads, Locals
<1>2. Nil \notin Addrs /\ tail \in Addrs /\ tail # Nil
  BY QueueAssumption DEF TypeOK
<1>3. CASE Enqueue(t)
  BY <1>3, EnqueueTypes
<1>4. CASE LoadTail(t)
  <2> DEFINE m == [my[t] EXCEPT !.tail = tail]
  <2>1. m \in LocalVariables /\ m.node = my[t].node /\ m.tail = tail
    BY <1>1, <1>2 DEF LocalVariables
  <2>2. pc[t] = "loadTail" /\ Goes(t, "loadNext", m)
    BY <1>4, ProducerGoes
  <2>3. ProducerAt("loadNext", m)
    BY <1>1, <1>2, <2>1, <2>2 DEF ProducerAt, OutAt, Preparing, Looking
  <2>4. SharedTypes' /\ head' = head
    BY <1>4 DEF LoadTail, nodes, history, calls, SharedTypes, TypeOK
  <2> QED BY <1>1, <2>1, <2>2, <2>3, <2>4, OneStep
<1>5. CASE LoadNext(t)
  <2> DEFINE m == [my[t] EXCEPT !.next = next[my[t].tail]]
  <2>1. pc[t] = "loadNext" /\ Goes(t, "compareTail", m)
    BY <1>5, ProducerGoes
  <2>2. my[t].tail \in Addrs
    BY <1>1, <2>1 DEF ProducerAt, Looking
  <2>3. m \in LocalVariables /\ m.node = my[t].node /\ m.tail = my[t].tail
    BY <1>1, <2>2 DEF LocalVariables, TypeOK
  <2>4. ProducerAt("compareTail", m)
    BY <1>1, <2>1, <2>3 DEF ProducerAt, OutAt, Preparing, Looking
  <2>5. SharedTypes' /\ head' = head
    BY <1>5 DEF LoadNext, Access, nodes, calls, SharedTypes, TypeOK
  <2> QED BY <1>1, <2>1, <2>3, <2>4, <2>5, OneStep
<1>6. CASE TailMoved(t) \/ LinkFails(t) \/ HelpEnqueue(t)
  <2> DEFINE m == [NoLocals EXCEPT !.node = my[t].node]
  <2>1. pc[t] \in Preparing /\ pc[t] # "joined" /\ Goes(t, "loadTail", m)
    BY <1>6, ProducerGoes DEF Preparing
  <2>2. m \in LocalVariables /\ m.node = my[t].node
    BY <1>1, RetryLocals
  <2>3. ProducerAt("loadTail", m)
    BY <1>1, <2>1, <2>2 DEF ProducerAt, OutAt, Preparing, Looking
  <2>4. tail' \in Addrs
    BY <1>1, <1>2, <1>6 DEF TailMoved, LinkFails, HelpEnqueue, Exchanged, Step, ProducerAt
  <2>5. SharedTypes' /\ head' = head
    BY <1>6, <2>4 DEF TailMoved, LinkFails, HelpEnqueue, Access, nodes, history, calls, SharedTypes, TypeOK
  <2> QED BY <1>1, <2>1, <2>2, <2>3, <2>5, OneStep
<1>7. CASE TailIsLast(t)
  <2> DEFINE l == IF my[t].next = Nil THEN "link" ELSE "helpEnqueue"
  <2>1. pc[t] = "compareTail" /\ Goes(t, l, my[t])
    BY <1>7, ProducerGoes
  <2>2. ProducerAt(l, my[t])
    BY <1>1, <2>1 DEF ProducerAt, OutAt, Preparing, Looking
  <2>3. SharedTypes' /\ head' = head
    BY <1>7 DEF TailIsLast, nodes, history, calls, SharedTypes, TypeOK
  <2> QED BY <1>1, <2>1, <2>2, <2>3, OneStep
<1>8. CASE Link(t)
  <2>1. pc[t] = "link" /\ Goes(t, "swing", my[t])
    BY <1>8, ProducerGoes
  <2>2. ProducerAt("swing", my[t])
    BY <1>1, <2>1 DEF ProducerAt, OutAt, Preparing, Looking
  <2>3. SharedTypes' /\ head' = head
    BY <1>1, <1>8 DEF Link, Access, calls, SharedTypes, TypeOK
  <2> QED BY <1>1, <2>1, <2>2, <2>3, OneStep
<1>9. CASE Swing(t)
  <2>1. pc[t] = "swing" /\ Goes(t, "out", NoLocals)
    BY <1>9, ProducerGoes
  <2>2. NoLocals \in LocalVariables /\ ProducerAt("out", NoLocals)
    BY DEF NoLocals, LocalVariables, NoValue, ProducerAt, OutAt, Preparing, Looking
  <2>3. tail' \in Addrs
    BY <1>1, <1>2, <1>9, <2>1 DEF Swing, Swung, Exchanged, ProducerAt
  <2>4. SharedTypes' /\ head' = head
    BY <1>9, <2>3 DEF Swing, nodes, history, calls, SharedTypes, TypeOK
  <2> QED BY <1>1, <2>1, <2>2, <2>4, OneStep
<1> QED BY <1>3, <1>4, <1>5, <1>6, <1>7, <1>8, <1>9 DEF Producer

\* Every step of a consumer.
LEMMA ConsumerTypes ==
    ASSUME TypeOK, Locals, NEW t \in active \cap Consumers, Consumer(t)
    PROVE  TypeOK' /\ Locals'
<1>1. /\ t \in Threads /\ t \notin Producers
      /\ my[t] \in LocalVariables /\ ConsumerAt(pc[t], my[t])
      /\ my[t].head \in Addrs \cup {Nil} /\ my[t].next \in Addrs \cup {Nil}
      /\ my[t].node = Nil
  BY QueueAssumption DEF TypeOK, LocalVariables, Threads, Locals, ConsumerAt
<1>2. Nil \notin Addrs /\ tail \in Addrs /\ tail # Nil /\ head \in Addrs \cup {Nil}
  BY QueueAssumption DEF TypeOK
<1>3. NoLocals \in LocalVariables /\ ConsumerAt("out", NoLocals) /\ ConsumerAt("again", NoLocals)
  BY DEF NoLocals, LocalVariables, NoValue, ConsumerAt, OutAt, Reading
<1>4. CASE LoadHead(t)
  <2> DEFINE m == [my[t] EXCEPT !.head = head]
  <2>1. pc[t] \in {"out", "again"} /\ Goes(t, "readTail", m)
    BY <1>4, ConsumerGoes
  <2>2. head # Nil
    BY <1>1, <2>1 DEF Locals
  <2>3. m \in LocalVariables /\ m.node = Nil /\ m.head = head
    BY <1>1, <1>2 DEF LocalVariables
  <2>4. ConsumerAt("readTail", m)
    BY <2>2, <2>3 DEF ConsumerAt, OutAt, Reading
  <2>5. SharedTypes' /\ head' = head
    BY <1>4 DEF LoadHead, nodes, SharedTypes, TypeOK
  <2> QED BY <1>1, <2>1, <2>3, <2>4, <2>5, OneStep
<1>5. CASE ReadTail(t)
  <2> DEFINE m == [my[t] EXCEPT !.tail = tail]
  <2>1. pc[t] = "readTail" /\ Goes(t, "readNext", m)
    BY <1>5, ConsumerGoes
  <2>2. m \in LocalVariables /\ m.node = Nil /\ m.head = my[t].head /\ m.tail = tail
    BY <1>1, <1>2 DEF LocalVariables
  <2>3. ConsumerAt("readNext", m)
    BY <1>1, <1>2, <2>1, <2>2 DEF ConsumerAt, OutAt, Reading
  <2>4. SharedTypes' /\ head' = head
    BY <1>5 DEF ReadTail, nodes, history, calls, SharedTypes, TypeOK
  <2> QED BY <1>1, <2>1, <2>2, <2>3, <2>4, OneStep
<1>6. CASE ReadNext(t)
  <2> DEFINE m == [my[t] EXCEPT !.next = next[my[t].head]]
  <2>1. pc[t] = "readNext" /\ Goes(t, "compareHead", m)
    BY <1>6, ConsumerGoes
  <2>2. my[t].head \in Addrs
    BY <1>1, <2>1 DEF ConsumerAt, Reading
  <2>3. m \in LocalVariables /\ m.node = Nil /\ m.head = my[t].head /\ m.tail = my[t].tail
    BY <1>1, <2>2 DEF LocalVariables, TypeOK
  <2>4. ConsumerAt("compareHead", m)
    BY <1>1, <2>1, <2>3 DEF ConsumerAt, OutAt, Reading
  <2>5. SharedTypes' /\ head' = head
    BY <1>6 DEF ReadNext, Access, nodes, calls, SharedTypes, TypeOK
  <2> QED BY <1>1, <2>1, <2>3, <2>4, <2>5, OneStep
<1>7. CASE HeadMoved(t) \/ HelpDequeue(t) \/ UnlinkFails(t)
  <2>1. [NoLocals EXCEPT !.node = my[t].node] = NoLocals
    BY <1>1, RetryLocals
  <2>2. pc[t] # "joined" /\ Goes(t, "again", NoLocals)
    BY <1>7, <2>1, ConsumerGoes
  <2>3. tail' \in Addrs
    BY <1>1, <1>2, <1>7 DEF HeadMoved, HelpDequeue, UnlinkFails, Helped, Exchanged, Step, ConsumerAt
  <2>4. SharedTypes' /\ head' = head
    BY <1>7, <2>3 DEF HeadMoved, HelpDequeue, UnlinkFails, nodes, history, calls, SharedTypes, TypeOK
  <2> QED BY <1>1, <1>3, <2>2, <2>4, OneStep
<1>8. CASE HeadIsDummy(t)
  <2> DEFINE l == IF my[t].head # my[t].tail THEN "copy" ELSE IF my[t].next = Nil THEN "null" ELSE "helpDequeue"
  <2>1. pc[t] = "compareHead" /\ Goes(t, l, my[t])
    BY <1>8, ConsumerGoes
  <2>2. ConsumerAt(l, my[t])
    BY <1>1, <2>1 DEF ConsumerAt, OutAt, Reading
  <2>3. SharedTypes' /\ head' = head
    BY <1>8 DEF HeadIsDummy, nodes, history, calls, SharedTypes, TypeOK
  <2> QED BY <1>1, <2>1, <2>2, <2>3, OneStep
<1>9. CASE ReturnNull(t)
  <2>1. pc[t] = "null" /\ Goes(t, "out", NoLocals)
    BY <1>9, ConsumerGoes
  <2>2. SharedTypes' /\ head' = head
    BY <1>9 DEF ReturnNull, Return, nodes, SharedTypes, TypeOK
  <2> QED BY <1>1, <1>3, <2>1, <2>2, OneStep
<1>10. CASE Copy(t)
  <2> DEFINE m == [my[t] EXCEPT !.res = data[my[t].next]]
  <2>1. pc[t] = "copy" /\ my[t].next # Nil /\ Goes(t, "unlink", m)
    BY <1>10, ConsumerGoes
  <2>2. data[my[t].next] \in Values \cup {NoValue}
    BY <1>1, <2>1 DEF TypeOK
  <2>3. /\ m \in LocalVariables
        /\ m.node = Nil /\ m.head = my[t].head /\ m.tail = my[t].tail /\ m.next = my[t].next
    BY <1>1, <2>2 DEF LocalVariables
  <2>4. ConsumerAt("unlink", m)
    BY <1>1, <2>1, <2>3 DEF ConsumerAt, OutAt, Reading
  <2>5. SharedTypes' /\ head' = head
    BY <1>10 DEF Copy, Access, nodes, calls, SharedTypes, TypeOK
  <2> QED BY <1>1, <2>1, <2>3, <2>4, <2>5, OneStep
<1>11. CASE Unlink(t)
  <2>1. pc[t] = "unlink" /\ Goes(t, "delete", my[t])
    BY <1>11, ConsumerGoes
  <2>2. ConsumerAt("delete", my[t]) /\ my[t].next # Nil
    BY <1>1, <2>1 DEF ConsumerAt, OutAt, Reading
  <2>3. my[t].res \in Values \cup {NoValue}
    BY <1>1 DEF LocalVariables
  <2>4. SharedTypes' /\ head' # Nil
    BY <1>1, <1>11, <2>2, <2>3 DEF Unlink, NewHead, nodes, SharedTypes, TypeOK
  <2> QED BY <1>1, <2>1, <2>2, <2>4, OneStep
<1>12. CASE Delete(t)
  <2>1. pc[t] = "delete" /\ Goes(t, "out", NoLocals)
    BY <1>12, ConsumerGoes
  <2>2. SharedTypes' /\ head' = head
    BY <1>1, <1>12 DEF Delete, Deleted, Return, SharedTypes, TypeOK
  <2> QED BY <1>1, <1>3, <2>1, <2>2, OneStep
<1> QED BY <1>4, <1>5, <1>6, <1>7, <1>8, <1>9, <1>10, <1>11, <1>12 DEF Consumer

\* The destructor, with all threads out of the queue.
LEMMA DestroyTypes ==
    ASSUME TypeOK, Locals, Destroy
    PROVE  TypeOK' /\ Locals'
<1>1. head \in Addrs /\ \A t \in Threads : pc[t] \in {"out", "joined"}
  BY DEF Destroy, TypeOK
<1>2. TypeOK'
  BY <1>1 DEF Destroy, history, calls, TypeOK
<1>3. \A t \in Threads : pc'[t] = "joined" /\ my'[t] = my[t]
  BY DEF Destroy
<1>4. \A p \in Producers : ProducerAt(pc'[p], my'[p])
  <2> TAKE p \in Producers
  <2>1. ProducerAt(pc[p], my[p]) /\ p \in Threads
    BY DEF Locals, Threads
  <2> QED BY <1>1, <1>3, <2>1 DEF ProducerAt, OutAt, Preparing, Looking
<1>5. \A c \in Consumers : ConsumerAt(pc'[c], my'[c])
  <2> TAKE c \in Consumers
  <2>1. ConsumerAt(pc[c], my[c]) /\ c \in Threads
    BY DEF Locals, Threads
  <2> QED BY <1>1, <1>3, <2>1 DEF ConsumerAt, OutAt, Reading
<1> QED BY <1>2, <1>3, <1>4, <1>5 DEF Locals

\* Every step keeps the types and the local variables.
LEMMA TypesStep ==
    ASSUME TypeOK, Locals, [Next]_vars
    PROVE  TypeOK' /\ Locals'
<1>1. CASE UNCHANGED vars
  BY <1>1 DEF vars, nodes, history, calls, TypeOK, Locals
<1> QED BY <1>1, ProducerTypes, ConsumerTypes, DestroyTypes DEF Next

-----------------------------------------------------------------------------
\* The threads whose node is not linked yet.
LEMMA LinkingIs ==
    ASSUME Locals
    PROVE  Linking = {p \in Producers : pc[p] \in Preparing}
<1> SUFFICES ASSUME NEW p \in Producers
             PROVE  my[p].node # Nil /\ pc[p] # "swing" <=> pc[p] \in Preparing
  BY DEF Linking
<1>1. ProducerAt(pc[p], my[p]) /\ NoLocals.node = Nil
  BY DEF Locals, NoLocals
<1> QED BY <1>1 DEF ProducerAt, OutAt, Preparing

\* What is in the list, and what is about to be deleted, is there.
LEMMA PlacedIsLive ==
    ASSUME NEW q, Structure(q), NEW a, Placed(q, a)
    PROVE  a \in live
  BY DEF Structure, Line, Left, Placed, On, Leaving

\* The ends of the list.
LEMMA Ends ==
    ASSUME NEW q, q # <<>>, Line(q)
    PROVE  /\ Len(q) \in Nat \ {0}
           /\ q[1] = head /\ head \in live /\ On(q, head) /\ head \in Addrs
           /\ On(q, q[Len(q)]) /\ next[q[Len(q)]] = Nil
<1>1. q \in Seq(Addrs) /\ Len(q) \in Nat \ {0}
  BY EmptySeq, LenProperties DEF Line
<1>2. q[1] = head /\ 1 \in 1 .. Len(q) /\ Len(q) \in 1 .. Len(q)
  BY <1>1 DEF Line
<1>3. q[1] \in Addrs
  BY <1>1, ElementOfSeq
<1> QED BY <1>1, <1>2, <1>3 DEF Line, On

\* The node that tail points to.
LEMMA TailPlaced ==
    ASSUME NEW q, q # <<>>, Line(q), Behind(q)
    PROVE  /\ On(q, tail)
           /\ tail = q[Len(q)] <=> next[tail] = Nil
           /\ tail # q[Len(q)] => Len(q) > 1 /\ tail = q[Len(q) - 1] /\ next[tail] = q[Len(q)]
<1>1. Len(q) \in Nat \ {0} /\ q \in Seq(Addrs)
  BY Ends DEF Line
<1>2. CASE tail = q[Len(q)]
  BY <1>2, Ends
<1>3. CASE tail # q[Len(q)]
  <2>1. Len(q) > 1 /\ tail = q[Len(q) - 1]
    BY <1>3 DEF Behind
  <2>2. Len(q) - 1 \in 1 .. Len(q) /\ Len(q) - 1 # Len(q) /\ Len(q) - 1 + 1 = Len(q) /\ Len(q) \in 1 .. Len(q)
    BY <1>1, <2>1
  <2>3. next[q[Len(q) - 1]] = q[Len(q)]
    BY <2>2 DEF Line
  <2>4. q[Len(q)] # Nil
    <3>1. q[Len(q)] \in Addrs
      BY <1>1, <2>2, ElementOfSeq
    <3> QED BY <3>1, QueueAssumption
  <2> QED BY <1>3, <2>1, <2>2, <2>3, <2>4 DEF On
<1> QED BY <1>2, <1>3

\* A node in the list is the last or has its successor there.
LEMMA Successor ==
    ASSUME NEW q, Line(q), NEW i \in 1 .. Len(q), next[q[i]] # Nil
    PROVE  i + 1 \in 1 .. Len(q) /\ next[q[i]] = q[i + 1] /\ On(q, next[q[i]])
<1>1. Len(q) \in Nat
  BY LenProperties DEF Line
<1>2. i # Len(q) /\ next[q[i]] = q[i + 1]
  BY DEF Line
<1>3. i + 1 \in 1 .. Len(q)
  BY <1>1, <1>2
<1> QED BY <1>2, <1>3 DEF On

\* Only the last node has no successor.
LEMMA LastNode ==
    ASSUME NEW q, Line(q), NEW i \in 1 .. Len(q), next[q[i]] = Nil
    PROVE  i = Len(q)
<1> SUFFICES ASSUME i # Len(q) PROVE FALSE
  OBVIOUS
<1>1. q \in Seq(Addrs) /\ next[q[i]] = q[i + 1]
  BY DEF Line
<1>2. i + 1 \in 1 .. Len(q)
  BY <1>1, LenProperties
<1>3. q[i + 1] \in Addrs
  BY <1>1, <1>2, ElementOfSeq
<1> QED BY <1>1, <1>3, QueueAssumption

\* A list of nothing but the dummy leaves no value inside.
LEMMA NothingInside ==
    ASSUME Locals, NEW q, Preserved(q), Len(q) = 1
    PROVE  Inside = {}
<1> SUFFICES ASSUME NEW v \in Inside PROVE FALSE
  OBVIOUS
<1>1. v \in 1 .. made /\ ~ \E i \in 1 .. Len(taken) : taken[i] = v
  BY DEF Inside
<1>2. ~ \E p \in Linking : data[my[p].node] = v
  BY DEF Inside
<1>3. ~ \E i \in 2 .. Len(q) : data[q[i]] = v
  OBVIOUS
<1> QED BY <1>1, <1>2, <1>3 DEF Preserved

\* A step that neither links, unlinks nor deletes keeps the structure.
Keeps(t, l, m) ==
    /\ Goes(t, l, m)
    /\ UNCHANGED <<head, next, data, live, made, taken>>
    /\ pc[t] # "delete" /\ l # "delete"
    /\ pc[t] \in Preparing <=> l \in Preparing
    /\ l \in Preparing => m.node = my[t].node

\* Such a step keeps the list, what is in it and what the threads hold.
LEMMA StructureKept ==
    ASSUME TypeOK, Locals, Locals', NEW q, Structure(q), NEW t \in Threads, NEW l, NEW m, Keeps(t, l, m)
    PROVE  Structure(q)' /\ Inside' = Inside /\ (\A a : Placed(q, a)' <=> Placed(q, a))
<1>1. /\ pc'[t] = l /\ my'[t] = m
      /\ \A u \in Threads : u # t => pc'[u] = pc[u] /\ my'[u] = my[u]
  BY GoesOnly DEF Keeps
<1>2. /\ head' = head /\ next' = next /\ data' = data /\ live' = live /\ made' = made /\ taken' = taken
      /\ pc[t] # "delete" /\ l # "delete" /\ (pc[t] \in Preparing <=> l \in Preparing)
      /\ (l \in Preparing => m.node = my[t].node)
  BY DEF Keeps
<1>3. \A c \in Consumers : /\ pc'[c] = "delete" <=> pc[c] = "delete"
                           /\ pc[c] = "delete" => my'[c] = my[c]
  BY <1>1, <1>2 DEF Threads
<1>4. \A p \in Producers : /\ pc'[p] \in Preparing <=> pc[p] \in Preparing
                           /\ pc[p] \in Preparing => my'[p].node = my[p].node
  BY <1>1, <1>2 DEF Threads
<1>5. \A a : Leaving(a)' <=> Leaving(a)
  BY <1>3 DEF Leaving
<1>6. \A a : Placed(q, a)' <=> Placed(q, a)
  BY <1>5 DEF Placed, On
<1>7. Line(q)'
  BY <1>2 DEF Structure, Line
<1>8. \A p \in Producers : Fresh(q, p)'
  BY <1>2, <1>4, <1>6 DEF Structure, Fresh
<1>9. \A c \in Consumers : Left(q, c)'
  BY <1>2, <1>3 DEF Structure, Left, On
<1>10. Apart' /\ LeftApart'
  BY <1>3, <1>4 DEF Structure, Apart, LeftApart
<1>11. Accounted(q)'
  BY <1>2, <1>4, <1>6 DEF Structure, Accounted
<1>12. /\ Linking' = {p \in Producers : pc'[p] \in Preparing}
       /\ Linking = {p \in Producers : pc[p] \in Preparing}
  <2>1. Linking = {p \in Producers : pc[p] \in Preparing}
    BY LinkingIs
  <2>2. Locals => Linking = {p \in Producers : pc[p] \in Preparing}
    BY LinkingIs
  <2>3. (Locals => Linking = {p \in Producers : pc[p] \in Preparing})'
    BY LinkingIs, PTL
  <2> QED BY <2>1, <2>3
<1>13. Linking' = Linking /\ \A p \in Linking : my'[p].node = my[p].node
  BY <1>4, <1>12
<1>14. Inside' = Inside
  BY <1>2, <1>13 DEF Inside
<1>15. Preserved(q)'
  BY <1>2, <1>13 DEF Structure, Preserved
<1> QED BY <1>6, <1>7, <1>8, <1>9, <1>10, <1>11, <1>14, <1>15 DEF Structure

-----------------------------------------------------------------------------
\* A step that only reads keeps the queue in use, if what the thread itself has seen
\* is right.
LEMMA ReadsKeep ==
    ASSUME TypeOK, Locals, Locals', NEW q, InUse(q), NEW t \in Threads, NEW l, NEW m, Keeps(t, l, m),
           tail' = tail, pc[t] # "swing", l # "swing",
           t \in Producers => TailSeen(q, t)',
           t \in Consumers => HeadSeen(q, t)' /\ NextSeen(q, t)' /\ NullSeen(t)',
           filled' \subseteq filled \cup {t}, filled' # {} => Inside # {}
    PROVE  InUse(q)'
<1>1. /\ pc'[t] = l /\ my'[t] = m /\ active' = active
      /\ \A u \in Threads : u # t => pc'[u] = pc[u] /\ my'[u] = my[u]
  BY GoesOnly DEF Keeps, Goes
<1>2. head' = head /\ next' = next /\ data' = data
  BY DEF Keeps
<1>3. Structure(q)' /\ Inside' = Inside /\ (\A a : Placed(q, a)' <=> Placed(q, a))
  BY StructureKept DEF InUse
<1>4. Behind(q)'
  <2>1. \A p \in active \cap Producers : pc[p] = "swing" => pc'[p] = "swing" /\ my'[p] = my[p]
    BY <1>1 DEF Threads
  <2> QED BY <1>1, <2>1 DEF InUse, Behind
<1>5. ASSUME NEW p \in Producers PROVE TailSeen(q, p)'
  <2>1. CASE p = t
    BY <2>1
  <2>2. CASE p # t
    <3>1. TailSeen(q, p) /\ pc'[p] = pc[p] /\ my'[p] = my[p]
      BY <1>1, <2>2 DEF InUse, Views, Threads
    <3>2. Alone' = Alone
      BY <1>1 DEF Alone, OneProducer, OneConsumer
    <3> QED BY <1>2, <1>3, <3>1, <3>2 DEF TailSeen
  <2> QED BY <2>1, <2>2
<1>6. ASSUME NEW c \in Consumers PROVE HeadSeen(q, c)' /\ NextSeen(q, c)' /\ NullSeen(c)'
  <2>1. CASE c = t
    BY <2>1
  <2>2. CASE c # t
    <3>1. /\ HeadSeen(q, c) /\ NextSeen(q, c) /\ NullSeen(c)
          /\ pc'[c] = pc[c] /\ my'[c] = my[c]
      BY <1>1, <2>2 DEF InUse, Views, Threads
    <3>2. HeadSeen(q, c)'
      BY <1>2, <1>3, <3>1 DEF HeadSeen, On
    <3>3. NextSeen(q, c)'
      BY <1>2, <1>3, <3>1 DEF NextSeen
    <3>4. NullSeen(c)'
      BY <2>2, <3>1 DEF NullSeen
    <3> QED BY <3>2, <3>3, <3>4
  <2> QED BY <2>1, <2>2
<1> QED BY <1>3, <1>4, <1>5, <1>6 DEF InUse, Views

\* The steps in which a producer only reads.
ProducerReads(t) == LoadTail(t) \/ LoadNext(t) \/ TailMoved(t) \/ TailIsLast(t) \/ LinkFails(t)

\* A producer that only reads keeps the list, and reads no deleted node.
LEMMA ProducerReadsKeep ==
    ASSUME TypeOK, Locals, TypeOK', Locals', NEW q, InUse(q), ~dangling,
           NEW t \in active \cap Producers, ProducerReads(t)
    PROVE  InUse(q)' /\ ~dangling'
<1>1. /\ t \in Threads /\ t \notin Consumers /\ my[t] \in LocalVariables
      /\ TailSeen(q, t)
  BY QueueAssumption DEF TypeOK, Threads, LocalVariables, InUse, Views
<1>2. /\ Line(q) /\ Behind(q) /\ q # <<>> /\ Structure(q)
      /\ On(q, tail)
  BY TailPlaced DEF InUse, Structure
<1>3. /\ filled' = filled /\ tail' = tail /\ UNCHANGED <<head, next, data, live, made, taken>>
      /\ filled' \subseteq filled \cup {t} /\ (filled' # {} => Inside # {})
  BY DEF ProducerReads, LoadTail, LoadNext, TailMoved, TailIsLast, LinkFails, nodes, history, calls, InUse
<1>4. ASSUME NEW l, NEW m, Goes(t, l, m), pc[t] \in Preparing, l \in Preparing,
             m.node = my[t].node, TailSeen(q, t)'
      PROVE  InUse(q)'
  <2>1. Keeps(t, l, m)
    BY <1>3, <1>4 DEF Keeps, Preparing
  <2>2. pc[t] # "swing" /\ l # "swing"
    BY <1>4 DEF Preparing
  <2> QED BY <1>1, <1>3, <1>4, <2>1, <2>2, ReadsKeep
<1>5. \A a : Placed(q, a) => a \in live
  BY <1>2, PlacedIsLive
<1>6. CASE LoadTail(t)
  <2> DEFINE m == [my[t] EXCEPT !.tail = tail]
  <2>1. pc[t] = "loadTail" /\ Goes(t, "loadNext", m) /\ dangling' = dangling
    BY <1>6, ProducerGoes DEF LoadTail, history
  <2>2. m.node = my[t].node /\ m.tail = tail
    BY <1>1 DEF LocalVariables
  <2>3. pc'[t] = "loadNext" /\ my'[t] = m
    BY <1>1, <2>1, GoesOnly
  <2>4. TailSeen(q, t)'
    BY <1>2, <1>3, <2>2, <2>3 DEF TailSeen, Placed, Looking
  <2> QED BY <1>4, <2>1, <2>2, <2>4 DEF Preparing
<1>7. CASE LoadNext(t)
  <2> DEFINE m == [my[t] EXCEPT !.next = next[my[t].tail]]
  <2>1. pc[t] = "loadNext" /\ Goes(t, "compareTail", m)
    BY <1>7, ProducerGoes
  <2>2. m.node = my[t].node /\ m.tail = my[t].tail /\ m.next = next[my[t].tail]
    BY <1>1 DEF LocalVariables
  <2>3. pc'[t] = "compareTail" /\ my'[t] = m
    BY <1>1, <2>1, GoesOnly
  <2>4. Keeps(t, "compareTail", m)
    BY <1>3, <2>1, <2>2 DEF Keeps, Preparing
  <2>5. \A a : Placed(q, a)' <=> Placed(q, a)
    BY <1>1, <1>2, <2>4, StructureKept
  <2>6. (Alone => my[t].tail = tail) /\ Placed(q, my[t].tail) /\ (my[t].tail = q[Len(q)] => tail = my[t].tail)
    BY <1>1, <2>1 DEF TailSeen, Looking
  <2>7. Alone' = Alone
    BY <2>1 DEF Goes, Alone, OneProducer, OneConsumer
  <2>8. TailSeen(q, t)'
    BY <1>3, <2>2, <2>3, <2>5, <2>6, <2>7 DEF TailSeen, Looking
  <2>9. ~dangling'
    BY <1>5, <1>7, <2>6 DEF LoadNext, Access
  <2> QED BY <1>4, <2>1, <2>2, <2>8, <2>9 DEF Preparing
<1>8. CASE TailMoved(t) \/ LinkFails(t)
  <2> DEFINE m == [NoLocals EXCEPT !.node = my[t].node]
  <2>1. pc[t] \in Preparing /\ Goes(t, "loadTail", m)
    BY <1>8, ProducerGoes DEF Preparing
  <2>2. m.node = my[t].node
    BY DEF NoLocals
  <2>3. pc'[t] = "loadTail"
    BY <1>1, <2>1, GoesOnly
  <2>4. TailSeen(q, t)'
    BY <2>3 DEF TailSeen, Looking
  <2>5. ~dangling'
    <3>1. CASE TailMoved(t)
      BY <3>1 DEF TailMoved, history
    <3>2. CASE LinkFails(t)
      <4>1. pc[t] = "link"
        BY <3>2, ProducerGoes
      <4>2. Placed(q, my[t].tail)
        BY <1>1, <4>1 DEF TailSeen, Looking
      <4> QED BY <1>5, <3>2, <4>2 DEF LinkFails, Access
    <3> QED BY <1>8, <3>1, <3>2
  <2> QED BY <1>4, <2>1, <2>2, <2>4, <2>5 DEF Preparing
<1>9. CASE TailIsLast(t)
  <2> DEFINE l == IF my[t].next = Nil THEN "link" ELSE "helpEnqueue"
  <2>1. pc[t] = "compareTail" /\ Goes(t, l, my[t]) /\ dangling' = dangling
    BY <1>9, ProducerGoes DEF TailIsLast, history
  <2>2. pc'[t] = l /\ my'[t] = my[t]
    BY <1>1, <2>1, GoesOnly
  <2>3. Keeps(t, l, my[t])
    BY <1>3, <2>1 DEF Keeps, Preparing
  <2>4. \A a : Placed(q, a)' <=> Placed(q, a)
    BY <1>1, <1>2, <2>3, StructureKept
  <2>5. Alone' = Alone
    BY <2>1 DEF Goes, Alone, OneProducer, OneConsumer
  <2>6. TailSeen(q, t)'
    BY <1>1, <1>3, <2>1, <2>2, <2>4, <2>5 DEF TailSeen, Looking
  <2>7. l \in Preparing
    BY DEF Preparing
  <2> QED BY <1>4, <2>1, <2>6, <2>7 DEF Preparing
<1> QED BY <1>6, <1>7, <1>8, <1>9 DEF ProducerReads

\* The steps in which a consumer only reads.
ConsumerReads(t) == \/ LoadHead(t) \/ ReadTail(t) \/ ReadNext(t) \/ HeadMoved(t)
                    \/ HeadIsDummy(t) \/ ReturnNull(t) \/ Copy(t) \/ UnlinkFails(t)

\* A consumer that only reads keeps the list, and reads no deleted node.
LEMMA ConsumerReadsKeep ==
    ASSUME TypeOK, Locals, TypeOK', Locals', NEW q, InUse(q), ~dangling,
           NEW t \in active \cap Consumers, ConsumerReads(t)
    PROVE  InUse(q)' /\ ~dangling'
<1>1. /\ t \in Threads /\ t \notin Producers /\ my[t] \in LocalVariables /\ ConsumerAt(pc[t], my[t])
      /\ HeadSeen(q, t) /\ NextSeen(q, t) /\ NullSeen(t)
  BY QueueAssumption DEF TypeOK, Threads, LocalVariables, InUse, Views, Locals
<1>2. /\ Line(q) /\ Behind(q) /\ q # <<>> /\ Structure(q)
      /\ On(q, tail) /\ On(q, head) /\ q[1] = head
  BY TailPlaced, Ends DEF InUse, Structure
<1>3. tail' = tail /\ UNCHANGED <<head, next, data, live, made, taken>>
  BY DEF ConsumerReads, LoadHead, ReadTail, ReadNext, HeadMoved, HeadIsDummy, ReturnNull, Copy, UnlinkFails,
         nodes, history, calls
<1>4. /\ filled' \subseteq filled \cup {t} /\ (filled' # {} => Inside # {})
  BY DEF ConsumerReads, LoadHead, ReadTail, ReadNext, HeadMoved, HeadIsDummy, ReturnNull, Return, Copy, UnlinkFails,
         nodes, history, calls, InUse
<1>5. \A a : Placed(q, a) => a \in live
  BY <1>2, PlacedIsLive
<1>6. ASSUME NEW l, NEW m, Goes(t, l, m), pc[t] # "delete", l \notin Preparing \cup {"delete", "swing"}
      PROVE  /\ \A a : Placed(q, a)' <=> Placed(q, a)
             /\ HeadSeen(q, t)' /\ NextSeen(q, t)' /\ NullSeen(t)' => InUse(q)'
  <2>1. pc[t] \notin Preparing /\ pc[t] # "swing"
    BY <1>1 DEF ConsumerAt, Preparing, Reading
  <2>2. Keeps(t, l, m)
    BY <1>3, <1>6, <2>1 DEF Keeps
  <2>3. \A a : Placed(q, a)' <=> Placed(q, a)
    BY <1>1, <1>2, <2>2, StructureKept
  <2> QED BY <1>1, <1>3, <1>4, <1>6, <2>1, <2>2, <2>3, ReadsKeep
<1>7. CASE LoadHead(t)
  <2> DEFINE m == [my[t] EXCEPT !.head = head]
  <2>1. pc[t] \in {"out", "again"} /\ Goes(t, "readTail", m) /\ dangling' = dangling
    BY <1>7, ConsumerGoes DEF LoadHead
  <2>2. m.head = head /\ m.next = Nil /\ m.tail = Nil
    <3>1. my[t] = NoLocals
      BY <1>1, <2>1 DEF ConsumerAt, OutAt
    <3> QED BY <3>1 DEF NoLocals
  <2>3. pc'[t] = "readTail" /\ my'[t] = m
    BY <1>1, <2>1, GoesOnly
  <2>4. (\A a : Placed(q, a)' <=> Placed(q, a)) /\ (HeadSeen(q, t)' /\ NextSeen(q, t)' /\ NullSeen(t)' => InUse(q)')
    BY <1>6, <2>1 DEF Preparing
  <2>5. HeadSeen(q, t)' /\ NextSeen(q, t)' /\ NullSeen(t)'
    BY <1>2, <1>3, <2>2, <2>3, <2>4 DEF HeadSeen, NextSeen, NullSeen, Placed
  <2> QED BY <2>1, <2>4, <2>5
<1>8. CASE ReadTail(t)
  <2> DEFINE m == [my[t] EXCEPT !.tail = tail]
  <2>1. pc[t] = "readTail" /\ Goes(t, "readNext", m) /\ dangling' = dangling
    BY <1>8, ConsumerGoes DEF ReadTail, history
  <2>2. m.head = my[t].head /\ m.next = my[t].next /\ m.tail = tail
    BY <1>1 DEF LocalVariables
  <2>3. pc'[t] = "readNext" /\ my'[t] = m
    BY <1>1, <2>1, GoesOnly
  <2>4. (\A a : Placed(q, a)' <=> Placed(q, a)) /\ (HeadSeen(q, t)' /\ NextSeen(q, t)' /\ NullSeen(t)' => InUse(q)')
    BY <1>6, <2>1 DEF Preparing
  <2>5. HeadSeen(q, t)' /\ NextSeen(q, t)' /\ NullSeen(t)'
    BY <1>1, <1>3, <2>1, <2>2, <2>3, <2>4 DEF HeadSeen, NextSeen, NullSeen, Reading, On
  <2> QED BY <2>1, <2>4, <2>5
<1>9. CASE ReadNext(t)
  <2> DEFINE m == [my[t] EXCEPT !.next = next[my[t].head]]
  <2>1. pc[t] = "readNext" /\ Goes(t, "compareHead", m)
    BY <1>9, ConsumerGoes
  <2>2. m.head = my[t].head /\ m.next = next[my[t].head] /\ m.tail = my[t].tail
    BY <1>1 DEF LocalVariables
  <2>3. pc'[t] = "compareHead" /\ my'[t] = m
    BY <1>1, <2>1, GoesOnly
  <2>4. (\A a : Placed(q, a)' <=> Placed(q, a)) /\ (HeadSeen(q, t)' /\ NextSeen(q, t)' /\ NullSeen(t)' => InUse(q)')
    BY <1>6, <2>1 DEF Preparing
  <2>5. Placed(q, my[t].head) /\ (On(q, my[t].head) => my[t].head = head)
    BY <1>1, <2>1 DEF HeadSeen, Reading
  <2>6. HeadSeen(q, t)'
    BY <1>1, <1>3, <2>1, <2>2, <2>3, <2>4 DEF HeadSeen, Reading, On
  <2>7. NextSeen(q, t)'
    <3>1. Len(q) \in Nat \ {0} /\ 1 \in 1 .. Len(q)
      BY <1>2, Ends
    <3>2. next[head] # Nil => On(q, next[head])
      BY <1>2, <3>1, Successor
    <3> QED BY <1>3, <2>2, <2>3, <2>4, <3>2 DEF NextSeen, Placed
  <2>8. NullSeen(t)'
    <3>1. CASE next[my[t].head] # Nil
      BY <2>2, <2>3, <3>1 DEF NullSeen
    <3>2. CASE next[my[t].head] = Nil
      <4>1. ~Leaving(my[t].head)
        BY <1>2, <3>2 DEF Structure, Left, Leaving
      <4>2. my[t].head = head
        BY <2>5, <4>1 DEF Placed
      <4>3. Len(q) = 1
        <5>1. 1 \in 1 .. Len(q) /\ next[q[1]] = Nil
          BY <1>2, <3>2, <4>2, Ends
        <5> QED BY <1>2, <5>1, LastNode
      <4>4. filled = {}
        BY <1>2, <4>3, NothingInside DEF InUse, Structure
      <4> QED BY <1>9, <4>4 DEF ReadNext, calls, NullSeen
    <3> QED BY <3>1, <3>2
  <2>9. ~dangling'
    BY <1>5, <1>9, <2>5 DEF ReadNext, Access
  <2> QED BY <2>4, <2>6, <2>7, <2>8, <2>9
<1>10. CASE HeadMoved(t) \/ UnlinkFails(t)
  <2> DEFINE m == [NoLocals EXCEPT !.node = my[t].node]
  <2>1. pc[t] # "delete" /\ Goes(t, "again", m) /\ dangling' = dangling
    BY <1>10, ConsumerGoes DEF HeadMoved, UnlinkFails, history
  <2>2. pc'[t] = "again"
    BY <1>1, <2>1, GoesOnly
  <2>3. HeadSeen(q, t)' /\ NextSeen(q, t)' /\ NullSeen(t)'
    BY <2>2 DEF HeadSeen, NextSeen, NullSeen, Reading
  <2> QED BY <1>6, <2>1, <2>3 DEF Preparing
<1>11. CASE HeadIsDummy(t)
  <2> DEFINE l == IF my[t].head # my[t].tail THEN "copy" ELSE IF my[t].next = Nil THEN "null" ELSE "helpDequeue"
  <2>1. pc[t] = "compareHead" /\ head = my[t].head /\ Goes(t, l, my[t]) /\ dangling' = dangling /\ filled' = filled
    BY <1>11, ConsumerGoes DEF HeadIsDummy, history, calls
  <2>2. pc'[t] = l /\ my'[t] = my[t]
    BY <1>1, <2>1, GoesOnly
  <2>3. (\A a : Placed(q, a)' <=> Placed(q, a)) /\ (HeadSeen(q, t)' /\ NextSeen(q, t)' /\ NullSeen(t)' => InUse(q)')
    BY <1>6, <2>1 DEF Preparing
  <2>4. l \in {"copy", "null", "helpDequeue"}
    OBVIOUS
  <2>5. HeadSeen(q, t)'
    BY <1>1, <1>3, <2>1, <2>2, <2>3 DEF HeadSeen, Reading, On
  <2>6. NextSeen(q, t)' /\ NullSeen(t)'
    BY <1>1, <1>3, <2>1, <2>2, <2>3, <2>4 DEF NextSeen, NullSeen
  <2> QED BY <2>1, <2>3, <2>5, <2>6
<1>12. CASE ReturnNull(t)
  <2>1. pc[t] = "null" /\ Goes(t, "out", NoLocals) /\ dangling' = dangling
    BY <1>12, ConsumerGoes DEF ReturnNull
  <2>2. pc'[t] = "out"
    BY <1>1, <2>1, GoesOnly
  <2>3. HeadSeen(q, t)' /\ NextSeen(q, t)' /\ NullSeen(t)'
    BY <2>2 DEF HeadSeen, NextSeen, NullSeen, Reading
  <2> QED BY <1>6, <2>1, <2>3 DEF Preparing
<1>13. CASE Copy(t)
  <2> DEFINE m == [my[t] EXCEPT !.res = data[my[t].next]]
  <2>1. pc[t] = "copy" /\ my[t].next # Nil /\ Goes(t, "unlink", m)
    BY <1>13, ConsumerGoes
  <2>2. m.head = my[t].head /\ m.next = my[t].next /\ m.tail = my[t].tail /\ m.res = data[my[t].next]
    BY <1>1 DEF LocalVariables
  <2>3. pc'[t] = "unlink" /\ my'[t] = m
    BY <1>1, <2>1, GoesOnly
  <2>4. (\A a : Placed(q, a)' <=> Placed(q, a)) /\ (HeadSeen(q, t)' /\ NextSeen(q, t)' /\ NullSeen(t)' => InUse(q)')
    BY <1>6, <2>1 DEF Preparing
  <2>5. Placed(q, my[t].next)
    BY <1>1, <2>1 DEF NextSeen
  <2>6. HeadSeen(q, t)'
    BY <1>1, <1>3, <2>1, <2>2, <2>3, <2>4 DEF HeadSeen, Reading, On
  <2>7. NextSeen(q, t)' /\ NullSeen(t)'
    BY <1>3, <2>2, <2>3, <2>4, <2>5 DEF NextSeen, NullSeen
  <2>8. ~dangling'
    BY <1>5, <1>13, <2>5 DEF Copy, Access
  <2> QED BY <2>4, <2>6, <2>7, <2>8
<1> QED BY <1>7, <1>8, <1>9, <1>10, <1>11, <1>12, <1>13 DEF ConsumerReads

\* While tail is behind, the only producer is about to swing it.
LEMMA OnlySwinging ==
    ASSUME Locals, NEW q, Behind(q), Alone, tail # q[Len(q)], NEW p \in Producers
    PROVE  pc[p] \notin Looking
<1>1. PICK o \in active \cap Producers : pc[o] = "swing"
  BY DEF Behind
<1>2. CASE p \in active
  BY <1>1, <1>2 DEF Alone, OneProducer, Looking
<1>3. CASE p \notin active
  BY <1>3 DEF Locals, Threads, Looking
<1> QED BY <1>2, <1>3

\* A step that moves tail to the last node, if at all, keeps the queue in use.
LEMMA TailForward ==
    ASSUME TypeOK, Locals, Locals', NEW q, InUse(q), NEW t \in Threads, NEW l, NEW m, Keeps(t, l, m),
           l \in {"loadTail", "again", "out"}, filled' = filled,
           tail' = tail \/ (tail # q[Len(q)] /\ tail' = q[Len(q)]),
           pc[t] = "swing" /\ my[t].tail = tail => tail' = q[Len(q)]
    PROVE  InUse(q)'
<1>1. /\ pc'[t] = l /\ my'[t] = m /\ active' = active
      /\ \A u \in Threads : u # t => pc'[u] = pc[u] /\ my'[u] = my[u]
  BY GoesOnly DEF Keeps, Goes
<1>2. head' = head /\ next' = next /\ data' = data
  BY DEF Keeps
<1>3. Structure(q)' /\ Inside' = Inside /\ (\A a : Placed(q, a)' <=> Placed(q, a))
  BY StructureKept DEF InUse
<1>4. Behind(q)'
  <2>1. CASE tail' = q[Len(q)]
    BY <2>1 DEF Behind
  <2>2. CASE tail' # q[Len(q)]
    <3>1. tail' = tail
      BY <2>2
    <3>2. PICK p \in active \cap Producers : pc[p] = "swing" /\ my[p].tail = tail
      BY <2>2, <3>1 DEF InUse, Behind
    <3>3. p # t /\ p \in Threads
      BY <2>2, <3>2 DEF Threads
    <3> QED BY <1>1, <2>2, <3>1, <3>2, <3>3 DEF InUse, Behind
  <2> QED BY <2>1, <2>2
<1>5. ASSUME NEW p \in Producers PROVE TailSeen(q, p)'
  <2>1. CASE p = t
    BY <1>1, <2>1 DEF TailSeen, Looking
  <2>2. CASE p # t
    <3>1. TailSeen(q, p) /\ pc'[p] = pc[p] /\ my'[p] = my[p]
      BY <1>1, <2>2 DEF InUse, Views, Threads
    <3>2. Alone' = Alone
      BY <1>1 DEF Alone, OneProducer, OneConsumer
    <3>3. Alone /\ pc[p] \in Looking => tail' = tail
      BY OnlySwinging DEF InUse
    <3> QED BY <1>2, <1>3, <3>1, <3>2, <3>3 DEF TailSeen
  <2> QED BY <2>1, <2>2
<1>6. tail' = tail \/ tail' # head
  <2>1. SUFFICES ASSUME tail # q[Len(q)] /\ tail' = q[Len(q)] PROVE q[Len(q)] # head
    OBVIOUS
  <2>2. Line(q) /\ q # <<>> /\ Behind(q)
    BY DEF InUse, Structure
  <2>3. Len(q) > 1 /\ Len(q) \in Nat /\ q[1] = head
    BY <2>1, <2>2, Ends, TailPlaced
  <2>4. Len(q) \in 1 .. Len(q) /\ 1 \in 1 .. Len(q) /\ Len(q) # 1
    BY <2>3
  <2> QED BY <2>2, <2>3, <2>4 DEF Line
<1>7. ASSUME NEW c \in Consumers PROVE HeadSeen(q, c)' /\ NextSeen(q, c)' /\ NullSeen(c)'
  <2>1. CASE c = t
    BY <1>1, <2>1 DEF HeadSeen, NextSeen, NullSeen, Reading
  <2>2. CASE c # t
    <3>1. /\ HeadSeen(q, c) /\ NextSeen(q, c) /\ NullSeen(c)
          /\ pc'[c] = pc[c] /\ my'[c] = my[c]
      BY <1>1, <2>2 DEF InUse, Views, Threads
    <3>2. HeadSeen(q, c)'
      BY <1>2, <1>3, <1>6, <3>1 DEF HeadSeen, On
    <3>3. NextSeen(q, c)' /\ NullSeen(c)'
      BY <1>2, <1>3, <3>1 DEF NextSeen, NullSeen
    <3> QED BY <3>2, <3>3
  <2> QED BY <2>1, <2>2
<1> QED BY <1>3, <1>4, <1>5, <1>7 DEF InUse, Views

\* What any thread exchanges tail for is the node after it.
LEMMA ExchangeForward ==
    ASSUME NEW q, InUse(q), NEW t, NEW n, n # Nil, my[t].tail = tail => next[tail] = n,
           tail' = Exchanged(t, n)
    PROVE  /\ tail' = tail \/ (tail # q[Len(q)] /\ tail' = q[Len(q)])
           /\ my[t].tail = tail => tail' = q[Len(q)]
<1>1. /\ tail = q[Len(q)] <=> next[tail] = Nil
      /\ tail # q[Len(q)] => next[tail] = q[Len(q)]
  BY TailPlaced DEF InUse, Structure
<1> QED BY <1>1 DEF Exchanged

\* Helping, from either side, and the producer's own exchange.
LEMMA TailMovesKeep ==
    ASSUME TypeOK, Locals, TypeOK', Locals', NEW q, InUse(q), ~dangling, NEW t \in active,
           \/ t \in Producers /\ (HelpEnqueue(t) \/ Swing(t))
           \/ t \in Consumers /\ HelpDequeue(t)
    PROVE  InUse(q)' /\ ~dangling'
<1>1. t \in Threads
  BY DEF TypeOK
<1>2. filled' = filled /\ UNCHANGED <<head, next, data, live, made, taken>> /\ ~dangling'
  BY DEF HelpEnqueue, Swing, HelpDequeue, nodes, history, calls
<1>3. CASE t \in Producers /\ HelpEnqueue(t)
  <2> DEFINE m == [NoLocals EXCEPT !.node = my[t].node]
  <2>1. pc[t] = "helpEnqueue" /\ Goes(t, "loadTail", m) /\ tail' = Exchanged(t, my[t].next)
    BY <1>3, ProducerGoes DEF HelpEnqueue
  <2>2. my[t].next # Nil
    BY <1>3, <2>1 DEF Locals, ProducerAt
  <2>3. next[my[t].tail] = my[t].next
    BY <1>3, <2>1, <2>2 DEF InUse, Views, TailSeen, Looking
  <2>4. tail' = tail \/ (tail # q[Len(q)] /\ tail' = q[Len(q)])
    BY <2>1, <2>2, <2>3, ExchangeForward
  <2>5. m.node = my[t].node
    BY DEF NoLocals
  <2>6. Keeps(t, "loadTail", m)
    BY <1>2, <2>1, <2>5 DEF Keeps, Preparing
  <2> QED BY <1>1, <1>2, <2>1, <2>4, <2>6, TailForward
<1>4. CASE t \in Producers /\ Swing(t)
  <2>1. pc[t] = "swing" /\ Goes(t, "out", NoLocals) /\ tail' = Exchanged(t, my[t].node)
    BY <1>4, ProducerGoes DEF Swing, Swung
  <2>2. my[t].node # Nil
    BY <1>4, <2>1 DEF Locals, ProducerAt
  <2>3. next[my[t].tail] = my[t].node
    BY <1>4, <2>1 DEF InUse, Views, TailSeen
  <2>4. /\ tail' = tail \/ (tail # q[Len(q)] /\ tail' = q[Len(q)])
        /\ my[t].tail = tail => tail' = q[Len(q)]
    BY <2>1, <2>2, <2>3, ExchangeForward
  <2>5. Keeps(t, "out", NoLocals)
    BY <1>2, <2>1 DEF Keeps, Preparing
  <2> QED BY <1>1, <1>2, <2>4, <2>5, TailForward
<1>5. CASE t \in Consumers /\ HelpDequeue(t)
  <2> DEFINE m == [NoLocals EXCEPT !.node = my[t].node]
  <2>1. pc[t] = "helpDequeue" /\ Goes(t, "again", m) /\ tail' = Exchanged(t, my[t].next)
    BY <1>5, ConsumerGoes DEF HelpDequeue, Helped
  <2>2. my[t].next # Nil /\ my[t].tail = my[t].head
    BY <1>5, <2>1 DEF Locals, ConsumerAt
  <2>3. next[my[t].tail] = my[t].next
    BY <1>5, <2>1, <2>2 DEF InUse, Views, HeadSeen, Reading
  <2>4. tail' = tail \/ (tail # q[Len(q)] /\ tail' = q[Len(q)])
    BY <2>1, <2>2, <2>3, ExchangeForward
  <2>5. Keeps(t, "again", m)
    BY <1>2, <2>1 DEF Keeps, Preparing
  <2> QED BY <1>1, <1>2, <2>1, <2>4, <2>5, TailForward
<1> QED BY <1>3, <1>4, <1>5

\* A new node is none of those that anybody knows, since those are there.
LEMMA EnqueueKeeps ==
    ASSUME TypeOK, Locals, TypeOK', Locals', NEW q, InUse(q), ~dangling,
           NEW t \in active \cap Producers, Enqueue(t)
    PROVE  InUse(q)' /\ ~dangling'
<1>1. PICK a \in Addrs \ live : /\ live' = live \cup {a}
                                /\ next' = [next EXCEPT ![a] = Nil]
                                /\ data' = [data EXCEPT ![a] = made']
                                /\ my' = [my EXCEPT ![t].node = a]
  BY DEF Enqueue
<1>2. /\ t \in Threads /\ t \notin Consumers /\ my[t] \in LocalVariables /\ pc[t] = "out"
      /\ made' = made + 1 /\ made \in Nat /\ active' = active
      /\ UNCHANGED <<head, tail, taken, filled, dangling>>
  BY QueueAssumption DEF TypeOK, LocalVariables, Threads, Enqueue, Step
<1>3. /\ pc'[t] = "loadTail" /\ my'[t].node = a
      /\ \A u \in Threads : u # t => pc'[u] = pc[u] /\ my'[u] = my[u]
  BY <1>1, <1>2 DEF Enqueue, Step, TypeOK, LocalVariables
<1>4. /\ next'[a] = Nil /\ data'[a] = made'
      /\ \A b : b # a => next'[b] = next[b] /\ data'[b] = data[b]
  BY <1>1 DEF TypeOK
<1>5. Structure(q) /\ Line(q) /\ ~Placed(q, a) /\ \A b : Placed(q, b) => b # a /\ b \in live
  BY <1>1, PlacedIsLive DEF InUse, Structure
<1>6. \A p \in Producers : pc[p] \in Preparing => my[p].node \in live /\ my[p].node # a
  BY <1>1 DEF InUse, Structure, Fresh
<1>7. \A c \in Consumers : pc'[c] = pc[c] /\ my'[c] = my[c]
  BY <1>2, <1>3 DEF Threads
<1>8. \A p \in Producers : p # t => pc'[p] = pc[p] /\ my'[p] = my[p]
  BY <1>3 DEF Threads
<1>9. \A b : Placed(q, b)' <=> Placed(q, b)
  BY <1>7 DEF Placed, On, Leaving
<1>10. Line(q)'
  <2>1. \A i \in 1 .. Len(q) : q[i] # a
    BY <1>5 DEF Placed, On
  <2> QED BY <1>1, <1>2, <1>4, <1>5, <2>1 DEF Line
<1>11. ASSUME NEW p \in Producers PROVE Fresh(q, p)'
  <2>1. CASE p = t
    BY <1>1, <1>2, <1>3, <1>4, <1>5, <1>9, <2>1 DEF Fresh
  <2>2. CASE p # t
    BY <1>1, <1>2, <1>4, <1>6, <1>8, <1>9, <2>2 DEF InUse, Structure, Fresh
  <2> QED BY <2>1, <2>2
<1>12. \A c \in Consumers : Left(q, c)'
  BY <1>1, <1>4, <1>7 DEF InUse, Structure, Left, On
<1>13. Apart' /\ LeftApart'
  <2>1. Apart'
    BY <1>3, <1>6, <1>8 DEF InUse, Structure, Apart
  <2>2. LeftApart'
    BY <1>7 DEF InUse, Structure, LeftApart
  <2> QED BY <2>1, <2>2
<1>14. Accounted(q)'
  <2> SUFFICES ASSUME NEW b \in live'
               PROVE  Placed(q, b) \/ \E p \in Producers : pc'[p] \in Preparing /\ my'[p].node = b
    BY <1>9 DEF Accounted
  <2>1. CASE b = a
    BY <1>3, <2>1 DEF Preparing
  <2>2. CASE b # a /\ ~Placed(q, b)
    <3>1. PICK p \in Producers : pc[p] \in Preparing /\ my[p].node = b
      BY <1>1, <2>2 DEF InUse, Structure, Accounted
    <3>2. p # t
      BY <1>2, <3>1 DEF Preparing
    <3> QED BY <1>8, <3>1, <3>2
  <2> QED BY <2>1, <2>2
<1>15. /\ Linking = {p \in Producers : pc[p] \in Preparing}
       /\ Linking' = {p \in Producers : pc'[p] \in Preparing}
  <2>1. (Locals => Linking = {p \in Producers : pc[p] \in Preparing})'
    <3>1. Locals => Linking = {p \in Producers : pc[p] \in Preparing}
      BY LinkingIs
    <3> QED BY LinkingIs, PTL
  <2> QED BY <2>1, LinkingIs
<1>16. /\ t \in Linking' /\ data'[my'[t].node] = made'
       /\ Linking' = Linking \cup {t} /\ t \notin Linking
       /\ \A p \in Linking : data'[my'[p].node] = data[my[p].node]
  BY <1>2, <1>3, <1>4, <1>6, <1>8, <1>15 DEF Preparing
<1>17. Preserved(q)'
  <2> SUFFICES ASSUME NEW v \in 1 .. made'
               PROVE  \/ \E i \in 1 .. Len(taken) : taken[i] = v
                      \/ \E p \in Linking' : data'[my'[p].node] = v
                      \/ \E i \in 2 .. Len(q) : data'[q[i]] = v
    BY <1>2 DEF Preserved
  <2>1. CASE v = made'
    BY <1>16, <2>1
  <2>2. CASE v # made'
    <3>1. v \in 1 .. made
      BY <1>2, <2>2
    <3>2. \A i \in 2 .. Len(q) : data'[q[i]] = data[q[i]]
      <4>1. \A i \in 2 .. Len(q) : i \in 1 .. Len(q)
        BY <1>5, LenProperties DEF Line
      <4>2. \A i \in 1 .. Len(q) : q[i] # a
        BY <1>5 DEF Placed, On
      <4> QED BY <1>4, <4>1, <4>2
    <3> QED BY <1>16, <3>1, <3>2 DEF InUse, Structure, Preserved
  <2> QED BY <2>1, <2>2
<1>18. \A v \in Inside : v \in Inside'
  <2> TAKE v \in Inside
  <2>1. /\ v \in 1 .. made /\ \A i \in 1 .. Len(taken) : taken[i] # v
        /\ \A p \in Linking : data[my[p].node] # v
    BY DEF Inside
  <2>2. v \in 1 .. made' /\ v # made'
    BY <1>2, <2>1
  <2>3. \A p \in Linking' : data'[my'[p].node] # v
    BY <1>16, <2>1, <2>2
  <2> QED BY <1>2, <2>1, <2>2, <2>3 DEF Inside
<1>19. Behind(q)'
  <2>1. \A p \in active \cap Producers : pc[p] = "swing" => pc'[p] = "swing" /\ my'[p] = my[p]
    BY <1>2, <1>8
  <2> QED BY <1>2, <2>1 DEF InUse, Behind
<1>20. ASSUME NEW p \in Producers PROVE TailSeen(q, p)'
  <2>1. CASE p = t
    BY <1>3, <2>1 DEF TailSeen, Looking
  <2>2. CASE p # t
    <3>1. TailSeen(q, p) /\ pc'[p] = pc[p] /\ my'[p] = my[p]
      BY <1>8, <2>2 DEF InUse, Views
    <3>2. Alone' = Alone
      BY <1>2 DEF Alone, OneProducer, OneConsumer
    <3>3. pc[p] = "swing" => ~Alone
      <4>1. pc[p] = "swing" => p \in active
        BY DEF Locals, Threads
      <4> QED BY <2>2, <4>1 DEF Alone, OneProducer
    <3>4. pc[p] \in Looking \cup {"swing"} => my[p].tail # a
      BY <1>5, <3>1, <3>3 DEF TailSeen
    <3>5. pc[p] \in Looking \cup {"swing"} => next'[my[p].tail] = next[my[p].tail]
      BY <1>4, <3>4
    <3> QED BY <1>2, <1>9, <3>1, <3>2, <3>5 DEF TailSeen
  <2> QED BY <2>1, <2>2
<1>21. ASSUME NEW c \in Consumers PROVE HeadSeen(q, c)' /\ NextSeen(q, c)' /\ NullSeen(c)'
  <2>1. HeadSeen(q, c) /\ NextSeen(q, c) /\ NullSeen(c) /\ pc'[c] = pc[c] /\ my'[c] = my[c]
    BY <1>7 DEF InUse, Views
  <2>2. pc[c] \in Reading => next'[my[c].head] = next[my[c].head]
    BY <1>4, <1>5, <2>1 DEF HeadSeen
  <2>3. HeadSeen(q, c)'
    BY <1>2, <1>9, <2>1, <2>2 DEF HeadSeen, On
  <2>4. pc[c] = "unlink" => data'[my[c].next] = data[my[c].next]
    <3>1. pc[c] = "unlink" => my[c].next # Nil
      BY DEF Locals, ConsumerAt
    <3> QED BY <1>4, <1>5, <2>1, <3>1 DEF NextSeen
  <2>5. NextSeen(q, c)' /\ NullSeen(c)'
    BY <1>2, <1>9, <2>1, <2>4 DEF NextSeen, NullSeen
  <2> QED BY <2>3, <2>5
<1>22. filled' # {} => Inside' # {}
  BY <1>2, <1>18 DEF InUse
<1>23. Structure(q)' /\ Views(q)'
  BY <1>10, <1>11, <1>12, <1>13, <1>14, <1>17, <1>20, <1>21 DEF Structure, Views
<1> QED BY <1>2, <1>19, <1>22, <1>23 DEF InUse

-----------------------------------------------------------------------------
\* A list with one more node.
LEMMA Longer ==
    ASSUME NEW q \in Seq(Addrs), NEW n \in Addrs
    PROVE  LET r == Append(q, n)
           IN  /\ r \in Seq(Addrs) /\ Len(r) = Len(q) + 1 /\ Len(q) \in Nat
               /\ r[Len(r)] = n /\ \A i \in 1 .. Len(q) : r[i] = q[i]
               /\ \A a : On(r, a) <=> On(q, a) \/ a = n
<1> DEFINE r == Append(q, n)
<1>1. /\ r \in Seq(Addrs) /\ Len(r) = Len(q) + 1 /\ Len(q) \in Nat
      /\ r[Len(r)] = n /\ \A i \in 1 .. Len(q) : r[i] = q[i]
  BY AppendProperties, LenProperties
<1>2. ASSUME NEW a PROVE On(r, a) <=> On(q, a) \/ a = n
  <2>1. ASSUME On(r, a), a # n PROVE On(q, a)
    <3>1. PICK i \in 1 .. Len(r) : r[i] = a
      BY <2>1 DEF On
    <3>2. i \in 1 .. Len(q)
      BY <1>1, <2>1, <3>1
    <3> QED BY <1>1, <3>1, <3>2 DEF On
  <2>2. ASSUME On(q, a) PROVE On(r, a)
    <3>1. PICK i \in 1 .. Len(q) : q[i] = a
      BY <2>2 DEF On
    <3>2. i \in 1 .. Len(r) /\ r[i] = a
      BY <1>1, <3>1
    <3> QED BY <3>2 DEF On
  <2>3. On(r, n)
    <3>1. Len(r) \in 1 .. Len(r)
      BY <1>1
    <3> QED BY <1>1, <3>1 DEF On
  <2> QED BY <2>1, <2>2, <2>3
<1> QED BY <1>1, <1>2

\* The node a producer links goes to the end of the list, and tail is at the one before.
LEMMA LinkKeeps ==
    ASSUME TypeOK, Locals, TypeOK', Locals', NEW q, InUse(q), ~dangling,
           NEW t \in active \cap Producers, Link(t), NEW r, r = Append(q, my[t].node)
    PROVE  InUse(r)' /\ ~dangling'
<1> DEFINE n == my[t].node
           e == my[t].tail
<1>1. /\ t \in Threads /\ t \notin Consumers /\ pc[t] = "link" /\ e \in Addrs /\ n # Nil
      /\ active' = active /\ UNCHANGED <<head, tail, data, live, my, made, taken, filled>>
      /\ next[e] = Nil /\ next' = [next EXCEPT ![e] = n]
  <2>1. t \in Threads /\ t \notin Consumers /\ pc[t] = "link"
    BY QueueAssumption DEF TypeOK, Threads, Link, Step
  <2>2. e # Nil /\ n # Nil /\ e \in Addrs \cup {Nil}
    BY <2>1 DEF Locals, ProducerAt, Preparing, Looking, TypeOK
  <2> QED BY <2>1, <2>2 DEF Link, Step, calls
<1>2. pc'[t] = "swing" /\ \A u \in Threads : u # t => pc'[u] = pc[u]
  BY <1>1 DEF Link, Step, TypeOK
<1>3. Structure(q) /\ Line(q) /\ Behind(q) /\ q # <<>> /\ q \in Seq(Addrs) /\ Len(q) \in Nat \ {0}
  BY Ends DEF InUse, Structure, Line
<1>4. n \in live /\ ~Placed(q, n) /\ next[n] = Nil /\ n \in Addrs
  BY <1>1 DEF InUse, Structure, Fresh, Preparing, TypeOK
<1>5. Placed(q, e) /\ e = q[Len(q)] /\ tail = e
  <2>1. Placed(q, e) /\ (e = q[Len(q)] => tail = e)
    BY <1>1 DEF InUse, Views, TailSeen, Looking
  <2>2. ~Leaving(e)
    BY <1>1 DEF InUse, Structure, Left, Leaving
  <2>3. PICK i \in 1 .. Len(q) : q[i] = e
    BY <2>1, <2>2 DEF Placed, On
  <2>4. i = Len(q)
    BY <1>1, <1>3, <2>3, LastNode
  <2> QED BY <2>1, <2>3, <2>4
<1>6. n # e /\ next'[e] = n /\ next'[n] = Nil /\ \A a : a # e => next'[a] = next[a]
  BY <1>1, <1>4, <1>5 DEF TypeOK
<1>7. /\ r \in Seq(Addrs) /\ Len(r) = Len(q) + 1 /\ Len(q) \in Nat
      /\ r[Len(r)] = n /\ \A i \in 1 .. Len(q) : r[i] = q[i]
      /\ \A a : On(r, a) <=> On(q, a) \/ a = n
  BY <1>3, <1>4, Longer
<1>8. \A c \in Consumers : pc'[c] = pc[c] /\ my'[c] = my[c]
  BY <1>1, <1>2 DEF Threads
<1>9. \A p \in Producers : p # t => pc'[p] = pc[p] /\ my'[p] = my[p]
  BY <1>1, <1>2 DEF Threads
<1>10. \A a : Placed(r, a)' <=> Placed(q, a) \/ a = n
  BY <1>1, <1>7, <1>8 DEF Placed, On, Leaving
<1>11. Line(r)'
  <2>1. r # <<>> /\ head' = r[1]
    <3>1. q[1] = head /\ 1 \in 1 .. Len(q) /\ Len(r) # 0
      BY <1>3, <1>7, Ends
    <3> QED BY <1>1, <1>7, <3>1
  <2>2. ASSUME NEW i \in 1 .. Len(r)
        PROVE  r[i] \in live' /\ next'[r[i]] = IF i = Len(r) THEN Nil ELSE r[i + 1]
    <3>1. CASE i = Len(r)
      BY <1>1, <1>4, <1>6, <1>7, <3>1
    <3>2. CASE i = Len(q)
      <4>1. r[i] = e /\ i # Len(r) /\ i + 1 = Len(r)
        BY <1>3, <1>5, <1>7, <3>2
      <4>2. e \in live'
        BY <1>1, <1>3, <1>5, PlacedIsLive
      <4> QED BY <1>6, <1>7, <4>1, <4>2
    <3>3. CASE i # Len(r) /\ i # Len(q)
      <4>1. i \in 1 .. Len(q) /\ i + 1 \in 1 .. Len(q) /\ Len(q) \in 1 .. Len(q)
        BY <1>3, <1>7, <3>3
      <4>2. q[i] # e
        BY <1>3, <1>5, <3>3, <4>1 DEF Line
      <4>3. next[q[i]] = q[i + 1] /\ q[i] \in live
        BY <1>3, <3>3, <4>1 DEF Line
      <4>4. r[i] = q[i] /\ r[i + 1] = q[i + 1]
        BY <1>7, <4>1
      <4> QED BY <1>1, <1>6, <3>3, <4>2, <4>3, <4>4
    <3> QED BY <3>1, <3>2, <3>3
  <2>3. ASSUME NEW i \in 1 .. Len(r), NEW j \in 1 .. Len(r), r[i] = r[j]
        PROVE  i = j
    <3>1. \A k \in 1 .. Len(q) : r[k] # n
      BY <1>4, <1>7 DEF Placed, On
    <3>2. CASE i = Len(r) \/ j = Len(r)
      <4>1. \A k \in 1 .. Len(r) : k = Len(r) \/ k \in 1 .. Len(q)
        BY <1>7
      <4> QED BY <1>7, <2>3, <3>1, <3>2, <4>1
    <3>3. CASE i # Len(r) /\ j # Len(r)
      <4>1. i \in 1 .. Len(q) /\ j \in 1 .. Len(q)
        BY <1>7, <3>3
      <4> QED BY <1>3, <1>7, <2>3, <4>1 DEF Line
    <3> QED BY <3>2, <3>3
  <2> QED BY <1>7, <2>1, <2>2, <2>3 DEF Line
<1>12. ASSUME NEW p \in Producers PROVE Fresh(r, p)'
  <2>1. CASE p = t
    BY <1>2, <2>1 DEF Fresh, Preparing
  <2>2. CASE p # t
    <3>1. pc[p] \in Preparing => my[p].node # n
      BY <1>1, <2>2 DEF InUse, Structure, Apart, Preparing
    <3> QED BY <1>1, <1>5, <1>6, <1>9, <1>10, <2>2, <3>1 DEF InUse, Structure, Fresh
  <2> QED BY <2>1, <2>2
<1>13. ASSUME NEW c \in Consumers PROVE Left(r, c)'
  <2>1. pc[c] = "delete" => my[c].head # n
    BY <1>4 DEF Placed, Leaving
  <2>2. (On(r, my[c].head)) => On(q, my[c].head) \/ my[c].head = n
    BY <1>7
  <2> QED BY <1>1, <1>6, <1>8, <2>1, <2>2 DEF InUse, Structure, Left, On
<1>14. Apart' /\ LeftApart'
  <2>1. Apart'
    BY <1>2, <1>9 DEF InUse, Structure, Apart, Preparing
  <2>2. LeftApart'
    BY <1>8 DEF InUse, Structure, LeftApart
  <2> QED BY <2>1, <2>2
<1>15. Accounted(r)'
  <2> SUFFICES ASSUME NEW b \in live', b # n, ~Placed(q, b)
               PROVE  \E p \in Producers : pc'[p] \in Preparing /\ my'[p].node = b
    BY <1>10 DEF Accounted
  <2>1. PICK p \in Producers : pc[p] \in Preparing /\ my[p].node = b
    BY <1>1 DEF InUse, Structure, Accounted
  <2> QED BY <1>9, <2>1
<1>16. Linking' = Linking \ {t} /\ t \in Linking
  <2>1. Linking = {p \in Producers : pc[p] \in Preparing}
    BY LinkingIs
  <2>2. (Locals => Linking = {p \in Producers : pc[p] \in Preparing})'
    <3>1. Locals => Linking = {p \in Producers : pc[p] \in Preparing}
      BY LinkingIs
    <3> QED BY LinkingIs, PTL
  <2> QED BY <1>1, <1>2, <1>9, <2>1, <2>2 DEF Preparing
<1>17. Preserved(r)'
  <2> SUFFICES ASSUME NEW v \in 1 .. made
               PROVE  \/ \E i \in 1 .. Len(taken) : taken[i] = v
                      \/ \E p \in Linking' : data[my[p].node] = v
                      \/ \E i \in 2 .. Len(r) : data[r[i]] = v
    BY <1>1 DEF Preserved
  <2>1. CASE data[n] = v
    <3>1. Len(r) \in 2 .. Len(r)
      BY <1>3, <1>7
    <3> QED BY <1>7, <2>1, <3>1
  <2>2. CASE \E i \in 2 .. Len(q) : data[q[i]] = v
    <3>1. PICK i \in 2 .. Len(q) : data[q[i]] = v
      BY <2>2
    <3>2. i \in 1 .. Len(q) /\ i \in 2 .. Len(r)
      BY <1>7, <3>1
    <3> QED BY <1>7, <3>1, <3>2
  <2>3. CASE data[n] # v /\ ~ \E i \in 2 .. Len(q) : data[q[i]] = v
    BY <1>16, <2>3 DEF InUse, Structure, Preserved
  <2> QED BY <2>1, <2>2, <2>3
<1>18. \A v \in Inside : v \in Inside'
  BY <1>1, <1>16 DEF Inside
<1>19. Behind(r)'
  <2>1. Len(r) > 1 /\ Len(r) - 1 = Len(q) /\ Len(q) \in 1 .. Len(q)
    BY <1>3, <1>7
  <2>2. r[Len(r) - 1] = e
    BY <1>5, <1>7, <2>1
  <2> QED BY <1>1, <1>2, <1>5, <2>1, <2>2 DEF Behind
<1>20. ASSUME NEW p \in Producers PROVE TailSeen(r, p)'
  <2>1. CASE p = t
    BY <1>1, <1>2, <1>5, <1>6, <1>10, <2>1 DEF TailSeen, Looking
  <2>2. CASE p # t
    <3>1. TailSeen(q, p) /\ pc'[p] = pc[p] /\ my'[p] = my[p]
      BY <1>9, <2>2 DEF InUse, Views
    <3>2. Alone' = Alone
      BY <1>1 DEF Alone, OneProducer, OneConsumer
    <3>3. pc[p] \in Looking => my[p].tail # n
      BY <1>4, <3>1 DEF TailSeen
    <3>4. pc[p] = "swing" => my[p].node # Nil
      BY DEF Locals, ProducerAt
    <3>5. next[my[p].tail] # Nil => next'[my[p].tail] = next[my[p].tail]
      BY <1>1, <1>6
    <3> QED BY <1>1, <1>7, <1>10, <3>1, <3>2, <3>3, <3>4, <3>5 DEF TailSeen
  <2> QED BY <2>1, <2>2
<1>21. ASSUME NEW c \in Consumers PROVE HeadSeen(r, c)' /\ NextSeen(r, c)' /\ NullSeen(c)'
  <2>1. HeadSeen(q, c) /\ NextSeen(q, c) /\ NullSeen(c) /\ pc'[c] = pc[c] /\ my'[c] = my[c]
    BY <1>8 DEF InUse, Views
  <2>2. next[my[c].head] # Nil => next'[my[c].head] = next[my[c].head]
    BY <1>1, <1>6
  <2>3. pc[c] \in Reading /\ On(r, my[c].head) => On(q, my[c].head)
    BY <1>4, <1>7, <2>1 DEF HeadSeen
  <2>4. HeadSeen(r, c)'
    BY <1>1, <1>10, <2>1, <2>2, <2>3 DEF HeadSeen, On
  <2>5. NextSeen(r, c)' /\ NullSeen(c)'
    BY <1>1, <1>10, <2>1 DEF NextSeen, NullSeen
  <2> QED BY <2>4, <2>5
<1>22. filled' # {} => Inside' # {}
  BY <1>1, <1>18 DEF InUse
<1>23. Structure(r)' /\ Views(r)'
  BY <1>11, <1>12, <1>13, <1>14, <1>15, <1>17, <1>20, <1>21 DEF Structure, Views
<1>24. r # <<>>
  BY <1>3, <1>7
<1>25. ~dangling'
  <2>1. e \in live
    BY <1>3, <1>5, PlacedIsLive
  <2> QED BY <2>1 DEF Link, Access
<1>26. InUse(r)'
  BY <1>19, <1>22, <1>23, <1>24 DEF InUse
<1> QED BY <1>25, <1>26

-----------------------------------------------------------------------------
\* A sequence with a first element is not empty.
LEMMA NotEmpty ==
    ASSUME NEW s, 1 \in 1 .. Len(s)
    PROVE  s # <<>>
  OBVIOUS

\* A list without its first node.
LEMMA Shorter ==
    ASSUME NEW q \in Seq(Addrs), q # <<>>, \A i, j \in 1 .. Len(q) : q[i] = q[j] => i = j
    PROVE  LET r == Tail(q)
           IN  /\ r \in Seq(Addrs) /\ Len(r) = Len(q) - 1 /\ Len(q) \in Nat \ {0}
               /\ \A i \in 1 .. Len(r) : r[i] = q[i + 1]
               /\ \A a : On(q, a) <=> On(r, a) \/ a = q[1]
               /\ ~On(r, q[1])
<1> DEFINE r == Tail(q)
<1>1. /\ r \in Seq(Addrs) /\ Len(r) = Len(q) - 1 /\ Len(q) \in Nat \ {0}
      /\ \A i \in 1 .. Len(r) : r[i] = q[i + 1]
  <2>1. Len(q) \in Nat \ {0}
    BY EmptySeq, LenProperties
  <2> QED BY <2>1, HeadTailProperties
<1>2. ASSUME NEW a PROVE On(q, a) <=> On(r, a) \/ a = q[1]
  <2>1. ASSUME On(q, a), a # q[1] PROVE On(r, a)
    <3>1. PICK i \in 1 .. Len(q) : q[i] = a
      BY <2>1 DEF On
    <3>2. i - 1 \in 1 .. Len(r) /\ i - 1 + 1 = i
      BY <1>1, <2>1, <3>1
    <3> QED BY <1>1, <3>1, <3>2 DEF On
  <2>2. ASSUME On(r, a) PROVE On(q, a)
    <3>1. PICK i \in 1 .. Len(r) : r[i] = a
      BY <2>2 DEF On
    <3>2. i + 1 \in 1 .. Len(q) /\ q[i + 1] = a
      BY <1>1, <3>1
    <3> QED BY <3>2 DEF On
  <2>3. On(q, q[1])
    <3>1. 1 \in 1 .. Len(q)
      BY <1>1
    <3> QED BY <3>1 DEF On
  <2> QED BY <2>1, <2>2, <2>3
<1>3. ~On(r, q[1])
  <2>1. SUFFICES ASSUME NEW i \in 1 .. Len(r), r[i] = q[1] PROVE FALSE
    BY DEF On
  <2>2. i + 1 \in 1 .. Len(q) /\ 1 \in 1 .. Len(q) /\ q[i + 1] = q[1] /\ i + 1 # 1
    BY <1>1, <2>1
  <2> QED BY <2>2
<1> QED BY <1>1, <1>2, <1>3

\* The dummy a consumer unlinks leaves the list, and stays with the consumer.
LEMMA UnlinkKeeps ==
    ASSUME TypeOK, Locals, TypeOK', Locals', NEW q, InUse(q), ~dangling,
           NEW t \in active \cap Consumers, Unlink(t), NEW r, r = Tail(q)
    PROVE  /\ InUse(r)' /\ ~dangling'
           /\ Len(q) > 1 /\ taken' = Append(taken, data[q[2]])
<1> DEFINE h == my[t].head
           x == my[t].next
<1>1. /\ t \in Threads /\ t \notin Producers /\ pc[t] = "unlink" /\ head = h /\ head' = x
      /\ active' = active /\ UNCHANGED <<tail, next, data, live, my, made, dangling>>
      /\ taken' = Append(taken, my[t].res) /\ filled' = IF Inside' = {} THEN {} ELSE filled
  BY QueueAssumption DEF TypeOK, Threads, Unlink, NewHead, Step, nodes
<1>2. pc'[t] = "delete" /\ \A u \in Threads : u # t => pc'[u] = pc[u]
  BY <1>1 DEF Unlink, Step, TypeOK
<1>3. Structure(q) /\ Line(q) /\ Behind(q) /\ q # <<>> /\ q \in Seq(Addrs) /\ Len(q) \in Nat \ {0} /\ q[1] = head
  BY Ends DEF InUse, Structure, Line
<1>4. x # Nil /\ next[h] = x /\ tail # head
  <2>1. x # Nil /\ my[t].tail # Nil /\ h # my[t].tail
    BY <1>1 DEF Locals, ConsumerAt, Reading
  <2> QED BY <1>1, <2>1 DEF InUse, Views, HeadSeen, Reading
<1>5. Len(q) > 1 /\ q[2] = x
  <2>1. 1 \in 1 .. Len(q) /\ next[q[1]] # Nil
    BY <1>1, <1>3, <1>4
  <2>2. 1 + 1 \in 1 .. Len(q) /\ next[q[1]] = q[1 + 1]
    BY <1>3, <2>1, Successor
  <2> QED BY <1>1, <1>3, <1>4, <2>2
<1>6. /\ r \in Seq(Addrs) /\ Len(r) = Len(q) - 1 /\ \A i \in 1 .. Len(r) : r[i] = q[i + 1]
      /\ \A a : On(q, a) <=> On(r, a) \/ a = h
      /\ ~On(r, h)
  <2>1. \A i, j \in 1 .. Len(q) : q[i] = q[j] => i = j
    BY <1>3 DEF Line
  <2> QED BY <1>1, <1>3, <2>1, Shorter
<1>7. On(r, x) /\ x # h /\ r # <<>> /\ r[1] = x /\ r[Len(r)] = q[Len(q)]
  <2>1. Len(r) \in Nat /\ 1 \in 1 .. Len(r) /\ Len(r) \in 1 .. Len(r) /\ 1 + 1 = 2 /\ Len(r) + 1 = Len(q)
    BY <1>3, <1>5, <1>6
  <2>2. r[1] = q[1 + 1] /\ r[Len(r)] = q[Len(r) + 1]
    BY <1>6, <2>1
  <2>3. On(r, x)
    BY <1>5, <2>1, <2>2 DEF On
  <2>4. r # <<>>
    BY <2>1, NotEmpty
  <2> QED BY <1>5, <1>6, <2>1, <2>2, <2>3, <2>4
<1>8. \A p \in Producers : pc'[p] = pc[p] /\ my'[p] = my[p]
  BY <1>1, <1>2 DEF Threads
<1>9. \A c \in Consumers : c # t => pc'[c] = pc[c] /\ my'[c] = my[c]
  BY <1>1, <1>2 DEF Threads
<1>10. \A a : Placed(r, a)' <=> Placed(q, a)
  <2>1. \A a : Leaving(a)' <=> Leaving(a) \/ a = h
    BY <1>1, <1>2, <1>9 DEF Leaving
  <2>2. \A a : On(r, a)' <=> On(r, a)
    BY DEF On
  <2> QED BY <1>6, <2>1, <2>2 DEF Placed
<1>11. Line(r)'
  <2>1. ASSUME NEW i \in 1 .. Len(r)
        PROVE  r[i] \in live' /\ next'[r[i]] = IF i = Len(r) THEN Nil ELSE r[i + 1]
    <3>1. i + 1 \in 1 .. Len(q) /\ (i = Len(r) <=> i + 1 = Len(q)) /\ r[i] = q[i + 1]
      BY <1>3, <1>6
    <3>2. q[i + 1] \in live /\ next[q[i + 1]] = IF i + 1 = Len(q) THEN Nil ELSE q[i + 1 + 1]
      BY <1>3, <3>1 DEF Line
    <3>3. i # Len(r) => r[i + 1] = q[i + 1 + 1]
      <4>1. Len(r) \in Nat
        BY <1>6, LenProperties
      <4>2. i # Len(r) => i + 1 \in 1 .. Len(r)
        BY <4>1
      <4> QED BY <1>6, <4>2
    <3> QED BY <1>1, <3>1, <3>2, <3>3
  <2>2. ASSUME NEW i \in 1 .. Len(r), NEW j \in 1 .. Len(r), r[i] = r[j]
        PROVE  i = j
    <3>1. i + 1 \in 1 .. Len(q) /\ j + 1 \in 1 .. Len(q) /\ q[i + 1] = q[j + 1]
      BY <1>3, <1>6, <2>2
    <3>2. i + 1 = j + 1
      BY <1>3, <3>1 DEF Line
    <3> QED BY <1>3, <1>6, <3>2
  <2> QED BY <1>1, <1>6, <1>7, <2>1, <2>2 DEF Line
<1>12. \A p \in Producers : Fresh(r, p)'
  BY <1>1, <1>8, <1>10 DEF InUse, Structure, Fresh
<1>13. ASSUME NEW c \in Consumers PROVE Left(r, c)'
  <2>1. CASE c = t
    <3>1. h \in live
      BY <1>1, <1>3, Ends
    <3> QED BY <1>1, <1>4, <1>6, <2>1, <3>1 DEF Left, On
  <2>2. CASE c # t
    BY <1>1, <1>6, <1>9, <2>2 DEF InUse, Structure, Left, On
  <2> QED BY <2>1, <2>2
<1>14. Apart' /\ LeftApart'
  <2>1. Apart'
    BY <1>8 DEF InUse, Structure, Apart
  <2>2. \A c \in Consumers : pc[c] = "delete" => my[c].head # h
    BY <1>6 DEF InUse, Structure, Left
  <2>3. LeftApart'
    BY <1>1, <1>9, <2>2 DEF InUse, Structure, LeftApart
  <2> QED BY <2>1, <2>3
<1>15. Accounted(r)'
  BY <1>1, <1>8, <1>10 DEF InUse, Structure, Accounted
<1>16. Linking' = Linking
  BY <1>8 DEF Linking
<1>17. Preserved(r)'
  <2>1. /\ Len(taken) \in Nat /\ Len(taken') = Len(taken) + 1 /\ taken'[Len(taken')] = my[t].res
        /\ \A i \in 1 .. Len(taken) : taken'[i] = taken[i] /\ i \in 1 .. Len(taken')
        /\ Len(taken') \in 1 .. Len(taken')
    <3>1. taken \in Seq(Values \cup {NoValue}) /\ my[t].res \in Values \cup {NoValue}
      BY <1>1 DEF TypeOK
    <3> QED BY <1>1, <3>1, AppendProperties, LenProperties
  <2>2. my[t].res = data[x]
    BY <1>1 DEF InUse, Views, NextSeen
  <2> SUFFICES ASSUME NEW v \in 1 .. made
               PROVE  \/ \E i \in 1 .. Len(taken') : taken'[i] = v
                      \/ \E p \in Linking : data[my[p].node] = v
                      \/ \E i \in 2 .. Len(r) : data[r[i]] = v
    BY <1>1, <1>16 DEF Preserved
  <2>3. CASE \E i \in 1 .. Len(taken) : taken[i] = v
    BY <2>1, <2>3
  <2>4. CASE \E i \in 2 .. Len(q) : data[q[i]] = v
    <3>1. PICK i \in 2 .. Len(q) : data[q[i]] = v
      BY <2>4
    <3>2. CASE i = 2
      BY <1>5, <2>1, <2>2, <3>1, <3>2
    <3>3. CASE i # 2
      <4>1. i - 1 \in 2 .. Len(r) /\ i - 1 \in 1 .. Len(r) /\ i - 1 + 1 = i
        BY <1>3, <1>6, <3>3
      <4> QED BY <1>6, <3>1, <4>1
    <3> QED BY <3>2, <3>3
  <2> QED BY <2>3, <2>4 DEF InUse, Structure, Preserved
<1>18. Behind(r)'
  <2> SUFFICES ASSUME tail # q[Len(q)]
               PROVE  /\ Len(r) > 1 /\ tail = r[Len(r) - 1]
                      /\ \E p \in active \cap Producers : pc'[p] = "swing" /\ my'[p].tail = tail
    BY <1>1, <1>7 DEF Behind
  <2>1. tail = q[Len(q) - 1] /\ \E p \in active \cap Producers : pc[p] = "swing" /\ my[p].tail = tail
    BY <1>3 DEF Behind
  <2>2. ASSUME Len(q) = 2 PROVE FALSE
    <3>1. Len(q) - 1 = 1
      BY <2>2
    <3> QED BY <1>3, <1>4, <2>1, <3>1
  <2>3. Len(r) > 1 /\ Len(r) - 1 \in 1 .. Len(r) /\ Len(r) - 1 + 1 = Len(q) - 1
    BY <1>3, <1>5, <1>6, <2>2
  <2> QED BY <1>6, <1>8, <2>1, <2>3
<1>19. ASSUME NEW p \in Producers PROVE TailSeen(r, p)'
  <2>1. Alone' = Alone
    BY <1>1 DEF Alone, OneProducer, OneConsumer
  <2> QED BY <1>1, <1>7, <1>8, <1>10, <2>1 DEF InUse, Views, TailSeen
<1>20. ASSUME NEW c \in Consumers PROVE HeadSeen(r, c)' /\ NextSeen(r, c)' /\ NullSeen(c)'
  <2>1. CASE c = t
    BY <1>2, <2>1 DEF HeadSeen, NextSeen, NullSeen, Reading
  <2>2. CASE c # t
    <3>1. /\ HeadSeen(q, c) /\ NextSeen(q, c) /\ NullSeen(c)
          /\ pc'[c] = pc[c] /\ my'[c] = my[c]
      BY <1>9, <2>2 DEF InUse, Views
    <3>2. pc[c] \in Reading => ~On(r, my[c].head) /\ my[c].head # x
      BY <1>1, <1>6, <1>7, <3>1 DEF HeadSeen
    <3>3. HeadSeen(r, c)'
      BY <1>1, <1>10, <3>1, <3>2 DEF HeadSeen, On
    <3>4. NextSeen(r, c)'
      BY <1>1, <1>10, <3>1, <3>2 DEF NextSeen, Reading
    <3>5. NullSeen(c)'
      BY <1>1, <3>1 DEF NullSeen
    <3> QED BY <3>3, <3>4, <3>5
  <2> QED BY <2>1, <2>2
<1>21. filled' # {} => Inside' # {}
  BY <1>1
<1>22. Structure(r)' /\ Views(r)'
  BY <1>11, <1>12, <1>13, <1>14, <1>15, <1>17, <1>19, <1>20 DEF Structure, Views
<1>23. my[t].res = data[x]
  BY <1>1 DEF InUse, Views, NextSeen
<1> QED BY <1>1, <1>5, <1>7, <1>18, <1>21, <1>22, <1>23 DEF InUse

-----------------------------------------------------------------------------
\* In a queue that is well used, nobody else is to look at the node a consumer deletes.
LEMMA NobodyLooks ==
    ASSUME TypeOK, Locals, NEW q, InUse(q), NEW t \in active \cap Consumers, Delete(t), WellUsed'
    PROVE  LET h == my[t].head
           IN  /\ \A c \in Consumers : c # t /\ pc[c] \in Reading => my[c].head # h /\ my[c].next # h
               /\ \A p \in Producers : pc[p] \in Looking => my[p].tail # h
               /\ \A p \in Producers : pc[p] = "swing" => Alone \/ my[p].tail # h
<1> DEFINE h == my[t].head
<1>1. t \in Threads /\ t \notin Producers /\ pc[t] = "delete"
  BY QueueAssumption DEF TypeOK, Threads, Delete, Step
<1>2. Alone \/ \A u \in Threads \ {t} : my[u].head # h /\ my[u].tail # h /\ my[u].next # h
  <2>1. Alone' <=> Alone
    BY DEF Delete, Step, Alone, OneProducer, OneConsumer
  <2>2. ~early' => \A u \in Threads \ {t} : h \notin Held(u)
    BY DEF Delete
  <2> QED BY <2>1, <2>2 DEF WellUsed, Alone, Held
<1>3. ASSUME NEW c \in Consumers, c # t, pc[c] \in Reading
      PROVE  my[c].head # h /\ my[c].next # h
  <2>1. c \in Threads \ {t} /\ c \in active
    BY <1>3 DEF Locals, Threads, Reading
  <2>2. ~Alone
    BY <1>3, <2>1 DEF Alone, OneConsumer
  <2> QED BY <1>2, <2>1, <2>2
<1>4. ASSUME NEW p \in Producers, pc[p] \in Looking
      PROVE  my[p].tail # h
  <2>1. p \in Threads \ {t}
    BY <1>1 DEF Threads
  <2>2. Alone => my[p].tail = tail
    BY <1>4 DEF InUse, Views, TailSeen
  <2>3. On(q, tail) /\ ~On(q, h)
    BY <1>1, TailPlaced DEF InUse, Structure, Left
  <2> QED BY <1>2, <2>1, <2>2, <2>3
<1>5. ASSUME NEW p \in Producers, pc[p] = "swing"
      PROVE  Alone \/ my[p].tail # h
  <2>1. p \in Threads \ {t}
    BY <1>1 DEF Threads
  <2> QED BY <1>2, <2>1
<1> QED BY <1>3, <1>4, <1>5

\* So the deletion takes nothing from the list and from what the others have seen.
LEMMA DeleteKeeps ==
    ASSUME TypeOK, Locals, TypeOK', Locals', NEW q, InUse(q), ~dangling,
           NEW t \in active \cap Consumers, Delete(t), WellUsed'
    PROVE  InUse(q)' /\ ~dangling'
<1> DEFINE h == my[t].head
<1>1. /\ t \in Threads /\ t \notin Producers /\ pc[t] = "delete"
      /\ active' = active /\ UNCHANGED <<head, tail, next, made, taken, dangling>>
      /\ live' = live \ {h} /\ filled' = filled \ {t} /\ h \in Addrs
  <2>1. t \in Threads /\ t \notin Producers /\ pc[t] = "delete"
    BY QueueAssumption DEF TypeOK, Threads, Delete, Step
  <2>2. h # Nil /\ h \in Addrs \cup {Nil}
    BY <2>1 DEF Locals, ConsumerAt, TypeOK
  <2> QED BY <2>1, <2>2 DEF Delete, Deleted, Step, Return
<1>2. /\ pc'[t] = "out"
      /\ \A u \in Threads : u # t => pc'[u] = pc[u] /\ my'[u] = my[u]
      /\ \A a : a # h => data'[a] = data[a]
  BY <1>1 DEF Delete, Return, Step, TypeOK
<1>3. /\ Structure(q) /\ Line(q) /\ Behind(q) /\ q # <<>>
      /\ ~On(q, h) /\ Leaving(h)
  BY <1>1 DEF InUse, Structure, Left, Leaving
<1>4. /\ \A c \in Consumers : c # t /\ pc[c] \in Reading => my[c].head # h /\ my[c].next # h
      /\ \A p \in Producers : pc[p] \in Looking => my[p].tail # h
      /\ \A p \in Producers : pc[p] = "swing" => Alone \/ my[p].tail # h
  BY NobodyLooks
<1>5. \A p \in Producers : pc'[p] = pc[p] /\ my'[p] = my[p]
  BY <1>1, <1>2 DEF Threads
<1>6. \A c \in Consumers : c # t => pc'[c] = pc[c] /\ my'[c] = my[c]
  BY <1>2 DEF Threads
<1>7. \A c \in Consumers : c # t /\ pc[c] = "delete" => my[c].head # h
  BY <1>1 DEF InUse, Structure, LeftApart
<1>8. \A a : Placed(q, a)' <=> Placed(q, a) /\ a # h
  <2>1. \A a : Leaving(a)' <=> Leaving(a) /\ a # h
    BY <1>1, <1>2, <1>6, <1>7 DEF Leaving
  <2>2. \A a : On(q, a)' <=> On(q, a)
    BY DEF On
  <2> QED BY <1>3, <2>1, <2>2 DEF Placed
<1>9. \A i \in 1 .. Len(q) : q[i] # h
  BY <1>3 DEF On
<1>10. Line(q)'
  BY <1>1, <1>3, <1>9 DEF Line
<1>11. \A p \in Producers : pc[p] \in Preparing => my[p].node # h
  BY <1>3 DEF InUse, Structure, Fresh, Placed
<1>12. \A p \in Producers : Fresh(q, p)'
  BY <1>1, <1>2, <1>5, <1>8, <1>11 DEF InUse, Structure, Fresh
<1>13. ASSUME NEW c \in Consumers PROVE Left(q, c)'
  <2>1. CASE c = t
    BY <1>2, <2>1 DEF Left
  <2>2. CASE c # t
    BY <1>1, <1>6, <1>7, <2>2 DEF InUse, Structure, Left, On
  <2> QED BY <2>1, <2>2
<1>14. Apart' /\ LeftApart'
  <2>1. Apart'
    BY <1>5 DEF InUse, Structure, Apart
  <2>2. LeftApart'
    BY <1>2, <1>6 DEF InUse, Structure, LeftApart
  <2> QED BY <2>1, <2>2
<1>15. Accounted(q)'
  BY <1>1, <1>5, <1>8 DEF InUse, Structure, Accounted
<1>16. Linking' = Linking /\ \A p \in Linking : p \in Producers /\ data'[my'[p].node] = data[my[p].node]
  <2>1. Linking' = Linking
    BY <1>5 DEF Linking
  <2>2. \A p \in Linking : p \in Producers /\ pc[p] \in Preparing
    BY LinkingIs
  <2> QED BY <1>2, <1>5, <1>11, <2>1, <2>2
<1>17. Inside' = Inside
  BY <1>1, <1>16 DEF Inside
<1>18. Preserved(q)'
  <2>1. \A i \in 2 .. Len(q) : data'[q[i]] = data[q[i]]
    <3>1. \A i \in 2 .. Len(q) : i \in 1 .. Len(q)
      BY <1>3, LenProperties DEF Line
    <3> QED BY <1>2, <1>9, <3>1
  <2> QED BY <1>1, <1>16, <2>1 DEF InUse, Structure, Preserved
<1>19. Behind(q)'
  BY <1>1, <1>3, <1>5 DEF Behind
<1>20. ASSUME NEW p \in Producers PROVE TailSeen(q, p)'
  <2>1. Alone' = Alone
    BY <1>1 DEF Alone, OneProducer, OneConsumer
  <2>2. TailSeen(q, p)
    BY DEF InUse, Views
  <2> QED BY <1>1, <1>4, <1>5, <1>8, <2>1, <2>2 DEF TailSeen
<1>21. ASSUME NEW c \in Consumers PROVE HeadSeen(q, c)' /\ NextSeen(q, c)' /\ NullSeen(c)'
  <2>1. CASE c = t
    BY <1>2, <2>1 DEF HeadSeen, NextSeen, NullSeen, Reading
  <2>2. CASE c # t
    <3>1. /\ HeadSeen(q, c) /\ NextSeen(q, c) /\ NullSeen(c)
          /\ pc'[c] = pc[c] /\ my'[c] = my[c]
      BY <1>6, <2>2 DEF InUse, Views
    <3>2. pc[c] \in Reading => my[c].head # h /\ my[c].next # h
      BY <1>4, <2>2
    <3>3. HeadSeen(q, c)'
      BY <1>1, <1>8, <3>1, <3>2 DEF HeadSeen, On
    <3>4. NextSeen(q, c)'
      BY <1>1, <1>2, <1>8, <3>1, <3>2 DEF NextSeen, Reading
    <3>5. NullSeen(c)'
      BY <1>1, <3>1 DEF NullSeen
    <3> QED BY <3>3, <3>4, <3>5
  <2> QED BY <2>1, <2>2
<1>22. filled' # {} => Inside' # {}
  BY <1>1, <1>17 DEF InUse
<1>23. Structure(q)' /\ Views(q)'
  BY <1>10, <1>12, <1>13, <1>14, <1>15, <1>18, <1>20, <1>21 DEF Structure, Views
<1> QED BY <1>1, <1>3, <1>19, <1>22, <1>23 DEF InUse

\* The destructor takes the nodes of the list one by one.
LEMMA DestroyKeeps ==
    ASSUME TypeOK, Locals, NEW q, Destroyed(q) \/ InUse(q), Destroy, NEW r, r = Tail(q)
    PROVE  Destroyed(r)'
<1>1. /\ Line(q) /\ \A a \in live : On(q, a)
      /\ q \in Seq(Addrs) /\ \A i, j \in 1 .. Len(q) : q[i] = q[j] => i = j
  <2>1. Line(q)
    BY DEF Destroyed, InUse, Structure
  <2>2. CASE Destroyed(q)
    BY <2>1, <2>2 DEF Destroyed, Line
  <2>3. CASE InUse(q)
    <3>1. \A p \in Producers : pc[p] \notin Preparing
      BY DEF Destroy, Threads, Preparing
    <3>2. \A a : ~Leaving(a)
      BY DEF Destroy, Threads, Leaving
    <3> QED BY <2>1, <2>3, <3>1, <3>2 DEF InUse, Structure, Accounted, Placed, Line
  <2> QED BY <2>2, <2>3
<1>2. /\ head # Nil /\ head' = next[head] /\ live' = live \ {head} /\ next' = next
      /\ \A u \in Threads : pc'[u] = "joined"
  BY DEF Destroy
<1>3. q # <<>> /\ Len(q) \in Nat \ {0} /\ q[1] = head
  <2>1. q # <<>>
    BY <1>1, <1>2 DEF Line
  <2> QED BY <1>1, <2>1, Ends
<1>4. /\ r \in Seq(Addrs) /\ Len(r) = Len(q) - 1 /\ \A i \in 1 .. Len(r) : r[i] = q[i + 1]
      /\ \A a : On(q, a) <=> On(r, a) \/ a = head
      /\ ~On(r, head)
  BY <1>1, <1>3, Shorter
<1>5. \A i \in 1 .. Len(r) : r[i] # head
  BY <1>4 DEF On
<1>6. Line(r)'
  <2>1. ASSUME NEW i \in 1 .. Len(r)
        PROVE  r[i] \in live' /\ next'[r[i]] = IF i = Len(r) THEN Nil ELSE r[i + 1]
    <3>1. i + 1 \in 1 .. Len(q) /\ (i = Len(r) <=> i + 1 = Len(q)) /\ r[i] = q[i + 1]
      BY <1>3, <1>4
    <3>2. q[i + 1] \in live /\ next[q[i + 1]] = IF i + 1 = Len(q) THEN Nil ELSE q[i + 1 + 1]
      BY <1>1, <3>1 DEF Line
    <3>3. i # Len(r) => r[i + 1] = q[i + 1 + 1]
      <4>1. Len(r) \in Nat
        BY <1>4, LenProperties
      <4>2. i # Len(r) => i + 1 \in 1 .. Len(r)
        BY <4>1
      <4> QED BY <1>4, <4>2
    <3> QED BY <1>2, <1>5, <3>1, <3>2, <3>3
  <2>2. ASSUME NEW i \in 1 .. Len(r), NEW j \in 1 .. Len(r), r[i] = r[j]
        PROVE  i = j
    <3>1. i + 1 \in 1 .. Len(q) /\ j + 1 \in 1 .. Len(q) /\ q[i + 1] = q[j + 1]
      BY <1>3, <1>4, <2>2
    <3>2. i + 1 = j + 1
      BY <1>1, <3>1
    <3> QED BY <1>3, <1>4, <3>2
  <2>3. head' = IF r = <<>> THEN Nil ELSE r[1]
    <3>1. 1 \in 1 .. Len(q) /\ head' = IF Len(q) = 1 THEN Nil ELSE q[1 + 1]
      <4>1. 1 \in 1 .. Len(q)
        BY <1>3
      <4>2. next[q[1]] = IF 1 = Len(q) THEN Nil ELSE q[1 + 1]
        BY <1>1, <4>1 DEF Line
      <4> QED BY <1>2, <1>3, <4>1, <4>2
    <3>2. CASE Len(q) = 1
      <4>1. r = <<>>
        BY <1>4, <3>2, EmptySeq
      <4> QED BY <3>1, <3>2, <4>1
    <3>3. CASE Len(q) # 1
      <4>1. 1 \in 1 .. Len(r)
        BY <1>3, <1>4, <3>3
      <4>2. r # <<>>
        BY <4>1, NotEmpty
      <4> QED BY <1>4, <3>1, <3>3, <4>1, <4>2
    <3> QED BY <3>2, <3>3
  <2> QED BY <1>4, <2>1, <2>2, <2>3 DEF Line
<1>7. \A a \in live' : On(r, a)'
  BY <1>1, <1>2, <1>4 DEF On
<1> QED BY <1>2, <1>6, <1>7 DEF Destroyed

-----------------------------------------------------------------------------
\* How a step changes the list: not at all, by a new last node, or by the dummy leaving.
Stays(q, r) == /\ r = q /\ taken' = taken
               /\ \A i \in 1 .. Len(q) : data'[q[i]] = data[q[i]]
Grows(q, r) == \E n \in Addrs : /\ r = Append(q, n) /\ taken' = taken
                                /\ data' = data /\ data[n] \in Values
Shrinks(q, r) == /\ r = Tail(q) /\ Len(q) > 1
                 /\ taken' = Append(taken, data[q[2]]) /\ data' = data

\* A step of a producer.
LEMMA ProducerStep ==
    ASSUME TypeOK, Locals, TypeOK', Locals', NEW q, InUse(q), ~dangling,
           NEW t \in active \cap Producers, Producer(t)
    PROVE  \E r : InUse(r)' /\ ~dangling' /\ (Stays(q, r) \/ Grows(q, r))
<1>1. Structure(q) /\ Line(q) /\ \A i \in 1 .. Len(q) : q[i] \in live
  BY DEF InUse, Structure, Line
<1>2. CASE Enqueue(t)
  <2>1. InUse(q)' /\ ~dangling'
    BY <1>2, EnqueueKeeps
  <2>2. PICK a \in Addrs \ live : data' = [data EXCEPT ![a] = made']
    BY <1>2 DEF Enqueue
  <2>3. Stays(q, q)
    BY <1>1, <1>2, <2>2 DEF Enqueue, Stays, TypeOK
  <2> QED BY <2>1, <2>3
<1>3. CASE ProducerReads(t)
  <2>1. InUse(q)' /\ ~dangling'
    BY <1>3, ProducerReadsKeep
  <2>2. Stays(q, q)
    BY <1>3 DEF ProducerReads, LoadTail, LoadNext, TailMoved, TailIsLast, LinkFails,
                nodes, history, calls, Stays
  <2> QED BY <2>1, <2>2
<1>4. CASE HelpEnqueue(t) \/ Swing(t)
  <2>1. InUse(q)' /\ ~dangling'
    BY <1>4, TailMovesKeep
  <2>2. Stays(q, q)
    BY <1>4 DEF HelpEnqueue, Swing, nodes, history, calls, Stays
  <2> QED BY <2>1, <2>2
<1>5. CASE Link(t)
  <2> DEFINE n == my[t].node
  <2>1. PICK r : r = Append(q, n)
    OBVIOUS
  <2>2. InUse(r)' /\ ~dangling'
    BY <1>5, <2>1, LinkKeeps
  <2>3. n \in live /\ data[n] \in 1 .. made
    BY <1>1, <1>5, ProducerGoes DEF Structure, Fresh, Preparing
  <2>4. n \in Addrs /\ data[n] \in Values
    BY <2>3, QueueAssumption DEF TypeOK, Values
  <2>5. Grows(q, r)
    BY <1>5, <2>1, <2>4 DEF Link, calls, Grows
  <2> QED BY <2>2, <2>5
<1> QED BY <1>2, <1>3, <1>4, <1>5 DEF Producer, ProducerReads

\* A step of a consumer.
LEMMA ConsumerStep ==
    ASSUME TypeOK, Locals, TypeOK', Locals', NEW q, InUse(q), ~dangling,
           NEW t \in active \cap Consumers, Consumer(t), WellUsed'
    PROVE  \E r : InUse(r)' /\ ~dangling' /\ (Stays(q, r) \/ Shrinks(q, r))
<1>1. CASE ConsumerReads(t)
  <2>1. InUse(q)' /\ ~dangling'
    BY <1>1, ConsumerReadsKeep
  <2>2. Stays(q, q)
    BY <1>1 DEF ConsumerReads, LoadHead, ReadTail, ReadNext, HeadMoved, HeadIsDummy, ReturnNull, Copy,
                UnlinkFails, nodes, history, calls, Stays
  <2> QED BY <2>1, <2>2
<1>2. CASE HelpDequeue(t)
  <2>1. InUse(q)' /\ ~dangling'
    BY <1>2, TailMovesKeep
  <2>2. Stays(q, q)
    BY <1>2 DEF HelpDequeue, nodes, history, calls, Stays
  <2> QED BY <2>1, <2>2
<1>3. CASE Unlink(t)
  <2>1. PICK r : r = Tail(q)
    OBVIOUS
  <2>2. InUse(r)' /\ ~dangling' /\ Len(q) > 1 /\ taken' = Append(taken, data[q[2]])
    BY <1>3, <2>1, UnlinkKeeps
  <2>3. Shrinks(q, r)
    BY <1>3, <2>1, <2>2 DEF Unlink, nodes, Shrinks
  <2> QED BY <2>2, <2>3
<1>4. CASE Delete(t)
  <2>1. InUse(q)' /\ ~dangling'
    BY <1>4, DeleteKeeps
  <2>2. \A i \in 1 .. Len(q) : q[i] # my[t].head
    <3>1. ~On(q, my[t].head)
      BY <1>4, ConsumerGoes DEF InUse, Structure, Left
    <3> QED BY <3>1 DEF On
  <2>3. Stays(q, q)
    <3>1. \A a : a # my[t].head => data'[a] = data[a]
      BY <1>4 DEF Delete, TypeOK
    <3>2. taken' = taken
      BY <1>4 DEF Delete
    <3> QED BY <2>2, <3>1, <3>2 DEF Stays
  <2> QED BY <2>1, <2>3
<1> QED BY <1>1, <1>2, <1>3, <1>4 DEF Consumer, ConsumerReads

-----------------------------------------------------------------------------
\* The inductive invariant: while the queue is well used there is a list, in use or
\* being destroyed, and no deleted node was read.
HasList == \E q \in Seq(Addrs) : Destroyed(q) \/ InUse(q)

IInv == /\ TypeOK /\ Locals
        /\ WellUsed => ~dangling /\ HasList

\* At first the list is the dummy.
LEMMA InitList ==
    ASSUME Init
    PROVE  IInv
<1>1. /\ active \in SUBSET Threads /\ head \in Addrs /\ tail = head
      /\ next = [a \in Addrs |-> Nil] /\ data = [a \in Addrs |-> NoValue] /\ live = {head}
      /\ made = 0 /\ taken = <<>> /\ filled = {} /\ early = FALSE /\ dangling = FALSE
      /\ \A t \in Threads : pc[t] = "out" /\ my[t] = NoLocals
      /\ pc = [t \in Threads |-> "out"] /\ my = [t \in Threads |-> NoLocals]
  BY QueueAssumption DEF Init
<1>2. TypeOK
  <2>1. NoLocals \in [node : Addrs \cup {Nil}, head : Addrs \cup {Nil}, tail : Addrs \cup {Nil},
                      next : Addrs \cup {Nil}, res : Values \cup {NoValue}]
    BY DEF NoLocals, NoValue
  <2>2. made \in 0 .. MaxValues
    BY <1>1, QueueAssumption
  <2>3. /\ pc \in [Threads -> {"out"}]
        /\ my \in [Threads -> [node : Addrs \cup {Nil}, head : Addrs \cup {Nil},
                              tail : Addrs \cup {Nil}, next : Addrs \cup {Nil},
                              res : Values \cup {NoValue}]]
    BY <1>1, <2>1
  <2>4. /\ active \subseteq Threads
        /\ head \in Addrs \cup {Nil} /\ tail \in Addrs
        /\ next \in [Addrs -> Addrs \cup {Nil}]
        /\ data \in [Addrs -> Values \cup {NoValue}]
        /\ live \subseteq Addrs /\ filled \subseteq Consumers
    BY <1>1
  <2>5. taken \in Seq(Values \cup {NoValue})
    BY <1>1, EmptySeq
  <2>6. early \in BOOLEAN /\ dangling \in BOOLEAN
    BY <1>1
  <2> QED BY <2>2, <2>3, <2>4, <2>5, <2>6 DEF TypeOK
<1>3. Locals
  <2>1. head # Nil
    BY <1>1, QueueAssumption
  <2>2. NoLocals.node = Nil
    BY DEF NoLocals
  <2> QED BY <1>1, <2>1, <2>2
          DEF Locals, Threads, ProducerAt, ConsumerAt, OutAt, Preparing, Looking, Reading
<1>4. PICK q : q = <<head>>
  OBVIOUS
<1>5. q \in Seq(Addrs) /\ Len(q) = 1 /\ q[1] = head /\ q # <<>> /\ \A i \in 1 .. Len(q) : i = 1
  BY <1>1, <1>4
<1>6. Line(q)
  BY <1>1, <1>5 DEF Line
<1>7. Structure(q)
  <2>1. \A p \in Producers : pc[p] \notin Preparing
    BY <1>1 DEF Threads, Preparing
  <2>2. \A c \in Consumers : pc[c] # "delete"
    BY <1>1 DEF Threads
  <2>3. Accounted(q)
    BY <1>1, <1>5 DEF Accounted, Placed, On
  <2>4. Preserved(q)
    BY <1>1 DEF Preserved
  <2> QED BY <1>6, <2>1, <2>2, <2>3, <2>4 DEF Structure, Fresh, Left, Apart, LeftApart
<1>8. Views(q)
  BY <1>1 DEF Views, TailSeen, HeadSeen, NextSeen, NullSeen, Threads, Looking, Reading
<1>9. Behind(q)
  BY <1>1, <1>5 DEF Behind
<1>10. InUse(q)
  BY <1>1, <1>5, <1>7, <1>8, <1>9 DEF InUse
<1> QED BY <1>1, <1>2, <1>3, <1>5, <1>10 DEF IInv, HasList

\* Nothing but the destructor takes a step in a queue that is being destroyed.
LEMMA NobodyLeft ==
    ASSUME TypeOK, NEW q, Destroyed(q), Next
    PROVE  Destroy
<1>1. \A t \in active : pc[t] = "joined"
  BY DEF Destroyed, TypeOK
<1>2. ASSUME NEW t \in active \cap Producers, Producer(t) PROVE FALSE
  BY <1>1, <1>2 DEF Producer, Enqueue, LoadTail, LoadNext, TailMoved, TailIsLast, Link, LinkFails,
                    HelpEnqueue, Swing, Step
<1>3. ASSUME NEW t \in active \cap Consumers, Consumer(t) PROVE FALSE
  BY <1>1, <1>3 DEF Consumer, LoadHead, ReadTail, ReadNext, HeadMoved, HeadIsDummy, ReturnNull,
                    HelpDequeue, Copy, Unlink, UnlinkFails, Delete, Step
<1> QED BY <1>2, <1>3 DEF Next

\* A step of a well-used queue that has the list q.
LEMMA ListStep ==
    ASSUME IInv, TypeOK', Locals', Next, WellUsed', NEW q, Destroyed(q) \/ InUse(q), ~dangling
    PROVE  /\ ~dangling'
           /\ \/ InUse(q) /\ \E r : InUse(r)' /\ (Stays(q, r) \/ Grows(q, r) \/ Shrinks(q, r))
              \/ Destroy /\ \E r : r = Tail(q) /\ Destroyed(r)'
<1>1. TypeOK /\ Locals
  BY DEF IInv
<1>2. CASE Destroy
  <2>1. PICK r : r = Tail(q)
    OBVIOUS
  <2>2. Destroyed(r)'
    BY <1>1, <1>2, <2>1, DestroyKeeps
  <2> QED BY <1>2, <2>1, <2>2 DEF Destroy, history
<1>3. CASE InUse(q) /\ ~Destroy
  BY <1>1, <1>3, ProducerStep, ConsumerStep DEF Next
<1> QED BY <1>1, <1>2, <1>3, NobodyLeft

\* Well used is used well so far.
LEMMA WellUsedSoFar ==
    ASSUME IInv, [Next]_vars, WellUsed'
    PROVE  WellUsed
<1>1. active' = active /\ (early => early')
  <2>1. ASSUME NEW t, Producer(t) PROVE active' = active /\ early' = early
    BY <2>1 DEF Producer, Enqueue, LoadTail, LoadNext, TailMoved, TailIsLast, Link, LinkFails,
                HelpEnqueue, Swing, Step, history, calls
  <2>2. ASSUME NEW t, Consumer(t), ~Delete(t) PROVE active' = active /\ early' = early
    BY <2>2 DEF Consumer, LoadHead, ReadTail, ReadNext, HeadMoved, HeadIsDummy, ReturnNull,
                HelpDequeue, Copy, Unlink, UnlinkFails, Step, history, calls
  <2>3. ASSUME NEW t, Delete(t) PROVE active' = active /\ (early => early')
    BY <2>3 DEF Delete, Step
  <2>4. Destroy \/ UNCHANGED vars => active' = active /\ early' = early
    BY DEF Destroy, vars, history, calls
  <2> QED BY <2>1, <2>2, <2>3, <2>4 DEF Next
<1> QED BY <1>1 DEF WellUsed, OneProducer, OneConsumer

\* A step in which nothing changes.
LEMMA Unchanged ==
    ASSUME NEW q, UNCHANGED vars
    PROVE  (Destroyed(q) => Destroyed(q)') /\ (InUse(q) => InUse(q)')
<1> USE DEF vars, nodes, history, calls
<1>1. Line(q)' = Line(q) /\ (\A a : On(q, a)' = On(q, a)) /\ (\A a : Placed(q, a)' = Placed(q, a))
  BY DEF Line, On, Placed, Leaving
<1>2. Linking' = Linking /\ Inside' = Inside
  BY DEF Linking, Inside
<1>3. Structure(q) => Structure(q)'
  BY <1>1, <1>2 DEF Structure, Fresh, Left, Apart, LeftApart, Accounted, Preserved
<1>4. Alone' = Alone /\ Behind(q)' = Behind(q)
  BY DEF Alone, OneProducer, OneConsumer, Behind
<1>5. Views(q) => Views(q)'
  BY <1>1, <1>4 DEF Views, TailSeen, HeadSeen, NextSeen, NullSeen
<1>6. Destroyed(q) => Destroyed(q)'
  BY <1>1 DEF Destroyed
<1>7. InUse(q) => InUse(q)'
  BY <1>2, <1>3, <1>4, <1>5 DEF InUse
<1> QED BY <1>6, <1>7

\* The invariant is inductive.
LEMMA InductiveStep ==
    ASSUME IInv, [Next]_vars
    PROVE  IInv'
<1>1. TypeOK' /\ Locals'
  BY TypesStep DEF IInv
<1>2. ASSUME WellUsed' PROVE ~dangling' /\ HasList'
  <2>1. WellUsed /\ ~dangling
    BY <1>2, WellUsedSoFar DEF IInv
  <2>2. PICK q \in Seq(Addrs) : Destroyed(q) \/ InUse(q)
    BY <2>1 DEF IInv, HasList
  <2>3. CASE Next
    <3>1. ~dangling' /\ \E r : Destroyed(r)' \/ InUse(r)'
      BY <1>1, <1>2, <2>1, <2>2, <2>3, ListStep
    <3>2. PICK r : Destroyed(r)' \/ InUse(r)'
      BY <3>1
    <3>3. r \in Seq(Addrs)
      BY <3>2 DEF Destroyed, InUse, Structure, Line
    <3> QED BY <3>1, <3>2, <3>3 DEF HasList
  <2>4. CASE UNCHANGED vars
    <3>1. Destroyed(q)' \/ InUse(q)'
      BY <2>2, <2>4, Unchanged
    <3> QED BY <2>1, <2>4, <3>1 DEF HasList, vars, history
  <2> QED BY <2>3, <2>4
<1> QED BY <1>1, <1>2 DEF IInv

\* So it holds for ever.
THEOREM Invariance == Spec => []IInv
<1>1. Init => IInv
  BY InitList
<1>2. IInv /\ [Next]_vars => IInv'
  BY InductiveStep
<1> QED BY <1>1, <1>2, PTL DEF Spec

-----------------------------------------------------------------------------
\* A set of naturals that is not empty has a least element.
LEMMA LeastNatural ==
    ASSUME NEW S \in SUBSET Nat, S # {}
    PROVE  \E x \in S : \A y \in S : x <= y
<1>1. IsWellFoundedOn(OpToRel(<, Nat), Nat)
  BY NatLessThanWellFounded
<1>2. PICK x \in S : \A y \in S : ~(<<y, x>> \in OpToRel(<, Nat))
  BY <1>1, WFMin
<1>3. \A y \in S : ~(y < x)
  BY <1>2 DEF OpToRel
<1>4. ASSUME NEW y \in S PROVE x <= y
  <2>1. x \in Nat /\ y \in Nat /\ ~(y < x)
    BY <1>3
  <2> QED BY <2>1
<1> QED BY <1>4

\* There are no more nodes in the list than addresses.
LEMMA FewNodes ==
    ASSUME NEW q, Line(q)
    PROVE  Cardinality(Addrs) \in Nat /\ Len(q) \in Nat /\ Len(q) <= Cardinality(Addrs)
<1>1. q \in Seq(Addrs) /\ Len(q) \in Nat /\ q \in [1 .. Len(q) -> Addrs]
  BY LenProperties DEF Line
<1>2. \A i, j \in 1 .. Len(q) : q[i] = q[j] => i = j
  BY DEF Line
<1>3. q \in Injection(1 .. Len(q), Addrs)
  BY <1>1, <1>2, Fun_IsInj
<1>4. Cardinality(1 .. Len(q)) <= Cardinality(Addrs)
  BY <1>3, FS_Injection, QueueAssumption
<1>5. Cardinality(1 .. Len(q)) = Len(q)
  BY <1>1, FS_Interval
<1> QED BY <1>1, <1>4, <1>5, FS_CardinalityType, QueueAssumption

\* The places of the list, from 0.
Places == 0 .. Cardinality(Addrs)

\* Chain follows the pointers along the list.
LEMMA ChainIs ==
    ASSUME NEW q, Line(q)
    PROVE  \A k \in Places : Chain[k] = IF k < Len(q) THEN q[k + 1] ELSE Nil
<1> DEFINE g == [k \in Places |-> IF k < Len(q) THEN q[k + 1] ELSE Nil]
<1>1. /\ Cardinality(Addrs) \in Nat /\ Len(q) \in Nat /\ Len(q) <= Cardinality(Addrs)
      /\ q \in Seq(Addrs) /\ Nil \notin Addrs
  BY FewNodes, QueueAssumption DEF Line
<1>2. ASSUME NEW k \in Places
      PROVE  g[k] = IF k = 0 THEN head ELSE IF g[k - 1] = Nil THEN Nil ELSE next[g[k - 1]]
  <2>1. CASE k = 0 /\ Len(q) = 0
    <3>1. q = <<>>
      BY <1>1, <2>1, EmptySeq
    <3>2. head = Nil
      BY <3>1 DEF Line
    <3> QED BY <1>1, <2>1, <3>2 DEF Places
  <2>2. CASE k = 0 /\ Len(q) # 0
    <3>1. 1 \in 1 .. Len(q)
      BY <1>1, <2>2
    <3>2. head = q[1]
      BY <3>1, NotEmpty DEF Line
    <3> QED BY <1>1, <2>2, <3>2 DEF Places
  <2>3. CASE k # 0 /\ k <= Len(q)
    <3>1. k \in 1 .. Len(q) /\ k - 1 \in Places /\ k - 1 < Len(q) /\ k - 1 + 1 = k
      BY <1>1, <2>3 DEF Places
    <3>2. q[k] \in Addrs
      BY <1>1, <3>1, ElementOfSeq
    <3>3. g[k - 1] = q[k] /\ g[k - 1] # Nil
      BY <1>1, <3>1, <3>2
    <3>4. next[q[k]] = IF k = Len(q) THEN Nil ELSE q[k + 1]
      BY <3>1 DEF Line
    <3>5. (k < Len(q)) <=> k # Len(q)
      BY <1>1, <2>3 DEF Places
    <3> QED BY <2>3, <3>3, <3>4, <3>5
  <2>4. CASE k # 0 /\ ~(k <= Len(q))
    <3>1. k - 1 \in Places /\ ~(k - 1 < Len(q)) /\ ~(k < Len(q))
      BY <1>1, <2>4 DEF Places
    <3> QED BY <2>4, <3>1
  <2> QED BY <2>1, <2>2, <2>3, <2>4
<1>3. g = [k \in 0 .. Cardinality(Addrs) |->
              IF k = 0 THEN head ELSE IF g[k - 1] = Nil THEN Nil ELSE next[g[k - 1]]]
  BY <1>2 DEF Places
<1> HIDE DEF g
<1>4. Chain = [k \in 0 .. Cardinality(Addrs) |->
              IF k = 0 THEN head ELSE IF Chain[k - 1] = Nil THEN Nil ELSE next[Chain[k - 1]]]
  BY <1>3, Zenon DEF Chain
<1>5. \A k \in Places : Chain[k] = g[k]
  <2>1. SUFFICES ASSUME {k \in Places : Chain[k] # g[k]} # {} PROVE FALSE
    OBVIOUS
  <2>2. PICK k \in Places : Chain[k] # g[k] /\ \A j \in Places : Chain[j] # g[j] => k <= j
    <3>1. {k \in Places : Chain[k] # g[k]} \in SUBSET Nat
      BY <1>1 DEF Places
    <3> QED BY <2>1, <3>1, LeastNatural
  <2>3. CASE k = 0
    <3>1. Chain[k] = head
      BY <1>4, <2>3 DEF Places
    <3>2. g[k] = head
      BY <1>2, <2>3
    <3> QED BY <2>2, <3>1, <3>2
  <2>4. CASE k # 0
    <3>1. k - 1 \in Places /\ ~(k <= k - 1)
      BY <1>1, <2>4 DEF Places
    <3>2. Chain[k - 1] = g[k - 1]
      BY <2>2, <3>1
    <3>3. Chain[k] = IF Chain[k - 1] = Nil THEN Nil ELSE next[Chain[k - 1]]
      BY <1>4, <2>4 DEF Places
    <3>4. g[k] = IF g[k - 1] = Nil THEN Nil ELSE next[g[k - 1]]
      BY <1>2, <2>4
    <3> QED BY <2>2, <3>2, <3>3, <3>4
  <2> QED BY <2>3, <2>4
<1> QED BY <1>5 DEF g

\* The values in the list, behind the dummy.
Inner(q) == [k \in 1 .. Len(q) - 1 |-> data[q[k + 1]]]

\* The contents are the values of the list.
LEMMA ContentsAre ==
    ASSUME NEW q, Line(q)
    PROVE  Contents = Inner(q)
<1>1. /\ Cardinality(Addrs) \in Nat /\ Len(q) \in Nat /\ Len(q) <= Cardinality(Addrs)
      /\ q \in Seq(Addrs) /\ Nil \notin Addrs
  BY FewNodes, QueueAssumption DEF Line
<1>2. \A k \in Places : Chain[k] = IF k < Len(q) THEN q[k + 1] ELSE Nil
  BY ChainIs
<1>3. \A k \in Places : Chain[k] # Nil <=> k < Len(q)
  <2> TAKE k \in Places
  <2>1. k < Len(q) => k + 1 \in 1 .. Len(q)
    BY <1>1 DEF Places
  <2>2. k < Len(q) => q[k + 1] \in Addrs
    BY <1>1, <2>1, ElementOfSeq
  <2> QED BY <1>1, <1>2, <2>2
<1> DEFINE n == IF Len(q) = 0 THEN 0 ELSE Len(q) - 1
           S == {k \in 0 .. Cardinality(Addrs) : Chain[k] # Nil} \cup {0}
<1>4. n \in S /\ \A k \in S : k \in Int /\ n >= k
  <2>1. n \in Places /\ (n = 0 \/ n < Len(q))
    BY <1>1 DEF Places
  <2>2. n \in S
    BY <1>3, <2>1 DEF Places
  <2>3. ASSUME NEW k \in S PROVE k \in Int /\ n >= k
    <3>1. k \in Nat /\ (k = 0 \/ k < Len(q))
      BY <1>1, <1>3 DEF Places
    <3> QED BY <1>1, <3>1
  <2> QED BY <2>2, <2>3
<1>5. Length = n
  <2> HIDE DEF S, n
  <2>1. ASSUME NEW x \in S, \A y \in S : x >= y PROVE x = n
    <3>1. x >= n /\ n >= x /\ x \in Int /\ n \in Int
      BY <1>4, <2>1
    <3> QED BY <3>1
  <2>2. Max(S) = n
    BY <1>4, <2>1 DEF Max
  <2> QED BY <2>2 DEF Length, S
<1>6. 1 .. Length = 1 .. Len(q) - 1
  BY <1>1, <1>5
<1>7. \A k \in 1 .. Len(q) - 1 : Chain[k] = q[k + 1]
  BY <1>1, <1>2 DEF Places
<1> QED BY <1>6, <1>7 DEF Contents, Inner

-----------------------------------------------------------------------------
\* The types of the state.
THEOREM TypeCorrect == Spec => []TypeOK
  BY Invariance, PTL DEF IInv

\* No thread of a well-used queue reads a member of a deleted node.
THEOREM NeverDangling == Spec => []NoDanglingAccess
<1>1. IInv => NoDanglingAccess
  BY DEF IInv, NoDanglingAccess
<1> QED BY <1>1, Invariance, PTL

\* dequeue() does not return the null pointer when there was something all the time.
THEOREM NullIsEmpty == Spec => []NullMeansEmpty
<1>1. IInv => NullMeansEmpty
  <2> SUFFICES ASSUME IInv, WellUsed, NEW c \in Consumers, pc[c] = "null"
               PROVE  c \notin filled
    BY DEF NullMeansEmpty
  <2>1. PICK q \in Seq(Addrs) : Destroyed(q) \/ InUse(q)
    BY DEF IInv, HasList
  <2>2. InUse(q)
    BY <2>1 DEF Destroyed, Threads
  <2>3. my[c].next = Nil
    BY DEF IInv, Locals, ConsumerAt
  <2> QED BY <2>2, <2>3 DEF InUse, Views, NullSeen
<1> QED BY <1>1, Invariance, PTL

\* What is allocated is in the queue, about to be linked or about to be deleted.
THEOREM NeverLeaks == Spec => []NoLeak
<1>1. IInv => NoLeak
  <2> DEFINE InChain == {Chain[k] : k \in 0 .. Cardinality(Addrs)}
             Prepared == {my[t].node : t \in {u \in Threads : pc[u] # "swing"}}
             Unlinked == {my[t].head : t \in {u \in Threads : pc[u] = "delete"}}
  <2> SUFFICES ASSUME IInv, WellUsed
               PROVE  live = (InChain \cup Prepared \cup Unlinked) \ {Nil}
    BY DEF NoLeak
  <2>1. PICK q \in Seq(Addrs) : Destroyed(q) \/ InUse(q)
    BY DEF IInv, HasList
  <2>2. Line(q) /\ live \subseteq Addrs /\ Nil \notin live
    BY <2>1, QueueAssumption DEF Destroyed, InUse, Structure, IInv, TypeOK
  <2>3. \A a : a \in InChain \ {Nil} <=> On(q, a)
    <3>1. Len(q) \in Nat /\ Cardinality(Addrs) \in Nat /\ Len(q) <= Cardinality(Addrs)
      BY <2>2, FewNodes
    <3>2. \A k \in Places : Chain[k] = IF k < Len(q) THEN q[k + 1] ELSE Nil
      BY <2>2, ChainIs
    <3>3. ASSUME NEW a \in InChain, a # Nil PROVE On(q, a)
      <4>1. PICK k \in Places : Chain[k] = a
        BY DEF Places
      <4>2. k + 1 \in 1 .. Len(q) /\ q[k + 1] = a
        BY <3>1, <3>2, <3>3, <4>1 DEF Places
      <4> QED BY <4>2 DEF On
    <3>4. ASSUME NEW a, On(q, a) PROVE a \in InChain \ {Nil}
      <4>1. PICK i \in 1 .. Len(q) : q[i] = a
        BY <3>4 DEF On
      <4>2. i - 1 \in Places /\ i - 1 < Len(q) /\ i - 1 + 1 = i
        BY <3>1, <4>1 DEF Places
      <4>3. Chain[i - 1] = a
        BY <3>2, <4>1, <4>2
      <4>4. a # Nil
        BY <2>2, <4>1 DEF Line
      <4> QED BY <4>2, <4>3, <4>4 DEF Places
    <3> QED BY <3>3, <3>4
  <2>4. Locals /\ \A t \in Threads : t \in Producers \/ t \in Consumers
    BY DEF IInv, Threads
  <2>5. CASE Destroyed(q)
    <3>1. \A t \in Threads : pc[t] = "joined" /\ my[t].node = Nil
      BY <2>4, <2>5 DEF Destroyed, Locals, ProducerAt, ConsumerAt, OutAt, NoLocals
    <3>2. Prepared \subseteq {Nil} /\ Unlinked = {}
      BY <3>1
    <3>3. \A a : a \in live <=> On(q, a)
      BY <2>2, <2>5 DEF Destroyed, Line, On
    <3> QED BY <2>2, <2>3, <3>2, <3>3
  <2>6. CASE InUse(q)
    <3>1. \A a : a \in Unlinked <=> Leaving(a)
      <4>1. \A t \in Threads : pc[t] = "delete" => t \in Consumers
        BY <2>4 DEF Locals, ProducerAt, Preparing
      <4>2. \A c \in Consumers : c \in Threads
        BY DEF Threads
      <4> QED BY <4>1, <4>2 DEF Leaving
    <3>2. \A a : a \in Prepared \ {Nil} <=> \E p \in Producers : pc[p] \in Preparing /\ my[p].node = a
      <4>1. \A t \in Threads : my[t].node # Nil => t \in Producers
        BY <2>4 DEF Locals, ConsumerAt
      <4>2. \A p \in Producers : p \in Threads /\ (my[p].node # Nil /\ pc[p] # "swing" <=> pc[p] \in Preparing)
        BY <2>4, LinkingIs DEF Linking, Threads
      <4> QED BY <4>1, <4>2
    <3>3. \A a : a \in live <=> Placed(q, a) \/ \E p \in Producers : pc[p] \in Preparing /\ my[p].node = a
      <4>1. Structure(q)
        BY <2>6 DEF InUse
      <4> QED BY <4>1, PlacedIsLive DEF Structure, Accounted, Fresh
    <3>4. \A a : Leaving(a) => a # Nil
      <4>1. \A a : Placed(q, a) => a \in live
        BY <3>3
      <4> QED BY <2>2, <4>1 DEF Placed
    <3> QED BY <2>2, <2>3, <3>1, <3>2, <3>3, <3>4 DEF Placed
  <2> QED BY <2>1, <2>5, <2>6
<1> QED BY <1>1, Invariance, PTL

\* The values behind the dummy are a sequence.
LEMMA InnerType ==
    ASSUME TypeOK, NEW q \in Seq(Addrs), q # <<>>
    PROVE  /\ Inner(q) \in Seq(Values \cup {NoValue})
           /\ Len(q) \in Nat \ {0} /\ Len(Inner(q)) = Len(q) - 1
           /\ \A k \in 1 .. Len(q) - 1 : Inner(q)[k] = data[q[k + 1]]
<1>1. Len(q) \in Nat \ {0}
  BY EmptySeq
<1>2. \A k \in 1 .. Len(q) - 1 : data[q[k + 1]] \in Values \cup {NoValue}
  <2> TAKE k \in 1 .. Len(q) - 1
  <2>1. k + 1 \in 1 .. Len(q)
    BY <1>1
  <2>2. q[k + 1] \in Addrs
    BY <2>1, ElementOfSeq
  <2> QED BY <2>2 DEF TypeOK
<1>3. Inner(q) \in [1 .. Len(q) - 1 -> Values \cup {NoValue}] /\ Len(q) - 1 \in Nat
  BY <1>1, <1>2 DEF Inner
<1>4. Inner(q) \in Seq(Values \cup {NoValue}) /\ Len(Inner(q)) = Len(q) - 1
  BY <1>3
<1> QED BY <1>1, <1>4 DEF Inner

\* A new last node is a new last value.
LEMMA InnerGrows ==
    ASSUME TypeOK, NEW q \in Seq(Addrs), q # <<>>, NEW n \in Addrs, NEW r, r = Append(q, n)
    PROVE  Inner(r) = Append(Inner(q), data[n])
<1>1. /\ r \in Seq(Addrs) /\ Len(r) = Len(q) + 1
      /\ r[Len(r)] = n /\ \A i \in 1 .. Len(q) : r[i] = q[i]
  BY Longer
<1>2. /\ Inner(q) \in Seq(Values \cup {NoValue}) /\ Len(Inner(q)) = Len(q) - 1 /\ Len(q) \in Nat \ {0}
      /\ \A k \in 1 .. Len(q) - 1 : Inner(q)[k] = data[q[k + 1]]
  BY InnerType
<1>3. r # <<>>
  <2>1. 1 \in 1 .. Len(r)
    BY <1>1, <1>2
  <2> QED BY <2>1, NotEmpty
<1>4. /\ Inner(r) \in Seq(Values \cup {NoValue}) /\ Len(Inner(r)) = Len(r) - 1
      /\ \A k \in 1 .. Len(r) - 1 : Inner(r)[k] = data[r[k + 1]]
  BY <1>1, <1>3, InnerType
<1> DEFINE s == Append(Inner(q), data[n])
<1>5. /\ s \in Seq(Values \cup {NoValue}) /\ Len(s) = Len(q) /\ s[Len(q)] = data[n]
      /\ \A k \in 1 .. Len(q) - 1 : s[k] = data[q[k + 1]]
  <2>1. data[n] \in Values \cup {NoValue}
    BY DEF TypeOK
  <2>2. /\ s \in Seq(Values \cup {NoValue}) /\ Len(s) = Len(Inner(q)) + 1 /\ s[Len(Inner(q)) + 1] = data[n]
        /\ \A k \in 1 .. Len(Inner(q)) : s[k] = Inner(q)[k]
    BY <1>2, <2>1, AppendProperties
  <2>3. Len(Inner(q)) + 1 = Len(q)
    BY <1>2
  <2> QED BY <1>2, <2>2, <2>3
<1> HIDE DEF s
<1>6. ASSUME NEW k \in 1 .. Len(q) PROVE Inner(r)[k] = s[k]
  <2>1. Inner(r)[k] = data[r[k + 1]]
    BY <1>1, <1>2, <1>4
  <2>2. CASE k = Len(q)
    BY <1>1, <1>5, <2>1, <2>2
  <2>3. CASE k # Len(q)
    <3>1. k \in 1 .. Len(q) - 1 /\ k + 1 \in 1 .. Len(q)
      BY <1>2, <2>3
    <3>2. r[k + 1] = q[k + 1] /\ s[k] = data[q[k + 1]]
      BY <1>1, <1>5, <3>1
    <3> QED BY <2>1, <3>2
  <2> QED BY <2>2, <2>3
<1>7. Len(Inner(r)) = Len(s) /\ Len(s) = Len(q)
  BY <1>1, <1>2, <1>4, <1>5
<1>8. Inner(r) = s
  BY <1>4, <1>5, <1>6, <1>7, SeqEqual
<1> QED BY <1>8 DEF s

\* Without the dummy its successor is the dummy, and the value of that has left.
LEMMA InnerShrinks ==
    ASSUME TypeOK, NEW q \in Seq(Addrs), Len(q) > 1, Line(q), NEW r, r = Tail(q)
    PROVE  /\ Inner(q) # <<>> /\ Head(Inner(q)) = data[q[2]]
           /\ Tail(Inner(q)) = Inner(r)
<1>1. q # <<>> /\ Len(q) \in Nat \ {0}
  <2>1. 1 \in 1 .. Len(q)
    BY LenProperties
  <2> QED BY <2>1, NotEmpty, LenProperties
<1>2. /\ Inner(q) \in Seq(Values \cup {NoValue}) /\ Len(Inner(q)) = Len(q) - 1
      /\ \A k \in 1 .. Len(q) - 1 : Inner(q)[k] = data[q[k + 1]]
  BY <1>1, InnerType
<1>3. 1 \in 1 .. Len(q) - 1
  BY <1>1
<1>4. Inner(q) # <<>> /\ Head(Inner(q)) = Inner(q)[1] /\ Inner(q)[1] = data[q[1 + 1]]
  <2>1. 1 \in 1 .. Len(Inner(q))
    BY <1>2, <1>3
  <2> QED BY <1>2, <1>3, <2>1, NotEmpty
<1>5. /\ r \in Seq(Addrs) /\ Len(r) = Len(q) - 1
      /\ \A i \in 1 .. Len(r) : r[i] = q[i + 1]
  <2>1. \A i, j \in 1 .. Len(q) : q[i] = q[j] => i = j
    BY DEF Line
  <2> QED BY <1>1, <2>1, Shorter
<1>6. r # <<>>
  <2>1. 1 \in 1 .. Len(r)
    BY <1>3, <1>5
  <2> QED BY <2>1, NotEmpty
<1>7. /\ Inner(r) \in Seq(Values \cup {NoValue}) /\ Len(Inner(r)) = Len(r) - 1
      /\ \A k \in 1 .. Len(r) - 1 : Inner(r)[k] = data[r[k + 1]]
  BY <1>5, <1>6, InnerType
<1>8. /\ Tail(Inner(q)) \in Seq(Values \cup {NoValue}) /\ Len(Tail(Inner(q))) = Len(Inner(q)) - 1
      /\ \A k \in 1 .. Len(Tail(Inner(q))) : Tail(Inner(q))[k] = Inner(q)[k + 1]
  BY <1>2, <1>4, HeadTailProperties
<1>9. ASSUME NEW k \in 1 .. Len(Tail(Inner(q))) PROVE Tail(Inner(q))[k] = Inner(r)[k]
  <2>1. k \in 1 .. Len(r) - 1 /\ k + 1 \in 1 .. Len(q) - 1 /\ k + 1 \in 1 .. Len(r)
    BY <1>1, <1>2, <1>5, <1>8
  <2>2. Tail(Inner(q))[k] = data[q[k + 1 + 1]]
    BY <1>2, <1>8, <2>1
  <2>3. Inner(r)[k] = data[q[k + 1 + 1]]
    BY <1>5, <1>7, <2>1
  <2> QED BY <2>2, <2>3
<1>10. Tail(Inner(q)) = Inner(r)
  <2>1. Len(Tail(Inner(q))) = Len(Inner(r))
    BY <1>2, <1>5, <1>7, <1>8
  <2> QED BY <1>7, <1>8, <1>9, <2>1, SeqEqual
<1> QED BY <1>4, <1>10

\* In every state, and so in the one a step leads to, the contents are the values of
\* the list.
Listed == \A q : Line(q) => Contents = Inner(q)

\* It holds in every state.
LEMMA ContentsListed == Listed
  BY ContentsAre DEF Listed

\* It holds in the state a step leads to.
LEMMA ContentsNext == Listed'
  BY ContentsListed, PTL

-----------------------------------------------------------------------------
\* The queue is a FIFO queue until it is destroyed.
THEOREM FirstInFirstOut == Spec => IsFifo
<1> DEFINE A == WellUsed' => \/ \E v \in Values : Fifo!Enqueue(v)
                             \/ Fifo!Dequeue
                             \/ UNCHANGED <<Contents, taken>>
                             \/ Fifo!Drop /\ \A t \in Threads : pc'[t] = "joined"
<1>1. ASSUME IInv, Next, WellUsed'
      PROVE  A
  <2>1. TypeOK /\ Locals /\ TypeOK' /\ Locals' /\ ~dangling /\ HasList
    BY <1>1, TypesStep, WellUsedSoFar DEF IInv
  <2>2. PICK q \in Seq(Addrs) : Destroyed(q) \/ InUse(q)
    BY <2>1 DEF HasList
  <2>3. Line(q) /\ Contents = Inner(q)
    BY <2>2, ContentsAre DEF Destroyed, InUse, Structure
  <2>4. \A r : Line(r)' => Contents' = Inner(r)'
    BY ContentsNext DEF Listed
  <2>5. ASSUME NEW r, data' = data PROVE Inner(r)' = Inner(r)
    BY <2>5 DEF Inner
  <2>6. ASSUME NEW r, InUse(r)', Stays(q, r)
        PROVE  UNCHANGED <<Contents, taken>>
    <3>1. Contents' = Inner(q)'
      BY <2>4, <2>6 DEF InUse, Structure, Stays
    <3>2. \A k \in 1 .. Len(q) - 1 : k + 1 \in 1 .. Len(q)
      BY LenProperties
    <3>3. Inner(q)' = Inner(q)
      BY <2>6, <3>2 DEF Stays, Inner
    <3> QED BY <2>3, <2>6, <3>1, <3>3 DEF Stays
  <2>7. ASSUME InUse(q), NEW r, InUse(r)', Grows(q, r)
        PROVE  \E v \in Values : Fifo!Enqueue(v)
    <3>1. PICK n \in Addrs : r = Append(q, n) /\ taken' = taken /\ data' = data /\ data[n] \in Values
      BY <2>7 DEF Grows
    <3>2. q # <<>>
      BY <2>7 DEF InUse
    <3>3. Inner(r) = Append(Inner(q), data[n])
      BY <2>1, <3>1, <3>2, InnerGrows
    <3>4. Contents' = Inner(r)
      BY <2>4, <2>5, <2>7, <3>1 DEF InUse, Structure
    <3>5. Fifo!Enqueue(data[n])
      BY <2>3, <3>1, <3>3, <3>4 DEF Fifo!Enqueue
    <3> QED BY <3>1, <3>5
  <2>8. ASSUME NEW r, InUse(r)', Shrinks(q, r)
        PROVE  Fifo!Dequeue
    <3>1. r = Tail(q) /\ Len(q) > 1 /\ taken' = Append(taken, data[q[2]]) /\ data' = data
      BY <2>8 DEF Shrinks
    <3>2. Inner(q) # <<>> /\ Head(Inner(q)) = data[q[2]] /\ Tail(Inner(q)) = Inner(r)
      BY <2>1, <2>3, <3>1, InnerShrinks
    <3>3. Contents' = Inner(r)
      BY <2>4, <2>5, <2>8, <3>1 DEF InUse, Structure
    <3> QED BY <2>3, <3>1, <3>2, <3>3 DEF Fifo!Dequeue
  <2>9. ASSUME Destroy, NEW r, r = Tail(q), Destroyed(r)'
        PROVE  UNCHANGED <<Contents, taken>> \/ (Fifo!Drop /\ \A t \in Threads : pc'[t] = "joined")
    <3>1. data' = data /\ taken' = taken /\ \A t \in Threads : pc'[t] = "joined"
      BY <2>9 DEF Destroy, history, calls
    <3>2. Contents' = Inner(r)
      BY <2>4, <2>5, <2>9, <3>1 DEF Destroyed
    <3>3. CASE Len(q) > 1
      <4>1. Inner(q) # <<>> /\ Tail(Inner(q)) = Inner(r)
        BY <2>1, <2>3, <2>9, <3>3, InnerShrinks
      <4> QED BY <2>3, <3>1, <3>2, <4>1 DEF Fifo!Drop
    <3>4. CASE ~(Len(q) > 1)
      <4>1. Len(q) \in Nat /\ Len(r) \in Nat /\ Len(r) <= Len(q)
        <5>1. q # <<>>
          BY <2>3, <2>9 DEF Line, Destroy
        <5>2. Len(r) = Len(q) - 1 /\ r \in Seq(Addrs)
          BY <2>9, <5>1, HeadTailProperties
        <5> QED BY <5>2, LenProperties
      <4>2. 1 .. Len(q) - 1 = {} /\ 1 .. Len(r) - 1 = {}
        BY <3>4, <4>1
      <4>3. Inner(q) = Inner(r)
        BY <4>2 DEF Inner
      <4> QED BY <2>3, <3>1, <3>2, <4>3
    <3> QED BY <3>3, <3>4
  <2> QED BY <1>1, <2>1, <2>2, <2>6, <2>7, <2>8, <2>9, ListStep
<1>2. IInv /\ [Next]_vars => [A]_vars
  BY <1>1
<1> QED BY <1>2, Invariance, PTL DEF Spec, IsFifo
==============================================================================
