---------------------------- MODULE LockFreeQueue ----------------------------
(***************************************************************************)
(* data-structures-algorithms/queue/LockFreeQueue.cpp: a linked queue with *)
(* a dummy node, whose operations read head, tail and next one atomic      *)
(* access at a time and whose dequeue deletes the old dummy at once. An    *)
(* address is used again as soon as it is deleted; the node that was there *)
(* keeps its next, as a freed block does, until the address is used again. *)
(*                                                                         *)
(* The file holds no program. Producers enqueue the values 1 .. MaxValues, *)
(* consumers dequeue for ever, and the queue is destroyed when they are    *)
(* out of it. compare_exchange_weak fails on a difference only, as on x86. *)
(***************************************************************************)
EXTENDS Integers, Sequences, FiniteSets, FiniteSetsExt

CONSTANTS Producers, Consumers,
          MaxValues,   \* bound: how many values are enqueued
          Addrs,       \* bound: where nodes can be allocated
          Nil

ASSUME QueueAssumption ==
    /\ Producers \cap Consumers = {}
    /\ MaxValues \in Nat
    /\ Nil \notin Addrs /\ IsFiniteSet(Addrs) /\ Addrs # {}

Threads == Producers \cup Consumers
NoValue == 0
Values == 1 .. MaxValues

VARIABLES active,      \* the threads that use the queue
          head, tail,
          next, data,  \* the members of the node at each address
          live,        \* the addresses of nodes that are not deleted
          pc,          \* where each thread is
          my,          \* the local variables of each thread
          made,        \* how many values producers have started to enqueue
          taken,       \* what dequeue() has returned, in order
          filled,      \* consumers in whose call the queue was never empty
          early,       \* a node was deleted that another thread still held
          dangling     \* a member of a deleted node was read

nodes == <<next, data, live>>
calls == <<made, taken, filled, early>>
history == <<calls, dangling>>
vars == <<active, head, tail, nodes, pc, my, history>>

NoLocals == [node |-> Nil, head |-> Nil, tail |-> Nil, next |-> Nil, res |-> NoValue]

Init == /\ active \in SUBSET Threads
        /\ head = (CHOOSE a \in Addrs : TRUE) /\ tail = head
        /\ next = [a \in Addrs |-> Nil]
        /\ data = [a \in Addrs |-> NoValue]
        /\ live = {head}
        /\ pc = [t \in Threads |-> "out"]
        /\ my = [t \in Threads |-> NoLocals]
        /\ made = 0 /\ taken = <<>> /\ filled = {}
        /\ early = FALSE /\ dangling = FALSE

\* The nodes from the dummy on: the k-th of them is Chain[k].
Chain[k \in 0 .. Cardinality(Addrs)] ==
    IF k = 0 THEN head
    ELSE IF Chain[k - 1] = Nil THEN Nil ELSE next[Chain[k - 1]]

Length == Max({k \in 0 .. Cardinality(Addrs) : Chain[k] # Nil} \cup {0})
Contents == [k \in 1 .. Length |-> data[Chain[k]]]

Step(t, from, to) ==
    /\ pc[t] = from
    /\ pc' = [pc EXCEPT ![t] = to]
    /\ UNCHANGED active

\* A member of the node at address a is read.
Access(a) == dangling' = (dangling \/ a \notin live)

\* The values that were linked and that dequeue() has not returned.
Linking == {t \in Producers : my[t].node # Nil /\ pc[t] # "swing"}
Inside == {v \in 1 .. made : /\ \A i \in 1 .. Len(taken) : taken[i] # v
                            /\ \A t \in Linking : data[my[t].node] # v}

\* The loop is entered again: its variables are dead.
Retry(t) == my' = [my EXCEPT ![t] = [NoLocals EXCEPT !.node = my[t].node]]

\* tail.compare_exchange_weak(old_tail, new)
Exchanged(t, new) == IF tail = my[t].tail THEN new ELSE tail

-----------------------------------------------------------------------------
\* enqueue(value): new Node(value)
Enqueue(t) ==
    /\ made < MaxValues
    /\ Step(t, "out", "loadTail")
    /\ made' = made + 1
    /\ \E a \in Addrs \ live :
          /\ live' = live \cup {a}
          /\ next' = [next EXCEPT ![a] = Nil]
          /\ data' = [data EXCEPT ![a] = made']
          /\ my' = [my EXCEPT ![t].node = a]
    /\ UNCHANGED <<head, tail, taken, filled, early, dangling>>

LoadTail(t) ==
    /\ Step(t, "loadTail", "loadNext")
    /\ my' = [my EXCEPT ![t].tail = tail]
    /\ UNCHANGED <<head, tail, nodes, history>>

LoadNext(t) ==
    /\ Step(t, "loadNext", "compareTail")
    /\ my' = [my EXCEPT ![t].next = next[my[t].tail]]
    /\ Access(my[t].tail)
    /\ UNCHANGED <<head, tail, nodes, calls>>

TailMoved(t) ==
    /\ tail # my[t].tail
    /\ Step(t, "compareTail", "loadTail") /\ Retry(t)
    /\ UNCHANGED <<head, tail, nodes, history>>

TailIsLast(t) ==
    /\ tail = my[t].tail
    /\ Step(t, "compareTail", IF my[t].next = Nil THEN "link" ELSE "helpEnqueue")
    /\ UNCHANGED <<head, tail, nodes, my, history>>

Link(t) ==
    /\ Step(t, "link", "swing")
    /\ next[my[t].tail] = Nil
    /\ next' = [next EXCEPT ![my[t].tail] = my[t].node]
    /\ Access(my[t].tail)
    /\ UNCHANGED <<head, tail, data, live, my, calls>>

LinkFails(t) ==
    /\ Step(t, "link", "loadTail") /\ Retry(t)
    /\ next[my[t].tail] # Nil
    /\ Access(my[t].tail)
    /\ UNCHANGED <<head, tail, nodes, calls>>

HelpEnqueue(t) ==
    /\ Step(t, "helpEnqueue", "loadTail") /\ Retry(t)
    /\ tail' = Exchanged(t, my[t].next)
    /\ UNCHANGED <<head, nodes, history>>

FailsSpuriously(t) == tail

Swung(t) == Exchanged(t, my[t].node)

Swing(t) ==
    /\ Step(t, "swing", "out")
    /\ tail' = Swung(t)
    /\ my' = [my EXCEPT ![t] = NoLocals]
    /\ UNCHANGED <<head, nodes, history>>

Producer(t) == \/ Enqueue(t) \/ LoadTail(t) \/ LoadNext(t) \/ TailMoved(t) \/ TailIsLast(t)
               \/ Link(t) \/ LinkFails(t) \/ HelpEnqueue(t) \/ Swing(t)

-----------------------------------------------------------------------------
\* dequeue() is called, and reads head.
LoadHead(t) ==
    /\ pc[t] \in {"out", "again"}
    /\ Step(t, pc[t], "readTail")
    /\ my' = [my EXCEPT ![t].head = head]
    /\ filled' = IF pc[t] = "out" /\ Inside # {} THEN filled \cup {t} ELSE filled
    /\ UNCHANGED <<head, tail, nodes, made, taken, early, dangling>>

ReadTail(t) ==
    /\ Step(t, "readTail", "readNext")
    /\ my' = [my EXCEPT ![t].tail = tail]
    /\ UNCHANGED <<head, tail, nodes, history>>

ReadNext(t) ==
    /\ Step(t, "readNext", "compareHead")
    /\ my' = [my EXCEPT ![t].next = next[my[t].head]]
    /\ Access(my[t].head)
    /\ UNCHANGED <<head, tail, nodes, calls>>

\* old_head == old_tail
AtTail(t) == my[t].head = my[t].tail

WithoutLooking(t) == TRUE

\* next == nullptr
Empty(t) == my[t].next = Nil

HeadMoved(t) ==
    /\ head # my[t].head
    /\ Step(t, "compareHead", "again") /\ Retry(t)
    /\ UNCHANGED <<head, tail, nodes, history>>

HeadIsDummy(t) ==
    /\ head = my[t].head
    /\ Step(t, "compareHead", IF ~AtTail(t) THEN "copy"
                              ELSE IF Empty(t) THEN "null" ELSE "helpDequeue")
    /\ UNCHANGED <<head, tail, nodes, my, history>>

Return(t) == /\ my' = [my EXCEPT ![t] = NoLocals]
             /\ filled' = filled \ {t}

ReturnNull(t) ==
    /\ Step(t, "null", "out")
    /\ Return(t)
    /\ UNCHANGED <<head, tail, nodes, made, taken, early, dangling>>

NoHelp(t) == tail

StoresNext(t) == next[tail]

Helped(t) == Exchanged(t, my[t].next)

HelpDequeue(t) ==
    /\ Step(t, "helpDequeue", "again") /\ Retry(t)
    /\ tail' = Helped(t)
    /\ UNCHANGED <<head, nodes, history>>

DummyData(t) == data[my[t].head]

\* next->data; a null next would end the process here.
Front(t) == data[my[t].next]

Copy(t) ==
    /\ my[t].next # Nil
    /\ Step(t, "copy", "unlink")
    /\ my' = [my EXCEPT ![t].res = Front(t)]
    /\ Access(my[t].next)
    /\ UNCHANGED <<head, tail, nodes, calls>>

NewHead(t) == my[t].next

Unlink(t) ==
    /\ head = my[t].head
    /\ Step(t, "unlink", "delete")
    /\ head' = NewHead(t)
    /\ taken' = Append(taken, my[t].res)
    /\ UNCHANGED <<tail, nodes, my, made, early, dangling>>
    /\ filled' = IF Inside' = {} THEN {} ELSE filled

UnlinkFails(t) ==
    /\ head # my[t].head
    /\ Step(t, "unlink", "again") /\ Retry(t)
    /\ UNCHANGED <<head, tail, nodes, history>>

\* The nodes a thread has read the address of and may still use.
Held(t) == {my[t].head, my[t].tail, my[t].next}

KeepsDummy(t) == live

\* delete old_head
Deleted(t) == live \ {my[t].head}

Delete(t) ==
    /\ Step(t, "delete", "out")
    /\ live' = Deleted(t)
    /\ data' = [data EXCEPT ![my[t].head] = NoValue]
    /\ early' = (early \/ \E u \in Threads \ {t} : my[t].head \in Held(u))
    /\ Return(t)
    /\ UNCHANGED <<head, tail, next, made, taken, dangling>>

Consumer(t) == \/ LoadHead(t) \/ ReadTail(t) \/ ReadNext(t) \/ HeadMoved(t)
               \/ HeadIsDummy(t) \/ ReturnNull(t) \/ HelpDequeue(t) \/ Copy(t)
               \/ Unlink(t) \/ UnlinkFails(t) \/ Delete(t)

\* One node of the loop of ~LockFreeQueue(). The threads are out of it for good.
Destroy ==
    /\ made = MaxValues /\ \A t \in Threads : pc[t] \in {"out", "joined"}
    /\ head # Nil
    /\ pc' = [t \in Threads |-> "joined"]
    /\ head' = next[head]
    /\ live' = live \ {head}
    /\ UNCHANGED <<active, tail, next, data, my, history>>

Next == \/ \E t \in active \cap Producers : Producer(t)
        \/ \E t \in active \cap Consumers : Consumer(t)
        \/ Destroy

Spec == Init /\ [][Next]_vars

\* The consumers are scheduled; a producer may be held up wherever it is, and
\* the owner of the queue need not destroy it.
FairSpec == Spec /\ \A t \in Consumers : WF_vars(t \in active /\ Consumer(t))

-----------------------------------------------------------------------------
TypeOK ==
    /\ active \subseteq Threads
    /\ head \in Addrs \cup {Nil} /\ tail \in Addrs
    /\ next \in [Addrs -> Addrs \cup {Nil}]
    /\ data \in [Addrs -> Values \cup {NoValue}]
    /\ live \subseteq Addrs
    /\ pc \in [Threads -> {"out", "joined", "loadTail", "loadNext", "compareTail", "link",
                           "helpEnqueue", "swing", "readTail", "readNext", "again",
                           "compareHead", "null", "helpDequeue", "copy", "unlink", "delete"}]
    /\ my \in [Threads -> [node : Addrs \cup {Nil}, head : Addrs \cup {Nil},
                           tail : Addrs \cup {Nil}, next : Addrs \cup {Nil},
                           res : Values \cup {NoValue}]]
    /\ made \in 0 .. MaxValues
    /\ taken \in Seq(Values \cup {NoValue})
    /\ filled \subseteq Consumers
    /\ early \in BOOLEAN /\ dangling \in BOOLEAN

OneProducer == \A p, q \in active \cap Producers : p = q
OneConsumer == \A p, q \in active \cap Consumers : p = q

\* The two ways to use this queue: one thread at each end, or any threads as
\* long as no node is deleted under one of them.
WellUsed == (OneProducer /\ OneConsumer) \/ ~early

\* No thread reads a member of a deleted node. With many threads this says that
\* tail is never left behind head; with one thread at each end, which do delete
\* nodes the other holds, that what is left to do with such an address is only to
\* compare it. It hangs on the last exchange of enqueue: were it to fail without
\* need, as the weak form may, the producer would read the node tail is left at
\* while the consumer deletes it.
NoDanglingAccess == WellUsed => ~dangling

\* Deleting the old dummy frees all that has left the queue: what is allocated
\* is in the queue, about to be linked, or about to be deleted.
NoLeak ==
    WellUsed => live = ({Chain[k] : k \in 0 .. Cardinality(Addrs)}
        \cup {my[t].node : t \in {u \in Threads : pc[u] # "swing"}}
        \cup {my[t].head : t \in {u \in Threads : pc[u] = "delete"}}) \ {Nil}

\* dequeue() returns the null pointer only if the queue was empty at some point
\* of the call.
NullMeansEmpty ==
    WellUsed => \A t \in Consumers : pc[t] = "null" => t \notin filled

\* "the queue is empty, return a null pointer" (LockFreeQueue.cpp:62). With two
\* consumers it fails even if no deleted node is read: the address a consumer has
\* read as the head is deleted, used again, and is the head once more.
NullOnlyWhenEmpty ==
    ~dangling => \A t \in Consumers : pc[t] = "null" => t \notin filled

\* Enqueuing takes effect when the node is linked, dequeuing when head moves.
Fifo == INSTANCE FifoQueue WITH queue <- Contents

\* The queue is a FIFO queue until it is destroyed.
IsFifo == [][WellUsed' => \/ \E v \in Values : Fifo!Enqueue(v)
                          \/ Fifo!Dequeue
                          \/ UNCHANGED <<Contents, taken>>
                          \/ Fifo!Drop /\ \A t \in Threads : pc'[t] = "joined"]_vars

\* A producer that has linked its node and is not scheduled again delays nobody:
\* consumers move tail for it, and get all there is.
DrainsWithoutProducers ==
    Length > 0 /\ active \cap Consumers # {}
        ~> Length = 0 \/ ~WellUsed \/ \E t \in Threads : pc[t] = "joined"
=============================================================================
