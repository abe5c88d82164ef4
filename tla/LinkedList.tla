------------------------------ MODULE LinkedList ------------------------------
(***************************************************************************)
(* The lists of data-structures-algorithms/list: List (list.cpp), doubly   *)
(* linked with head and tail, and ForwardList (forward_list.cpp), singly   *)
(* linked. A node has an address, which can be allocated again after the   *)
(* node is deleted. insert_after, erase and erase_after take a pointer to  *)
(* a node, which main gets from begin() and next.                          *)
(***************************************************************************)
EXTENDS Integers, FiniteSets, Sequences, SequencesExt

CONSTANTS Values, Addresses

Null == 0                    \* nullptr

VARIABLES kind, head, tail,  \* ForwardList has no tail
          size,
          node,              \* value, prev and next at each allocated address
          items              \* what a list would hold

vars == <<kind, head, tail, size, node, items>>

Kinds == {"List", "ForwardList"}
New == /\ head = Null /\ tail = Null /\ size = 0
       /\ node = <<>> /\ items = <<>>
Init == kind \in Kinds /\ New

IsList == kind = "List"
Allocated == DOMAIN node
NewNode(v, p, n) == [value |-> v, prev |-> p, next |-> n]
With(nodes, a, n) == [x \in DOMAIN nodes \cup {a} |-> IF x = a THEN n ELSE nodes[x]]
Without(nodes, a) == [x \in DOMAIN nodes \ {a} |-> nodes[x]]

\* n->next = x and n->prev = x of the nodes, nothing if n is null. ForwardList has
\* no prev.
SetNext(nodes, n, x) == IF n = Null THEN nodes ELSE [nodes EXCEPT ![n].next = x]
SetPrev(nodes, n, x) == IF n = Null \/ ~IsList THEN nodes ELSE [nodes EXCEPT ![n].prev = x]

\* The place of a node in the list, for items.
Walk[i \in Nat] == IF i = 0 THEN head
                   ELSE IF Walk[i - 1] \in Allocated THEN node[Walk[i - 1]].next ELSE Null
Place(n) == CHOOSE i \in 1 .. Len(items) : Walk[i - 1] = n

-----------------------------------------------------------------------------
PushBack(v, a) ==
    /\ IsList /\ a \notin Allocated
    /\ node' = SetNext(With(node, a, NewNode(v, tail, Null)), tail, a)
    /\ head' = IF size = 0 THEN a ELSE head
    /\ tail' = a
    /\ size' = size + 1 /\ items' = Append(items, v)

PushFront(v, a) ==
    /\ a \notin Allocated
    /\ node' = SetPrev(With(node, a, NewNode(v, Null, head)), head, a)
    /\ head' = a
    /\ tail' = IF IsList /\ size = 0 THEN a ELSE tail
    /\ size' = size + 1 /\ items' = <<v>> \o items

\* pop_back
RemoveLast ==
    /\ head' = IF head = tail THEN Null ELSE head
    /\ tail' = IF head = tail THEN Null ELSE node[tail].prev
    /\ node' = Without(IF head = tail THEN node ELSE SetNext(node, node[tail].prev, Null), tail)
    /\ size' = size - 1 /\ items' = Front(items)

\* pop_front
RemoveFirstNode ==
    /\ head' = node[head].next
    /\ tail' = IF head = tail THEN Null ELSE tail
    /\ node' = Without(SetPrev(node, node[head].next, Null), head)
    /\ size' = size - 1 /\ items' = Tail(items)

\* List::pop_back and pop_front return, ForwardList::pop_front throws, when empty.
PopBack == IsList /\ size > 0 /\ RemoveLast
PopFront == size > 0 /\ RemoveFirstNode

ForgetsTail(n, a) == tail

\* if (node == tail) tail = newNode
TailAfter(n, a) == IF n = tail THEN a ELSE tail

InsertAfter(n, v, a) ==
    /\ n \in Allocated /\ a \notin Allocated
    /\ node' = SetNext(SetPrev(With(node, a, NewNode(v, IF IsList THEN n ELSE Null, node[n].next)),
                               node[n].next, a), n, a)
    /\ tail' = TailAfter(n, a)
    /\ size' = size + 1 /\ items' = InsertAt(items, Place(n) + 1, v)
    /\ UNCHANGED head

\* The neighbours of n are linked to each other and n is deleted.
Unlinked(n) == Without(SetPrev(SetNext(node, node[n].prev, node[n].next),
                               node[n].next, node[n].prev), n)

\* List::erase
Erase(n) ==
    /\ IsList /\ n \in Allocated
    /\ \/ n = head /\ RemoveFirstNode
       \/ n # head /\ n = tail /\ RemoveLast
       \/ /\ n # head /\ n # tail
          /\ node' = Unlinked(n)
          /\ size' = size - 1 /\ items' = RemoveAt(items, Place(n))
          /\ UNCHANGED <<head, tail>>

\* ForwardList::erase_after
EraseAfter(n) ==
    /\ ~IsList /\ n \in Allocated /\ node[n].next # Null
    /\ node' = Without(SetNext(node, n, node[node[n].next].next), node[n].next)
    /\ size' = size - 1 /\ items' = RemoveAt(items, Place(n) + 1)
    /\ UNCHANGED <<head, tail>>

\* clear(), which the destructor calls, deletes what it reaches from head.
Clear ==
    /\ node' = [a \in Allocated \ {Walk[i] : i \in 0 .. Cardinality(Allocated)} |-> node[a]]
    /\ head' = Null /\ tail' = Null /\ size' = 0 /\ items' = <<>>

Next == /\ \/ PopBack \/ PopFront \/ Clear
           \/ \E n \in Addresses : Erase(n) \/ EraseAfter(n)
           \/ \E a \in Addresses, v \in Values :
                 \/ PushBack(v, a) \/ PushFront(v, a)
                 \/ \E n \in Addresses : InsertAfter(n, v, a)
        /\ UNCHANGED kind
Spec == Init /\ [][Next]_vars

-----------------------------------------------------------------------------
TypeOK == /\ head \in Addresses \cup {Null} /\ tail \in Addresses \cup {Null}
          /\ size \in 0 .. Cardinality(Addresses)
          /\ Allocated \subseteq Addresses
          /\ \A a \in Allocated : node[a] \in [value : Values, prev : Addresses \cup {Null},
                                               next : Addresses \cup {Null}]

\* After any insertions and erasures at both ends and in the middle, the nodes from
\* head along next hold the items in order and end in null, each knows the one
\* before it, tail is the last (List), the size counts them, and no other node is
\* left allocated: list.cpp:27 to :135, forward_list.cpp:27 to :83.
IsSequence ==
    /\ size = Len(items) /\ Cardinality(Allocated) = Len(items)
    /\ Walk[Len(items)] = Null
    /\ \A i \in DOMAIN items :
          /\ Walk[i - 1] \in Allocated
          /\ node[Walk[i - 1]].value = items[i]
          /\ IsList => node[Walk[i - 1]].prev = IF i = 1 THEN Null ELSE Walk[i - 2]
    /\ IsList => tail = IF items = <<>> THEN Null ELSE Walk[Len(items) - 1]
=============================================================================
