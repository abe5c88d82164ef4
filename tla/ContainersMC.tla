----------------------------- MODULE ContainersMC -----------------------------
(***************************************************************************)
(* The containers of data-structures-algorithms in one run: a behaviour    *)
(* uses one of them, which kind names, and leaves the others empty.        *)
(***************************************************************************)
EXTENDS Integers, Sequences, FiniteSets

CONSTANTS BufferSize, MaxItems, MaxMap, Capacities, FixedCapacity, InitialBuckets,
          MaxHeap, Addresses, Values

\* Of SimpleDeque, and of LRUCache and LRU2.
ASSUME BufferAssumption == BufferSize \in Nat \ {0}
ASSUME CapacityAssumption == Capacities \subseteq Nat /\ FixedCapacity \in Nat

CONSTANTS HeapValues, TreeKeys, TreeValues, TableKeys, CacheKeys, StringNames, Characters, MaxLength

\* std::less of the values of SimplePriorityQueue is the order of numbers.
ASSUME HeapAssumption == HeapValues \subseteq Int

\* The keys of the hash tables are their own hashes.
ASSUME TableAssumption == InitialBuckets \in Nat \ {0} /\ TableKeys \subseteq Nat

\* The keys of RBMap are ordered as numbers; 0 stands for nullptr.
ASSUME TreeAssumption == TreeKeys \subseteq Nat \ {0}

\* No address is the null pointer and no character the NUL that ends a string.
ASSUME AddressAssumption == 0 \notin Addresses
ASSUME StringsAssumption == "NUL" \notin Characters

\* A program has finitely many addresses and keys.
ASSUME FiniteAssumption ==
    IsFiniteSet(Addresses) /\ IsFiniteSet(TableKeys) /\ IsFiniteSet(TreeKeys)

\* The bounds.
ASSUME BoundAssumption ==
    MaxItems \in Nat /\ MaxMap \in Nat \ {0} /\ MaxHeap \in Nat /\ MaxLength \in Nat

VARIABLES kind, items, content, size,
          map, freeList, startIndex, startOffset, endIndex, endOffset, totalSize,
          head, tail, node, c, pushed, buckets, tree,
          capacity, cache, pair, index, undefined, uses, latest,
          memory, data, length, text, cut

dequeVars == <<map, freeList, startIndex, startOffset, endIndex, endOffset, totalSize>>
listVars  == <<head, tail, node>>
heapVars  == <<c, pushed>>
cacheVars == <<capacity, cache, pair, index, undefined, uses, latest>>
stringVars == <<memory, data, length, text, cut>>
vars == <<kind, items, content, size, dequeVars, listVars, heapVars, buckets, tree, cacheVars, stringVars>>

D == INSTANCE Deque
L == INSTANCE LinkedList
Q == INSTANCE PriorityQueue WITH Values <- HeapValues
H == INSTANCE HashTable WITH Keys <- TableKeys
T == INSTANCE RBMap WITH Keys <- TreeKeys, Values <- TreeValues
C == INSTANCE LRUCache WITH Keys <- CacheKeys, Nodes <- Addresses
S == INSTANCE Strings WITH Names <- StringNames

Init == /\ kind \in {"Deque", "PriorityQueue", "RBMap"} \cup L!Kinds \cup H!Kinds \cup C!Kinds
                    \cup S!Kinds
        /\ D!Init /\ L!New /\ Q!Init /\ H!New /\ T!Init /\ C!New /\ S!New

DequeNext == /\ kind = "Deque" /\ D!Next
             /\ UNCHANGED <<kind, content, size, listVars, heapVars, buckets, tree, cacheVars, stringVars>>
ListNext == /\ kind \in L!Kinds /\ L!Next
            /\ UNCHANGED <<content, dequeVars, heapVars, buckets, tree, cacheVars, stringVars>>
HeapNext == /\ kind = "PriorityQueue" /\ Q!Next
            /\ UNCHANGED <<kind, items, content, size, dequeVars, listVars, buckets, tree, cacheVars, stringVars>>
TableNext == /\ kind \in H!Kinds /\ H!Next
             /\ UNCHANGED <<items, dequeVars, listVars, heapVars, tree, cacheVars, stringVars>>
TreeNext == /\ kind = "RBMap" /\ T!Next
            /\ UNCHANGED <<kind, items, dequeVars, listVars, heapVars, buckets, cacheVars, stringVars>>
CacheNext == /\ kind \in C!Kinds /\ C!Next
             /\ UNCHANGED <<items, content, size, dequeVars, listVars, heapVars, buckets, tree, stringVars>>
StringNext == /\ kind \in S!Kinds /\ S!Next
              /\ UNCHANGED <<items, content, size, dequeVars, listVars, heapVars, buckets, tree, cacheVars>>

Next == DequeNext \/ ListNext \/ HeapNext \/ TableNext \/ TreeNext \/ CacheNext \/ StringNext
Spec == Init /\ [][Next]_vars

-----------------------------------------------------------------------------
\* The variables of the container in use have their types.
TypeOK == /\ kind = "Deque" => D!TypeOK
          /\ kind \in L!Kinds => L!TypeOK
          /\ kind = "PriorityQueue" => Q!TypeOK
          /\ kind \in H!Kinds => H!TypeOK
          /\ kind = "RBMap" => T!TypeOK
          /\ kind \in C!Kinds => C!TypeOK
          /\ kind \in S!Kinds => S!TypeOK

\* SimpleDeque holds a sequence, whatever happens at its two ends (deque.cpp), and
\* so do List and ForwardList, well linked (list.cpp, forward_list.cpp).
HoldsSequence == /\ kind = "Deque" => D!IsDeque
                 /\ kind \in L!Kinds => L!IsSequence

\* SimplePriorityQueue serves a largest value first (priority_queue.cpp).
HeapServesLargest == kind = "PriorityQueue" => Q!ServesLargest

\* The three hash tables hold a map, before and after they grow (hashmap.cpp,
\* unordered_map.cpp, unordered_set.cpp).
TableIsMap == kind \in H!Kinds => H!IsMap

\* RBMap holds a map and stays balanced (map.cpp).
TreeIsMap == kind = "RBMap" => T!IsMap /\ T!IsBalanced

\* Both LRU caches keep the keys used last (LRU.cpp, LRU2.cpp).
CacheKeepsLatest == kind \in C!Kinds => C!KeepsLatest

\* Strings own the buffers they read, and only a sum of SimpleString leaves one
\* behind (string.cpp, string.hpp).
StringsOwnBuffers == kind \in S!Kinds => S!OwnBuffers
=============================================================================
