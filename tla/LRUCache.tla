------------------------------- MODULE LRUCache -------------------------------
(***************************************************************************)
(* The two LRU caches of data-structures-algorithms: LRU.cpp, whose put of *)
(* a cached key changes its value, and LRU2.cpp, whose push does not. Both *)
(* keep a list of nodes, most recently used first, and an index from keys  *)
(* to the nodes (list iterators, which splice leaves valid). A node that   *)
(* is freed can be allocated again.                                        *)
(***************************************************************************)
EXTENDS Integers, FiniteSets, Sequences, SequencesExt

CONSTANTS Keys, Values,
          Nodes,             \* places for list nodes
          Capacities,        \* of LRUCache in LRU.cpp, whose user chooses it
          FixedCapacity      \* of the cache of main in LRU2.cpp, 5 there: not 0

VARIABLES kind, capacity,
          cache,             \* the list: a sequence of nodes
          pair,              \* key and value of each node of the list
          index,             \* map, mp: from keys to nodes
          undefined,         \* back() of an empty list was read
          uses,              \* the keys put or found, the last first
          latest             \* the value stored last for each key

vars == <<kind, capacity, cache, pair, index, undefined, uses, latest>>

Kinds == {"LRU", "LRU2"}
New == /\ capacity \in IF kind = "LRU" THEN Capacities ELSE {FixedCapacity}
       /\ cache = <<>> /\ pair = <<>> /\ index = <<>>
       /\ undefined = FALSE /\ uses = <<>> /\ latest = <<>>
Init == kind \in Kinds /\ New

Update(f, x, v) == [y \in DOMAIN f \cup {x} |-> IF y = x THEN v ELSE f[y]]
Without(f, x) == [y \in DOMAIN f \ {x} |-> f[y]]
ToFront(s, x) == <<x>> \o RemoveFirst(s, x)

-----------------------------------------------------------------------------
\* A cached key: splice moves its node to the front of the list.
Touch(k) == /\ cache' = ToFront(cache, index[k])
            /\ uses' = ToFront(uses, k)
            /\ UNCHANGED <<kind, capacity, index, undefined>>

\* get() of a key that is not cached changes nothing.
Get(k) == /\ ~undefined /\ k \in DOMAIN index
          /\ Touch(k) /\ UNCHANGED <<pair, latest>>

\* put, push of a cached key; LRU2 keeps the value.
PutCached(k, v) ==
    /\ ~undefined /\ k \in DOMAIN index
    /\ Touch(k)
    /\ IF kind = "LRU"
       THEN /\ pair' = Update(pair, index[k], <<k, v>>)
            /\ latest' = Update(latest, k, v)
       ELSE UNCHANGED <<pair, latest>>

OneTooMany == Len(cache) > capacity

Full == IF kind = "LRU" THEN Len(cache) >= capacity ELSE Len(cache) = capacity

KeepsIndex(i, k) == i

\* map.erase(toRemove.first)
Erased(i, k) == Without(i, k)

\* put, push of another key: the node at the back makes room for it if there is none.
PutNew(k, v) ==
    /\ ~undefined /\ k \notin DOMAIN index
    /\ Full => cache # <<>>
    /\ LET old  == Last(cache)
           kept == IF Full THEN Front(cache) ELSE cache
       IN  \E n \in Nodes \ ToSet(kept) :
              /\ cache' = <<n>> \o kept
              /\ pair' = Update(IF Full THEN Without(pair, old) ELSE pair, n, <<k, v>>)
              /\ index' = Update(IF Full THEN Erased(index, pair[old][1]) ELSE index, k, n)
    /\ uses' = ToFront(uses, k)
    /\ latest' = Update(latest, k, v)
    /\ UNCHANGED <<kind, capacity, undefined>>

\* With capacity 0 there is no node at the back: undefined behaviour.
PutNowhere(k) ==
    /\ ~undefined /\ k \notin DOMAIN index /\ Full /\ cache = <<>>
    /\ undefined' = TRUE
    /\ UNCHANGED <<kind, capacity, cache, pair, index, uses, latest>>

Next == \E k \in Keys : \/ Get(k) \/ PutNowhere(k)
                        \/ \E v \in Values : PutCached(k, v) \/ PutNew(k, v)
Spec == Init /\ [][Next]_vars

-----------------------------------------------------------------------------
TypeOK == /\ cache \in Seq(Nodes) /\ Len(cache) <= capacity
          /\ DOMAIN pair = ToSet(cache)
          /\ \A n \in DOMAIN pair : pair[n] \in Keys \X Values
          /\ DOMAIN index \subseteq Keys /\ \A k \in DOMAIN index : index[k] \in Nodes

\* The list holds, in order, the keys used last, as many as the capacity allows;
\* the index leads from each of them, and from no other, to its node, and the value
\* there is the one stored last: LRU.cpp:33 to :65, LRU2.cpp:18 to :47. Only a
\* capacity of 0 makes the cache read the back of an empty list (LRU.cpp:56).
KeepsLatest ==
    /\ undefined => capacity = 0
    /\ Len(cache) = IF Len(uses) < capacity THEN Len(uses) ELSE capacity
    /\ DOMAIN index = {uses[i] : i \in DOMAIN cache}
    /\ \A i \in DOMAIN cache :
          /\ index[uses[i]] = cache[i]
          /\ pair[cache[i]] = <<uses[i], latest[uses[i]]>>
=============================================================================
