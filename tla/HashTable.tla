------------------------------ MODULE HashTable ------------------------------
(***************************************************************************)
(* The three hash tables of data-structures-algorithms/hashmap:            *)
(* HashTable (hashmap.cpp) has a fixed number of buckets, UnorderedMap and *)
(* UnorderedSet (unordered_map.cpp, unordered_set.cpp) double it when the  *)
(* next element would bring the load above 3/4. A node is <<key, value>>;  *)
(* the elements of UnorderedSet are keys with the value Default. Keys are  *)
(* numbers, whose std::hash is the number.                                 *)
(***************************************************************************)
EXTENDS Integers, FiniteSets, Sequences, SequencesExt, Functions

CONSTANTS Keys, Values,
          InitialBuckets    \* 10 in HashTable, 8 in the others

Default == 0                \* V()

VARIABLES kind, buckets, size,
          content           \* what a map holds: a function from its keys

vars == <<kind, buckets, size, content>>

Empty(n) == [i \in 1 .. n |-> <<>>]

Kinds == {"HashTable", "UnorderedMap", "UnorderedSet"}
New == buckets = Empty(InitialBuckets) /\ size = 0 /\ content = <<>>
Init == kind \in Kinds /\ New

Hash(k, n) == (k % n) + 1

\* for (node : table[idx]) if (node.first == key): the places of the key in its bucket.
Places(k) == LET bucket == buckets[Hash(k, Len(buckets))]
             IN  {i \in DOMAIN bucket : bucket[i][1] = k}
Found(k) == Places(k) # {}

-----------------------------------------------------------------------------
Node == Keys \X (Values \cup {Default})
Tables == Seq(Seq(Node))

\* buckets[getBucketIndex(key)].push_back(node)
Pushed(b, n) == [b EXCEPT ![Hash(n[1], Len(b))] = Append(@, n)]

KeepsBuckets(b) == b \o Empty(Len(b))

\* rehash() pushes the nodes of one bucket after the other into the new table, q[2]: those
\* left of a bucket and those of the buckets left.
Emptied[q \in Seq(Node) \X Tables] ==
    IF q[1] = <<>> THEN q[2] ELSE Emptied[<<Tail(q[1]), Pushed(q[2], Head(q[1]))>>]
Distributed[q \in Tables \X Tables] ==
    IF q[1] = <<>> THEN q[2] ELSE Distributed[<<Tail(q[1]), Emptied[<<Head(q[1]), q[2]>>]>>]

\* The new table has twice as many buckets.
Rehashed(b) == Distributed[<<b, Empty(2 * Len(b))>>]

\* (size + 1) / buckets > 0.75
Grown(b) == IF kind # "HashTable" /\ 4 * (size + 1) > 3 * Len(b)
            THEN Rehashed(b) ELSE b

Added(k, v) ==
    /\ buckets' = Pushed(Grown(buckets), <<k, v>>)
    /\ size' = size + 1
    /\ content' = [x \in DOMAIN content \cup {k} |-> IF x = k THEN v ELSE content[x]]

\* insert of a key that is there returns false; that of HashTable assigns the new
\* value to a copy of the node. Either way the table keeps the first value.
Insert(k, v) ==
    /\ kind = "UnorderedSet" => v = Default
    /\ kind # "UnorderedSet" => v # Default
    /\ IF Found(k) THEN UNCHANGED <<buckets, size, content>> ELSE Added(k, v)
    /\ UNCHANGED kind

\* operator[] inserts V() for a key that is not there.
Index(k) ==
    /\ kind = "UnorderedMap"
    /\ IF Found(k) THEN UNCHANGED <<buckets, size, content>> ELSE Added(k, Default)
    /\ UNCHANGED kind

\* map[k] = v, through the reference operator[] returns for a key that is there.
Assign(k, v) ==
    /\ kind = "UnorderedMap" /\ Found(k) /\ v # Default
    /\ buckets' = [buckets EXCEPT ![Hash(k, Len(buckets))] =
                      [i \in DOMAIN @ |-> IF i \in Places(k) THEN <<k, v>> ELSE @[i]]]
    /\ content' = [content EXCEPT ![k] = v]
    /\ UNCHANGED <<kind, size>>

\* erase of a key that is not there returns false.
Erase(k) ==
    /\ Found(k)
    /\ buckets' = [buckets EXCEPT ![Hash(k, Len(buckets))] =
                      RemoveAt(@, CHOOSE i \in Places(k) : \A j \in Places(k) : i <= j)]
    /\ size' = size - 1
    /\ content' = [x \in DOMAIN content \ {k} |-> content[x]]
    /\ UNCHANGED kind

Next == \E k \in Keys :
           \/ \E v \in Values \cup {Default} : Insert(k, v) \/ Assign(k, v)
           \/ Index(k) \/ Erase(k)
Spec == Init /\ [][Next]_vars

-----------------------------------------------------------------------------
Slots == UNION {{i} \X DOMAIN buckets[i] : i \in DOMAIN buckets}
Nodes == {buckets[p[1]][p[2]] : p \in Slots}

TypeOK == /\ Nodes \subseteq Node
          /\ size \in 0 .. Cardinality(Keys)

\* After any inserts, erasures and rehashes find reaches every key that was
\* inserted and not erased, and no other, with its value, and the size counts
\* them: hashmap.cpp:45, unordered_map.cpp:64, unordered_set.cpp:49.
IsMap ==
    /\ \A k \in Keys : Found(k) <=> k \in DOMAIN content
    /\ Nodes = {<<k, content[k]>> : k \in DOMAIN content}
    /\ Cardinality(Slots) = Cardinality(DOMAIN content)
    /\ size = Cardinality(DOMAIN content)
=============================================================================
