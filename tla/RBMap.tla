-------------------------------- MODULE RBMap --------------------------------
(***************************************************************************)
(* data-structures-algorithms/hashmap/map.cpp: RBMap, a red-black tree     *)
(* with parent pointers. A key has at most one node, which lives as long   *)
(* as the tree, so the node is named by its key. rotateLeft and            *)
(* rotateRight, and the two halves of fixInsert, are mirror images: one    *)
(* definition with the side as a parameter stands for both.                *)
(***************************************************************************)
EXTENDS Integers, FiniteSets, Functions

CONSTANTS Keys,        \* numbers from 1
          Values

Null == 0              \* nullptr
Default == 0           \* V()
Sides == {"left", "right"}
Other(s) == IF s = "left" THEN "right" ELSE "left"

VARIABLES tree,        \* root, and for each key: child on each side, parent, color, value
          size,
          content      \* what a map holds: a function from its keys

vars == <<tree, size, content>>

Trees == [root : Keys \cup {Null}, child : [Sides -> [Keys -> Keys \cup {Null}]],
          parent : [Keys -> Keys \cup {Null}], color : [Keys -> {"RED", "BLACK"}],
          value : [Keys -> Values \cup {Default}]]

\* The fields of a key that has no node are those of Node(k, V()).
Init ==
    /\ tree = [root |-> Null, child |-> [s \in Sides |-> [k \in Keys |-> Null]],
               parent |-> [k \in Keys |-> Null], color |-> [k \in Keys |-> "RED"],
               value |-> [k \in Keys |-> Default]]
    /\ size = 0
    /\ content = <<>>

-----------------------------------------------------------------------------
\* if (n) n->parent = p
Adopted(t, n, p) == IF n = Null THEN t ELSE [t EXCEPT !.parent[n] = p]

\* The place of x, at the root or under its parent, is given to y.
Replaced(t, x, y) ==
    LET p == t.parent[x]
    IN  IF p = Null THEN [t EXCEPT !.root = y, !.parent[y] = p]
        ELSE IF t.child["left"][p] = x
        THEN [t EXCEPT !.child["left"][p] = y, !.parent[y] = p]
        ELSE [t EXCEPT !.child["right"][p] = y, !.parent[y] = p]

LeavesOrphan(t, s, x) ==
    LET y == t.child[Other(s)][x]
        u == Replaced([t EXCEPT !.child[Other(s)][x] = t.child[s][y]], x, y)
    IN  [u EXCEPT !.child[s][y] = x, !.parent[x] = y]

\* rotateLeft (s = "left"), rotateRight: x goes down to side s of the child that
\* takes its place and adopts the subtree between the two.
Rotated(t, s, x) ==
    LET y == t.child[Other(s)][x]
        u == Adopted([t EXCEPT !.child[Other(s)][x] = t.child[s][y]], t.child[s][y], x)
        w == Replaced(u, x, y)
    IN  [w EXCEPT !.child[s][y] = x, !.parent[x] = y]

-----------------------------------------------------------------------------
\* z->parent && z->parent->color == RED
RedParent(t, z) == t.parent[z] # Null /\ t.color[t.parent[z]] = "RED"

\* gp; the side of z->parent under gp; the node on the other side.
Grandparent(t, z) == t.parent[t.parent[z]]
ParentSide(t, z) == IF t.child["left"][Grandparent(t, z)] = t.parent[z] THEN "left" ELSE "right"
Uncle(t, z) == t.child[Other(ParentSide(t, z))][Grandparent(t, z)]
RedUncle(t, z) == Uncle(t, z) # Null /\ t.color[Uncle(t, z)] = "RED"

\* Uncle red: parent and uncle turn black, the grandparent red.
Recolored(t, z) ==
    [t EXCEPT !.color[t.parent[z]] = "BLACK", !.color[Uncle(t, z)] = "BLACK",
              !.color[Grandparent(t, z)] = "RED"]

\* A node on the inner side of its parent changes places with it first.
Straightened(t, s, z, p) ==
    IF t.child[Other(s)][p] = z THEN [t |-> Rotated(t, s, p), p |-> z]
    ELSE [t |-> t, p |-> p]

\* Uncle black or none: the parent turns black and takes the place of the grandparent.
Lifted(t, z) ==
    LET gp == Grandparent(t, z)
        s  == ParentSide(t, z)
        e  == Straightened(t, s, z, t.parent[z])
    IN  Rotated([e.t EXCEPT !.color[e.p] = "BLACK", !.color[gp] = "RED"], Other(s), gp)

RootBlack(t) == [t EXCEPT !.color[t.root] = "BLACK"]

\* fixInsert reads the grandparent of z when the parent is red, and does not ask whether there
\* is one: no node with a child is red and without a parent, but z.
Unfixed == {q \in Trees \X Keys : \A n \in Keys :
               LET m == q[1].parent[n]
               IN  m \notin {Null, q[2]} /\ q[1].color[m] = "RED" => q[1].parent[m] # Null}

\* fixInsert of the tree q[1] at z = q[2]. After the parent is lifted it is black and the loop
\* ends.
FixInsert[q \in Unfixed] ==
    LET t == q[1]
        z == q[2]
    IN  IF ~RedParent(t, z) THEN RootBlack(t)
        ELSE IF RedUncle(t, z) THEN FixInsert[<<Recolored(t, z), Grandparent(t, z)>>]
        ELSE RootBlack(Lifted(t, z))

-----------------------------------------------------------------------------
Toward(k, n) == tree.child[IF k < n THEN "left" ELSE "right"][n]

\* The search of insertNode and findNode for the key q[1] from node q[2]: the node of the key,
\* or the last node on the way.
Descend[q \in Keys \X Keys] ==
    LET next == Toward(q[1], q[2])
    IN  IF q[2] = q[1] \/ next = Null THEN q[2] ELSE Descend[<<q[1], next>>]

Found(k) == tree.root # Null /\ Descend[<<k, tree.root>>] = k

\* A new node for the key, red, where the search has ended.
Attached(k, v) ==
    LET y == Descend[<<k, tree.root>>]
        t == [tree EXCEPT !.value[k] = v]
    IN  IF tree.root = Null THEN [t EXCEPT !.root = k]
        ELSE [t EXCEPT !.parent[k] = y, !.child[IF k < y THEN "left" ELSE "right"][y] = k]

Inserted(k, v) ==
    /\ tree' = FixInsert[<<Attached(k, v), k>>]
    /\ size' = size + 1

Updated(k, v) == tree' = [tree EXCEPT !.value[k] = v] /\ UNCHANGED size

Remember(k, v) == content' = [x \in DOMAIN content \cup {k} |-> IF x = k THEN v ELSE content[x]]

\* insert(k, v), and m[k] = v, which inserts V() first: the tree is the same.
Insert(k, v) == /\ IF Found(k) THEN Updated(k, v) ELSE Inserted(k, v)
                /\ Remember(k, v)

\* operator[] of a key that is not there inserts V().
Index(k) == /\ ~Found(k) /\ Inserted(k, Default)
            /\ Remember(k, Default)

Next == \E k \in Keys : Index(k) \/ \E v \in Values : Insert(k, v)
Spec == Init /\ [][Next]_vars

-----------------------------------------------------------------------------
TypeOK == tree \in Trees /\ size \in 0 .. Cardinality(Keys)

\* The nodes of X and their children.
Widened(X) == X \cup ({tree.child[s][n] : s \in Sides, n \in X} \ {Null})

\* The nodes of X and those below them.
Below[X \in SUBSET Keys] == IF Widened(X) = X THEN X ELSE Below[Widened(X)]
Subtree(n) == Below[{n} \ {Null}]

\* The black nodes on the leftmost way down from q[1], and q[2].
BlackHeight[q \in (Keys \cup {Null}) \X Nat] ==
    IF q[1] = Null THEN q[2]
    ELSE BlackHeight[<<tree.child["left"][q[1]],
                       q[2] + (IF tree.color[q[1]] = "BLACK" THEN 1 ELSE 0)>>]

Nodes == Subtree(tree.root)

\* Whatever the order of the insertions and the rotations they cause, the tree
\* holds the keys inserted, each with its last value, child and parent pointers
\* agree, the search order holds at each node, so that find reaches every key, and
\* the size counts them: map.cpp:23 to :126.
IsMap ==
    /\ Nodes = DOMAIN content /\ size = Cardinality(Nodes)
    /\ \A n \in Nodes :
          /\ tree.value[n] = content[n]
          /\ n = tree.root <=> tree.parent[n] = Null
          /\ \A s \in Sides : tree.child[s][n] # Null => tree.parent[tree.child[s][n]] = n
          /\ \A m \in Subtree(tree.child["left"][n]) : m < n
          /\ \A m \in Subtree(tree.child["right"][n]) : m > n

\* The recolouring and the rotations keep the tree balanced: the root is black, no
\* red node has a red child, and every way down has as many black nodes, so no
\* search is longer than twice the shortest: map.cpp:57 to :95.
IsBalanced ==
    /\ tree.root # Null => tree.color[tree.root] = "BLACK"
    /\ \A n \in Nodes :
          /\ \A s \in Sides : LET m == tree.child[s][n]
                             IN  m # Null /\ tree.color[n] = "RED" => tree.color[m] = "BLACK"
          /\ BlackHeight[<<tree.child["left"][n], 0>>] = BlackHeight[<<tree.child["right"][n], 0>>]
=============================================================================
