------------------------------ MODULE TreeProofs ----------------------------
(***************************************************************************)
(* The red-black tree of ContainersMC, for all values of the constants. N  *)
(* are the nodes of a tree, u[n] those at and below n, and b[n] the black  *)
(* nodes on every way down from n.                                         *)
(***************************************************************************)
EXTENDS ContainerProofs

\* What a pointer to a node can be.
NullKeys == TreeKeys \cup {T!Null}

\* The fields of a tree.
LEMMA Fields ==
    ASSUME NEW t \in T!Trees
    PROVE  /\ t.root \in NullKeys /\ t.child \in [T!Sides -> [TreeKeys -> NullKeys]]
           /\ t.parent \in [TreeKeys -> NullKeys] /\ t.color \in [TreeKeys -> {"RED", "BLACK"}]
           /\ t.value \in [TreeKeys -> TreeValues \cup {T!Default}]
           /\ t = [root |-> t.root, child |-> t.child, parent |-> t.parent, color |-> t.color,
                   value |-> t.value]
BY DEF T!Trees, NullKeys

\* t and u differ in the fields named only.
SameButChild(u, t) == u.root = t.root /\ u.parent = t.parent /\ u.color = t.color /\ u.value = t.value
SameButParent(u, t) == u.root = t.root /\ u.child = t.child /\ u.color = t.color /\ u.value = t.value
SameLinks(u, t) == u.root = t.root /\ u.child = t.child /\ u.parent = t.parent

\* A child pointer written.
LEMMA ChildSet ==
    ASSUME NEW t \in T!Trees, NEW s \in T!Sides, NEW n \in TreeKeys, NEW m \in NullKeys
    PROVE  LET u == [t EXCEPT !.child[s][n] = m]
           IN  /\ u \in T!Trees /\ SameButChild(u, t)
               /\ \A r \in T!Sides : \A x \in TreeKeys :
                     u.child[r][x] = IF r = s /\ x = n THEN m ELSE t.child[r][x]
<1> DEFINE ch == [t.child EXCEPT ![s][n] = m]
           u == [t EXCEPT !.child[s][n] = m]
<1>1. u = [root |-> t.root, child |-> ch, parent |-> t.parent, color |-> t.color, value |-> t.value]
  <2>1. u = [t EXCEPT !.child = ch]
    OBVIOUS
  <2> HIDE DEF u, ch
  <2> QED BY <2>1, Fields
<1>2. /\ ch \in [T!Sides -> [TreeKeys -> NullKeys]]
      /\ \A r \in T!Sides : \A x \in TreeKeys :
            ch[r][x] = IF r = s /\ x = n THEN m ELSE t.child[r][x]
  <2>1. t.child \in [T!Sides -> [TreeKeys -> NullKeys]]
    BY Fields
  <2>2. [t.child[s] EXCEPT ![n] = m] \in [TreeKeys -> NullKeys]
    BY <2>1
  <2>3. ch = [r \in T!Sides |-> IF r = s THEN [t.child[s] EXCEPT ![n] = m] ELSE t.child[r]]
    BY <2>1
  <2> HIDE DEF ch
  <2> QED BY <2>1, <2>2, <2>3
<1> HIDE DEF ch
<1>3. u \in T!Trees
  BY <1>1, <1>2, Fields DEF T!Trees, NullKeys
<1> HIDE DEF u
<1>4. u.child = ch /\ SameButChild(u, t)
  BY <1>1 DEF SameButChild
<1>5. /\ u \in T!Trees /\ SameButChild(u, t)
      /\ \A r \in T!Sides : \A x \in TreeKeys :
            u.child[r][x] = IF r = s /\ x = n THEN m ELSE t.child[r][x]
  BY <1>2, <1>3, <1>4
<1> QED BY <1>5 DEF u

\* A parent pointer written.
LEMMA ParentSet ==
    ASSUME NEW t \in T!Trees, NEW n \in TreeKeys, NEW m \in NullKeys
    PROVE  LET u == [t EXCEPT !.parent[n] = m]
           IN  /\ u \in T!Trees /\ SameButParent(u, t)
               /\ \A x \in TreeKeys : u.parent[x] = IF x = n THEN m ELSE t.parent[x]
<1> DEFINE u == [t EXCEPT !.parent[n] = m]
           pa == [t.parent EXCEPT ![n] = m]
<1>1. u = [root |-> t.root, child |-> t.child, parent |-> pa, color |-> t.color, value |-> t.value]
  BY Fields
<1>2. pa \in [TreeKeys -> NullKeys] /\ \A x \in TreeKeys : pa[x] = IF x = n THEN m ELSE t.parent[x]
  BY Fields
<1> HIDE DEF pa
<1>3. u \in T!Trees
  BY <1>1, <1>2, Fields DEF T!Trees, NullKeys
<1> HIDE DEF u
<1>4. u.parent = pa /\ SameButParent(u, t)
  BY <1>1 DEF SameButParent
<1>5. /\ u \in T!Trees /\ SameButParent(u, t)
      /\ \A x \in TreeKeys : u.parent[x] = IF x = n THEN m ELSE t.parent[x]
  BY <1>2, <1>3, <1>4
<1> QED BY <1>5 DEF u

\* The root set.
LEMMA RootSet ==
    ASSUME NEW t \in T!Trees, NEW m \in NullKeys
    PROVE  LET u == [t EXCEPT !.root = m]
           IN  /\ u \in T!Trees /\ u.root = m /\ u.child = t.child /\ u.parent = t.parent
               /\ u.color = t.color /\ u.value = t.value
<1> DEFINE u == [t EXCEPT !.root = m]
<1>1. u = [root |-> m, child |-> t.child, parent |-> t.parent, color |-> t.color, value |-> t.value]
  BY Fields
<1> QED BY <1>1, Fields DEF T!Trees, NullKeys

\* The value of a key set.
LEMMA ValueSet ==
    ASSUME NEW t \in T!Trees, NEW k \in TreeKeys, NEW v \in TreeValues \cup {T!Default}
    PROVE  LET u == [t EXCEPT !.value[k] = v]
           IN  /\ u \in T!Trees /\ SameLinks(u, t) /\ u.color = t.color
               /\ \A m \in TreeKeys : u.value[m] = IF m = k THEN v ELSE t.value[m]
<1> DEFINE u == [t EXCEPT !.value[k] = v]
           va == [t.value EXCEPT ![k] = v]
<1>1. u = [root |-> t.root, child |-> t.child, parent |-> t.parent, color |-> t.color, value |-> va]
  BY Fields
<1>2. /\ va \in [TreeKeys -> TreeValues \cup {T!Default}]
      /\ \A m \in TreeKeys : va[m] = IF m = k THEN v ELSE t.value[m]
  BY Fields
<1> HIDE DEF va
<1>3. u \in T!Trees
  BY <1>1, <1>2, Fields DEF T!Trees, NullKeys
<1> HIDE DEF u
<1>4. u.value = va /\ SameLinks(u, t) /\ u.color = t.color
  BY <1>1 DEF SameLinks
<1>5. /\ u \in T!Trees /\ SameLinks(u, t) /\ u.color = t.color
      /\ \A m \in TreeKeys : u.value[m] = IF m = k THEN v ELSE t.value[m]
  BY <1>2, <1>3, <1>4
<1> QED BY <1>5 DEF u

-----------------------------------------------------------------------------
\* m is on side s of n in the order of the keys.
Before(s, m, n) == IF s = "left" THEN m < n ELSE n < m

\* The two sides.
LEMMA SidesAre ==
    ASSUME NEW s \in T!Sides
    PROVE  /\ T!Other(s) \in T!Sides /\ T!Other(s) # s /\ T!Other(T!Other(s)) = s
           /\ \A r \in T!Sides : r = s \/ r = T!Other(s)
           /\ "left" \in T!Sides /\ "right" \in T!Sides
BY DEF T!Sides, T!Other

\* The order of the keys, seen from a side.
LEMMA OrderIs ==
    ASSUME NEW s \in T!Sides
    PROVE  /\ \A m \in TreeKeys : ~Before(s, m, m)
           /\ \A m, n \in TreeKeys : Before(T!Other(s), m, n) <=> Before(s, n, m)
           /\ \A m, n \in TreeKeys : m # n => Before(s, m, n) \/ Before(s, n, m)
           /\ \A l, m, n \in TreeKeys : Before(s, l, m) /\ Before(s, m, n) => Before(s, l, n)
<1>1. TreeKeys \subseteq Int
  BY TreeAssumption
<1> QED BY <1>1 DEF T!Sides, T!Other, Before

\* No key is the null pointer.
LEMMA NoNullKey == T!Null \notin TreeKeys
BY TreeAssumption DEF T!Null

\* N are the nodes of tree t, and u[n] those at and below n: the pointers to children and
\* parents agree, and the search order holds.
Under(t, N, u) ==
    /\ u \in [N \cup {T!Null} -> SUBSET N] /\ u[T!Null] = {}
    /\ \A n \in N : \A s \in T!Sides :
          u[n] = {n} \cup u[t.child[s][n]] \cup u[t.child[T!Other(s)][n]]
\* What is below a node is on its side of it.
Ordered(t, N, u) ==
    \A n \in N : \A s \in T!Sides : \A m \in u[t.child[s][n]] : Before(s, m, n)
\* A child has its parent as parent, and a parent its child as child.
Links(t, N) ==
    \A n \in N :
       /\ \A s \in T!Sides : /\ t.child[s][n] \in N \cup {T!Null}
                             /\ t.child[s][n] # T!Null => t.parent[t.child[s][n]] = n
       /\ t.parent[n] = T!Null => n = t.root
       /\ t.parent[n] # T!Null => t.parent[n] \in N /\ \E s \in T!Sides : t.child[s][t.parent[n]] = n
\* All nodes are at or below the root.
Rooted(t, N, u) ==
    /\ t.root \in N \cup {T!Null} /\ u[t.root] = N
    /\ t.root # T!Null => t.parent[t.root] = T!Null
\* A search tree.
Shape(t, N, u) ==
    /\ t \in T!Trees /\ N \subseteq TreeKeys /\ IsFiniteSet(N)
    /\ Under(t, N, u) /\ Ordered(t, N, u) /\ Links(t, N) /\ Rooted(t, N, u)

\* The children of a node.
LEMMA ChildOf ==
    ASSUME NEW t, NEW N, NEW u, Shape(t, N, u), NEW n \in N, NEW s \in T!Sides
    PROVE  /\ t.child[s][n] \in N \cup {T!Null}
           /\ t.child[s][n] # T!Null => t.parent[t.child[s][n]] = n
           /\ u[n] = {n} \cup u[t.child[s][n]] \cup u[t.child[T!Other(s)][n]]
<1>1. Links(t, N) /\ Under(t, N, u)
  BY DEF Shape
<1>2. t.child[s][n] \in N \cup {T!Null} /\ (t.child[s][n] # T!Null => t.parent[t.child[s][n]] = n)
  BY <1>1 DEF Links
<1>3. u[n] = {n} \cup u[t.child[s][n]] \cup u[t.child[T!Other(s)][n]]
  BY <1>1 DEF Under
<1> QED BY <1>2, <1>3

\* A node is under itself, and not under its children, which differ.
LEMMA AtNode ==
    ASSUME NEW t, NEW N, NEW u, Shape(t, N, u), NEW n \in N, NEW s \in T!Sides
    PROVE  /\ n \in u[n] /\ n \notin u[t.child[s][n]] /\ t.child[s][n] # n
           /\ u[t.child[s][n]] \subseteq u[n] /\ u[t.child[s][n]] \subseteq N
           /\ t.child[s][n] # T!Null =>
                 /\ t.child[s][n] \in N /\ t.child[s][n] \in u[n]
                 /\ t.child[s][n] \in u[t.child[s][n]] /\ Before(s, t.child[s][n], n)
           /\ \A m \in u[t.child[s][n]] : m \notin u[t.child[T!Other(s)][n]]
<1>1. /\ u[n] = {n} \cup u[t.child[s][n]] \cup u[t.child[T!Other(s)][n]]
      /\ \A m \in u[t.child[s][n]] : Before(s, m, n)
      /\ \A m \in u[t.child[T!Other(s)][n]] : Before(T!Other(s), m, n)
      /\ t.child[s][n] \in N \cup {T!Null} /\ u \in [N \cup {T!Null} -> SUBSET N]
      /\ n \in TreeKeys /\ N \subseteq TreeKeys
  BY SidesAre DEF Shape, Under, Ordered, Links
<1>2. u[t.child[s][n]] \subseteq N
  BY <1>1
<1>3. n \notin u[t.child[s][n]]
  BY <1>1, OrderIs
<1>4. ASSUME NEW m \in N PROVE m \in u[m]
  BY <1>4, SidesAre DEF Shape, Under
<1>5. ASSUME NEW m \in u[t.child[s][n]], m \in u[t.child[T!Other(s)][n]] PROVE FALSE
  <2>1. m \in TreeKeys /\ Before(s, m, n) /\ Before(T!Other(s), m, n)
    BY <1>1, <1>2, <1>5
  <2>2. Before(s, m, m)
    BY <1>1, <2>1, OrderIs
  <2> QED BY <2>1, <2>2, OrderIs
<1>6. t.child[s][n] # T!Null =>
         /\ t.child[s][n] \in N /\ t.child[s][n] \in u[n]
         /\ t.child[s][n] \in u[t.child[s][n]] /\ Before(s, t.child[s][n], n)
  BY <1>1, <1>4
<1>7. t.child[s][n] # n
  BY <1>3, <1>4
<1> QED BY <1>1, <1>2, <1>3, <1>4, <1>5, <1>6, <1>7

\* What holds at a node when it holds at its children holds at every node.
LEMMA TreeInduction ==
    ASSUME NEW t, NEW N, NEW u, Shape(t, N, u), NEW G,
           \A n \in N : (\A s \in T!Sides : t.child[s][n] # T!Null => t.child[s][n] \in G) => n \in G
    PROVE  N \subseteq G
<1> DEFINE Bad == {Cardinality(u[n]) : n \in N \ G}
<1>1. \A n \in N : IsFiniteSet(u[n]) /\ Cardinality(u[n]) \in Nat
  <2>1. \A n \in N : u[n] \in SUBSET N /\ IsFiniteSet(N)
    BY DEF Shape, Under
  <2> QED BY <2>1, FS_Subset, FS_CardinalityType
<1>2. SUFFICES ASSUME Bad # {} PROVE FALSE
  OBVIOUS
<1>3. PICK k \in Bad : \A j \in Bad : k <= j
  <2>1. Bad \in SUBSET Nat
    BY <1>1
  <2> HIDE DEF Bad
  <2> QED BY <1>2, <2>1, LeastOf
<1>4. PICK n \in N \ G : k = Cardinality(u[n])
  OBVIOUS
<1>5. PICK s \in T!Sides : t.child[s][n] # T!Null /\ t.child[s][n] \notin G
  BY <1>4
<1> DEFINE m == t.child[s][n]
<1>6. m \in N \ G /\ u[m] \subseteq u[n] /\ n \in u[n] /\ n \notin u[m]
  BY <1>5, AtNode
<1>7. Cardinality(u[m]) < Cardinality(u[n])
  <2>1. u[m] \subseteq u[n] /\ u[m] # u[n]
    BY <1>6
  <2> HIDE DEF m
  <2>2. Cardinality(u[m]) <= Cardinality(u[n])
    BY <1>1, <1>4, <2>1, FS_Subset
  <2>3. Cardinality(u[m]) # Cardinality(u[n])
    BY <1>1, <1>4, <2>1, FS_Subset
  <2> QED BY <1>1, <1>4, <1>6, <2>2, <2>3
<1>8. Cardinality(u[m]) \in Bad
  BY <1>6
<1>9. Cardinality(u[m]) \in Nat /\ Cardinality(u[n]) \in Nat
  BY <1>1, <1>4, <1>6
<1> HIDE DEF Bad, m
<1> QED BY <1>3, <1>4, <1>7, <1>8, <1>9

\* What is under a node that is under n is under n, and its parent too if it is not n.
LEMMA UnderIs ==
    ASSUME NEW t, NEW N, NEW u, Shape(t, N, u), NEW n \in N, NEW m \in u[n]
    PROVE  m \in N /\ u[m] \subseteq u[n] /\ (m # n => t.parent[m] \in u[n] /\ t.parent[m] \in N)
<1> DEFINE G == {x \in N : \A y \in u[x] :
                    y \in N /\ u[y] \subseteq u[x] /\ (y # x => t.parent[y] \in u[x])}
<1>1. ASSUME NEW x \in N, \A s \in T!Sides : t.child[s][x] # T!Null => t.child[s][x] \in G
      PROVE  x \in G
  <2>1. ASSUME NEW y \in u[x]
        PROVE  y \in N /\ u[y] \subseteq u[x] /\ (y # x => t.parent[y] \in u[x])
    <3>1. y \in N
      BY DEF Shape, Under
    <3>2. CASE y = x
      BY <3>1, <3>2
    <3>3. CASE y # x
      <4>1. PICK s \in T!Sides : y \in u[t.child[s][x]]
        <5>1. "left" \in T!Sides /\ T!Other("left") \in T!Sides
          BY SidesAre DEF T!Sides
        <5>2. u[x] = {x} \cup u[t.child["left"][x]] \cup u[t.child[T!Other("left")][x]]
          BY <5>1, ChildOf
        <5>3. y \in u[t.child["left"][x]] \/ y \in u[t.child[T!Other("left")][x]]
          BY <3>3, <5>2
        <5> QED BY <5>1, <5>3
      <4> DEFINE z == t.child[s][x]
      <4>2. z # T!Null
        BY <4>1 DEF Shape, Under
      <4>3. z \in G /\ t.parent[z] = x /\ u[z] \subseteq u[x] /\ x \in u[x]
        <5>1. z \in G
          BY <1>1, <4>2
        <5>2. t.parent[z] = x
          BY <4>2, ChildOf
        <5> QED BY <5>1, <5>2, AtNode
      <4>4. u[y] \subseteq u[z] /\ (y # z => t.parent[y] \in u[z])
        BY <4>1, <4>3
      <4> HIDE DEF z
      <4> QED BY <3>1, <3>3, <4>3, <4>4
    <3> QED BY <3>2, <3>3
  <2> QED BY <2>1
<1>2. N \subseteq G
  <2> HIDE DEF G
  <2> QED BY <1>1, TreeInduction
<1>3. u[n] \subseteq N
  BY DEF Shape, Under
<1> QED BY <1>2, <1>3

\* A node has one parent, and is on one side of it.
LEMMA ChildIs ==
    ASSUME NEW t, NEW N, NEW u, Shape(t, N, u),
           NEW n \in N, NEW s \in T!Sides, NEW m \in N, t.child[s][n] = m
    PROVE  /\ t.parent[m] = n /\ m # t.root
           /\ \A l \in N : \A r \in T!Sides : t.child[r][l] = m => l = n /\ r = s
<1>1. m # T!Null /\ n # T!Null
  BY NoNullKey DEF Shape
<1>2. t.parent[m] = n
  BY <1>1 DEF Shape, Links
<1>3. m # t.root
  BY <1>1, <1>2 DEF Shape, Rooted
<1>4. ASSUME NEW l \in N, NEW r \in T!Sides, t.child[r][l] = m PROVE l = n /\ r = s
  <2>1. l = n
    <3>1. t.parent[t.child[r][l]] = l
      BY <1>1, <1>4, ChildOf
    <3> QED BY <1>2, <1>4, <3>1
  <2>2. CASE r = s
    BY <2>1, <2>2
  <2>3. CASE r # s
    <3>1. r = T!Other(s)
      BY <2>3, SidesAre
    <3>2. m \in u[m] /\ m \notin u[t.child[T!Other(s)][n]]
      BY <1>1, AtNode
    <3> QED BY <1>4, <2>1, <3>1, <3>2
  <2> QED BY <2>2, <2>3
<1> QED BY <1>2, <1>3, <1>4

-----------------------------------------------------------------------------
\* A child pointer and a parent pointer written one after the other, or the root and a parent
\* pointer.
WritesBoth(u, t, s, n, m, x, y) == u = [t EXCEPT !.child[s][n] = m, !.parent[x] = y]
WritesRoot(u, t, m, x, y) == u = [t EXCEPT !.root = m, !.parent[x] = y]

\* A child pointer and a parent pointer written one after the other.
LEMMA BothSet ==
    ASSUME NEW t \in T!Trees, NEW s \in T!Sides, NEW n \in TreeKeys, NEW m \in NullKeys,
           NEW x \in TreeKeys, NEW y \in NullKeys,
           NEW u, WritesBoth(u, t, s, n, m, x, y)
    PROVE  /\ u \in T!Trees /\ u.root = t.root /\ u.color = t.color /\ u.value = t.value
           /\ \A r \in T!Sides : \A z \in TreeKeys :
                 u.child[r][z] = IF r = s /\ z = n THEN m ELSE t.child[r][z]
           /\ \A z \in TreeKeys : u.parent[z] = IF z = x THEN y ELSE t.parent[z]
<1> DEFINE v == [t EXCEPT !.child[s][n] = m]
           w == [v EXCEPT !.parent[x] = y]
<1>1. u = w
  BY DEF WritesBoth
<1>2. /\ v \in T!Trees /\ SameButChild(v, t)
      /\ \A r \in T!Sides : \A z \in TreeKeys :
            v.child[r][z] = IF r = s /\ z = n THEN m ELSE t.child[r][z]
  BY ChildSet
<1> HIDE DEF v
<1>3. /\ w \in T!Trees /\ SameButParent(w, v)
      /\ \A z \in TreeKeys : w.parent[z] = IF z = x THEN y ELSE v.parent[z]
  BY <1>2, ParentSet
<1> HIDE DEF w
<1>4. /\ w \in T!Trees /\ w.root = t.root /\ w.color = t.color /\ w.value = t.value
      /\ \A r \in T!Sides : \A z \in TreeKeys :
            w.child[r][z] = IF r = s /\ z = n THEN m ELSE t.child[r][z]
      /\ \A z \in TreeKeys : w.parent[z] = IF z = x THEN y ELSE t.parent[z]
  BY <1>2, <1>3 DEF SameButChild, SameButParent
<1> QED BY <1>1, <1>4

\* The root and a parent pointer written one after the other.
LEMMA RootParentSet ==
    ASSUME NEW t \in T!Trees, NEW m \in NullKeys, NEW x \in TreeKeys, NEW y \in NullKeys,
           NEW u, WritesRoot(u, t, m, x, y)
    PROVE  /\ u \in T!Trees /\ u.root = m /\ u.child = t.child
           /\ u.color = t.color /\ u.value = t.value
           /\ \A z \in TreeKeys : u.parent[z] = IF z = x THEN y ELSE t.parent[z]
<1> DEFINE v == [t EXCEPT !.root = m]
           w == [v EXCEPT !.parent[x] = y]
<1>1. u = w
  BY DEF WritesRoot
<1>2. /\ v \in T!Trees /\ v.root = m /\ v.child = t.child /\ v.parent = t.parent
      /\ v.color = t.color /\ v.value = t.value
  BY RootSet
<1> HIDE DEF v
<1>3. /\ w \in T!Trees /\ SameButParent(w, v)
      /\ \A z \in TreeKeys : w.parent[z] = IF z = x THEN y ELSE v.parent[z]
  BY <1>2, ParentSet
<1> HIDE DEF w
<1>4. /\ w \in T!Trees /\ w.root = m /\ w.child = t.child
      /\ w.color = t.color /\ w.value = t.value
      /\ \A z \in TreeKeys : w.parent[z] = IF z = x THEN y ELSE t.parent[z]
  BY <1>2, <1>3 DEF SameButParent
<1> QED BY <1>1, <1>4

\* w is t with y at the place of x.
IsReplaced(w, t, x, y, p) ==
    /\ w \in T!Trees /\ w.color = t.color /\ w.value = t.value
    /\ \A z \in TreeKeys : w.parent[z] = IF z = y THEN p ELSE t.parent[z]
    /\ p = T!Null => w.root = y /\ w.child = t.child
    /\ p # T!Null => /\ w.root = t.root
                     /\ \E s \in T!Sides :
                           /\ t.child["left"][p] = x => s = "left"
                           /\ t.child["left"][p] # x => s = "right"
                           /\ \A r \in T!Sides : \A z \in TreeKeys :
                                 w.child[r][z] = IF r = s /\ z = p THEN y ELSE t.child[r][z]

\* A node takes the place of another.
LEMMA ReplacedIs ==
    ASSUME NEW t \in T!Trees, NEW x \in TreeKeys, NEW y \in TreeKeys
    PROVE  IsReplaced(T!Replaced(t, x, y), t, x, y, t.parent[x])
<1> DEFINE w == T!Replaced(t, x, y)
           p == t.parent[x]
<1>1. p \in NullKeys /\ y \in NullKeys /\ (p # T!Null => p \in TreeKeys)
  BY Fields DEF NullKeys
<1> SUFFICES IsReplaced(w, t, x, y, p)
  OBVIOUS
<1>0. w = T!Replaced(t, x, y) /\ p = t.parent[x]
  OBVIOUS
<1> HIDE DEF w, p
<1>2. CASE p = T!Null
  <2>1. WritesRoot(w, t, y, y, p)
    BY <1>0, <1>2, Zenon DEF T!Replaced, WritesRoot
  <2> QED BY <1>1, <1>2, <2>1, RootParentSet DEF IsReplaced
<1>3. CASE p # T!Null /\ t.child["left"][p] = x
  <2>1. WritesBoth(w, t, "left", p, y, y, p)
    BY <1>0, <1>3, Zenon DEF T!Replaced, WritesBoth
  <2>2. "left" \in T!Sides
    BY DEF T!Sides
  <2>3. /\ w \in T!Trees /\ w.root = t.root /\ w.color = t.color /\ w.value = t.value
        /\ \A r \in T!Sides : \A z \in TreeKeys :
              w.child[r][z] = IF r = "left" /\ z = p THEN y ELSE t.child[r][z]
        /\ \A z \in TreeKeys : w.parent[z] = IF z = y THEN p ELSE t.parent[z]
    BY <1>1, <1>3, <2>1, <2>2, BothSet
  <2> QED BY <1>3, <2>2, <2>3 DEF IsReplaced
<1>4. CASE p # T!Null /\ t.child["left"][p] # x
  <2>1. WritesBoth(w, t, "right", p, y, y, p)
    BY <1>0, <1>4, Zenon DEF T!Replaced, WritesBoth
  <2>2. "right" \in T!Sides
    BY DEF T!Sides
  <2>3. /\ w \in T!Trees /\ w.root = t.root /\ w.color = t.color /\ w.value = t.value
        /\ \A r \in T!Sides : \A z \in TreeKeys :
              w.child[r][z] = IF r = "right" /\ z = p THEN y ELSE t.child[r][z]
        /\ \A z \in TreeKeys : w.parent[z] = IF z = y THEN p ELSE t.parent[z]
    BY <1>1, <1>4, <2>1, <2>2, BothSet
  <2> QED BY <1>4, <2>2, <2>3 DEF IsReplaced
<1> QED BY <1>2, <1>3, <1>4

\* The pointers after a rotation.
IsRotated(w, t, N, s, x, y, b) ==
    /\ w \in T!Trees /\ w.color = t.color /\ w.value = t.value
    /\ w.root = IF t.root = x THEN y ELSE t.root
    /\ \A n \in TreeKeys :
          w.parent[n] = IF n = x THEN y ELSE IF n = y THEN t.parent[x]
                        ELSE IF n = b THEN x ELSE t.parent[n]
    /\ w.child[s][x] = t.child[s][x] /\ w.child[T!Other(s)][x] = b
    /\ w.child[s][y] = x /\ w.child[T!Other(s)][y] = t.child[T!Other(s)][y]
    /\ \A n \in N \ {x, y} : \A r \in T!Sides :
          w.child[r][n] = IF t.child[r][n] = x THEN y ELSE t.child[r][n]
    /\ \A n \in TreeKeys \ N : \A r \in T!Sides : w.child[r][n] = t.child[r][n]

\* What is where before a rotation.
LEMMA BeforeRotation ==
    ASSUME NEW t, NEW N, NEW u, Shape(t, N, u), NEW s \in T!Sides, NEW x \in N,
           NEW y, y = t.child[T!Other(s)][x], y # T!Null, NEW b, b = t.child[s][y]
    PROVE  /\ y \in N /\ y # x /\ t.parent[y] = x
           /\ b \in N \cup {T!Null} /\ b # x /\ b # y /\ (b # T!Null => t.parent[b] = y)
           /\ t.parent[x] \in N \cup {T!Null} /\ t.parent[x] # x /\ t.parent[x] # y
           /\ t.parent[x] = T!Null <=> x = t.root
           /\ t.parent[x] # T!Null => t.parent[x] # b /\ \E r \in T!Sides : t.child[r][t.parent[x]] = x
           /\ u[b] \subseteq u[y]
<1>0. T!Null \notin N /\ T!Other(s) \in T!Sides
  BY NoNullKey, SidesAre DEF Shape
<1>1. y \in N /\ y # x /\ t.parent[y] = x /\ x \notin u[y] /\ u[y] \subseteq u[x]
  BY <1>0, AtNode, ChildOf
<1>2. b \in N \cup {T!Null} /\ b # y /\ (b # T!Null => t.parent[b] = y /\ b \in u[y])
      /\ u[b] \subseteq u[y]
  BY <1>0, <1>1, AtNode, ChildOf
<1>3. b # x
  BY <1>0, <1>1, <1>2
<1>4. /\ t.parent[x] = T!Null => x = t.root
      /\ t.parent[x] # T!Null => t.parent[x] \in N /\ \E r \in T!Sides : t.child[r][t.parent[x]] = x
      /\ t.root # T!Null => t.parent[t.root] = T!Null
  BY DEF Shape, Links, Rooted
<1>5. ASSUME t.parent[x] # T!Null
      PROVE  t.parent[x] # x /\ t.parent[x] # y /\ t.parent[x] # b
  <2>1. PICK r \in T!Sides : t.child[r][t.parent[x]] = x
    BY <1>4, <1>5
  <2>2. t.parent[x] \in N /\ t.parent[x] \notin u[x] /\ t.parent[x] \in u[t.parent[x]]
    BY <1>0, <1>4, <1>5, <2>1, AtNode
  <2>3. x \in u[x] /\ y \in u[y]
    BY <1>0, <1>1, AtNode
  <2> QED BY <1>0, <1>1, <1>2, <1>5, <2>2, <2>3
<1> QED BY <1>0, <1>1, <1>2, <1>3, <1>4, <1>5

\* A child pointer is written.
WritesChild(u, t, s, n, m) == u = [t EXCEPT !.child[s][n] = m]

\* A child pointer written, in terms of its fields.
LEMMA ChildWritten ==
    ASSUME NEW t \in T!Trees, NEW s \in T!Sides, NEW n \in TreeKeys, NEW m \in NullKeys,
           NEW u, WritesChild(u, t, s, n, m)
    PROVE  /\ u \in T!Trees /\ SameButChild(u, t)
           /\ \A r \in T!Sides : \A x \in TreeKeys :
                 u.child[r][x] = IF r = s /\ x = n THEN m ELSE t.child[r][x]
<1> DEFINE v == [t EXCEPT !.child[s][n] = m]
<1>1. u = v
  BY DEF WritesChild
<1>2. /\ v \in T!Trees /\ SameButChild(v, t)
      /\ \A r \in T!Sides : \A x \in TreeKeys :
            v.child[r][x] = IF r = s /\ x = n THEN m ELSE t.child[r][x]
  BY ChildSet
<1> HIDE DEF v
<1> QED BY <1>1, <1>2

\* Node n has got p as parent.
IsAdopted(u, t, n, p) ==
    /\ u \in T!Trees /\ SameButParent(u, t)
    /\ \A x \in TreeKeys : u.parent[x] = IF x = n THEN p ELSE t.parent[x]

\* A node, if there is one, gets a parent.
LEMMA AdoptedIs ==
    ASSUME NEW t \in T!Trees, NEW n \in NullKeys, NEW p \in NullKeys
    PROVE  IsAdopted(T!Adopted(t, n, p), t, n, p)
<1>1. CASE n = T!Null
  <2>1. T!Adopted(t, n, p) = t
    BY <1>1 DEF T!Adopted
  <2>2. \A x \in TreeKeys : x # n
    BY <1>1, NoNullKey
  <2> QED BY <2>1, <2>2 DEF SameButParent, IsAdopted
<1>2. CASE n # T!Null
  <2> DEFINE v == [t EXCEPT !.parent[n] = p]
  <2>1. T!Adopted(t, n, p) = v
    BY <1>2 DEF T!Adopted
  <2>2. n \in TreeKeys
    BY <1>2 DEF NullKeys
  <2>3. /\ v \in T!Trees /\ SameButParent(v, t)
        /\ \A x \in TreeKeys : v.parent[x] = IF x = n THEN p ELSE t.parent[x]
    BY <2>2, ParentSet
  <2> HIDE DEF v
  <2> QED BY <2>1, <2>3 DEF IsAdopted
<1> QED BY <1>1, <1>2 DEF IsAdopted

\* rotateLeft and rotateRight write the pointers of a rotation.
LEMMA RotationIs ==
    ASSUME NEW t, NEW N, NEW u, Shape(t, N, u), NEW s \in T!Sides, NEW x \in N,
           NEW y, y = t.child[T!Other(s)][x], y # T!Null, NEW b, b = t.child[s][y]
    PROVE  IsRotated(T!Rotated(t, s, x), t, N, s, x, y, b)
<1> DEFINE o == T!Other(s)
           p == t.parent[x]
           v1 == [t EXCEPT !.child[o][x] = b]
           v2 == T!Adopted(v1, b, x)
           v3 == T!Replaced(v2, x, y)
           w == T!Rotated(t, s, x)
<1>1. /\ y \in N /\ y # x
      /\ b \in N \cup {T!Null} /\ b # x /\ b # y
      /\ p \in N \cup {T!Null} /\ p # x /\ p # y
      /\ p = T!Null <=> x = t.root
      /\ p # T!Null => p # b /\ \E r \in T!Sides : t.child[r][p] = x
  BY BeforeRotation
<1>2. /\ t \in T!Trees /\ N \subseteq TreeKeys /\ o \in T!Sides /\ o # s
      /\ \A r \in T!Sides : r = s \/ r = o
  BY SidesAre DEF Shape
<1>3. /\ x \in TreeKeys /\ y \in TreeKeys /\ x \in NullKeys /\ y \in NullKeys /\ b \in NullKeys
      /\ p \in NullKeys /\ T!Null \notin TreeKeys
  BY <1>1, <1>2, NoNullKey DEF NullKeys
<1>4. WritesChild(v1, t, o, x, b)
  BY DEF WritesChild
<1>5. WritesBoth(w, v3, s, y, x, x, y)
  BY Zenon DEF T!Rotated, WritesBoth
<1>6. v2 = T!Adopted(v1, b, x) /\ v3 = T!Replaced(v2, x, y) /\ p = t.parent[x]
  OBVIOUS
<1> HIDE DEF o, v1, v2, v3, w, p
<1>7. /\ v1 \in T!Trees /\ SameButChild(v1, t)
      /\ \A r \in T!Sides : \A n \in TreeKeys :
            v1.child[r][n] = IF r = o /\ n = x THEN b ELSE t.child[r][n]
  BY <1>2, <1>3, <1>4, ChildWritten
<1>8. /\ v2 \in T!Trees /\ SameButParent(v2, v1)
      /\ \A n \in TreeKeys : v2.parent[n] = IF n = b THEN x ELSE t.parent[n]
  <2>1. IsAdopted(v2, v1, b, x)
    BY <1>3, <1>6, <1>7, AdoptedIs
  <2>2. v1.parent = t.parent
    BY <1>7 DEF SameButChild
  <2> QED BY <2>1, <2>2 DEF IsAdopted
<1>9. p = v2.parent[x]
  BY <1>1, <1>3, <1>6, <1>8
<1>10. /\ v3 \in T!Trees /\ v3.color = v2.color /\ v3.value = v2.value
       /\ \A n \in TreeKeys : v3.parent[n] = IF n = y THEN p ELSE v2.parent[n]
       /\ p = T!Null => v3.root = y /\ v3.child = v2.child
       /\ p # T!Null => /\ v3.root = v2.root
                        /\ \E a \in T!Sides :
                              /\ v2.child["left"][p] = x => a = "left"
                              /\ v2.child["left"][p] # x => a = "right"
                              /\ \A r \in T!Sides : \A n \in TreeKeys :
                                    v3.child[r][n] = IF r = a /\ n = p THEN y ELSE v2.child[r][n]
  <2>1. IsReplaced(v3, v2, x, y, p)
    BY <1>3, <1>6, <1>8, <1>9, ReplacedIs
  <2> QED BY <2>1 DEF IsReplaced
<1>11. /\ w \in T!Trees /\ w.root = v3.root /\ w.color = v3.color /\ w.value = v3.value
       /\ \A r \in T!Sides : \A n \in TreeKeys :
             w.child[r][n] = IF r = s /\ n = y THEN x ELSE v3.child[r][n]
       /\ \A n \in TreeKeys : w.parent[n] = IF n = x THEN y ELSE v3.parent[n]
  BY <1>3, <1>5, <1>10, BothSet
<1>12. /\ v2.root = t.root /\ v2.color = t.color /\ v2.value = t.value
       /\ \A r \in T!Sides : \A n \in TreeKeys :
             v2.child[r][n] = IF r = o /\ n = x THEN b ELSE t.child[r][n]
  BY <1>7, <1>8 DEF SameButChild, SameButParent
<1>13. /\ w.color = t.color /\ w.value = t.value
       /\ w.root = IF t.root = x THEN y ELSE t.root
  BY <1>1, <1>10, <1>11, <1>12
<1>14. ASSUME NEW n \in TreeKeys
       PROVE  w.parent[n] = IF n = x THEN y ELSE IF n = y THEN p
                            ELSE IF n = b THEN x ELSE t.parent[n]
  BY <1>8, <1>10, <1>11
<1>15. ASSUME NEW n \in TreeKeys, NEW r \in T!Sides
       PROVE  v3.child[r][n] = IF n = p /\ t.child[r][n] = x THEN y ELSE v2.child[r][n]
  <2>1. CASE p = T!Null
    BY <1>3, <1>10, <2>1
  <2>2. CASE p # T!Null
    <3>1. PICK a \in T!Sides : /\ v2.child["left"][p] = x => a = "left"
                               /\ v2.child["left"][p] # x => a = "right"
                               /\ v3.child[r][n] = IF r = a /\ n = p THEN y ELSE v2.child[r][n]
      BY <1>10, <2>2
    <3>2. p \in N /\ p \in TreeKeys /\ "left" \in T!Sides
      BY <1>1, <1>2, <2>2 DEF T!Sides
    <3>3. \A e \in T!Sides : v2.child[e][p] = t.child[e][p]
      BY <1>1, <1>12, <3>2
    <3>4. t.child[a][p] = x
      <4>1. PICK e \in T!Sides : t.child[e][p] = x
        BY <1>1, <2>2
      <4> QED BY <3>1, <3>2, <3>3, <4>1 DEF T!Sides
    <3>5. t.child[r][p] = x <=> r = a
      BY <3>2, <3>4, ChildIs
    <3> QED BY <3>1, <3>5
  <2> QED BY <2>1, <2>2
<1>16. /\ w.child[s][x] = t.child[s][x] /\ w.child[o][x] = b
       /\ w.child[s][y] = x /\ w.child[o][y] = t.child[o][y]
  BY <1>1, <1>2, <1>3, <1>11, <1>12, <1>15
<1>17. ASSUME NEW n \in N \ {x, y}, NEW r \in T!Sides
       PROVE  w.child[r][n] = IF t.child[r][n] = x THEN y ELSE t.child[r][n]
  <2>1. n \in TreeKeys
    BY <1>2
  <2>2. t.child[r][n] = x => n = p
    BY <1>3, <1>6, ChildOf
  <2> QED BY <1>11, <1>12, <1>15, <2>1, <2>2
<1>18. ASSUME NEW n \in TreeKeys \ N, NEW r \in T!Sides
       PROVE  w.child[r][n] = t.child[r][n]
  <2>1. n # x /\ n # y /\ n # p
    BY <1>1, <1>3
  <2> QED BY <1>11, <1>12, <1>15, <2>1
<1> QED BY <1>6, <1>11, <1>13, <1>14, <1>16, <1>17, <1>18 DEF IsRotated, o, w

\* A node n, its child a on one side and d on the other.
AreChildren(t, N, u, n, s, o, a, d) ==
    /\ a \in N \cup {T!Null} /\ a # n /\ (a # T!Null => t.parent[a] = n /\ a \in u[a])
    /\ d \in N \cup {T!Null} /\ d # n /\ (d # T!Null => t.parent[d] = n /\ d \in u[d])
    /\ u[n] = {n} \cup u[a] \cup u[d] /\ n \notin u[a] /\ n \notin u[d]
    /\ u[a] \subseteq N /\ u[d] \subseteq N /\ \A m \in u[a] : m \notin u[d]
    /\ \A m \in u[a] : Before(s, m, n)
    /\ \A m \in u[d] : Before(o, m, n)

\* A node and its two children.
LEMMA AtChildren ==
    ASSUME NEW t, NEW N, NEW u, Shape(t, N, u), NEW n \in N, NEW s \in T!Sides,
           NEW o, o = T!Other(s), NEW a, a = t.child[s][n], NEW d, d = t.child[o][n]
    PROVE  AreChildren(t, N, u, n, s, o, a, d)
<1>1. o \in T!Sides
  BY SidesAre
<1>2. /\ a \in N \cup {T!Null} /\ (a # T!Null => t.parent[a] = n)
      /\ u[n] = {n} \cup u[a] \cup u[d]
  BY ChildOf
<1>3. d \in N \cup {T!Null} /\ (d # T!Null => t.parent[d] = n)
  BY <1>1, ChildOf
<1>4. /\ a # n /\ (a # T!Null => a \in u[a]) /\ n \notin u[a] /\ u[a] \subseteq N
      /\ \A m \in u[a] : m \notin u[d]
  BY AtNode
<1>5. d # n /\ (d # T!Null => d \in u[d]) /\ n \notin u[d] /\ u[d] \subseteq N
  BY <1>1, AtNode
<1>6. /\ \A m \in u[a] : Before(s, m, n)
      /\ \A m \in u[d] : Before(o, m, n)
  BY <1>1 DEF Shape, Ordered
<1> QED BY <1>2, <1>3, <1>4, <1>5, <1>6 DEF AreChildren

\* What is at and below each node after a rotation.
Lowered(t, u, s, x, y, b) ==
    [n \in DOMAIN u |-> IF n = y THEN u[x]
                        ELSE IF n = x THEN {x} \cup u[t.child[s][x]] \cup u[b] ELSE u[n]]

\* A rotation keeps the search tree of the same nodes.
LEMMA RotationKeeps ==
    ASSUME NEW t, NEW N, NEW u, Shape(t, N, u), NEW s \in T!Sides, NEW x \in N,
           NEW y, y = t.child[T!Other(s)][x], y # T!Null, NEW b, b = t.child[s][y],
           NEW w, IsRotated(w, t, N, s, x, y, b)
    PROVE  Shape(w, N, Lowered(t, u, s, x, y, b))
<1> DEFINE o == T!Other(s)
           p == t.parent[x]
           a == t.child[s][x]
           d == t.child[o][y]
           v == Lowered(t, u, s, x, y, b)
<1>1. /\ y \in N /\ y # x /\ t.parent[y] = x
      /\ b \in N \cup {T!Null} /\ b # x /\ b # y /\ (b # T!Null => t.parent[b] = y)
      /\ p \in N \cup {T!Null} /\ p # x /\ p # y
      /\ p = T!Null <=> x = t.root
      /\ p # T!Null => p # b /\ \E r \in T!Sides : t.child[r][p] = x
      /\ u[b] \subseteq u[y]
  BY BeforeRotation
<1>2. /\ t \in T!Trees /\ N \subseteq TreeKeys /\ IsFiniteSet(N) /\ o \in T!Sides /\ o # s
      /\ T!Other(o) = s /\ \A r \in T!Sides : r = s \/ r = o
      /\ T!Null \notin N
  BY SidesAre, NoNullKey DEF Shape
<1>14. y = t.child[o][x] /\ b = t.child[s][y] /\ a = t.child[s][x] /\ d = t.child[o][y] /\ p = t.parent[x]
       /\ o = T!Other(s)
  OBVIOUS
<1>20. v = Lowered(t, u, s, x, y, b) 
  OBVIOUS
<1> SUFFICES Shape(w, N, v)
  OBVIOUS
<1> HIDE DEF o, p, a, d, v
<1>21. /\ a \in N \cup {T!Null} /\ a # x /\ (a # T!Null => t.parent[a] = x /\ a \in u[a])
       /\ y # x /\ (y # T!Null => t.parent[y] = x /\ y \in u[y])
       /\ u[x] = {x} \cup u[a] \cup u[y] /\ x \notin u[a] /\ x \notin u[y]
       /\ u[a] \subseteq N /\ u[y] \subseteq N /\ \A m \in u[a] : m \notin u[y]
       /\ \A m \in u[a] : Before(s, m, x)
       /\ \A m \in u[y] : Before(o, m, x)
  <2>1. AreChildren(t, N, u, x, s, o, a, y)
    BY <1>14, AtChildren
  <2> QED BY <2>1 DEF AreChildren
<1>22. /\ b \in N \cup {T!Null} /\ b # y /\ (b # T!Null => t.parent[b] = y /\ b \in u[b])
       /\ d \in N \cup {T!Null} /\ d # y /\ (d # T!Null => t.parent[d] = y /\ d \in u[d])
       /\ u[y] = {y} \cup u[b] \cup u[d] /\ y \notin u[b] /\ y \notin u[d]
       /\ u[b] \subseteq N /\ u[d] \subseteq N /\ \A m \in u[b] : m \notin u[d]
       /\ \A m \in u[b] : Before(s, m, y)
       /\ \A m \in u[d] : Before(o, m, y)
  <2>1. AreChildren(t, N, u, y, s, o, b, d)
    BY <1>1, <1>14, AtChildren
  <2> QED BY <2>1 DEF AreChildren
<1>3. /\ a \in N \cup {T!Null} /\ a # x /\ a # y /\ (a # T!Null => t.parent[a] = x /\ a # b)
      /\ u[x] = {x} \cup u[a] \cup u[y] /\ u[a] \subseteq N
      /\ \A m \in u[a] : Before(s, m, x)
  <2>1. a # y
    BY <1>1, <1>2, <1>21
  <2>2. a # T!Null => a # b
    BY <1>1, <1>21, <1>22
  <2> QED BY <1>21, <2>1, <2>2
<1>4. /\ d \in N \cup {T!Null} /\ d # x /\ d # y /\ (d # T!Null => t.parent[d] = y /\ d # b)
      /\ u[y] = {y} \cup u[b] \cup u[d] /\ u[d] \subseteq N /\ u[b] \subseteq N
      /\ \A m \in u[d] : Before(o, m, y)
      /\ \A m \in u[b] : Before(s, m, y)
      /\ \A m \in u[y] : Before(o, m, x)
  <2>1. d # x
    BY <1>1, <1>2, <1>21, <1>22
  <2>2. d # T!Null => d # b
    BY <1>1, <1>22
  <2> QED BY <1>21, <1>22, <2>1, <2>2
<1>5. /\ u \in [N \cup {T!Null} -> SUBSET N] /\ u[T!Null] = {}
      /\ t.root \in N \cup {T!Null} /\ u[t.root] = N
      /\ t.root # T!Null => t.parent[t.root] = T!Null
  BY DEF Shape, Under, Rooted
<1>6. /\ v \in [N \cup {T!Null} -> SUBSET N]
      /\ v[x] = {x} \cup u[a] \cup u[b] /\ v[y] = u[x]
      /\ \A n \in N \cup {T!Null} : n # x /\ n # y => v[n] = u[n]
  <2>1. v = [n \in N \cup {T!Null} |-> IF n = y THEN u[x]
                                       ELSE IF n = x THEN {x} \cup u[a] \cup u[b] ELSE u[n]]
    BY <1>5, <1>14, <1>20 DEF Lowered
  <2>2. {x} \cup u[a] \cup u[b] \in SUBSET N
    BY <1>3, <1>4
  <2> QED BY <1>1, <1>2, <1>5, <2>1, <2>2
<1>7. /\ w \in T!Trees /\ w.root = IF t.root = x THEN y ELSE t.root
      /\ \A n \in N :
            w.parent[n] = IF n = x THEN y ELSE IF n = y THEN p
                          ELSE IF n = b THEN x ELSE t.parent[n]
      /\ w.child[s][x] = a /\ w.child[o][x] = b /\ w.child[s][y] = x /\ w.child[o][y] = d
      /\ \A n \in N \ {x, y} : \A r \in T!Sides :
            w.child[r][n] = IF t.child[r][n] = x THEN y ELSE t.child[r][n]
  BY <1>2, <1>14 DEF IsRotated
<1>8. ASSUME NEW n \in N \ {x, y}, NEW r \in T!Sides
      PROVE  /\ t.child[r][n] \in N \cup {T!Null} /\ t.child[r][n] # y
             /\ t.child[r][n] # T!Null => t.parent[t.child[r][n]] = n /\ t.child[r][n] # b
             /\ v[w.child[r][n]] = u[t.child[r][n]]
  <2> DEFINE e == t.child[r][n]
  <2>1. /\ e \in N \cup {T!Null}
        /\ e # T!Null => t.parent[e] = n
    BY ChildOf
  <2>2. w.child[r][n] = IF e = x THEN y ELSE e
    BY <1>7
  <2> HIDE DEF e
  <2>3. e # y /\ (e # T!Null => e # b)
    BY <1>1, <1>2, <2>1
  <2>4. v[w.child[r][n]] = u[e]
    BY <1>1, <1>6, <2>1, <2>2, <2>3
  <2> QED BY <2>1, <2>3, <2>4 DEF e
<1>9. ASSUME NEW n \in N, NEW r \in T!Sides
      PROVE  u[n] = {n} \cup u[t.child[r][n]] \cup u[t.child[T!Other(r)][n]]
  BY ChildOf
<1>10. ASSUME NEW n \in N, NEW r \in T!Sides, NEW m \in u[t.child[r][n]] PROVE Before(r, m, n)
  BY DEF Shape, Ordered
<1>11. \A n \in N : t.parent[n] = T!Null => n = t.root
  BY DEF Shape, Links
<1>12. \A n \in N : t.parent[n] # T!Null =>
          t.parent[n] \in N /\ \E r \in T!Sides : t.child[r][t.parent[n]] = n
  BY DEF Shape, Links
<1>13. \A r \in T!Sides : T!Other(r) \in T!Sides
  BY SidesAre
<1>15. Under(w, N, v)
  <2>1. v[T!Null] = {}
    BY <1>1, <1>2, <1>5, <1>6
  <2>2. ASSUME NEW n \in N, NEW r \in T!Sides
        PROVE  v[n] = {n} \cup v[w.child[r][n]] \cup v[w.child[T!Other(r)][n]]
    <3>1. CASE n = x
      <4>1. v[a] = u[a] /\ v[b] = u[b]
        BY <1>1, <1>3, <1>6
      <4>2. v[x] = {x} \cup v[w.child[s][x]] \cup v[w.child[o][x]]
        BY <1>6, <1>7, <4>1
      <4> QED BY <1>2, <3>1, <4>2 DEF o
    <3>2. CASE n = y
      <4>1. v[d] = u[d] /\ v[y] = {x} \cup u[a] \cup ({y} \cup u[b] \cup u[d])
        BY <1>1, <1>3, <1>4, <1>6
      <4>2. v[y] = {y} \cup v[x] \cup v[d]
        BY <1>6, <4>1
      <4>3. v[y] = {y} \cup v[w.child[s][y]] \cup v[w.child[o][y]]
        BY <1>7, <4>2
      <4> QED BY <1>2, <3>2, <4>3 DEF o
    <3>3. CASE n # x /\ n # y
      <4>1. v[n] = u[n] /\ n \in N \ {x, y}
        BY <1>6, <3>3
      <4>2. v[w.child[r][n]] = u[t.child[r][n]]
        BY <1>8, <4>1
      <4>3. v[w.child[T!Other(r)][n]] = u[t.child[T!Other(r)][n]]
        BY <1>8, <1>13, <4>1
      <4> QED BY <1>9, <4>1, <4>2, <4>3
    <3> QED BY <3>1, <3>2, <3>3
  <2> QED BY <1>6, <2>1, <2>2 DEF Under
<1>16. Ordered(w, N, v)
  <2> SUFFICES ASSUME NEW n \in N, NEW r \in T!Sides, NEW m \in v[w.child[r][n]]
               PROVE  Before(r, m, n)
    BY DEF Ordered
  <2>1. CASE n = x /\ r = s
    BY <1>3, <1>6, <1>7, <2>1
  <2>2. CASE n = x /\ r = o
    <3>1. m \in u[b]
      BY <1>1, <1>6, <1>7, <2>2
    <3> QED BY <1>1, <1>4, <2>2, <3>1
  <2>3. CASE n = y /\ r = s
    <3>1. m \in {x} \cup u[a] \cup u[b]
      BY <1>6, <1>7, <2>3
    <3>2. Before(s, x, y)
      <4>1. y \in u[y]
        BY <1>1, <1>4
      <4>2. Before(o, y, x) /\ x \in TreeKeys /\ y \in TreeKeys
        BY <1>1, <1>2, <1>4, <4>1
      <4> QED BY <4>2, OrderIs DEF o
    <3>3. CASE m = x
      BY <2>3, <3>2, <3>3
    <3>4. CASE m \in u[a]
      <4>1. Before(s, m, x) /\ m \in TreeKeys /\ x \in TreeKeys /\ y \in TreeKeys
        BY <1>1, <1>2, <1>3, <3>4
      <4> QED BY <2>3, <3>2, <4>1, OrderIs
    <3>5. CASE m \in u[b]
      BY <1>4, <2>3, <3>5
    <3> QED BY <3>1, <3>3, <3>4, <3>5
  <2>4. CASE n = y /\ r = o
    <3>1. m \in u[d]
      BY <1>4, <1>6, <1>7, <2>4
    <3> QED BY <1>4, <2>4, <3>1
  <2>5. CASE n # x /\ n # y
    <3>1. m \in u[t.child[r][n]]
      BY <1>8, <2>5
    <3> QED BY <1>10, <3>1
  <2> QED BY <1>2, <2>1, <2>2, <2>3, <2>4, <2>5
<1>17. Links(w, N)
  <2>1. ASSUME NEW n \in N, NEW r \in T!Sides
        PROVE  /\ w.child[r][n] \in N \cup {T!Null}
               /\ w.child[r][n] # T!Null => w.parent[w.child[r][n]] = n
    <3>1. CASE n = x /\ r = s
      BY <1>2, <1>3, <1>7, <3>1
    <3>2. CASE n = x /\ r = o
      BY <1>1, <1>2, <1>7, <3>2
    <3>3. CASE n = y /\ r = s
      BY <1>7, <3>3
    <3>4. CASE n = y /\ r = o
      BY <1>4, <1>7, <3>4
    <3>5. CASE n # x /\ n # y /\ t.child[r][n] = x
      <4>1. w.child[r][n] = y
        BY <1>7, <3>5
      <4>2. t.parent[x] = n
        BY <1>2, <1>8, <3>5
      <4>3. w.parent[y] = p
        BY <1>1, <1>7
      <4> QED BY <1>1, <1>14, <4>1, <4>2, <4>3
    <3>6. CASE n # x /\ n # y /\ t.child[r][n] # x
      <4>1. w.child[r][n] = t.child[r][n]
        BY <1>7, <3>6
      <4> QED BY <1>7, <1>8, <3>6, <4>1
    <3> QED BY <1>2, <3>1, <3>2, <3>3, <3>4, <3>5, <3>6
  <2>2. ASSUME NEW n \in N, w.parent[n] = T!Null PROVE n = w.root
    BY <1>1, <1>2, <1>7, <1>11, <2>2
  <2>3. ASSUME NEW n \in N, w.parent[n] # T!Null
        PROVE  w.parent[n] \in N /\ \E r \in T!Sides : w.child[r][w.parent[n]] = n
    <3>1. CASE n = x
      BY <1>1, <1>7, <3>1
    <3>2. CASE n = y
      <4>1. w.parent[y] = p /\ p \in N \ {x, y}
        BY <1>1, <1>2, <1>7, <2>3, <3>2
      <4>2. PICK r \in T!Sides : t.child[r][p] = x
        BY <1>1, <1>2, <4>1
      <4>3. w.child[r][p] = y
        BY <1>7, <4>1, <4>2
      <4> QED BY <3>2, <4>1, <4>3
    <3>3. CASE n = b
      BY <1>1, <1>2, <1>7, <3>3
    <3>4. CASE n # x /\ n # y /\ n # b
      <4> DEFINE q == t.parent[n]
      <4>1. w.parent[n] = q
        BY <1>7, <3>4
      <4>2. q \in N
        BY <1>12, <2>3, <4>1
      <4>3. PICK r \in T!Sides : t.child[r][q] = n
        BY <1>12, <2>3, <4>1
      <4> HIDE DEF q
      <4>4. CASE q = x
        <5>1. r = s
          BY <1>2, <1>14, <3>4, <4>3, <4>4
        <5> QED BY <1>7, <1>14, <4>1, <4>2, <4>3, <4>4, <5>1
      <4>5. CASE q = y
        <5>1. r = o
          BY <1>2, <1>14, <3>4, <4>3, <4>5
        <5>2. t.child[o][y] = n /\ n = d
          BY <1>14, <4>3, <4>5, <5>1
        <5>3. w.child[o][y] = n /\ o \in T!Sides
          BY <1>2, <1>7, <5>2
        <5> QED BY <4>1, <4>2, <4>5, <5>3
      <4>6. CASE q # x /\ q # y
        <5>1. w.child[r][q] = n
          BY <1>7, <3>4, <4>2, <4>3, <4>6
        <5> QED BY <4>1, <4>2, <5>1
      <4> QED BY <4>4, <4>5, <4>6
    <3> QED BY <3>1, <3>2, <3>3, <3>4
  <2> QED BY <2>1, <2>2, <2>3 DEF Links
<1>18. Rooted(w, N, v)
  <2>1. CASE t.root = x
    <3>1. w.root = y /\ v[y] = N /\ p = T!Null /\ w.parent[y] = p
      BY <1>1, <1>5, <1>6, <1>7, <2>1
    <3> QED BY <1>1, <3>1 DEF Rooted
  <2>2. CASE t.root # x
    <3>1. w.root = t.root /\ t.root # y /\ (t.root # T!Null => t.root # b)
      <4>1. w.root = t.root
        BY <1>7, <2>2
      <4>2. t.root # y
        BY <1>1, <1>2, <1>5
      <4>3. t.root # T!Null => t.root # b
        BY <1>1, <1>2, <1>5
      <4> QED BY <4>1, <4>2, <4>3
    <3>2. v[t.root] = N
      BY <1>5, <1>6, <2>2, <3>1
    <3>3. t.root # T!Null => w.parent[t.root] = T!Null
      BY <1>5, <1>7, <2>2, <3>1
    <3> QED BY <1>5, <3>1, <3>2, <3>3 DEF Rooted
  <2> QED BY <2>1, <2>2
<1>19. Shape(w, N, v)
  BY <1>2, <1>7, <1>15, <1>16, <1>17, <1>18 DEF Shape
<1> QED BY <1>19 DEF v

-----------------------------------------------------------------------------
\* The colours of a tree after the nodes of B turned black and those of R red.
IsRecolored(w, t, B, R) ==
    /\ w \in T!Trees /\ SameLinks(w, t) /\ w.value = t.value
    /\ \A n \in TreeKeys : w.color[n] = IF n \in R THEN "RED" ELSE IF n \in B THEN "BLACK" ELSE t.color[n]

\* Node n has got colour x.
HasColor(w, t, n, x) ==
    /\ w \in T!Trees /\ SameLinks(w, t) /\ w.value = t.value
    /\ \A m \in TreeKeys : w.color[m] = IF m = n THEN x ELSE t.color[m]
WritesColor(w, t, n, x) == w = [t EXCEPT !.color[n] = x]

\* A colour written; nullptr has none.
LEMMA ColorWritten ==
    ASSUME NEW t, t \in T!Trees, NEW n, NEW x, x = "RED" \/ x = "BLACK",
           NEW w, WritesColor(w, t, n, x)
    PROVE  HasColor(w, t, n, x)
<1> DEFINE co == [t.color EXCEPT ![n] = x]
<1>1. w = [root |-> t.root, child |-> t.child, parent |-> t.parent, color |-> co, value |-> t.value]
  <2>1. w = [t EXCEPT !.color[n] = x]
    BY DEF WritesColor
  <2> QED BY <2>1, Fields
<1>2. /\ co \in [TreeKeys -> {"RED", "BLACK"}]
      /\ \A m \in TreeKeys : co[m] = IF m = n THEN x ELSE t.color[m]
  BY Fields
<1> HIDE DEF co
<1>3. w \in T!Trees
  BY <1>1, <1>2, Fields DEF T!Trees, NullKeys
<1>4. w.color = co /\ SameLinks(w, t) /\ w.value = t.value
  BY <1>1 DEF SameLinks
<1> QED BY <1>2, <1>3, <1>4 DEF HasColor

\* The root turns black.
LEMMA RootBlackIs ==
    ASSUME NEW t \in T!Trees
    PROVE  IsRecolored(T!RootBlack(t), t, {t.root}, {})
<1> DEFINE w == T!RootBlack(t)
<1>1. WritesColor(w, t, t.root, "BLACK")
  BY Zenon DEF T!RootBlack, WritesColor
<1> HIDE DEF w
<1>2. /\ w \in T!Trees /\ SameLinks(w, t) /\ w.value = t.value
      /\ \A m \in TreeKeys : w.color[m] = IF m = t.root THEN "BLACK" ELSE t.color[m]
  <2>1. HasColor(w, t, t.root, "BLACK")
    BY <1>1, ColorWritten
  <2> QED BY <2>1 DEF HasColor
<1>3. IsRecolored(w, t, {t.root}, {})
  BY <1>2 DEF IsRecolored
<1> QED BY <1>3 DEF w

\* Two colours are written.
WritesColors(w, t, n, m) == w = [t EXCEPT !.color[n] = "BLACK", !.color[m] = "RED"]

\* A node turns black, another red.
LEMMA ColorsWritten ==
    ASSUME NEW t \in T!Trees, NEW n, NEW m, NEW w, WritesColors(w, t, n, m)
    PROVE  IsRecolored(w, t, {n}, {m})
<1> DEFINE v == [t EXCEPT !.color[n] = "BLACK"]
           x == [v EXCEPT !.color[m] = "RED"]
<1>1. w = x
  BY DEF WritesColors
<1>2. WritesColor(v, t, n, "BLACK")
  BY DEF WritesColor
<1>3. WritesColor(x, v, m, "RED")
  BY DEF WritesColor
<1> HIDE DEF v, x
<1>4. /\ v \in T!Trees /\ SameLinks(v, t) /\ v.value = t.value
      /\ \A e \in TreeKeys : v.color[e] = IF e = n THEN "BLACK" ELSE t.color[e]
  <2>1. HasColor(v, t, n, "BLACK")
    BY <1>2, ColorWritten
  <2> QED BY <2>1 DEF HasColor
<1>5. /\ x \in T!Trees /\ SameLinks(x, v) /\ x.value = v.value
      /\ \A e \in TreeKeys : x.color[e] = IF e = m THEN "RED" ELSE v.color[e]
  <2>1. HasColor(x, v, m, "RED")
    BY <1>3, <1>4, ColorWritten
  <2> QED BY <2>1 DEF HasColor
<1>6. SameLinks(x, t)
  BY <1>4, <1>5 DEF SameLinks
<1> QED BY <1>1, <1>4, <1>5, <1>6 DEF IsRecolored

\* The parent and the uncle turn black, the grandparent red.
LEMMA RecoloredIs ==
    ASSUME NEW t \in T!Trees, NEW z
    PROVE  IsRecolored(T!Recolored(t, z), t, {t.parent[z], T!Uncle(t, z)}, {T!Grandparent(t, z)})
<1> DEFINE p == t.parent[z]
           y == T!Uncle(t, z)
           g == T!Grandparent(t, z)
           w == T!Recolored(t, z)
           v == [t EXCEPT !.color[p] = "BLACK"]
           x == [v EXCEPT !.color[y] = "BLACK", !.color[g] = "RED"]
<1>1. w = x
  BY DEF T!Recolored
<1>2. WritesColor(v, t, p, "BLACK")
  BY DEF WritesColor
<1>3. WritesColors(x, v, y, g)
  BY Zenon DEF WritesColors
<1> SUFFICES IsRecolored(w, t, {p, y}, {g})
  OBVIOUS
<1> HIDE DEF p, y, g, v, w, x
<1>4. /\ v \in T!Trees /\ SameLinks(v, t) /\ v.value = t.value
      /\ \A e \in TreeKeys : v.color[e] = IF e = p THEN "BLACK" ELSE t.color[e]
  <2>1. HasColor(v, t, p, "BLACK")
    BY <1>2, ColorWritten
  <2> QED BY <2>1 DEF HasColor
<1>5. IsRecolored(x, v, {y}, {g})
  BY <1>3, <1>4, ColorsWritten
<1>6. /\ x \in T!Trees /\ SameLinks(x, v) /\ x.value = v.value
      /\ \A e \in TreeKeys : x.color[e] = IF e \in {g} THEN "RED" ELSE IF e \in {y} THEN "BLACK" ELSE v.color[e]
  BY <1>5 DEF IsRecolored
<1>7. SameLinks(x, t)
  BY <1>4, <1>6 DEF SameLinks
<1> QED BY <1>1, <1>4, <1>6, <1>7 DEF IsRecolored

\* The shape of a tree is in its pointers.
LEMMA ShapeOfLinks ==
    ASSUME NEW t, NEW N, NEW u, Shape(t, N, u), NEW w \in T!Trees, SameLinks(w, t)
    PROVE  Shape(w, N, u)
BY DEF SameLinks, Shape, Under, Ordered, Links, Rooted

-----------------------------------------------------------------------------
\* What a node adds to the black nodes on a way down.
Weight(t, n) == IF t.color[n] = "BLACK" THEN 1 ELSE 0
\* b[n] black nodes are on every way down from n.
Heights(t, N, b) ==
    /\ b \in [N \cup {T!Null} -> Nat] /\ b[T!Null] = 0
    /\ \A n \in N : \A s \in T!Sides : b[n] = b[t.child[s][n]] + Weight(t, n)

\* No node but those of Z is red and has a red parent.
NoRedPair(t, N, Z) ==
    \A n \in N \ Z : t.color[n] = "RED" /\ t.parent[n] # T!Null => t.color[t.parent[n]] = "BLACK"

\* The keys without a node are as at first.
Blank(t, N) == \A n \in TreeKeys \ N : /\ t.parent[n] = T!Null /\ t.color[n] = "RED"
                                       /\ \A s \in T!Sides : t.child[s][n] = T!Null

\* A red-black tree, but for the nodes of Z.
Balanced(t, N, u, b, Z) == Shape(t, N, u) /\ Heights(t, N, b) /\ NoRedPair(t, N, Z) /\ Blank(t, N)

\* The nodes of a tree are keys, with a colour.
LEMMA NodesAre ==
    ASSUME NEW t, NEW N, NEW u, Shape(t, N, u)
    PROVE  /\ t \in T!Trees /\ N \subseteq TreeKeys /\ T!Null \notin N /\ T!Null \notin TreeKeys
           /\ \A n \in TreeKeys : t.color[n] \in {"RED", "BLACK"}
           /\ \A n \in N : t.parent[n] \in N \cup {T!Null}
           /\ \A n \in N : t.parent[n] = T!Null <=> n = t.root
<1>1. t \in T!Trees /\ N \subseteq TreeKeys
  BY DEF Shape
<1>2. T!Null \notin TreeKeys
  BY NoNullKey
<1>3. \A n \in TreeKeys : t.color[n] \in {"RED", "BLACK"}
  BY <1>1, Fields
<1>4. /\ \A n \in N : t.parent[n] \in N \cup {T!Null}
      /\ \A n \in N : t.parent[n] = T!Null => n = t.root
  BY DEF Shape, Links
<1>5. t.root # T!Null => t.parent[t.root] = T!Null
  BY DEF Shape, Rooted
<1> QED BY <1>1, <1>2, <1>3, <1>4, <1>5

\* A black root keeps a balanced tree balanced.
LEMMA RootBlackened ==
    ASSUME NEW t, NEW N, NEW u, NEW b, Balanced(t, N, u, b, {}), t.root \in N,
           NEW w, IsRecolored(w, t, {t.root}, {})
    PROVE  /\ \E h : Balanced(w, N, u, h, {})
           /\ w.root = t.root /\ w.color[t.root] = "BLACK" /\ w.value = t.value
<1> DEFINE r == t.root
           e == IF t.color[r] = "RED" THEN 1 ELSE 0
           c0 == [n \in N \cup {T!Null} |-> IF n = r THEN b[n] + e ELSE b[n]]
<1>1. /\ t \in T!Trees /\ N \subseteq TreeKeys /\ T!Null \notin N /\ T!Null \notin TreeKeys
      /\ \A n \in TreeKeys : t.color[n] \in {"RED", "BLACK"}
      /\ \A n \in N : t.parent[n] \in N \cup {T!Null}
  BY NodesAre DEF Balanced
<1>2. /\ w \in T!Trees /\ w.root = t.root /\ w.child = t.child /\ w.parent = t.parent /\ w.value = t.value
      /\ \A n \in TreeKeys : w.color[n] = IF n = r THEN "BLACK" ELSE t.color[n]
  BY DEF IsRecolored, SameLinks
<1>3. Shape(w, N, u)
  BY ShapeOfLinks DEF Balanced, IsRecolored
<1>4. /\ b \in [N \cup {T!Null} -> Nat] /\ b[T!Null] = 0
      /\ \A n \in N : \A s \in T!Sides : b[n] = b[t.child[s][n]] + Weight(t, n)
  BY DEF Balanced, Heights
<1>5. \A n \in N : \A s \in T!Sides : t.child[s][n] \in N \cup {T!Null} /\ t.child[s][n] # r
  <2>1. ASSUME NEW n \in N, NEW s \in T!Sides PROVE t.child[s][n] \in N \cup {T!Null} /\ t.child[s][n] # r
    <3>1. t.child[s][n] \in N \cup {T!Null}
      BY ChildOf DEF Balanced
    <3>2. t.child[s][n] \in N => t.child[s][n] # r
      BY ChildIs DEF Balanced
    <3> QED BY <1>1, <3>1, <3>2
  <2> QED BY <2>1
<1>6. e \in {0, 1} /\ (e = 1 <=> t.color[r] = "RED") /\ r = t.root /\ r \in N /\ r \in TreeKeys /\ r # T!Null
  BY <1>1
<1> HIDE DEF r, e
<1>7. c0 \in [N \cup {T!Null} -> Nat] /\ c0[T!Null] = 0
  BY <1>4, <1>6
<1>8. \A n \in N \cup {T!Null} : c0[n] = IF n = r THEN b[n] + e ELSE b[n]
  OBVIOUS
<1> HIDE DEF c0
<1>9. ASSUME NEW n \in N, NEW s \in T!Sides PROVE c0[n] = c0[w.child[s][n]] + Weight(w, n)
  <2>1. c0[w.child[s][n]] = b[t.child[s][n]] /\ b[t.child[s][n]] \in Nat
    BY <1>2, <1>4, <1>5, <1>8
  <2>2. b[n] = b[t.child[s][n]] + Weight(t, n) /\ b[n] \in Nat
    BY <1>4
  <2>3. CASE n = r
    <3>1. Weight(w, n) = 1 /\ Weight(t, n) = 1 - e
      BY <1>1, <1>2, <1>6, <2>3 DEF Weight
    <3>2. c0[n] = b[n] + e
      BY <1>8, <2>3
    <3> QED BY <1>6, <2>1, <2>2, <3>1, <3>2
  <2>4. CASE n # r
    <3>1. Weight(w, n) = Weight(t, n)
      BY <1>1, <1>2, <2>4 DEF Weight
    <3>2. c0[n] = b[n]
      BY <1>8, <2>4
    <3> QED BY <2>1, <2>2, <3>1, <3>2
  <2> QED BY <2>3, <2>4
<1>10. Heights(w, N, c0)
  BY <1>7, <1>9 DEF Heights
<1>11. NoRedPair(w, N, {})
  <2> SUFFICES ASSUME NEW n \in N, w.color[n] = "RED", w.parent[n] # T!Null PROVE w.color[w.parent[n]] = "BLACK"
    BY DEF NoRedPair
  <2>1. t.color[n] = "RED" /\ t.parent[n] # T!Null /\ t.parent[n] \in TreeKeys
    BY <1>1, <1>2
  <2>2. t.color[t.parent[n]] = "BLACK"
    BY <2>1 DEF Balanced, NoRedPair
  <2> QED BY <1>2, <2>1, <2>2
<1>12. Blank(w, N)
  BY <1>2, <1>6 DEF Balanced, Blank
<1>13. Balanced(w, N, u, c0, {})
  BY <1>3, <1>10, <1>11, <1>12 DEF Balanced
<1> QED BY <1>2, <1>6, <1>13

-----------------------------------------------------------------------------
\* z is red, its parent p is red, g is the parent of p on side s and y the other child of g.
Family(t, N, z, p, g, s, y) ==
    /\ p \in N /\ g \in N /\ s \in T!Sides /\ p # z /\ p # g
    /\ t.parent[z] = p /\ t.parent[p] = g /\ t.child[s][g] = p /\ t.child[T!Other(s)][g] = y
    /\ t.color[p] = "RED" /\ t.color[g] = "BLACK"
    /\ t.root # p /\ t.root \in N /\ t.color[t.root] = "BLACK"

\* A red node with a red parent has a grandparent, which is black.
LEMMA FamilyIs ==
    ASSUME NEW t, NEW N, NEW u, NEW b, NEW z \in N, Balanced(t, N, u, b, {z}),
           t.root = z \/ t.color[t.root] = "BLACK", T!RedParent(t, z)
    PROVE  Family(t, N, z, t.parent[z], T!Grandparent(t, z), T!ParentSide(t, z), T!Uncle(t, z))
<1> DEFINE p == t.parent[z]
           g == T!Grandparent(t, z)
           s == T!ParentSide(t, z)
           y == T!Uncle(t, z)
<1>1. /\ t \in T!Trees /\ N \subseteq TreeKeys /\ T!Null \notin N /\ T!Null \notin TreeKeys
      /\ \A n \in TreeKeys : t.color[n] \in {"RED", "BLACK"}
      /\ \A n \in N : t.parent[n] \in N \cup {T!Null}
      /\ \A n \in N : t.parent[n] = T!Null <=> n = t.root
      /\ Shape(t, N, u) /\ NoRedPair(t, N, {z})
  BY NodesAre DEF Balanced
<1>2. p # T!Null /\ t.color[p] = "RED" /\ p \in N /\ p \in TreeKeys
  BY <1>1 DEF T!RedParent
<1>3. /\ g = t.parent[p] /\ s = (IF t.child["left"][g] = p THEN "left" ELSE "right")
      /\ y = t.child[T!Other(s)][g] /\ p = t.parent[z]
  BY DEF T!Grandparent, T!ParentSide, T!Uncle
<1> SUFFICES Family(t, N, z, p, g, s, y)
  OBVIOUS
<1> HIDE DEF p, g, s, y
<1>4. \A n \in N : t.parent[n] # n
  <2>1. ASSUME NEW n \in N, t.parent[n] = n PROVE FALSE
    <3>1. n # T!Null
      BY <1>1
    <3>2. PICK r \in T!Sides : t.child[r][n] = n
      BY <1>1, <2>1, <3>1 DEF Shape, Links
    <3> QED BY <1>1, <3>2, AtNode
  <2> QED BY <2>1
<1>5. p # z
  BY <1>3, <1>4
<1>6. t.root # z
  BY <1>1, <1>2, <1>3
<1>7. t.root # p
  BY <1>2, <1>6
<1>8. g # T!Null /\ g \in N
  BY <1>1, <1>2, <1>3, <1>7
<1>9. t.child[s][g] = p /\ s \in T!Sides
  <2>1. PICK r \in T!Sides : t.child[r][g] = p
    BY <1>1, <1>2, <1>3, <1>8 DEF Shape, Links
  <2> QED BY <1>3, <2>1 DEF T!Sides
<1>10. t.color[g] = "BLACK"
  BY <1>1, <1>2, <1>3, <1>5, <1>8 DEF NoRedPair
<1>11. t.root \in N
  BY <1>1, <1>2 DEF Shape, Rooted, Under
<1>12. p # g
  BY <1>2, <1>10
<1> QED BY <1>2, <1>3, <1>5, <1>6, <1>7, <1>8, <1>9, <1>10, <1>11, <1>12 DEF Family

\* What is wrong is at g now.
Carried(w, t, N, u, g) ==
    /\ \E h : Balanced(w, N, u, h, {g})
    /\ w.root = t.root /\ w.value = t.value /\ w.color[g] = "RED"
    /\ w.root = g \/ w.color[w.root] = "BLACK"

\* The parent and the uncle are black and the grandparent is red: what was wrong at a node may
\* be wrong at its grandparent.
LEMMA RecolouringKeeps ==
    ASSUME NEW t, NEW N, NEW u, NEW b, NEW z \in N, Balanced(t, N, u, b, {z}),
           NEW p, NEW g, NEW s, NEW y, Family(t, N, z, p, g, s, y),
           y # T!Null, t.color[y] = "RED",
           NEW w, IsRecolored(w, t, {p, y}, {g})
    PROVE  Carried(w, t, N, u, g)
<1> DEFINE o == T!Other(s)
           c0 == [n \in N \cup {T!Null} |-> IF n \in {p, y} THEN b[n] + 1 ELSE b[n]]
<1>1. /\ t \in T!Trees /\ N \subseteq TreeKeys /\ T!Null \notin N /\ T!Null \notin TreeKeys
      /\ \A n \in TreeKeys : t.color[n] \in {"RED", "BLACK"}
      /\ \A n \in N : t.parent[n] \in N \cup {T!Null}
      /\ Shape(t, N, u) /\ NoRedPair(t, N, {z}) /\ Blank(t, N)
  BY NodesAre DEF Balanced
<1>2. /\ w \in T!Trees /\ w.root = t.root /\ w.child = t.child /\ w.parent = t.parent /\ w.value = t.value
      /\ \A n \in TreeKeys : w.color[n] = IF n = g THEN "RED" ELSE IF n \in {p, y} THEN "BLACK" ELSE t.color[n]
  BY DEF IsRecolored, SameLinks
<1>3. /\ p \in N /\ g \in N /\ s \in T!Sides /\ o \in T!Sides /\ p # z /\ p # g
      /\ t.parent[z] = p /\ t.parent[p] = g /\ t.child[s][g] = p /\ t.child[o][g] = y
      /\ t.color[p] = "RED" /\ t.color[g] = "BLACK"
      /\ t.root # p /\ t.root \in N /\ t.color[t.root] = "BLACK"
      /\ \A r \in T!Sides : r = s \/ r = o
  BY SidesAre DEF Family
<1> HIDE DEF o
<1>4. y \in N /\ y # g /\ t.parent[y] = g
  BY <1>1, <1>3, ChildOf, AtNode
<1>5. Shape(w, N, u)
  BY <1>1, <1>2, ShapeOfLinks DEF IsRecolored
<1>6. /\ b \in [N \cup {T!Null} -> Nat] /\ b[T!Null] = 0
      /\ \A n \in N : \A r \in T!Sides : b[n] = b[t.child[r][n]] + Weight(t, n)
  BY DEF Balanced, Heights
<1>7. \A n \in N \cup {T!Null} : c0[n] = IF n \in {p, y} THEN b[n] + 1 ELSE b[n]
  OBVIOUS
<1>8. c0 \in [N \cup {T!Null} -> Nat] /\ c0[T!Null] = 0
  BY <1>1, <1>3, <1>4, <1>6
<1> HIDE DEF c0
<1>9. ASSUME NEW n \in N, NEW r \in T!Sides PROVE c0[n] = c0[w.child[r][n]] + Weight(w, n)
  <2> DEFINE m == t.child[r][n]
  <2>1. m \in N \cup {T!Null} /\ (m # T!Null => t.parent[m] = n)
    BY <1>1, ChildOf
  <2>2. b[n] = b[m] + Weight(t, n) /\ b[m] \in Nat /\ b[n] \in Nat /\ w.child[r][n] = m
    BY <1>2, <1>6, <2>1
  <2>3. n = g => m \in {p, y}
    BY <1>3
  <2> HIDE DEF m
  <2>4. CASE n = g
    <3>1. Weight(t, n) = 1 /\ Weight(w, n) = 0
      BY <1>1, <1>2, <1>3, <2>4 DEF Weight
    <3>2. c0[n] = b[n] /\ c0[m] = b[m] + 1
      BY <1>3, <1>4, <1>7, <2>1, <2>3, <2>4
    <3> QED BY <2>2, <3>1, <3>2
  <2>5. CASE n \in {p, y}
    <3>1. Weight(t, n) = 0 /\ Weight(w, n) = 1
      BY <1>1, <1>2, <1>3, <1>4, <2>5 DEF Weight
    <3>2. c0[n] = b[n] + 1 /\ c0[m] = b[m]
      BY <1>1, <1>3, <1>4, <1>7, <2>1, <2>5
    <3> QED BY <2>2, <3>1, <3>2
  <2>6. CASE n # g /\ n \notin {p, y}
    <3>1. Weight(t, n) = Weight(w, n) /\ Weight(t, n) \in Nat
      BY <1>1, <1>2, <2>6 DEF Weight
    <3>2. c0[n] = b[n] /\ c0[m] = b[m]
      BY <1>1, <1>3, <1>4, <1>7, <2>1, <2>6
    <3> QED BY <2>2, <3>1, <3>2
  <2> QED BY <2>4, <2>5, <2>6
<1>10. Heights(w, N, c0)
  BY <1>8, <1>9 DEF Heights
<1>11. NoRedPair(w, N, {g})
  <2> SUFFICES ASSUME NEW n \in N, n # g, w.color[n] = "RED", w.parent[n] # T!Null
               PROVE  w.color[w.parent[n]] = "BLACK"
    BY DEF NoRedPair
  <2> DEFINE m == t.parent[n]
  <2>1. w.parent[n] = m /\ m \in N /\ m \in TreeKeys
    BY <1>1, <1>2
  <2>2. t.color[n] = "RED" /\ n \notin {p, y}
    BY <1>1, <1>2
  <2>3. n = z => m = p
    BY <1>3
  <2>4. n # z => t.color[m] = "BLACK"
    BY <1>1, <2>1, <2>2 DEF NoRedPair
  <2>5. m # g
    <3>1. PICK r \in T!Sides : t.child[r][m] = n
      BY <1>1, <2>1 DEF Shape, Links
    <3> QED BY <1>3, <2>2, <3>1
  <2> HIDE DEF m
  <2>6. w.color[m] = "BLACK"
    BY <1>2, <2>1, <2>3, <2>4, <2>5
  <2> QED BY <2>1, <2>6
<1>12. Blank(w, N)
  BY <1>1, <1>2, <1>3, <1>4 DEF Blank
<1>13. Balanced(w, N, u, c0, {g})
  BY <1>5, <1>10, <1>11, <1>12 DEF Balanced
<1>14. w.root = g \/ w.color[w.root] = "BLACK"
  BY <1>1, <1>2, <1>3
<1>15. w.color[g] = "RED"
  BY <1>1, <1>2, <1>3
<1> QED BY <1>2, <1>13, <1>14, <1>15 DEF Carried

\* A red node on the inner side of its red parent changes places with it: what was wrong at the
\* node is wrong at the parent now.
LEMMA StraighteningKeeps ==
    ASSUME NEW t, NEW N, NEW u, NEW b, NEW z \in N, Balanced(t, N, u, b, {z}), t.color[z] = "RED",
           NEW p, NEW g, NEW s, NEW y, Family(t, N, z, p, g, s, y), t.child[T!Other(s)][p] = z,
           NEW w, IsRotated(w, t, N, s, p, z, t.child[s][z])
    PROVE  /\ \E v : Balanced(w, N, v, b, {p})
           /\ Family(w, N, p, z, g, s, y) /\ w.child[s][z] = p
           /\ w.root = t.root /\ w.value = t.value /\ w.color = t.color
<1> DEFINE o == T!Other(s)
           e == t.child[s][z]
           v == Lowered(t, u, s, p, z, e)
<1>1. /\ t \in T!Trees /\ N \subseteq TreeKeys /\ T!Null \notin N /\ T!Null \notin TreeKeys
      /\ \A n \in TreeKeys : t.color[n] \in {"RED", "BLACK"}
      /\ \A n \in N : t.parent[n] \in N \cup {T!Null}
      /\ Shape(t, N, u) /\ NoRedPair(t, N, {z}) /\ Blank(t, N)
  BY NodesAre DEF Balanced
<1>2. /\ p \in N /\ g \in N /\ s \in T!Sides /\ o \in T!Sides /\ p # z /\ p # g
      /\ t.parent[z] = p /\ t.parent[p] = g /\ t.child[s][g] = p /\ t.child[o][g] = y
      /\ t.color[p] = "RED" /\ t.color[g] = "BLACK"
      /\ t.root # p /\ t.root \in N /\ t.color[t.root] = "BLACK"
      /\ T!Other(s) = o /\ o # s /\ t.child[o][p] = z /\ z # T!Null
      /\ \A r \in T!Sides : r = s \/ r = o
  BY <1>1, SidesAre DEF Family
<1>3. Shape(w, N, v)
  BY <1>1, <1>2, RotationKeeps
<1>4. e = t.child[s][z]
  OBVIOUS
<1> HIDE DEF o, e, v
<1>5. /\ w \in T!Trees /\ w.color = t.color /\ w.value = t.value
      /\ w.root = IF t.root = p THEN z ELSE t.root
      /\ \A n \in TreeKeys :
            w.parent[n] = IF n = p THEN z ELSE IF n = z THEN t.parent[p]
                          ELSE IF n = e THEN p ELSE t.parent[n]
      /\ w.child[s][p] = t.child[s][p] /\ w.child[o][p] = e
      /\ w.child[s][z] = p /\ w.child[o][z] = t.child[o][z]
      /\ \A n \in N \ {p, z} : \A r \in T!Sides :
            w.child[r][n] = IF t.child[r][n] = p THEN z ELSE t.child[r][n]
      /\ \A n \in TreeKeys \ N : \A r \in T!Sides : w.child[r][n] = t.child[r][n]
  BY <1>2, <1>4 DEF IsRotated
<1>6. g # z
  BY <1>2
<1>7. e \in N \cup {T!Null} /\ (e # T!Null => t.parent[e] = z /\ e # z /\ e # p)
  <2>1. e \in N \cup {T!Null} /\ (e # T!Null => t.parent[e] = z)
    BY <1>1, <1>2, <1>4, ChildOf
  <2>2. e # z
    BY <1>1, <1>2, <1>4, AtNode
  <2> QED BY <1>2, <1>6, <2>1, <2>2
<1>8. /\ b \in [N \cup {T!Null} -> Nat] /\ b[T!Null] = 0
      /\ \A n \in N : \A r \in T!Sides : b[n] = b[t.child[r][n]] + Weight(t, n)
  BY DEF Balanced, Heights
<1>9. \A n \in N : Weight(w, n) = Weight(t, n)
  BY <1>5 DEF Weight
<1>10. Weight(t, p) = 0 /\ Weight(t, z) = 0
  BY <1>2 DEF Weight
<1>11. b[p] = b[z] /\ b[p] = b[t.child[s][p]] /\ b[z] = b[e] /\ b[z] = b[t.child[o][z]]
  <2>1. \A m \in N \cup {T!Null} : b[m] \in Nat
    BY <1>8
  <2>2. /\ t.child[s][p] \in N \cup {T!Null} /\ t.child[o][z] \in N \cup {T!Null}
    BY <1>1, <1>2, ChildOf
  <2>3. b[p] = b[z] + 0 /\ b[p] = b[t.child[s][p]] + 0
    BY <1>2, <1>8, <1>10
  <2>4. b[z] = b[e] + 0 /\ b[z] = b[t.child[o][z]] + 0
    BY <1>2, <1>4, <1>8, <1>10
  <2> QED BY <1>2, <1>7, <2>1, <2>2, <2>3, <2>4
<1>12. ASSUME NEW n \in N, NEW r \in T!Sides PROVE b[n] = b[w.child[r][n]] + Weight(w, n)
  <2>1. b[n] = b[t.child[r][n]] + Weight(t, n) /\ b[n] \in Nat
    BY <1>8
  <2>2. CASE n = p
    <3>1. b[n] = b[w.child[r][n]]
      <4>1. CASE r = s
        BY <1>5, <1>11, <2>2, <4>1
      <4>2. CASE r = o
        BY <1>5, <1>11, <2>2, <4>2
      <4> QED BY <1>2, <4>1, <4>2
    <3> QED BY <1>9, <1>10, <2>1, <2>2, <3>1
  <2>3. CASE n = z
    <3>1. b[n] = b[w.child[r][n]]
      <4>1. CASE r = s
        BY <1>5, <1>11, <2>3, <4>1
      <4>2. CASE r = o
        BY <1>5, <1>11, <2>3, <4>2
      <4> QED BY <1>2, <4>1, <4>2
    <3> QED BY <1>9, <1>10, <2>1, <2>3, <3>1
  <2>4. CASE n # p /\ n # z
    <3>1. b[w.child[r][n]] = b[t.child[r][n]]
      BY <1>5, <1>11, <2>4
    <3> QED BY <1>9, <2>1, <3>1
  <2> QED BY <2>2, <2>3, <2>4
<1>13. Heights(w, N, b)
  BY <1>8, <1>12 DEF Heights
<1>14. NoRedPair(w, N, {p})
  <2> SUFFICES ASSUME NEW n \in N, n # p, w.color[n] = "RED", w.parent[n] # T!Null
               PROVE  w.color[w.parent[n]] = "BLACK"
    BY DEF NoRedPair
  <2>1. n \in TreeKeys /\ t.color[n] = "RED"
    BY <1>1, <1>5
  <2>2. CASE n = z
    BY <1>2, <1>5, <2>1, <2>2
  <2>3. CASE n = e
    <3>1. t.parent[n] = z /\ n # z
      BY <1>1, <1>7, <2>3
    <3>2. t.color[z] = "BLACK"
      BY <1>1, <2>1, <3>1 DEF NoRedPair
    <3> QED BY <3>2
  <2>4. CASE n # z /\ n # e
    <3>1. w.parent[n] = t.parent[n]
      BY <1>5, <2>1, <2>4
    <3> QED BY <1>1, <1>5, <2>1, <2>4, <3>1 DEF NoRedPair
  <2> QED BY <2>2, <2>3, <2>4
<1>15. Blank(w, N)
  <2> SUFFICES ASSUME NEW n \in TreeKeys \ N
               PROVE  w.parent[n] = T!Null /\ w.color[n] = "RED" /\ \A r \in T!Sides : w.child[r][n] = T!Null
    BY DEF Blank
  <2>1. n # p /\ n # z /\ n # e
    BY <1>1, <1>2, <1>7
  <2> QED BY <1>1, <1>5, <2>1 DEF Blank
<1>16. Balanced(w, N, v, b, {p})
  BY <1>3, <1>13, <1>14, <1>15 DEF Balanced
<1>17. Family(w, N, p, z, g, s, y)
  <2>1. w.parent[p] = z /\ w.parent[z] = g /\ w.root = t.root
    BY <1>1, <1>2, <1>5
  <2>2. w.child[s][g] = z
    BY <1>2, <1>5, <1>6
  <2>3. w.child[o][g] = y
    <3>1. y # p
      <4>1. \A r \in T!Sides : t.child[r][g] = p => r = s
        BY <1>1, <1>2, ChildIs
      <4> QED BY <1>2, <4>1
    <3> QED BY <1>2, <1>5, <1>6, <3>1
  <2>4. t.root # z
    <3>1. t.color[t.root] # t.color[z]
      BY <1>2
    <3> QED BY <3>1
  <2> QED BY <1>2, <1>5, <1>6, <2>1, <2>2, <2>3, <2>4 DEF Family
<1> QED BY <1>2, <1>5, <1>16, <1>17

\* The black parent of a red node on the outer side takes the place of the grandparent, which is
\* red: nothing is wrong any more.
LEMMA LiftingKeeps ==
    ASSUME NEW t, NEW N, NEW u, NEW b, NEW z \in N, Balanced(t, N, u, b, {z}),
           NEW p, NEW g, NEW s, NEW y, Family(t, N, z, p, g, s, y), t.child[s][p] = z,
           y = T!Null \/ t.color[y] # "RED",
           NEW x, IsRecolored(x, t, {p}, {g}),
           NEW w, IsRotated(w, x, N, T!Other(s), g, p, x.child[T!Other(s)][p])
    PROVE  /\ \E v, h : Balanced(w, N, v, h, {})
           /\ w.root \in N /\ w.value = t.value
<1> DEFINE o == T!Other(s)
           e == x.child[o][p]
           v0 == Lowered(x, u, o, g, p, e)
           c0 == [n \in N \cup {T!Null} |-> IF n = p THEN b[g] ELSE IF n = g THEN b[p] ELSE b[n]]
<1>1. /\ t \in T!Trees /\ N \subseteq TreeKeys /\ T!Null \notin N /\ T!Null \notin TreeKeys
      /\ \A n \in TreeKeys : t.color[n] \in {"RED", "BLACK"}
      /\ \A n \in N : t.parent[n] \in N \cup {T!Null}
      /\ Shape(t, N, u) /\ NoRedPair(t, N, {z}) /\ Blank(t, N)
  BY NodesAre DEF Balanced
<1>2. /\ p \in N /\ g \in N /\ s \in T!Sides /\ o \in T!Sides /\ p # z /\ p # g
      /\ t.parent[z] = p /\ t.parent[p] = g /\ t.child[s][g] = p /\ t.child[o][g] = y
      /\ t.color[p] = "RED" /\ t.color[g] = "BLACK"
      /\ t.root # p /\ t.root \in N /\ t.color[t.root] = "BLACK"
      /\ T!Other(o) = s /\ o # s /\ t.child[s][p] = z /\ p # T!Null
      /\ \A r \in T!Sides : r = s \/ r = o
  BY <1>1, SidesAre DEF Family
<1>3. /\ x \in T!Trees /\ x.root = t.root /\ x.child = t.child /\ x.parent = t.parent
      /\ x.value = t.value
      /\ \A n \in TreeKeys : x.color[n] = IF n = g THEN "RED" ELSE IF n = p THEN "BLACK" ELSE t.color[n]
  BY DEF IsRecolored, SameLinks
<1>4. Shape(x, N, u)
  BY <1>1, <1>3, ShapeOfLinks DEF IsRecolored
<1>5. Shape(w, N, v0)
  <2>1. p = x.child[T!Other(o)][g]
    BY <1>2, <1>3
  <2> QED BY <1>2, <1>4, <2>1, RotationKeeps
<1>6. e = t.child[o][p]
  BY <1>3
<1>7. /\ w \in T!Trees /\ w.color = x.color /\ w.value = t.value
      /\ w.root = IF t.root = g THEN p ELSE t.root
      /\ \A n \in TreeKeys :
            w.parent[n] = IF n = g THEN p ELSE IF n = p THEN t.parent[g]
                          ELSE IF n = e THEN g ELSE t.parent[n]
      /\ w.child[o][g] = t.child[o][g] /\ w.child[s][g] = e
      /\ w.child[o][p] = g /\ w.child[s][p] = t.child[s][p]
      /\ \A n \in N \ {g, p} : \A r \in T!Sides :
            w.child[r][n] = IF t.child[r][n] = g THEN p ELSE t.child[r][n]
      /\ \A n \in TreeKeys \ N : \A r \in T!Sides : w.child[r][n] = t.child[r][n]
  BY <1>2, <1>3 DEF IsRotated
<1> HIDE DEF o, e, v0
<1>8. /\ e \in N \cup {T!Null} /\ (e # T!Null => t.parent[e] = p /\ e # p /\ e # g /\ e # z)
      /\ g # z
  <2>1. e \in N \cup {T!Null} /\ (e # T!Null => t.parent[e] = p)
    BY <1>1, <1>2, <1>6, ChildOf
  <2>2. e # p
    BY <1>1, <1>2, <1>6, AtNode
  <2>3. z # g
    <3>1. AreChildren(t, N, u, g, s, T!Other(s), p, t.child[T!Other(s)][g])
      BY <1>1, <1>2, AtChildren
    <3>2. g \notin u[p] /\ p # T!Null
      BY <1>2, <3>1 DEF AreChildren
    <3>3. z \in u[p] /\ (e # T!Null => e \in u[p])
      BY <1>1, <1>2, <1>6, AtNode
    <3> QED BY <3>2, <3>3
  <2>4. e # T!Null => e # g
    <3>1. AreChildren(t, N, u, g, s, T!Other(s), p, t.child[T!Other(s)][g])
      BY <1>1, <1>2, AtChildren
    <3>2. g \notin u[p] /\ p # T!Null
      BY <1>2, <3>1 DEF AreChildren
    <3>3. z \in u[p] /\ (e # T!Null => e \in u[p])
      BY <1>1, <1>2, <1>6, AtNode
    <3> QED BY <3>2, <3>3
  <2>5. e # z
    <3>1. \A r \in T!Sides : t.child[r][p] = z => r = s
      BY <1>1, <1>2, ChildIs
    <3> QED BY <1>2, <1>6, <3>1
  <2> QED BY <2>1, <2>2, <2>3, <2>4, <2>5
<1>9. /\ b \in [N \cup {T!Null} -> Nat] /\ b[T!Null] = 0
      /\ \A n \in N : \A r \in T!Sides : b[n] = b[t.child[r][n]] + Weight(t, n)
  BY DEF Balanced, Heights
<1>10. y \in N \cup {T!Null} /\ y # g /\ y # p
  <2>1. y \in N \cup {T!Null} /\ y # g
    BY <1>1, <1>2, ChildOf, AtNode
  <2>2. \A r \in T!Sides : t.child[r][g] = p => r = s
    BY <1>1, <1>2, ChildIs
  <2> QED BY <1>2, <2>1, <2>2
<1>11. b[g] = b[p] + 1 /\ b[p] = b[y] /\ b[p] = b[e] /\ b[p] = b[z]
  <2>1. /\ b[g] \in Nat /\ b[p] \in Nat /\ b[y] \in Nat /\ b[e] \in Nat /\ b[z] \in Nat
    BY <1>2, <1>8, <1>9, <1>10
  <2>2. Weight(t, p) = 0 /\ Weight(t, g) = 1
    BY <1>2 DEF Weight
  <2>3. b[g] = b[p] + Weight(t, g) /\ b[g] = b[y] + Weight(t, g)
    BY <1>2, <1>9
  <2>4. b[p] = b[z] + Weight(t, p) /\ b[p] = b[e] + Weight(t, p)
    BY <1>2, <1>6, <1>9
  <2> QED BY <2>1, <2>2, <2>3, <2>4
<1>12. /\ c0 \in [N \cup {T!Null} -> Nat] /\ c0[T!Null] = 0
       /\ \A n \in N \cup {T!Null} : c0[n] = IF n = p THEN b[g] ELSE IF n = g THEN b[p] ELSE b[n]
  BY <1>1, <1>2, <1>9
<1> HIDE DEF c0
<1>13. \A n \in N : n # p /\ n # g => Weight(w, n) = Weight(t, n)
  BY <1>1, <1>3, <1>7 DEF Weight
<1>14. Weight(w, p) = 1 /\ Weight(w, g) = 0
  BY <1>1, <1>2, <1>3, <1>7 DEF Weight
<1>15. ASSUME NEW n \in N, NEW r \in T!Sides PROVE c0[n] = c0[w.child[r][n]] + Weight(w, n)
  <2>0. b[p] \in Nat /\ b[g] \in Nat
    BY <1>2, <1>9
  <2>1. CASE n = p
    <3>1. c0[p] = b[g] /\ c0[g] = b[p] /\ c0[z] = b[z]
      BY <1>2, <1>8, <1>12
    <3>2. c0[w.child[r][p]] = b[p]
      <4>1. CASE r = s
        BY <1>2, <1>7, <1>11, <3>1, <4>1
      <4>2. CASE r = o
        BY <1>7, <3>1, <4>2
      <4> QED BY <1>2, <4>1, <4>2
    <3> QED BY <1>11, <1>14, <2>0, <2>1, <3>1, <3>2
  <2>2. CASE n = g
    <3>1. c0[g] = b[p] /\ c0[y] = b[y] /\ c0[e] = b[e]
      BY <1>1, <1>2, <1>8, <1>10, <1>12
    <3>2. c0[w.child[r][g]] = b[p]
      <4>1. CASE r = s
        BY <1>7, <1>11, <3>1, <4>1
      <4>2. CASE r = o
        BY <1>2, <1>7, <1>11, <3>1, <4>2
      <4> QED BY <1>2, <4>1, <4>2
    <3> QED BY <1>14, <2>0, <2>2, <3>1, <3>2
  <2>3. CASE n # p /\ n # g
    <3> DEFINE m == t.child[r][n]
    <3>1. b[n] = b[m] + Weight(t, n) /\ c0[n] = b[n] /\ Weight(w, n) = Weight(t, n)
      BY <1>9, <1>12, <1>13, <2>3
    <3>2. m \in N \cup {T!Null} /\ (m # T!Null => t.parent[m] = n)
      BY <1>1, ChildOf
    <3>3. w.child[r][n] = IF m = g THEN p ELSE m
      BY <1>7, <2>3
    <3> HIDE DEF m
    <3>4. m # p
      BY <1>2, <2>3, <3>2
    <3>5. c0[w.child[r][n]] = b[m]
      BY <1>2, <1>12, <3>2, <3>3, <3>4
    <3> QED BY <3>1, <3>5
  <2> QED BY <2>1, <2>2, <2>3
<1>16. Heights(w, N, c0)
  BY <1>12, <1>15 DEF Heights
<1>17. NoRedPair(w, N, {})
  <2> SUFFICES ASSUME NEW n \in N, w.color[n] = "RED", w.parent[n] # T!Null
               PROVE  w.color[w.parent[n]] = "BLACK"
    BY DEF NoRedPair
  <2>0. w.color[p] = "BLACK" /\ n \in TreeKeys
    BY <1>1, <1>2, <1>3, <1>7
  <2>1. CASE n = g
    BY <1>7, <2>0, <2>1
  <2>2. CASE n = p
    BY <2>0, <2>2
  <2>3. CASE n # g /\ n # p
    <3>1. t.color[n] = "RED"
      BY <1>3, <1>7, <2>0, <2>3
    <3>2. n # e
      <4>1. SUFFICES ASSUME n = e PROVE FALSE
        OBVIOUS
      <4>2. t.parent[n] = p /\ n # z /\ p # T!Null
        BY <1>1, <1>2, <1>8, <4>1
      <4>3. t.color[p] = "BLACK"
        BY <1>1, <3>1, <4>2 DEF NoRedPair
      <4> QED BY <1>2, <4>3
    <3>3. w.parent[n] = t.parent[n] /\ t.parent[n] \in N
      BY <1>1, <1>7, <2>0, <2>3, <3>2
    <3>4. CASE n = z
      BY <1>2, <2>0, <3>3, <3>4
    <3>5. CASE n # z
      <4>1. t.color[t.parent[n]] = "BLACK"
        BY <1>1, <3>1, <3>3, <3>5 DEF NoRedPair
      <4>2. t.parent[n] # g
        <5>1. n # y
          BY <1>1, <3>1
        <5>2. t.parent[n] = g => \E r \in T!Sides : t.child[r][g] = n
          BY <1>1, <1>2 DEF Shape, Links
        <5> QED BY <1>2, <2>3, <5>1, <5>2
      <4> QED BY <1>1, <1>3, <1>7, <3>3, <4>1, <4>2
    <3> QED BY <3>4, <3>5
  <2> QED BY <2>1, <2>2, <2>3
<1>18. Blank(w, N)
  <2> SUFFICES ASSUME NEW n \in TreeKeys \ N
               PROVE  w.parent[n] = T!Null /\ w.color[n] = "RED" /\ \A r \in T!Sides : w.child[r][n] = T!Null
    BY DEF Blank
  <2>1. n # p /\ n # g /\ n # e
    BY <1>1, <1>2, <1>8
  <2> QED BY <1>1, <1>3, <1>7, <2>1 DEF Blank
<1>19. Balanced(w, N, v0, c0, {})
  BY <1>5, <1>16, <1>17, <1>18 DEF Balanced
<1> QED BY <1>2, <1>7, <1>19

-----------------------------------------------------------------------------
\* Where the loop of fixInsert can be.
Fixable(t, z) ==
    /\ t \in T!Trees /\ z \in TreeKeys
    /\ \A n \in TreeKeys : t.parent[n] # T!Null /\ t.parent[n] # z /\ t.color[t.parent[n]] = "RED"
                              => t.parent[t.parent[n]] # T!Null

\* The domain of FixInsert.
LEMMA UnfixedIs ==
    /\ \A t, z : <<t, z>> \in T!Unfixed <=> Fixable(t, z)
    /\ \A q \in T!Unfixed : q = <<q[1], q[2]>> /\ Fixable(q[1], q[2])
<1>1. ASSUME NEW t, NEW z PROVE <<t, z>> \in T!Unfixed <=> Fixable(t, z)
  BY DEF T!Unfixed, Fixable
<1>2. ASSUME NEW q \in T!Unfixed PROVE q = <<q[1], q[2]>> /\ Fixable(q[1], q[2])
  <2>1. q \in T!Trees \X TreeKeys
    BY DEF T!Unfixed
  <2>2. q = <<q[1], q[2]>>
    BY <2>1
  <2> QED BY <1>1, <2>2
<1> QED BY <1>1, <1>2

\* A red node with a red parent has a grandparent in any tree the loop meets.
LEMMA GrandparentIs ==
    ASSUME NEW t, NEW z, Fixable(t, z), T!RedParent(t, z)
    PROVE  T!Grandparent(t, z) \in TreeKeys
<1>1. /\ t \in T!Trees /\ z \in TreeKeys /\ t.parent \in [TreeKeys -> NullKeys]
      /\ t.parent[z] # T!Null /\ t.color[t.parent[z]] = "RED"
  BY Fields DEF Fixable, T!RedParent
<1>2. t.parent[z] \in TreeKeys /\ t.parent[t.parent[z]] \in NullKeys
  BY <1>1 DEF NullKeys
<1>3. t.parent[t.parent[z]] # T!Null
  <2>1. CASE t.parent[z] = z
    BY <1>1, <2>1
  <2>2. CASE t.parent[z] # z
    BY <1>1, <2>2 DEF Fixable
  <2> QED BY <2>1, <2>2
<1> QED BY <1>2, <1>3 DEF NullKeys, T!Grandparent

\* The recolouring leads to where the loop can be.
LEMMA FixableStep ==
    ASSUME NEW t, NEW z, Fixable(t, z), T!RedParent(t, z)
    PROVE  Fixable(T!Recolored(t, z), T!Grandparent(t, z))
<1> DEFINE g == T!Grandparent(t, z)
           w == T!Recolored(t, z)
<1>1. IsRecolored(w, t, {t.parent[z], T!Uncle(t, z)}, {g})
  BY RecoloredIs DEF Fixable
<1>2. g \in TreeKeys
  BY GrandparentIs
<1> HIDE DEF g, w
<1>3. /\ w \in T!Trees /\ w.parent = t.parent
      /\ \A n \in TreeKeys : n # g /\ w.color[n] = "RED" => t.color[n] = "RED"
  BY <1>1 DEF IsRecolored, SameLinks
<1>4. ASSUME NEW n \in TreeKeys, t.parent[n] # T!Null, t.parent[n] # g, w.color[t.parent[n]] = "RED"
      PROVE  t.parent[t.parent[n]] # T!Null
  <2>1. t.parent[n] \in TreeKeys
    BY <1>4, Fields DEF Fixable, NullKeys
  <2>2. t.color[t.parent[n]] = "RED"
    BY <1>3, <1>4, <2>1
  <2>3. CASE t.parent[n] = z
    BY <2>3 DEF T!RedParent
  <2>4. CASE t.parent[n] # z
    BY <1>4, <2>2, <2>4 DEF Fixable
  <2> QED BY <2>3, <2>4
<1>5. Fixable(w, g)
  BY <1>2, <1>3, <1>4 DEF Fixable
<1> QED BY <1>5 DEF w, g

\* fixInsert as it is defined.
LEMMA FixInsertIs ==
    ASSUME NEW t, NEW z, Fixable(t, z)
    PROVE  T!FixInsert[<<t, z>>] =
              IF ~T!RedParent(t, z) THEN T!RootBlack(t)
              ELSE IF T!RedUncle(t, z) THEN T!FixInsert[<<T!Recolored(t, z), T!Grandparent(t, z)>>]
              ELSE T!RootBlack(T!Lifted(t, z))
<1> DEFINE St == T!Unfixed
           P == {q \in T!Unfixed : T!RedParent(q[1], q[2]) /\ T!RedUncle(q[1], q[2])}
           h == [q \in P |-> <<T!Recolored(q[1], q[2]), T!Grandparent(q[1], q[2])>>]
           out == [q \in St |-> IF ~T!RedParent(q[1], q[2]) THEN T!RootBlack(q[1])
                                ELSE T!RootBlack(T!Lifted(q[1], q[2]))]
<1>1. ASSUME NEW q \in P PROVE <<T!Recolored(q[1], q[2]), T!Grandparent(q[1], q[2])>> \in St
  <2>1. Fixable(q[1], q[2]) /\ T!RedParent(q[1], q[2])
    BY UnfixedIs
  <2>2. Fixable(T!Recolored(q[1], q[2]), T!Grandparent(q[1], q[2]))
    BY <2>1, FixableStep
  <2> QED BY <2>2, UnfixedIs
<1>2. h \in [P -> St] /\ P \in SUBSET St
  BY <1>1
<1>3. PICK f : ByRecursion(f, St, P, h, out)
  <2> HIDE DEF St, P, h, out
  <2> QED BY <1>2, Recursion
<1>4. f = [q \in T!Unfixed |->
              IF ~T!RedParent(q[1], q[2]) THEN T!RootBlack(q[1])
              ELSE IF T!RedUncle(q[1], q[2])
              THEN f[<<T!Recolored(q[1], q[2]), T!Grandparent(q[1], q[2])>>]
              ELSE T!RootBlack(T!Lifted(q[1], q[2]))]
  BY <1>3 DEF ByRecursion
<1>5. T!FixInsert = [q \in T!Unfixed |->
              IF ~T!RedParent(q[1], q[2]) THEN T!RootBlack(q[1])
              ELSE IF T!RedUncle(q[1], q[2])
              THEN T!FixInsert[<<T!Recolored(q[1], q[2]), T!Grandparent(q[1], q[2])>>]
              ELSE T!RootBlack(T!Lifted(q[1], q[2]))]
  BY <1>4, Zenon DEF T!FixInsert
<1>6. <<t, z>> \in T!Unfixed
  BY UnfixedIs
<1> HIDE DEF St, P, h, out
<1> QED BY <1>5, <1>6

\* The loop of fixInsert can be at a node of a tree that is balanced but for it.
LEMMA BalancedFixable ==
    ASSUME NEW t, NEW N, NEW u, NEW b, NEW z \in N, Balanced(t, N, u, b, {z}),
           t.root = z \/ t.color[t.root] = "BLACK"
    PROVE  Fixable(t, z)
<1>1. /\ t \in T!Trees /\ N \subseteq TreeKeys /\ T!Null \notin N /\ T!Null \notin TreeKeys
      /\ \A n \in N : t.parent[n] \in N \cup {T!Null}
      /\ \A n \in N : t.parent[n] = T!Null <=> n = t.root
      /\ Blank(t, N)
  BY NodesAre DEF Balanced
<1>2. ASSUME NEW n \in TreeKeys, t.parent[n] # T!Null, t.parent[n] # z, t.color[t.parent[n]] = "RED"
      PROVE  t.parent[t.parent[n]] # T!Null
  <2>1. n \in N
    BY <1>1, <1>2 DEF Blank
  <2>2. t.parent[n] \in N
    BY <1>1, <1>2, <2>1
  <2>3. t.parent[n] # t.root
    <3>1. "RED" # "BLACK"
      OBVIOUS
    <3> QED BY <1>2, <3>1
  <2> QED BY <1>1, <2>2, <2>3
<1> QED BY <1>1, <1>2 DEF Fixable

\* w has the nodes N and the values of t, and is balanced.
Lifts(w, t, N) ==
    /\ \E v, h : Balanced(w, N, v, h, {})
    /\ w.root \in N /\ w.value = t.value

\* The rotation that ends the loop, with a red node on the outer side.
LEMMA OuterLifted ==
    ASSUME NEW t, NEW N, NEW u, NEW b, NEW z \in N, Balanced(t, N, u, b, {z}),
           NEW p, NEW g, NEW s, NEW y, Family(t, N, z, p, g, s, y), t.child[s][p] = z,
           y = T!Null \/ t.color[y] # "RED",
           NEW x, WritesColors(x, t, p, g)
    PROVE  Lifts(T!Rotated(x, T!Other(s), g), t, N)
<1>1. IsRecolored(x, t, {p}, {g})
  <2>1. t \in T!Trees
    BY DEF Balanced, Shape
  <2> QED BY <2>1, ColorsWritten
<1>2. Shape(x, N, u)
  BY <1>1, ShapeOfLinks DEF IsRecolored, Balanced
<1> DEFINE o == T!Other(s)
           w == T!Rotated(x, o, g)
<1>3. /\ p \in N /\ g \in N /\ s \in T!Sides /\ o \in T!Sides /\ T!Other(o) = s
      /\ t.child[s][g] = p /\ T!Null \notin N
  BY SidesAre, NodesAre DEF Family, Balanced
<1>4. p = x.child[T!Other(o)][g] /\ p # T!Null
  BY <1>1, <1>3 DEF IsRecolored, SameLinks
<1>5. IsRotated(w, x, N, o, g, p, x.child[o][p])
  <2> HIDE DEF o
  <2> QED BY <1>2, <1>3, <1>4, RotationIs
<1>6. Lifts(w, t, N)
  <2> HIDE DEF w
  <2> QED BY <1>1, <1>5, LiftingKeeps DEF Lifts
<1> QED BY <1>6

\* The parent of a red node is lifted where the grandparent was.
LEMMA LiftedKeeps ==
    ASSUME NEW t, NEW N, NEW u, NEW b, NEW z \in N, Balanced(t, N, u, b, {z}), t.color[z] = "RED",
           NEW p, NEW g, NEW s, NEW y, Family(t, N, z, p, g, s, y),
           p = t.parent[z], g = T!Grandparent(t, z), s = T!ParentSide(t, z),
           y = T!Null \/ t.color[y] # "RED"
    PROVE  Lifts(T!Lifted(t, z), t, N)
<1> DEFINE e == T!Straightened(t, s, z, p)
           x == [e.t EXCEPT !.color[e.p] = "BLACK", !.color[g] = "RED"]
           w == T!Rotated(x, T!Other(s), g)
           r == T!Rotated(t, s, p)
<1>1. T!Lifted(t, z) = w
  BY Zenon DEF T!Lifted
<1>2. WritesColors(x, e.t, e.p, g)
  BY Zenon DEF WritesColors
<1>3. e = IF t.child[T!Other(s)][p] = z THEN [t |-> r, p |-> z] ELSE [t |-> t, p |-> p]
  BY Zenon DEF T!Straightened
<1>4. w = T!Rotated(x, T!Other(s), g) /\ r = T!Rotated(t, s, p)
  OBVIOUS
<1> HIDE DEF e, x, w, r
<1>5. /\ p \in N /\ g \in N /\ s \in T!Sides /\ T!Other(s) \in T!Sides /\ T!Null \notin N
      /\ \A a \in T!Sides : a = s \/ a = T!Other(s)
      /\ Shape(t, N, u) /\ t.parent[z] = p
  BY SidesAre, NodesAre DEF Family, Balanced
<1>6. CASE t.child[T!Other(s)][p] = z
  <2>1. e.t = r /\ e.p = z
    BY <1>3, <1>6
  <2>2. IsRotated(r, t, N, s, p, z, t.child[s][z])
    BY <1>4, <1>5, <1>6, RotationIs
  <2>3. /\ \E v : Balanced(r, N, v, b, {p})
        /\ Family(r, N, p, z, g, s, y) /\ r.child[s][z] = p
        /\ r.value = t.value /\ r.color = t.color
    BY <1>6, <2>2, StraighteningKeeps
  <2>4. PICK v : Balanced(r, N, v, b, {p})
    BY <2>3
  <2>5. Lifts(T!Rotated(x, T!Other(s), g), r, N)
    <3>1. WritesColors(x, r, z, g)
      BY <1>2, <2>1
    <3>2. y = T!Null \/ r.color[y] # "RED"
      BY <2>3
    <3> QED BY <1>5, <2>3, <2>4, <3>1, <3>2, OuterLifted
  <2> QED BY <1>1, <1>4, <2>3, <2>5 DEF Lifts
<1>7. CASE t.child[T!Other(s)][p] # z
  <2>1. e.t = t /\ e.p = p
    BY <1>3, <1>7
  <2>2. t.child[s][p] = z
    <3>1. \E a \in T!Sides : t.child[a][p] = z
      BY <1>5 DEF Shape, Links
    <3> QED BY <1>5, <1>7, <3>1
  <2>3. Lifts(T!Rotated(x, T!Other(s), g), t, N)
    <3>1. WritesColors(x, t, p, g)
      BY <1>2, <2>1
    <3> QED BY <2>2, <3>1, OuterLifted
  <2> QED BY <1>1, <1>4, <2>3
<1> QED BY <1>6, <1>7

-----------------------------------------------------------------------------
\* A tree that is balanced but for the red node z, with what is under its nodes.
ToFix(t, N, u, z) ==
    /\ z \in N /\ t.color[z] = "RED" /\ (t.root = z \/ t.color[t.root] = "BLACK")
    /\ \E b : Balanced(t, N, u, b, {z})

\* The same nodes and values in a balanced tree with a black root.
Fixed(w, t, N) == Lifts(w, t, N) /\ w.color[w.root] = "BLACK"

\* The root turns black at the end.
LEMMA BlackAtLast ==
    ASSUME NEW w, NEW t, NEW N, Lifts(w, t, N)
    PROVE  Fixed(T!RootBlack(w), t, N)
<1>1. PICK u, b : Balanced(w, N, u, b, {})
  BY DEF Lifts
<1> DEFINE x == T!RootBlack(w)
<1>2. IsRecolored(x, w, {w.root}, {})
  BY <1>1, RootBlackIs DEF Balanced, Shape
<1> HIDE DEF x
<1>3. /\ \E h : Balanced(x, N, u, h, {})
      /\ x.root = w.root /\ x.color[w.root] = "BLACK" /\ x.value = w.value
  BY <1>1, <1>2, RootBlackened DEF Lifts
<1>4. Fixed(x, t, N)
  BY <1>3 DEF Lifts, Fixed
<1> QED BY <1>4 DEF x

\* fixInsert makes the tree balanced, however far up the red node is carried.
LEMMA FixInsertKeeps ==
    ASSUME NEW N, NEW u, NEW t, NEW z, ToFix(t, N, u, z)
    PROVE  Fixed(T!FixInsert[<<t, z>>], t, N)
<1> DEFINE Wrong(a, n) == ToFix(a, N, u, n) /\ ~Fixed(T!FixInsert[<<a, n>>], a, N)
           Bad == {k \in Nat : \E a, n : Wrong(a, n) /\ k = Cardinality(N \ u[n])}
<1>1. IsFiniteSet(N) /\ N \subseteq TreeKeys
  BY DEF ToFix, Balanced, Shape
<1>2. \A n : IsFiniteSet(N \ u[n]) /\ Cardinality(N \ u[n]) \in Nat
  BY <1>1, FS_Difference, FS_CardinalityType
<1>3. SUFFICES ASSUME Wrong(t, z) PROVE FALSE
  OBVIOUS
<1>4. PICK k \in Bad : \A j \in Bad : k <= j
  <2>1. Cardinality(N \ u[z]) \in Bad
    BY <1>2, <1>3
  <2>2. Bad \in SUBSET Nat
    OBVIOUS
  <2> HIDE DEF Bad
  <2> QED BY <2>1, <2>2, LeastOf
<1>5. PICK a, n : Wrong(a, n) /\ k = Cardinality(N \ u[n])
  OBVIOUS
<1>6. n \in N /\ a.color[n] = "RED" /\ (a.root = n \/ a.color[a.root] = "BLACK")
  BY <1>5 DEF ToFix
<1>7. PICK b : Balanced(a, N, u, b, {n})
  BY <1>5 DEF ToFix
<1>8. /\ a \in T!Trees /\ T!Null \notin N /\ Shape(a, N, u) /\ n \in TreeKeys
      /\ \A m \in N : a.parent[m] = T!Null <=> m = a.root
  BY <1>6, <1>7, NodesAre DEF Balanced
<1>9. Fixable(a, n)
  BY <1>6, <1>7, BalancedFixable
<1> DEFINE w == T!FixInsert[<<a, n>>]
<1>10. w = IF ~T!RedParent(a, n) THEN T!RootBlack(a)
           ELSE IF T!RedUncle(a, n) THEN T!FixInsert[<<T!Recolored(a, n), T!Grandparent(a, n)>>]
           ELSE T!RootBlack(T!Lifted(a, n))
  BY <1>9, FixInsertIs
<1>11. ~Fixed(w, a, N)
  BY <1>5
<1>12. w = T!FixInsert[<<a, n>>]
  OBVIOUS
<1> HIDE DEF w
<1>13. CASE ~T!RedParent(a, n)
  <2>1. w = T!RootBlack(a)
    BY <1>10, <1>13
  <2>2. NoRedPair(a, N, {})
    <3> SUFFICES ASSUME NEW m \in N, a.color[m] = "RED", a.parent[m] # T!Null
                 PROVE  a.color[a.parent[m]] = "BLACK"
      BY DEF NoRedPair
    <3>1. CASE m = n
      <4>1. a.color[a.parent[m]] # "RED"
        BY <1>13, <3>1 DEF T!RedParent
      <4>2. a.parent[m] \in TreeKeys
        BY <1>1, <1>8 DEF Shape, Links
      <4>3. a.color[a.parent[m]] \in {"RED", "BLACK"}
        BY <1>8, <4>2, Fields
      <4> QED BY <4>1, <4>3
    <3>2. CASE m # n
      BY <1>7, <3>2 DEF Balanced, NoRedPair
    <3> QED BY <3>1, <3>2
  <2>3. Balanced(a, N, u, b, {})
    BY <1>7, <2>2 DEF Balanced
  <2>4. a.root \in N
    BY <1>6, <1>8 DEF Shape, Rooted, Under
  <2>5. Lifts(a, a, N)
    BY <2>3, <2>4 DEF Lifts
  <2> QED BY <1>11, <2>1, <2>5, BlackAtLast
<1> DEFINE p == a.parent[n]
           g == T!Grandparent(a, n)
           s == T!ParentSide(a, n)
           y == T!Uncle(a, n)
<1>14. T!RedUncle(a, n) <=> y # T!Null /\ a.color[y] = "RED"
  BY DEF T!RedUncle
<1>15. p = a.parent[n] /\ g = T!Grandparent(a, n) /\ s = T!ParentSide(a, n) /\ y = T!Uncle(a, n)
  OBVIOUS
<1>16. T!RedParent(a, n) => Family(a, N, n, p, g, s, y)
  BY <1>6, <1>7, FamilyIs
<1> HIDE DEF p, g, s, y
<1>17. CASE T!RedParent(a, n) /\ T!RedUncle(a, n)
  <2> DEFINE x == T!Recolored(a, n)
  <2>1. IsRecolored(x, a, {p, y}, {g})
    BY <1>8, <1>15, RecoloredIs
  <2>2. w = T!FixInsert[<<x, g>>]
    BY <1>10, <1>15, <1>17
  <2> HIDE DEF x
  <2>3. /\ \E h : Balanced(x, N, u, h, {g})
        /\ x.value = a.value /\ x.color[g] = "RED" /\ (x.root = g \/ x.color[x.root] = "BLACK")
    <3>1. Carried(x, a, N, u, g)
      BY <1>6, <1>7, <1>14, <1>16, <1>17, <2>1, RecolouringKeeps
    <3> QED BY <3>1 DEF Carried
  <2>4. g \in N /\ s \in T!Sides /\ a.child[s][g] = p /\ a.parent[n] = p /\ p \in N
    BY <1>16, <1>17 DEF Family
  <2>5. ToFix(x, N, u, g)
    BY <2>3, <2>4 DEF ToFix
  <2>6. ~Fixed(T!FixInsert[<<x, g>>], x, N)
    BY <1>11, <2>2, <2>3 DEF Fixed, Lifts
  <2>7. Cardinality(N \ u[g]) \in Bad
    BY <1>2, <2>5, <2>6
  <2>8. u[n] \subseteq u[p] /\ u[p] \subseteq u[g] /\ g \in u[g] /\ g \notin u[p]
    <3>1. PICK r \in T!Sides : a.child[r][p] = n
      BY <1>6, <1>8, <2>4 DEF Shape, Links
    <3>2. u[n] \subseteq u[p]
      BY <1>8, <2>4, <3>1, AtNode
    <3>3. u[p] \subseteq u[g] /\ g \in u[g] /\ g \notin u[p]
      BY <1>8, <2>4, AtNode
    <3> QED BY <3>2, <3>3
  <2>9. Cardinality(N \ u[g]) < Cardinality(N \ u[n])
    <3>1. N \ u[g] \subseteq N \ u[n] /\ g \in N \ u[n] /\ g \notin N \ u[g]
      BY <2>4, <2>8
    <3> DEFINE X == N \ u[g]
               Y == N \ u[n]
    <3>2. IsFiniteSet(Y) /\ Cardinality(X) \in Nat /\ Cardinality(Y) \in Nat /\ X \subseteq Y /\ X # Y
      BY <1>2, <3>1
    <3> HIDE DEF X, Y
    <3>3. Cardinality(X) <= Cardinality(Y) /\ Cardinality(X) # Cardinality(Y)
      BY <3>2, FS_Subset
    <3>4. Cardinality(X) < Cardinality(Y)
      BY <3>2, <3>3
    <3> QED BY <3>4 DEF X, Y
  <2>10. k <= Cardinality(N \ u[g])
    <3> HIDE DEF Bad
    <3> QED BY <1>4, <2>7
  <2>11. Cardinality(N \ u[g]) \in Nat /\ Cardinality(N \ u[n]) \in Nat
    BY <1>2
  <2> HIDE DEF Bad
  <2> QED BY <1>5, <2>9, <2>10, <2>11
<1>18. CASE T!RedParent(a, n) /\ ~T!RedUncle(a, n)
  <2>1. w = T!RootBlack(T!Lifted(a, n))
    BY <1>10, <1>18
  <2>2. y = T!Null \/ a.color[y] # "RED"
    BY <1>14, <1>18
  <2>3. Lifts(T!Lifted(a, n), a, N)
    BY <1>6, <1>7, <1>15, <1>16, <1>18, <2>2, LiftedKeeps
  <2> QED BY <1>11, <2>1, <2>3, BlackAtLast
<1> QED BY <1>13, <1>17, <1>18

-----------------------------------------------------------------------------
\* The side of n on which k is looked for.
SideOf(k, n) == IF k < n THEN "left" ELSE "right"

\* The search for k has come to n: k is on the same side as n of every node that n is below.
Heading(t, N, u, k, n) ==
    \A m \in N : \A s \in T!Sides : n \in u[t.child[s][m]] => Before(s, k, m)

\* The search for k ends at n: its node, or the node that is to be its parent.
Sought(t, N, u, k, n) ==
    /\ n \in N /\ Heading(t, N, u, k, n)
    /\ n = k \/ (k \notin N /\ t.child[SideOf(k, n)][n] = T!Null)

\* The search as it is defined.
LEMMA DescendIs ==
    ASSUME tree \in T!Trees, NEW k \in TreeKeys, NEW n \in TreeKeys
    PROVE  T!Descend[<<k, n>>] = IF n = k \/ T!Toward(k, n) = T!Null THEN n
                                 ELSE T!Descend[<<k, T!Toward(k, n)>>]
<1> DEFINE St == TreeKeys \X TreeKeys
           P == {q \in St : ~(q[2] = q[1] \/ T!Toward(q[1], q[2]) = T!Null)}
           h == [q \in P |-> <<q[1], T!Toward(q[1], q[2])>>]
           out == [q \in St |-> q[2]]
<1>1. ASSUME NEW q \in P PROVE <<q[1], T!Toward(q[1], q[2])>> \in St
  <2>1. q[1] \in TreeKeys /\ q[2] \in TreeKeys /\ T!Toward(q[1], q[2]) # T!Null
    OBVIOUS
  <2>2. T!Toward(q[1], q[2]) \in NullKeys
    <3>1. tree.child["left"][q[2]] \in NullKeys /\ tree.child["right"][q[2]] \in NullKeys
      BY <2>1, Fields DEF T!Sides
    <3> QED BY <3>1 DEF T!Toward
  <2> QED BY <2>1, <2>2 DEF NullKeys
<1>2. h \in [P -> St] /\ P \in SUBSET St
  BY <1>1
<1>3. PICK f : ByRecursion(f, St, P, h, out)
  <2> HIDE DEF St, P, h, out
  <2> QED BY <1>2, Recursion
<1>4. f = [q \in TreeKeys \X TreeKeys |->
              IF q[2] = q[1] \/ T!Toward(q[1], q[2]) = T!Null THEN q[2]
              ELSE f[<<q[1], T!Toward(q[1], q[2])>>]]
  BY <1>3 DEF ByRecursion
<1>5. T!Descend = [q \in TreeKeys \X TreeKeys |->
              IF q[2] = q[1] \/ T!Toward(q[1], q[2]) = T!Null THEN q[2]
              ELSE T!Descend[<<q[1], T!Toward(q[1], q[2])>>]]
  BY <1>4, Zenon DEF T!Descend
<1> HIDE DEF St, P, h, out
<1> QED BY <1>5

\* A step of the search goes to the side of the key.
LEMMA HeadingStep ==
    ASSUME NEW t, NEW N, NEW u, Shape(t, N, u), NEW k \in TreeKeys, NEW n \in N, n # k,
           Heading(t, N, u, k, n), k \in N => k \in u[n],
           NEW s, s = SideOf(k, n), NEW m, m = t.child[s][n]
    PROVE  /\ m # T!Null => Heading(t, N, u, k, m)
           /\ k \in N => k \in u[m]
<1>1. /\ s \in T!Sides /\ Before(s, k, n) /\ n \in TreeKeys /\ T!Null \notin N
      /\ T!Other(s) \in T!Sides
  <2>1. n \in TreeKeys /\ T!Null \notin N
    BY NodesAre
  <2>2. n \in Int /\ k \in Int
    BY <2>1, TreeAssumption
  <2>3. s \in T!Sides
    BY DEF SideOf, T!Sides
  <2>4. Before(s, k, n)
    BY <2>2 DEF SideOf, Before
  <2> QED BY <2>1, <2>3, <2>4, SidesAre
<1>2. AreChildren(t, N, u, n, s, T!Other(s), m, t.child[T!Other(s)][n])
  BY <1>1, AtChildren
<1>3. ASSUME m # T!Null, NEW x \in N, NEW r \in T!Sides, m \in u[t.child[r][x]]
      PROVE  Before(r, k, x)
  <2> DEFINE e == t.child[r][x]
  <2>1. e \in N \cup {T!Null} /\ (e # T!Null => t.parent[e] = x)
    BY ChildOf
  <2>2. m \in N /\ t.parent[m] = n
    BY <1>2, <1>3 DEF AreChildren
  <2>3. CASE e = m
    <3>1. x = n /\ r = s
      BY <1>1, <2>2, <2>3, ChildIs
    <3> QED BY <1>1, <3>1
  <2>4. CASE e # m
    <3>1. e # T!Null
      BY <1>3 DEF Shape, Under
    <3>2. e \in N /\ m \in u[e]
      BY <1>3, <2>1, <3>1
    <3>3. n \in u[e]
      <4> HIDE DEF e
      <4> QED BY <2>2, <2>4, <3>2, UnderIs
    <3> QED BY <3>3 DEF Heading
  <2> QED BY <2>3, <2>4
<1>4. ASSUME k \in N PROVE k \in u[m]
  <2>1. u[n] = {n} \cup u[m] \cup u[t.child[T!Other(s)][n]]
    BY <1>2 DEF AreChildren
  <2>2. k \notin u[t.child[T!Other(s)][n]]
    <3>1. SUFFICES ASSUME k \in u[t.child[T!Other(s)][n]] PROVE FALSE
      OBVIOUS
    <3>2. Before(T!Other(s), k, n)
      BY <1>2, <3>1 DEF AreChildren
    <3>3. Before(s, n, k)
      BY <1>1, <3>2, OrderIs
    <3>4. Before(s, k, k)
      BY <1>1, <3>3, OrderIs
    <3> QED BY <1>1, <3>4, OrderIs
  <2> QED BY <1>4, <2>1, <2>2
<1> QED BY <1>3, <1>4 DEF Heading

\* The search ends at the key, or where it belongs.
LEMMA SearchEnds ==
    ASSUME NEW N, NEW u, Shape(tree, N, u), NEW k \in TreeKeys, tree.root # T!Null
    PROVE  Sought(tree, N, u, k, T!Descend[<<k, tree.root>>])
<1> DEFINE On(n) == Heading(tree, N, u, k, n) /\ (k \in N => k \in u[n])
           G == {n \in N : On(n) => Sought(tree, N, u, k, T!Descend[<<k, n>>])}
<1>1. tree \in T!Trees /\ N \subseteq TreeKeys /\ T!Null \notin N
  BY NodesAre
<1>2. ASSUME NEW n \in N, \A s \in T!Sides : tree.child[s][n] # T!Null => tree.child[s][n] \in G
      PROVE  n \in G
  <2> SUFFICES ASSUME On(n) PROVE Sought(tree, N, u, k, T!Descend[<<k, n>>])
    OBVIOUS
  <2> DEFINE m == tree.child[SideOf(k, n)][n]
  <2>1. T!Toward(k, n) = m
    BY DEF T!Toward, SideOf
  <2>2. T!Descend[<<k, n>>] = IF n = k \/ m = T!Null THEN n ELSE T!Descend[<<k, m>>]
    BY <1>1, <2>1, DescendIs
  <2>3. SideOf(k, n) \in T!Sides
    BY DEF SideOf, T!Sides
  <2>4. CASE n = k
    BY <2>2, <2>4 DEF Sought
  <2>5. n # k => /\ m # T!Null => Heading(tree, N, u, k, m)
                 /\ k \in N => k \in u[m]
    BY HeadingStep
  <2>6. CASE n # k /\ m = T!Null
    <3>1. k \notin N
      BY <2>5, <2>6 DEF Shape, Under
    <3> QED BY <2>2, <2>6, <3>1 DEF Sought
  <2>7. CASE n # k /\ m # T!Null
    <3>1. m \in G
      BY <1>2, <2>3, <2>7
    <3> HIDE DEF m
    <3>2. On(m)
      BY <2>5, <2>7
    <3> QED BY <2>2, <2>7, <3>1, <3>2
  <2> QED BY <2>4, <2>6, <2>7
<1>3. N \subseteq G
  <2> HIDE DEF G
  <2> QED BY <1>2, TreeInduction
<1>4. tree.root \in N /\ u[tree.root] = N
  BY DEF Shape, Rooted
<1>5. Heading(tree, N, u, k, tree.root)
  <2> SUFFICES ASSUME NEW m \in N, NEW s \in T!Sides, tree.root \in u[tree.child[s][m]] PROVE FALSE
    BY DEF Heading
  <2>1. tree.child[s][m] \in N
    <3>1. tree.child[s][m] \in N \cup {T!Null}
      BY ChildOf
    <3> QED BY <3>1 DEF Shape, Under
  <2>2. N \subseteq u[tree.child[s][m]]
    BY <1>4, <2>1, UnderIs
  <2>3. m \notin u[tree.child[s][m]]
    BY AtNode
  <2> QED BY <2>2, <2>3
<1> QED BY <1>3, <1>4, <1>5

-----------------------------------------------------------------------------
\* A value is written; the value of k has become v.
WritesValue(w, t, k, v) == w = [t EXCEPT !.value[k] = v]
Valued(w, t, k, v) ==
    /\ w \in T!Trees /\ SameLinks(w, t) /\ w.color = t.color
    /\ \A n \in TreeKeys : w.value[n] = IF n = k THEN v ELSE t.value[n]

\* The value of a key written.
LEMMA ValueWritten ==
    ASSUME NEW t \in T!Trees, NEW k \in TreeKeys, NEW v \in TreeValues \cup {T!Default},
           NEW w, WritesValue(w, t, k, v)
    PROVE  Valued(w, t, k, v)
<1> DEFINE va == [t.value EXCEPT ![k] = v]
<1>1. w = [root |-> t.root, child |-> t.child, parent |-> t.parent, color |-> t.color, value |-> va]
  <2>1. w = [t EXCEPT !.value[k] = v]
    BY DEF WritesValue
  <2> QED BY <2>1, Fields
<1>2. va \in [TreeKeys -> TreeValues \cup {T!Default}] /\ \A m \in TreeKeys : va[m] = IF m = k THEN v ELSE t.value[m]
  BY Fields
<1> HIDE DEF va
<1>3. w \in T!Trees
  BY <1>1, <1>2, Fields DEF T!Trees, NullKeys
<1>4. w.value = va /\ SameLinks(w, t) /\ w.color = t.color
  BY <1>1 DEF SameLinks
<1> QED BY <1>2, <1>3, <1>4 DEF Valued

\* A parent pointer is written.
WritesParent(w, t, n, m) == w = [t EXCEPT !.parent[n] = m]

\* A parent pointer written, in terms of the fields.
LEMMA ParentWritten ==
    ASSUME NEW t \in T!Trees, NEW n \in TreeKeys, NEW m \in NullKeys, NEW w, WritesParent(w, t, n, m)
    PROVE  /\ w \in T!Trees /\ SameButParent(w, t)
           /\ \A x \in TreeKeys : w.parent[x] = IF x = n THEN m ELSE t.parent[x]
<1> DEFINE v == [t EXCEPT !.parent[n] = m]
<1>1. w = v
  BY DEF WritesParent
<1>2. /\ v \in T!Trees /\ SameButParent(v, t)
      /\ \A x \in TreeKeys : v.parent[x] = IF x = n THEN m ELSE t.parent[x]
  BY ParentSet
<1> HIDE DEF v
<1> QED BY <1>1, <1>2

\* The new node k under y, or at the root of an empty tree.
IsAttached(w, t, k, v, y) ==
    /\ w \in T!Trees /\ w.color = t.color
    /\ \A n \in TreeKeys : w.value[n] = IF n = k THEN v ELSE t.value[n]
    /\ t.root = T!Null => w.root = k /\ w.child = t.child /\ w.parent = t.parent
    /\ t.root # T!Null =>
          /\ w.root = t.root
          /\ \A n \in TreeKeys : w.parent[n] = IF n = k THEN y ELSE t.parent[n]
          /\ \A s \in T!Sides : \A n \in TreeKeys :
                w.child[s][n] = IF s = SideOf(k, y) /\ n = y THEN k ELSE t.child[s][n]

\* insertNode writes the pointers of a new node.
LEMMA AttachedIs ==
    ASSUME tree \in T!Trees, NEW k \in TreeKeys, NEW v \in TreeValues \cup {T!Default},
           NEW y, y = T!Descend[<<k, tree.root>>], tree.root # T!Null => y \in TreeKeys
    PROVE  IsAttached(T!Attached(k, v), tree, k, v, y)
<1> DEFINE t0 == [tree EXCEPT !.value[k] = v]
           t1 == [t0 EXCEPT !.parent[k] = y]
           t2 == [t1 EXCEPT !.child[SideOf(k, y)][y] = k]
           t3 == [t0 EXCEPT !.root = k]
           w == T!Attached(k, v)
<1>1. w = IF tree.root = T!Null THEN t3 ELSE t2
  <2>1. t2 = [t0 EXCEPT !.parent[k] = y, !.child[SideOf(k, y)][y] = k]
    OBVIOUS
  <2> QED BY <2>1, Zenon DEF T!Attached, SideOf
<1>2. WritesValue(t0, tree, k, v) /\ WritesParent(t1, t0, k, y) /\ WritesChild(t2, t1, SideOf(k, y), y, k)
  BY Zenon DEF WritesValue, WritesParent, WritesChild
<1>3. t3 = [t0 EXCEPT !.root = k]
  OBVIOUS
<1>4. k \in NullKeys
  BY DEF NullKeys
<1> SUFFICES IsAttached(w, tree, k, v, y)
  OBVIOUS
<1> HIDE DEF t0, t1, t2, w
<1>5. Valued(t0, tree, k, v)
  BY <1>2, ValueWritten
<1>6. CASE tree.root = T!Null
  <2>1. /\ t3 \in T!Trees /\ t3.root = k /\ t3.child = t0.child /\ t3.parent = t0.parent
        /\ t3.color = t0.color /\ t3.value = t0.value
    <3>1. t0 \in T!Trees
      BY <1>5 DEF Valued
    <3> QED BY <1>4, <3>1, RootSet
  <2> HIDE DEF t3
  <2>2. w = t3
    BY <1>1, <1>6
  <2> QED BY <1>5, <1>6, <2>1, <2>2 DEF Valued, SameLinks, IsAttached
<1>7. CASE tree.root # T!Null
  <2> HIDE DEF t3
  <2>1. y \in TreeKeys /\ y \in NullKeys
    BY <1>7 DEF NullKeys
  <2>2. /\ t1 \in T!Trees /\ SameButParent(t1, t0)
        /\ \A n \in TreeKeys : t1.parent[n] = IF n = k THEN y ELSE t0.parent[n]
    <3>1. t0 \in T!Trees
      BY <1>5 DEF Valued
    <3> QED BY <1>2, <2>1, <3>1, ParentWritten
  <2>3. /\ t2 \in T!Trees /\ SameButChild(t2, t1)
        /\ \A s \in T!Sides : \A n \in TreeKeys :
              t2.child[s][n] = IF s = SideOf(k, y) /\ n = y THEN k ELSE t1.child[s][n]
    <3>1. SideOf(k, y) \in T!Sides
      BY DEF SideOf, T!Sides
    <3> QED BY <1>2, <1>4, <2>1, <2>2, <3>1, ChildWritten
  <2>4. w = t2
    BY <1>1, <1>7
  <2>5. /\ t0.root = tree.root /\ t0.child = tree.child /\ t0.parent = tree.parent /\ t0.color = tree.color
        /\ \A n \in TreeKeys : t0.value[n] = IF n = k THEN v ELSE tree.value[n]
    BY <1>5 DEF Valued, SameLinks
  <2>6. /\ t2.root = tree.root /\ t2.color = tree.color /\ t2.value = t0.value
        /\ t2.parent = t1.parent /\ t1.child = tree.child
    BY <2>2, <2>3, <2>5 DEF SameButParent, SameButChild
  <2> QED BY <1>7, <2>2, <2>3, <2>4, <2>5, <2>6 DEF IsAttached
<1> QED BY <1>6, <1>7

\* A red node attached where the search has ended: the tree is balanced but for it.
LEMMA AttachedKeeps ==
    ASSUME NEW t, NEW N, NEW u, NEW b, Balanced(t, N, u, b, {}),
           t.root # T!Null => t.color[t.root] = "BLACK",
           NEW k \in TreeKeys, k \notin N, NEW v, NEW y,
           t.root # T!Null => Sought(t, N, u, k, y),
           NEW w, IsAttached(w, t, k, v, y)
    PROVE  \E x : ToFix(w, N \cup {k}, x, k)
<1>1. /\ t \in T!Trees /\ N \subseteq TreeKeys /\ T!Null \notin N /\ T!Null \notin TreeKeys
      /\ \A n \in N : t.parent[n] \in N \cup {T!Null}
      /\ \A n \in N : t.parent[n] = T!Null <=> n = t.root
      /\ Shape(t, N, u) /\ NoRedPair(t, N, {}) /\ Blank(t, N)
  BY NodesAre DEF Balanced
<1>2. /\ w \in T!Trees /\ w.color = t.color
      /\ t.root = T!Null => w.root = k /\ w.child = t.child /\ w.parent = t.parent
      /\ t.root # T!Null =>
            /\ w.root = t.root
            /\ \A n \in TreeKeys : w.parent[n] = IF n = k THEN y ELSE t.parent[n]
            /\ \A s \in T!Sides : \A n \in TreeKeys :
                  w.child[s][n] = IF s = SideOf(k, y) /\ n = y THEN k ELSE t.child[s][n]
  BY DEF IsAttached
<1>3. t.parent[k] = T!Null /\ t.color[k] = "RED" /\ \A s \in T!Sides : t.child[s][k] = T!Null
  BY <1>1 DEF Blank
<1>4. /\ u \in [N \cup {T!Null} -> SUBSET N] /\ u[T!Null] = {} /\ IsFiniteSet(N)
      /\ t.root \in N \cup {T!Null} /\ u[t.root] = N
  BY <1>1 DEF Shape, Under, Rooted
<1>5. /\ b \in [N \cup {T!Null} -> Nat] /\ b[T!Null] = 0
      /\ \A n \in N : \A s \in T!Sides : b[n] = b[t.child[s][n]] + Weight(t, n)
  BY DEF Balanced, Heights
<1>6. k # T!Null /\ N \cup {k} \subseteq TreeKeys /\ IsFiniteSet(N \cup {k})
  BY <1>1, <1>4, FS_AddElement
<1> DEFINE M == N \cup {k}
           x == [n \in M \cup {T!Null} |->
                    IF n = k THEN {k} ELSE IF t.root # T!Null /\ y \in u[n] THEN u[n] \cup {k} ELSE u[n]]
           h == [n \in M \cup {T!Null} |-> IF n = k THEN 0 ELSE b[n]]
<1>7. /\ x \in [M \cup {T!Null} -> SUBSET M]
      /\ x[k] = {k} /\ x[T!Null] = {}
      /\ \A n \in N \cup {T!Null} : x[n] = IF t.root # T!Null /\ y \in u[n] THEN u[n] \cup {k} ELSE u[n]
  <2>1. \A n \in N \cup {T!Null} : n # k /\ u[n] \subseteq N
    BY <1>4, <1>6
  <2>2. x[T!Null] = {}
    BY <1>4, <1>6
  <2> QED BY <2>1, <2>2
<1>8. /\ h \in [M \cup {T!Null} -> Nat] /\ h[k] = 0 /\ h[T!Null] = 0
      /\ \A n \in N \cup {T!Null} : h[n] = b[n]
  BY <1>5, <1>6
<1> HIDE DEF x, h
<1>9. /\ Weight(w, k) = 0 /\ \A n \in N : Weight(w, n) = Weight(t, n)
  BY <1>2, <1>3 DEF Weight
<1>10. CASE t.root = T!Null
  <2>1. N = {} /\ M = {k}
    BY <1>4, <1>10
  <2>2. /\ w.root = k /\ w.parent[k] = T!Null /\ w.color[k] = "RED"
        /\ \A s \in T!Sides : w.child[s][k] = T!Null
    BY <1>2, <1>3, <1>10
  <2>3. Under(w, M, x)
    BY <1>7, <2>1, <2>2, SidesAre DEF Under
  <2>4. Ordered(w, M, x) /\ Links(w, M) /\ Rooted(w, M, x)
    BY <1>6, <1>7, <2>1, <2>2 DEF Ordered, Links, Rooted
  <2>5. Shape(w, M, x)
    BY <1>2, <1>6, <2>3, <2>4 DEF Shape
  <2>6. Heights(w, M, h)
    BY <1>8, <1>9, <2>1, <2>2 DEF Heights
  <2>7. NoRedPair(w, M, {k})
    BY <2>1 DEF NoRedPair
  <2>8. Blank(w, M)
    BY <1>1, <1>2, <1>10 DEF Blank
  <2>9. Balanced(w, M, x, h, {k})
    BY <2>5, <2>6, <2>7, <2>8 DEF Balanced
  <2> QED BY <2>2, <2>9 DEF ToFix
<1>11. CASE t.root # T!Null
  <2> DEFINE s == SideOf(k, y)
             o == T!Other(s)
  <2>1. /\ y \in N /\ y # k /\ Heading(t, N, u, k, y) /\ t.child[s][y] = T!Null
    BY <1>11 DEF Sought
  <2>2. /\ s \in T!Sides /\ o \in T!Sides /\ s # o /\ T!Other(o) = s /\ T!Other(s) = o
        /\ \A r \in T!Sides : (r = s \/ r = o) /\ T!Other(r) \in T!Sides
    <3>1. s \in T!Sides
      BY DEF SideOf, T!Sides
    <3> HIDE DEF s
    <3> QED BY <3>1, SidesAre
  <2>3. Before(s, k, y)
    <3>1. k \in Int /\ y \in Int
      BY <1>1, <2>1, TreeAssumption
    <3> QED BY <2>1, <3>1 DEF SideOf, Before
  <2>4. s = SideOf(k, y)
    OBVIOUS
  <2> HIDE DEF s, o
  <2>5. /\ w.root = t.root /\ t.root \in N
        /\ \A n \in TreeKeys : w.parent[n] = IF n = k THEN y ELSE t.parent[n]
        /\ \A r \in T!Sides : \A n \in TreeKeys :
              w.child[r][n] = IF r = s /\ n = y THEN k ELSE t.child[r][n]
    BY <1>2, <1>4, <1>11, <2>4
  <2>6. \A n \in N \cup {T!Null} : x[n] = IF y \in u[n] THEN u[n] \cup {k} ELSE u[n]
    BY <1>7, <1>11
  <2>7. ASSUME NEW n \in N, NEW r \in T!Sides
        PROVE  /\ t.child[r][n] \in N \cup {T!Null} /\ (t.child[r][n] # T!Null => t.parent[t.child[r][n]] = n)
               /\ u[n] = {n} \cup u[t.child[r][n]] \cup u[t.child[T!Other(r)][n]]
               /\ n \notin u[t.child[r][n]] /\ n \in u[n]
    BY <1>1, ChildOf, AtNode
  <2>8. x[y] = u[y] \cup {k} /\ x[t.child[o][y]] = u[t.child[o][y]] /\ u[y] = {y} \cup u[t.child[o][y]]
    <3>1. u[y] = {y} \cup u[t.child[s][y]] \cup u[t.child[o][y]] /\ y \in u[y]
      BY <2>1, <2>2, <2>7
    <3>2. t.child[o][y] \in N \cup {T!Null} /\ y \notin u[t.child[o][y]]
      BY <2>1, <2>2, <2>7
    <3> QED BY <1>4, <2>1, <2>6, <3>1, <3>2
  <2>9. Under(w, M, x)
    <3>1. ASSUME NEW n \in M, NEW r \in T!Sides
          PROVE  x[n] = {n} \cup x[w.child[r][n]] \cup x[w.child[T!Other(r)][n]]
      <4>1. CASE n = k
        <5>1. w.child[r][k] = T!Null /\ w.child[T!Other(r)][k] = T!Null
          BY <1>3, <2>1, <2>2, <2>5
        <5> QED BY <1>7, <4>1, <5>1
      <4>2. CASE n = y
        <5>1. w.child[s][y] = k /\ w.child[o][y] = t.child[o][y]
          BY <1>1, <2>1, <2>2, <2>5
        <5>2. x[y] = {y} \cup x[w.child[s][y]] \cup x[w.child[o][y]]
          BY <1>7, <2>8, <5>1
        <5> QED BY <2>2, <4>2, <5>2
      <4>3. CASE n # k /\ n # y
        <5> DEFINE e == t.child[r][n]
                   d == t.child[T!Other(r)][n]
        <5>1. n \in N /\ n \in TreeKeys
          BY <1>1, <4>3
        <5>2. w.child[r][n] = e /\ w.child[T!Other(r)][n] = d
          BY <2>2, <2>5, <4>3, <5>1
        <5>3. e \in N \cup {T!Null} /\ d \in N \cup {T!Null} /\ u[n] = {n} \cup u[e] \cup u[d]
          BY <2>2, <2>7, <5>1
        <5> HIDE DEF e, d
        <5>4. /\ x[e] = (IF y \in u[e] THEN u[e] \cup {k} ELSE u[e])
              /\ x[d] = (IF y \in u[d] THEN u[d] \cup {k} ELSE u[d])
              /\ x[n] = (IF y \in u[n] THEN u[n] \cup {k} ELSE u[n])
          BY <2>6, <5>1, <5>3
        <5>5. y \in u[n] <=> y \in u[e] \/ y \in u[d]
          BY <4>3, <5>3
        <5>6. x[n] = {n} \cup x[e] \cup x[d]
          BY <5>3, <5>4, <5>5
        <5> QED BY <5>2, <5>6
      <4> QED BY <4>1, <4>2, <4>3
    <3> QED BY <1>7, <3>1 DEF Under
  <2>10. Ordered(w, M, x)
    <3> SUFFICES ASSUME NEW n \in M, NEW r \in T!Sides, NEW m \in x[w.child[r][n]]
                 PROVE  Before(r, m, n)
      BY DEF Ordered
    <3>1. CASE n = k
      <4>1. w.child[r][k] = T!Null
        BY <1>3, <2>1, <2>5
      <4> QED BY <1>7, <3>1, <4>1
    <3>2. CASE n = y /\ r = s
      <4>1. m = k
        BY <1>1, <1>7, <2>1, <2>5, <3>2
      <4> QED BY <2>3, <3>2, <4>1
    <3>3. CASE n # k /\ ~(n = y /\ r = s)
      <4> DEFINE e == t.child[r][n]
      <4>1. n \in N /\ w.child[r][n] = e /\ e \in N \cup {T!Null}
        BY <1>1, <2>5, <2>7, <3>3
      <4>2. m \in u[e] => Before(r, m, n)
        BY <1>1, <4>1 DEF Shape, Ordered
      <4>3. y \in u[e] => Before(r, k, n)
        BY <2>1, <4>1 DEF Heading
      <4> HIDE DEF e
      <4>4. m \in u[e] \/ (m = k /\ y \in u[e])
        BY <2>6, <4>1
      <4> QED BY <4>2, <4>3, <4>4
    <3> QED BY <3>1, <3>2, <3>3
  <2>11. Links(w, M)
    <3>1. ASSUME NEW n \in M, NEW r \in T!Sides
          PROVE  /\ w.child[r][n] \in M \cup {T!Null}
                 /\ w.child[r][n] # T!Null => w.parent[w.child[r][n]] = n
      <4>1. CASE n = k
        BY <1>3, <2>1, <2>5, <4>1
      <4>2. CASE n = y /\ r = s
        <5>1. w.child[r][n] = k
          BY <1>1, <2>1, <2>5, <4>2
        <5> QED BY <2>5, <4>2, <5>1
      <4>3. CASE n # k /\ ~(n = y /\ r = s)
        <5> DEFINE e == t.child[r][n]
        <5>1. n \in N /\ w.child[r][n] = e /\ e \in N \cup {T!Null} /\ (e # T!Null => t.parent[e] = n)
          BY <1>1, <2>5, <2>7, <4>3
        <5> HIDE DEF e
        <5> QED BY <1>1, <2>5, <5>1
      <4> QED BY <4>1, <4>2, <4>3
    <3>2. ASSUME NEW n \in M
          PROVE  /\ w.parent[n] = T!Null => n = w.root
                 /\ w.parent[n] # T!Null => w.parent[n] \in M /\ \E r \in T!Sides : w.child[r][w.parent[n]] = n
      <4>1. CASE n = k
        <5>1. w.parent[n] = y /\ y # T!Null /\ w.child[s][y] = k
          BY <1>1, <2>1, <2>2, <2>5, <4>1
        <5> QED BY <2>1, <2>2, <4>1, <5>1
      <4>2. CASE n # k
        <5> DEFINE q == t.parent[n]
        <5>1. n \in N /\ n \in TreeKeys /\ w.parent[n] = q
          BY <1>1, <2>5, <4>2
        <5>2. q = T!Null => n = w.root
          BY <1>1, <2>5, <5>1
        <5>3. q # T!Null => q \in N /\ \E r \in T!Sides : t.child[r][q] = n
          BY <1>1, <5>1 DEF Shape, Links
        <5> HIDE DEF q
        <5>4. ASSUME q # T!Null PROVE q \in M /\ \E r \in T!Sides : w.child[r][q] = n
          <6>1. PICK r \in T!Sides : t.child[r][q] = n
            BY <5>3, <5>4
          <6>2. ~(r = s /\ q = y)
            BY <1>1, <2>1, <5>1, <6>1
          <6>3. w.child[r][q] = n
            BY <1>1, <2>5, <5>3, <5>4, <6>1, <6>2
          <6> QED BY <5>3, <5>4, <6>3
        <5> QED BY <5>1, <5>2, <5>4
      <4> QED BY <4>1, <4>2
    <3> QED BY <3>1, <3>2 DEF Links
  <2>12. Rooted(w, M, x)
    <3>1. x[t.root] = M
      BY <1>4, <2>1, <2>5, <2>6
    <3>2. w.parent[t.root] = T!Null
      <4>1. t.root # k /\ t.root \in TreeKeys
        BY <1>1, <2>5
      <4> QED BY <1>1, <2>5, <4>1
    <3> QED BY <2>5, <3>1, <3>2 DEF Rooted
  <2>13. Shape(w, M, x)
    BY <1>2, <1>6, <2>9, <2>10, <2>11, <2>12 DEF Shape
  <2>14. Heights(w, M, h)
    <3>1. ASSUME NEW n \in M, NEW r \in T!Sides PROVE h[n] = h[w.child[r][n]] + Weight(w, n)
      <4>1. CASE n = k
        <5>1. w.child[r][k] = T!Null
          BY <1>3, <2>1, <2>5
        <5> QED BY <1>8, <1>9, <4>1, <5>1
      <4>2. CASE n # k
        <5> DEFINE e == t.child[r][n]
        <5>1. n \in N /\ e \in N \cup {T!Null} /\ b[n] = b[e] + Weight(t, n)
          BY <1>5, <2>7, <4>2
        <5>2. w.child[r][n] = IF r = s /\ n = y THEN k ELSE e
          BY <1>1, <2>5, <5>1
        <5>3. r = s /\ n = y => e = T!Null
          BY <2>1
        <5> HIDE DEF e
        <5>4. h[w.child[r][n]] = b[e] /\ h[n] = b[n] /\ Weight(w, n) = Weight(t, n)
          BY <1>5, <1>8, <1>9, <5>1, <5>2, <5>3
        <5> QED BY <5>1, <5>4
      <4> QED BY <4>1, <4>2
    <3> QED BY <1>8, <3>1 DEF Heights
  <2>15. NoRedPair(w, M, {k})
    <3> SUFFICES ASSUME NEW n \in N, w.color[n] = "RED", w.parent[n] # T!Null
                 PROVE  w.color[w.parent[n]] = "BLACK"
      BY DEF NoRedPair
    <3>1. w.parent[n] = t.parent[n]
      BY <1>1, <2>5
    <3> QED BY <1>1, <1>2, <3>1 DEF NoRedPair
  <2>16. Blank(w, M)
    <3> SUFFICES ASSUME NEW n \in TreeKeys \ M
                 PROVE  w.parent[n] = T!Null /\ w.color[n] = "RED" /\ \A r \in T!Sides : w.child[r][n] = T!Null
      BY DEF Blank
    <3>1. n # k /\ n # y /\ n \notin N
      BY <2>1
    <3> QED BY <1>1, <1>2, <2>5, <3>1 DEF Blank
  <2>17. Balanced(w, M, x, h, {k})
    BY <2>13, <2>14, <2>15, <2>16 DEF Balanced
  <2>18. w.color[k] = "RED" /\ w.color[w.root] = "BLACK"
    BY <1>2, <1>3, <1>11, <2>5
  <2> QED BY <2>17, <2>18 DEF ToFix
<1> QED BY <1>10, <1>11

-----------------------------------------------------------------------------
\* What is below a set of nodes as it is defined.
LEMMA BelowIs ==
    ASSUME tree \in T!Trees, NEW X \in SUBSET TreeKeys
    PROVE  T!Below[X] = IF T!Widened(X) = X THEN X ELSE T!Below[T!Widened(X)]
<1> DEFINE St == SUBSET TreeKeys
           P == {Y \in St : ~(T!Widened(Y) = Y)}
           h == [Y \in P |-> T!Widened(Y)]
           out == [Y \in St |-> Y]
<1>1. ASSUME NEW Y \in St PROVE T!Widened(Y) \in St
  <2>1. \A s \in T!Sides : \A n \in Y : tree.child[s][n] \in NullKeys
    BY Fields
  <2> QED BY <2>1 DEF T!Widened, NullKeys
<1>2. h \in [P -> St] /\ P \in SUBSET St
  <2> HIDE DEF St
  <2>1. \A Y \in P : Y \in St /\ T!Widened(Y) \in St
    BY <1>1
  <2> QED BY <2>1
<1>3. PICK f : ByRecursion(f, St, P, h, out)
  <2> HIDE DEF St, P, h, out
  <2> QED BY <1>2, Recursion
<1>4. f = [Y \in SUBSET TreeKeys |-> IF T!Widened(Y) = Y THEN Y ELSE f[T!Widened(Y)]]
  BY <1>3 DEF ByRecursion
<1>5. T!Below = [Y \in SUBSET TreeKeys |-> IF T!Widened(Y) = Y THEN Y ELSE T!Below[T!Widened(Y)]]
  BY <1>4, Zenon DEF T!Below
<1> HIDE DEF St, P, h, out
<1> QED BY <1>5

\* A set that a node is in, with the children of its own nodes, has all that is under the node.
LEMMA ClosedHasAll ==
    ASSUME NEW t, NEW N, NEW u, Shape(t, N, u), NEW n \in N, NEW X, n \in X,
           \A m \in X : \A s \in T!Sides : t.child[s][m] # T!Null => t.child[s][m] \in X
    PROVE  u[n] \subseteq X
<1> DEFINE G == {m \in N : m \in X => u[m] \subseteq X}
<1>1. ASSUME NEW m \in N, \A s \in T!Sides : t.child[s][m] # T!Null => t.child[s][m] \in G
      PROVE  m \in G
  <2> SUFFICES ASSUME m \in X PROVE u[m] \subseteq X
    OBVIOUS
  <2>1. \A s \in T!Sides : u[t.child[s][m]] \subseteq X
    <3>1. u[T!Null] = {}
      BY DEF Shape, Under
    <3> QED BY <1>1, <3>1
  <2>2. "left" \in T!Sides /\ T!Other("left") \in T!Sides
    BY SidesAre DEF T!Sides
  <2>3. u[m] = {m} \cup u[t.child["left"][m]] \cup u[t.child[T!Other("left")][m]]
    BY <2>2, ChildOf
  <2> QED BY <2>1, <2>2, <2>3
<1>2. N \subseteq G
  <2> HIDE DEF G
  <2> QED BY <1>1, TreeInduction
<1> QED BY <1>2

\* The nodes of a set that has n and otherwise nodes under n, and those below, are those under n.
LEMMA BelowUnder ==
    ASSUME NEW N, NEW u, Shape(tree, N, u), NEW n \in N, NEW X, n \in X, X \subseteq u[n]
    PROVE  T!Below[X] = u[n]
<1> DEFINE Wrong(Y) == n \in Y /\ Y \subseteq u[n] /\ T!Below[Y] # u[n]
           Bad == {k \in Nat : \E Y : Wrong(Y) /\ k = Cardinality(u[n] \ Y)}
<1>1. /\ tree \in T!Trees /\ N \subseteq TreeKeys /\ u[n] \subseteq N /\ IsFiniteSet(u[n])
      /\ T!Null \notin N
  <2>1. IsFiniteSet(N) /\ u[n] \subseteq N
    BY DEF Shape, Under
  <2> QED BY <2>1, NodesAre, FS_Subset
<1>2. \A Y : IsFiniteSet(u[n] \ Y) /\ Cardinality(u[n] \ Y) \in Nat
  BY <1>1, FS_Difference, FS_CardinalityType
<1>3. SUFFICES ASSUME Wrong(X) PROVE FALSE
  OBVIOUS
<1>4. PICK k \in Bad : \A j \in Bad : k <= j
  <2>1. Cardinality(u[n] \ X) \in Bad
    BY <1>2, <1>3
  <2>2. Bad \in SUBSET Nat
    OBVIOUS
  <2> HIDE DEF Bad
  <2> QED BY <2>1, <2>2, LeastOf
<1>5. PICK Y : Wrong(Y) /\ k = Cardinality(u[n] \ Y)
  OBVIOUS
<1> DEFINE Z == T!Widened(Y)
<1>6. T!Below[Y] = IF Z = Y THEN Y ELSE T!Below[Z]
  <2>1. Y \in SUBSET TreeKeys
    BY <1>1, <1>5
  <2> QED BY <1>1, <2>1, BelowIs
<1>7. Y \subseteq Z /\ Z \subseteq u[n]
  <2>1. ASSUME NEW m \in Y, NEW s \in T!Sides, tree.child[s][m] # T!Null PROVE tree.child[s][m] \in u[n]
    <3>1. m \in u[n] /\ m \in N /\ u[m] \subseteq u[n]
      BY <1>1, <1>5, UnderIs
    <3>2. tree.child[s][m] \in u[m]
      BY <2>1, <3>1, AtNode
    <3> QED BY <3>1, <3>2
  <2> QED BY <1>5, <2>1 DEF T!Widened
<1>8. CASE Z = Y
  <2>1. \A m \in Y : \A s \in T!Sides : tree.child[s][m] # T!Null => tree.child[s][m] \in Y
    BY <1>8 DEF T!Widened
  <2>2. u[n] \subseteq Y
    BY <1>5, <2>1, ClosedHasAll
  <2> QED BY <1>5, <1>6, <1>8, <2>2
<1>9. CASE Z # Y
  <2> HIDE DEF Z
  <2>1. Wrong(Z)
    BY <1>5, <1>6, <1>7, <1>9
  <2>2. k <= Cardinality(u[n] \ Z)
    <3>1. Cardinality(u[n] \ Z) \in Bad
      BY <1>2, <2>1
    <3> HIDE DEF Bad
    <3> QED BY <1>4, <3>1
  <2>3. Cardinality(u[n] \ Z) < Cardinality(u[n] \ Y)
    <3> DEFINE A == u[n] \ Z
               B == u[n] \ Y
    <3>1. A \subseteq B /\ A # B
      BY <1>7, <1>9
    <3>2. IsFiniteSet(B) /\ Cardinality(A) \in Nat /\ Cardinality(B) \in Nat
      BY <1>2
    <3> HIDE DEF A, B
    <3>3. Cardinality(A) <= Cardinality(B) /\ Cardinality(A) # Cardinality(B)
      BY <3>1, <3>2, FS_Subset
    <3>4. Cardinality(A) < Cardinality(B)
      BY <3>2, <3>3
    <3> QED BY <3>4 DEF A, B
  <2>4. Cardinality(u[n] \ Z) \in Nat /\ Cardinality(u[n] \ Y) \in Nat
    BY <1>2
  <2> HIDE DEF Bad
  <2> QED BY <1>5, <2>2, <2>3, <2>4
<1> QED BY <1>8, <1>9

\* A subtree is what is under its node.
LEMMA SubtreeIs ==
    ASSUME NEW N, NEW u, Shape(tree, N, u), NEW n \in N \cup {T!Null}
    PROVE  T!Subtree(n) = u[n]
<1>1. CASE n \in N
  <2>1. {n} \ {T!Null} = {n} /\ n \in u[n]
    <3>1. n # T!Null
      BY <1>1, NodesAre
    <3>2. "left" \in T!Sides
      BY DEF T!Sides
    <3>3. n \in u[n]
      BY <1>1, <3>2, AtNode
    <3> QED BY <3>1, <3>3
  <2>2. T!Below[{n}] = u[n]
    <3> DEFINE X == {n}
    <3>1. n \in X /\ X \subseteq u[n]
      BY <2>1
    <3> HIDE DEF X
    <3>2. T!Below[X] = u[n]
      BY <1>1, <3>1, BelowUnder
    <3> QED BY <3>2 DEF X
  <2> QED BY <2>1, <2>2 DEF T!Subtree
<1>2. CASE n = T!Null
  <2>1. {n} \ {T!Null} = {} /\ u[n] = {}
    BY <1>2 DEF Shape, Under
  <2>2. T!Widened({}) = {}
    BY DEF T!Widened
  <2>3. T!Below[{}] = {}
    BY <2>2, NodesAre, BelowIs
  <2> QED BY <2>1, <2>3 DEF T!Subtree
<1> QED BY <1>1, <1>2

\* The count of black nodes on the leftmost way as it is defined.
LEMMA BlackHeightIs ==
    ASSUME tree \in T!Trees, NEW n \in NullKeys, NEW k \in Nat
    PROVE  T!BlackHeight[<<n, k>>] = IF n = T!Null THEN k
                                     ELSE T!BlackHeight[<<tree.child["left"][n], k + Weight(tree, n)>>]
<1> DEFINE St == (TreeKeys \cup {T!Null}) \X Nat
           P == {q \in St : q[1] # T!Null}
           h == [q \in P |-> <<tree.child["left"][q[1]], q[2] + Weight(tree, q[1])>>]
           out == [q \in St |-> q[2]]
<1>1. ASSUME NEW q \in P PROVE <<tree.child["left"][q[1]], q[2] + Weight(tree, q[1])>> \in St
  <2>1. q[1] \in TreeKeys /\ q[2] \in Nat
    OBVIOUS
  <2>2. tree.child["left"][q[1]] \in NullKeys
    BY <2>1, Fields DEF T!Sides
  <2>3. q[2] + Weight(tree, q[1]) \in Nat
    BY <2>1 DEF Weight
  <2> QED BY <2>2, <2>3 DEF NullKeys
<1>2. h \in [P -> St] /\ P \in SUBSET St
  BY <1>1
<1>3. PICK f : ByRecursion(f, St, P, h, out)
  <2> HIDE DEF St, P, h, out
  <2> QED BY <1>2, Recursion
<1>4. f = [q \in (TreeKeys \cup {T!Null}) \X Nat |->
              IF q[1] = T!Null THEN q[2] ELSE f[<<tree.child["left"][q[1]], q[2] + Weight(tree, q[1])>>]]
  BY <1>3 DEF ByRecursion
<1>5. T!BlackHeight = [q \in (TreeKeys \cup {T!Null}) \X Nat |->
              IF q[1] = T!Null THEN q[2]
              ELSE T!BlackHeight[<<tree.child["left"][q[1]], q[2] + Weight(tree, q[1])>>]]
  BY <1>4, Zenon DEF T!BlackHeight, Weight
<1> HIDE DEF St, P, h, out
<1>6. <<n, k>> \in (TreeKeys \cup {T!Null}) \X Nat
  BY DEF NullKeys
<1> QED BY <1>5, <1>6

\* Every way down has the black nodes of the leftmost one.
LEMMA BlackHeightsAre ==
    ASSUME NEW N, NEW u, Shape(tree, N, u), NEW b, Heights(tree, N, b), NEW n \in N \cup {T!Null}
    PROVE  T!BlackHeight[<<n, 0>>] = b[n]
<1> DEFINE G == {m \in N : \A k \in Nat : T!BlackHeight[<<m, k>>] = k + b[m]}
<1>1. /\ tree \in T!Trees /\ N \subseteq TreeKeys /\ T!Null \notin N
      /\ b \in [N \cup {T!Null} -> Nat] /\ b[T!Null] = 0 /\ "left" \in T!Sides
  BY NodesAre DEF Heights, T!Sides
<1>2. \A k \in Nat : T!BlackHeight[<<T!Null, k>>] = k
  BY <1>1, BlackHeightIs DEF NullKeys
<1>3. ASSUME NEW m \in N, \A s \in T!Sides : tree.child[s][m] # T!Null => tree.child[s][m] \in G
      PROVE  m \in G
  <2> SUFFICES ASSUME NEW k \in Nat PROVE T!BlackHeight[<<m, k>>] = k + b[m]
    OBVIOUS
  <2> DEFINE e == tree.child["left"][m]
             i == k + Weight(tree, m)
  <2>1. i \in Nat /\ Weight(tree, m) \in Nat
    BY DEF Weight
  <2>2. T!BlackHeight[<<m, k>>] = T!BlackHeight[<<e, i>>]
    <3>1. m \in NullKeys /\ m # T!Null
      BY <1>1 DEF NullKeys
    <3> QED BY <1>1, <3>1, BlackHeightIs
  <2>3. e \in N \cup {T!Null}
    BY <1>1, ChildOf
  <2>4. b[m] = b[e] + Weight(tree, m) /\ b[e] \in Nat
    BY <1>1, <2>3 DEF Heights
  <2>5. e # T!Null => e \in G
    BY <1>1, <1>3
  <2>6. i = k + Weight(tree, m)
    OBVIOUS
  <2> HIDE DEF e, i
  <2>7. T!BlackHeight[<<e, i>>] = i + b[e]
    <3>1. CASE e = T!Null
      BY <1>1, <1>2, <2>1, <3>1
    <3>2. CASE e # T!Null
      BY <2>1, <2>5, <3>2
    <3> QED BY <3>1, <3>2
  <2> QED BY <2>1, <2>2, <2>4, <2>6, <2>7
<1>4. N \subseteq G
  <2> HIDE DEF G
  <2> QED BY <1>3, TreeInduction
<1> QED BY <1>1, <1>2, <1>4

-----------------------------------------------------------------------------
\* The tree counts as FiniteSets counts.
LEMMA TreeCardinality == \A X : T!Cardinality(X) = Cardinality(X)
BY DEF T!Cardinality, Cardinality

\* A balanced tree t of the keys of m, with their values, of which there are n.
Mapping(t, n, m) ==
    /\ \E u, b : Balanced(t, DOMAIN m, u, b, {})
    /\ t.root # T!Null => t.color[t.root] = "BLACK"
    /\ \A k \in DOMAIN m : t.value[k] = m[k]
    /\ n = Cardinality(DOMAIN m)

\* The inductive invariant of the tree.
TreeInv == Mapping(tree, size, content)

\* Find reaches the keys of the tree and no others.
LEMMA FoundIs ==
    ASSUME NEW N, NEW u, Shape(tree, N, u), NEW k \in TreeKeys
    PROVE  T!Found(k) <=> k \in N
<1>1. CASE tree.root = T!Null
  <2>1. N = {}
    BY <1>1 DEF Shape, Under, Rooted
  <2> QED BY <1>1, <2>1 DEF T!Found
<1>2. CASE tree.root # T!Null
  <2>1. Sought(tree, N, u, k, T!Descend[<<k, tree.root>>])
    BY <1>2, SearchEnds
  <2> QED BY <1>2, <2>1 DEF Sought, T!Found
<1> QED BY <1>1, <1>2

\* No node at first.
LEMMA TreeInit == T!Init => TreeInv
<1> SUFFICES ASSUME T!Init PROVE TreeInv
  OBVIOUS
<1> DEFINE u == [n \in {} \cup {T!Null} |-> {}]
           b == [n \in {} \cup {T!Null} |-> 0]
<1>1. /\ tree.root = T!Null /\ content = <<>> /\ size = 0
      /\ tree.child = [s \in T!Sides |-> [k \in TreeKeys |-> T!Null]]
      /\ tree.parent = [k \in TreeKeys |-> T!Null] /\ tree.color = [k \in TreeKeys |-> "RED"]
  BY DEF T!Init
<1>2. tree \in T!Trees
  <2>1. T!Null \in NullKeys /\ "RED" \in {"RED", "BLACK"} /\ T!Default \in TreeValues \cup {T!Default}
    BY DEF NullKeys
  <2> QED BY <2>1 DEF T!Init, T!Trees, NullKeys
<1>3. DOMAIN content = {}
  BY <1>1
<1>4. Under(tree, {}, u) /\ Ordered(tree, {}, u) /\ Links(tree, {}) /\ Rooted(tree, {}, u)
  BY <1>1 DEF Under, Ordered, Links, Rooted
<1>5. Heights(tree, {}, b) /\ NoRedPair(tree, {}, {})
  BY DEF Heights, NoRedPair
<1>6. Blank(tree, {})
  BY <1>1 DEF Blank
<1> HIDE DEF u, b
<1>7. Balanced(tree, {}, u, b, {})
  BY <1>2, <1>4, <1>5, <1>6, FS_EmptySet DEF Balanced, Shape
<1>8. \E v, h : Balanced(tree, {}, v, h, {})
  BY <1>7
<1> QED BY <1>1, <1>3, <1>8, FS_EmptySet DEF TreeInv, Mapping

\* A new key is inserted, wherever in the tree, and its value is that of the node.
LEMMA TreeInserted ==
    ASSUME TreeInv, NEW k \in TreeKeys, ~T!Found(k), NEW v \in TreeValues \cup {T!Default},
           T!Inserted(k, v), T!Remember(k, v)
    PROVE  TreeInv'
<1> DEFINE N == DOMAIN content
           M == N \cup {k}
           y == T!Descend[<<k, tree.root>>]
           w == T!Attached(k, v)
<1>1. PICK u, b : Balanced(tree, N, u, b, {})
  BY DEF TreeInv, Mapping
<1>2. Shape(tree, N, u) /\ tree \in T!Trees /\ N \subseteq TreeKeys /\ IsFiniteSet(N)
  BY <1>1 DEF Balanced, Shape
<1>3. k \notin N
  BY <1>2, FoundIs
<1>4. tree.root # T!Null => Sought(tree, N, u, k, y)
  BY <1>2, SearchEnds
<1>5. tree.root # T!Null => y \in TreeKeys
  BY <1>2, <1>4 DEF Sought
<1>6. IsAttached(w, tree, k, v, y)
  BY <1>2, <1>5, AttachedIs
<1>7. tree' = T!FixInsert[<<w, k>>] /\ size' = size + 1
  BY DEF T!Inserted
<1>8. content' = [x \in M |-> IF x = k THEN v ELSE content[x]]
  BY DEF T!Remember
<1>9. tree.root # T!Null => tree.color[tree.root] = "BLACK"
  BY DEF TreeInv, Mapping
<1>10. size = Cardinality(N) /\ \A n \in N : tree.value[n] = content[n]
  BY DEF TreeInv, Mapping
<1> HIDE DEF N, y, w
<1>11. PICK x : ToFix(w, M, x, k)
  BY <1>1, <1>3, <1>4, <1>6, <1>9, AttachedKeeps
<1>12. Fixed(tree', w, M)
  <2> HIDE DEF M
  <2> QED BY <1>7, <1>11, FixInsertKeeps
<1>13. DOMAIN content' = M /\ \A n \in M : content'[n] = IF n = k THEN v ELSE content[n]
  BY <1>8
<1>14. \A n \in M : w.value[n] = IF n = k THEN v ELSE tree.value[n]
  BY <1>2, <1>6 DEF IsAttached
<1>15. \A n \in M : tree'.value[n] = content'[n]
  <2>1. tree'.value = w.value
    BY <1>12 DEF Fixed, Lifts
  <2> QED BY <1>10, <1>13, <1>14, <2>1
<1>16. size' = Cardinality(M)
  BY <1>2, <1>3, <1>7, <1>10, FS_AddElement
<1>17. /\ \E z, h : Balanced(tree', M, z, h, {})
       /\ tree'.color[tree'.root] = "BLACK"
  BY <1>12 DEF Fixed, Lifts
<1>18. Mapping(tree', size', content')
  BY <1>13, <1>15, <1>16, <1>17 DEF Mapping
<1> QED BY <1>18 DEF TreeInv

\* The value of a key that is there is replaced.
LEMMA TreeUpdated ==
    ASSUME TreeInv, NEW k \in TreeKeys, T!Found(k), NEW v \in TreeValues,
           T!Updated(k, v), T!Remember(k, v)
    PROVE  TreeInv'
<1> DEFINE N == DOMAIN content
<1>1. PICK u, b : Balanced(tree, N, u, b, {})
  BY DEF TreeInv, Mapping
<1>2. Shape(tree, N, u) /\ tree \in T!Trees /\ N \subseteq TreeKeys
  BY <1>1 DEF Balanced, Shape
<1>3. k \in N
  BY <1>2, FoundIs
<1>4. WritesValue(tree', tree, k, v) /\ size' = size
  BY DEF T!Updated, WritesValue
<1>5. Valued(tree', tree, k, v)
  BY <1>2, <1>4, ValueWritten
<1>6. DOMAIN content' = N /\ \A n \in N : content'[n] = IF n = k THEN v ELSE content[n]
  BY <1>3 DEF T!Remember
<1>7. /\ tree.root # T!Null => tree.color[tree.root] = "BLACK"
      /\ size = Cardinality(N) /\ \A n \in N : tree.value[n] = content[n]
  BY DEF TreeInv, Mapping
<1> HIDE DEF N
<1>8. tree' \in T!Trees /\ SameLinks(tree', tree) /\ tree'.color = tree.color
  BY <1>5 DEF Valued
<1>9. Shape(tree', N, u)
  BY <1>2, <1>8, ShapeOfLinks
<1>10. Heights(tree', N, b) /\ NoRedPair(tree', N, {}) /\ Blank(tree', N)
  BY <1>1, <1>8 DEF Balanced, SameLinks, Heights, Weight, NoRedPair, Blank
<1>11. \E x, h : Balanced(tree', N, x, h, {})
  BY <1>9, <1>10 DEF Balanced
<1>12. \A n \in N : tree'.value[n] = content'[n]
  BY <1>2, <1>5, <1>6, <1>7 DEF Valued
<1>13. Mapping(tree', size', content')
  BY <1>4, <1>6, <1>7, <1>8, <1>11, <1>12 DEF Mapping, SameLinks
<1> QED BY <1>13 DEF TreeInv

\* What the invariant says of the tree that the operations walk.
LEMMA TreeIs ==
    ASSUME TreeInv
    PROVE  T!IsMap /\ T!IsBalanced
<1> DEFINE N == DOMAIN content
<1>1. PICK u, b : Balanced(tree, N, u, b, {})
  BY DEF TreeInv, Mapping
<1>2. /\ tree.root # T!Null => tree.color[tree.root] = "BLACK"
      /\ size = Cardinality(N) /\ \A n \in N : tree.value[n] = content[n]
  BY DEF TreeInv, Mapping
<1>3. Shape(tree, N, u) /\ Heights(tree, N, b) /\ NoRedPair(tree, N, {})
  BY <1>1 DEF Balanced
<1> HIDE DEF N
<1>4. /\ N \subseteq TreeKeys /\ T!Null \notin N
      /\ \A n \in TreeKeys : tree.color[n] \in {"RED", "BLACK"}
      /\ \A n \in N : tree.parent[n] = T!Null <=> n = tree.root
  BY <1>3, NodesAre
<1>5. T!Nodes = N
  <2>1. tree.root \in N \cup {T!Null} /\ u[tree.root] = N
    BY <1>3 DEF Shape, Rooted
  <2> QED BY <1>3, <2>1, SubtreeIs DEF T!Nodes
<1>6. \A n \in N : \A s \in T!Sides :
         /\ tree.child[s][n] \in N \cup {T!Null}
         /\ tree.child[s][n] # T!Null => tree.parent[tree.child[s][n]] = n
  BY <1>3, ChildOf
<1>7. ASSUME NEW n \in N
      PROVE  /\ \A m \in T!Subtree(tree.child["left"][n]) : m < n
             /\ \A m \in T!Subtree(tree.child["right"][n]) : m > n
  <2>1. "left" \in T!Sides /\ "right" \in T!Sides
    BY DEF T!Sides
  <2>2. /\ T!Subtree(tree.child["left"][n]) = u[tree.child["left"][n]]
        /\ T!Subtree(tree.child["right"][n]) = u[tree.child["right"][n]]
    BY <1>3, <1>6, <2>1, SubtreeIs
  <2>3. /\ \A m \in u[tree.child["left"][n]] : Before("left", m, n)
        /\ \A m \in u[tree.child["right"][n]] : Before("right", m, n)
    BY <1>3, <2>1 DEF Shape, Ordered
  <2>4. \A m : /\ Before("left", m, n) => m < n
               /\ Before("right", m, n) => n < m
    BY DEF Before
  <2>5. /\ u[tree.child["left"][n]] \subseteq N
        /\ u[tree.child["right"][n]] \subseteq N
    BY <1>3, <2>1, AtNode
  <2>6. N \subseteq Int
    BY <1>4, TreeAssumption
  <2>7. \A m \in u[tree.child["right"][n]] : n < m /\ m \in Int
    BY <2>3, <2>4, <2>5, <2>6
  <2>8. \A m \in u[tree.child["right"][n]] : m > n
    BY <2>6, <2>7
  <2> QED BY <2>2, <2>3, <2>4, <2>8
<1>8. ASSUME NEW n \in N, NEW s \in T!Sides, tree.child[s][n] # T!Null, tree.color[n] = "RED"
      PROVE  tree.color[tree.child[s][n]] = "BLACK"
  <2> DEFINE m == tree.child[s][n]
  <2>1. m \in N /\ tree.parent[m] = n
    BY <1>6, <1>8
  <2> HIDE DEF m
  <2>2. tree.color[m] # "RED"
    BY <1>3, <1>4, <1>8, <2>1 DEF NoRedPair
  <2>3. tree.color[m] = "BLACK"
    BY <1>4, <2>1, <2>2
  <2> QED BY <2>3 DEF m
<1>9. ASSUME NEW n \in N
      PROVE  T!BlackHeight[<<tree.child["left"][n], 0>>] = T!BlackHeight[<<tree.child["right"][n], 0>>]
  <2> DEFINE l == tree.child["left"][n]
             r == tree.child["right"][n]
  <2>1. "left" \in T!Sides /\ "right" \in T!Sides
    BY DEF T!Sides
  <2>2. l \in N \cup {T!Null} /\ r \in N \cup {T!Null}
    BY <1>6, <2>1
  <2>3. b[n] = b[l] + Weight(tree, n) /\ b[n] = b[r] + Weight(tree, n)
    BY <1>3, <2>1 DEF Heights
  <2>4. b[l] \in Nat /\ b[r] \in Nat /\ Weight(tree, n) \in Nat
    BY <1>3, <2>2 DEF Heights, Weight
  <2> HIDE DEF l, r
  <2>5. b[l] = b[r]
    BY <2>3, <2>4
  <2>6. T!BlackHeight[<<l, 0>>] = b[l] /\ T!BlackHeight[<<r, 0>>] = b[r]
    BY <1>3, <2>2, BlackHeightsAre
  <2>7. T!BlackHeight[<<l, 0>>] = T!BlackHeight[<<r, 0>>]
    BY <2>5, <2>6
  <2> QED BY <2>7 DEF l, r
<1>10. T!IsMap
  <2>1. T!Nodes = DOMAIN content /\ size = T!Cardinality(T!Nodes)
    BY <1>2, <1>5, TreeCardinality DEF N
  <2> QED BY <1>2, <1>4, <1>5, <1>6, <1>7, <2>1 DEF T!IsMap
<1>11. T!IsBalanced
  BY <1>2, <1>5, <1>8, <1>9 DEF T!IsBalanced
<1> QED BY <1>10, <1>11

\* What holds of the red-black tree.
TreesInv == kind = "RBMap" => TreeInv

\* The insertions keep the invariant of the red-black tree.
LEMMA TreesInvariant == Spec => []TreesInv
<1> USE DEF TreesInv
<1>1. Init => TreesInv
  BY TreeInit DEF Init
<1>2. TreesInv /\ [Next]_vars => TreesInv'
  <2> SUFFICES ASSUME TreesInv, [Next]_vars PROVE TreesInv'
    OBVIOUS
  <2>1. kind' = kind /\ (kind = "RBMap" => T!Next \/ UNCHANGED <<tree, size, content>>)
    BY Frame
  <2>2. CASE kind = "RBMap" /\ T!Next
    <3>1. TreeInv
      BY <2>2
    <3>2. PICK k \in TreeKeys : T!Index(k) \/ \E v \in TreeValues : T!Insert(k, v)
      BY <2>2 DEF T!Next
    <3>3. ASSUME T!Index(k) PROVE TreeInv'
      BY <3>1, <3>3, TreeInserted DEF T!Index
    <3>4. ASSUME NEW v \in TreeValues, T!Insert(k, v) PROVE TreeInv'
      <4>1. CASE T!Found(k)
        <5>1. T!Updated(k, v) /\ T!Remember(k, v)
          BY <3>4, <4>1 DEF T!Insert
        <5> QED BY <3>1, <4>1, <5>1, TreeUpdated
      <4>2. CASE ~T!Found(k)
        <5>1. T!Inserted(k, v) /\ T!Remember(k, v)
          BY <3>4, <4>2 DEF T!Insert
        <5> QED BY <3>1, <4>2, <5>1, TreeInserted
      <4> QED BY <4>1, <4>2
    <3> QED BY <3>2, <3>3, <3>4
  <2>3. CASE kind = "RBMap" /\ UNCHANGED <<tree, size, content>>
    BY <2>3 DEF TreeInv
  <2>4. CASE kind # "RBMap"
    BY <2>1, <2>4
  <2> QED BY <2>1, <2>2, <2>3, <2>4
<1> QED BY <1>1, <1>2, PTL DEF Spec

\* After any insertions, in any order, the red-black tree is a map: its nodes are the keys
\* inserted, with the last value of each, linked both ways, in the search order and counted; and
\* it is balanced: no red node has a red child and every way down has as many black nodes.
THEOREM TreesAreMaps == Spec => []TreeIsMap
<1> USE DEF TreesInv
<1>1. TreesInv => TreeIsMap
  BY TreeIs DEF TreeIsMap
<1> QED BY <1>1, TreesInvariant, PTL
=============================================================================
