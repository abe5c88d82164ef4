--------------------------- MODULE ContainerProofs --------------------------
(***************************************************************************)
(* The containers of ContainersMC, for all values of its constants: what a *)
(* step of one of them leaves alone, functions defined by a recursion, and *)
(* then the LRU caches, the strings, the priority queue and the hash       *)
(* tables. TreeProofs has the red-black tree, SequenceProofs the rest.     *)
(***************************************************************************)
EXTENDS ContainersMC, TLAPS, SequenceTheorems, FiniteSetTheorems, FunctionTheorems,
        WellFoundedInduction, NaturalsInduction

\* A step is one of the container in use, which stays the same.
LEMMA Frame ==
    ASSUME [Next]_vars
    PROVE  /\ kind' = kind
           /\ kind \in C!Kinds => C!Next \/ UNCHANGED cacheVars
           /\ kind \in S!Kinds => S!Next \/ UNCHANGED stringVars
           /\ kind = "Deque" => D!Next \/ UNCHANGED <<items, dequeVars>>
           /\ kind \in L!Kinds => L!Next \/ UNCHANGED <<size, items, listVars>>
           /\ kind = "PriorityQueue" => Q!Next \/ UNCHANGED heapVars
           /\ kind \in H!Kinds => H!Next \/ UNCHANGED <<buckets, size, content>>
           /\ kind = "RBMap" => T!Next \/ UNCHANGED <<tree, size, content>>
<1> USE DEF C!Kinds, S!Kinds, L!Kinds, H!Kinds
<1>1. CASE UNCHANGED vars
  BY <1>1 DEF vars, cacheVars, stringVars, dequeVars, listVars, heapVars
<1>2. CASE DequeNext
  BY <1>2 DEF DequeNext
<1>3. CASE ListNext
  BY <1>3 DEF ListNext, L!Next
<1>4. CASE HeapNext
  BY <1>4 DEF HeapNext
<1>5. CASE TableNext
  BY <1>5 DEF TableNext, H!Next, H!Insert, H!Index, H!Assign, H!Erase
<1>6. CASE TreeNext
  BY <1>6 DEF TreeNext
<1>7. CASE CacheNext
  BY <1>7 DEF CacheNext, C!Next, C!Get, C!PutNowhere, C!PutCached, C!PutNew, C!Touch
<1>8. CASE StringNext
  <2>1. PICK s \in StringNames :
           \/ S!Construct(s, <<>>) \/ S!Destroy(s)
           \/ \E x \in Characters : S!Construct(s, <<x>>)
           \/ \E x \in Characters \cup {S!Nul}, i \in 1 .. MaxLength : S!Write(s, i, x)
           \/ \E o \in StringNames : S!Copy(s, o) \/ S!Assign(s, o) \/ S!AppendTo(s, o)
           \/ \E o, p \in StringNames : S!Plus(s, o, p)
    BY <1>8 DEF StringNext, S!Next
  <2>2. ASSUME NEW str, S!Construct(s, str) PROVE kind' = kind
    BY <2>2 DEF S!Construct, S!Becomes
  <2>3. ASSUME S!Destroy(s) PROVE kind' = kind
    BY <2>3 DEF S!Destroy, S!Becomes
  <2>4. ASSUME NEW x, NEW i, S!Write(s, i, x) PROVE kind' = kind
    BY <2>4 DEF S!Write
  <2>5. ASSUME NEW o, S!Copy(s, o) \/ S!Assign(s, o) \/ S!AppendTo(s, o) PROVE kind' = kind
    BY <2>5 DEF S!Copy, S!Assign, S!AppendTo, S!Becomes
  <2>6. ASSUME NEW o, NEW p, S!Plus(s, o, p) PROVE kind' = kind
    BY <2>6 DEF S!Plus, S!Becomes
  <2>7. kind' = kind
    BY <2>1, <2>2, <2>3, <2>4, <2>5, <2>6
  <2> QED BY <1>8, <2>7 DEF StringNext
<1> QED BY <1>1, <1>2, <1>3, <1>4, <1>5, <1>6, <1>7, <1>8 DEF Next

\* A set of natural numbers that is not empty has a least one.
LEMMA LeastOf ==
    ASSUME NEW X \in SUBSET Nat, X # {}
    PROVE  \E x \in X : \A y \in X : x <= y
<1>1. IsWellFoundedOn(OpToRel(<, Nat), Nat)
  BY NatLessThanWellFounded
<1>2. PICK x \in X : \A y \in X : ~(<<y, x>> \in OpToRel(<, Nat))
  BY <1>1, WFMin
<1>3. \A y \in X : ~(y < x)
  BY <1>2 DEF OpToRel
<1>4. ASSUME NEW y \in X PROVE x <= y
  <2>1. x \in Nat /\ y \in Nat /\ ~(y < x)
    BY <1>3
  <2> QED BY <2>1
<1> QED BY <1>4

\* What steps from a state lead to that are no steps any more.
Closed(A, P, h) == \A y \in A : y \in P => h[y] \in A
\* x lies on the way from state q.
Reached(x, q, St, P, h) == \A A \in SUBSET St : q \in A /\ Closed(A, P, h) => x \in A
\* f is the value out at the state where the way from its argument ends.
ByRecursion(f, St, P, h, out) == f = [q \in St |-> IF q \in P THEN f[h[q]] ELSE out[q]]
\* Where the way from q ends, if it does.
Ends(q, St, P, h) == {x \in St : x \notin P /\ Reached(x, q, St, P, h)}

\* A function is defined by a recursion that goes from each state in P to one other state and
\* ends at the states outside of P, whether or not it ends.
LEMMA Recursion ==
    ASSUME NEW St, NEW P \in SUBSET St, NEW h \in [P -> St], NEW out
    PROVE  \E f : ByRecursion(f, St, P, h, out)
<1> DEFINE one(X) == CHOOSE x : x \in X
           f == [q \in St |-> out[one(Ends(q, St, P, h))]]
<1>0. \A x : one({x}) = x
  OBVIOUS
<1> HIDE DEF one
<1>1. ASSUME NEW q \in St, q \notin P PROVE Ends(q, St, P, h) = {q}
  <2>1. q \in Ends(q, St, P, h)
    BY <1>1 DEF Ends, Reached
  <2>2. ASSUME NEW x \in Ends(q, St, P, h) PROVE x = q
    <3>1. Closed({q}, P, h)
      BY <1>1 DEF Closed
    <3>2. {q} \in SUBSET St /\ q \in {q}
      OBVIOUS
    <3>3. x \in {q}
      BY <3>1, <3>2 DEF Ends, Reached
    <3> QED BY <3>3
  <2> QED BY <2>1, <2>2
<1>2. ASSUME NEW q \in P PROVE Ends(q, St, P, h) = Ends(h[q], St, P, h)
  <2>1. ASSUME NEW x \in Ends(h[q], St, P, h) PROVE x \in Ends(q, St, P, h)
    <3>1. ASSUME NEW A \in SUBSET St, q \in A, Closed(A, P, h) PROVE x \in A
      <4>1. h[q] \in A
        BY <3>1 DEF Closed
      <4> QED BY <3>1, <4>1 DEF Ends, Reached
    <3> QED BY <3>1 DEF Ends, Reached
  <2>2. ASSUME NEW x \in Ends(q, St, P, h) PROVE x \in Ends(h[q], St, P, h)
    <3>1. ASSUME NEW A \in SUBSET St, h[q] \in A, Closed(A, P, h) PROVE x \in A
      <4>1. A \cup {q} \in SUBSET St /\ q \in A \cup {q}
        OBVIOUS
      <4>2. Closed(A \cup {q}, P, h)
        BY <3>1 DEF Closed
      <4>3. x \in A \cup {q}
        BY <4>1, <4>2 DEF Ends, Reached
      <4>4. x # q
        BY DEF Ends
      <4> QED BY <4>3, <4>4
    <3> QED BY <3>1 DEF Ends, Reached
  <2> QED BY <2>1, <2>2
<1>3. ASSUME NEW q \in St PROVE f[q] = IF q \in P THEN f[h[q]] ELSE out[q]
  <2>1. CASE q \in P
    <3>1. h[q] \in St
      BY <2>1
    <3>2. f[q] = f[h[q]]
      BY <1>2, <2>1, <3>1
    <3> QED BY <2>1, <3>2
  <2>2. CASE q \notin P
    <3>1. f[q] = out[q]
      BY <1>0, <1>1, <2>2
    <3> QED BY <2>2, <3>1
  <2> QED BY <2>1, <2>2
<1>4. ByRecursion(f, St, P, h, out)
  BY <1>3 DEF ByRecursion
<1> QED BY <1>4

-----------------------------------------------------------------------------
\* No element of s occurs twice.
Distinct(s) == \A i, j \in 1 .. Len(s) : s[i] = s[j] => i = j

\* The place of x in s, which has it at most once, or the one after the last.
IsPlace(s, x, p) ==
    /\ p \in 1 .. Len(s) + 1
    /\ p <= Len(s) => s[p] = x
    /\ p = Len(s) + 1 => \A i \in 1 .. Len(s) : s[i] # x

\* t is s with x, at place p, in front.
IsToFront(t, s, x, p) ==
    /\ Len(t) = IF p <= Len(s) THEN Len(s) ELSE Len(s) + 1
    /\ \A j \in 1 .. Len(t) : t[j] = IF j = 1 THEN x ELSE IF j <= p THEN s[j - 1] ELSE s[j]

\* The place of an element is that of the element alone.
LEMMA OnePlace ==
    ASSUME NEW X, NEW s \in Seq(X), NEW x, Distinct(s)
    PROVE  \E p \in 1 .. Len(s) + 1 : IsPlace(s, x, p)
<1>1. Len(s) \in Nat
  OBVIOUS
<1>2. CASE \E i \in 1 .. Len(s) : s[i] = x
  <2>1. PICK i \in 1 .. Len(s) : s[i] = x
    BY <1>2
  <2>2. IsPlace(s, x, i) /\ i \in 1 .. Len(s) + 1
    BY <1>1, <2>1 DEF IsPlace
  <2> QED BY <2>2
<1>3. CASE ~ \E i \in 1 .. Len(s) : s[i] = x
  BY <1>1, <1>3 DEF IsPlace
<1> QED BY <1>2, <1>3

\* What ToFront does.
LEMMA ToFrontIs ==
    ASSUME NEW X, NEW s \in Seq(X), NEW x \in X, Distinct(s), NEW p, IsPlace(s, x, p)
    PROVE  C!ToFront(s, x) \in Seq(X) /\ IsToFront(C!ToFront(s, x), s, x, p)
<1>1. Len(s) \in Nat /\ p \in Nat /\ <<x>> \in Seq(X) /\ Len(<<x>>) = 1 /\ <<x>>[1] = x
  BY DEF IsPlace
<1>2. CASE p = Len(s) + 1
  <2>1. C!RemoveFirst(s, x) = s
    BY <1>2 DEF IsPlace, C!RemoveFirst
  <2>2. C!ToFront(s, x) = <<x>> \o s
    BY <2>1 DEF C!ToFront
  <2> QED BY <1>1, <1>2, <2>2, ConcatProperties DEF IsToFront
<1>3. CASE p <= Len(s)
  <2>1. p \in 1 .. Len(s) /\ s[p] = x
    BY <1>3 DEF IsPlace
  <2>2. {i \in 1 .. Len(s) : s[i] = x} = {p}
    BY <2>1 DEF Distinct
  <2>3. C!Min({p}) = p
    BY <1>1 DEF C!Min
  <2>4. C!SelectInSeq(s, LAMBDA v : v = x) = p
    BY <2>2, <2>3 DEF C!SelectInSeq
  <2>5. C!RemoveFirst(s, x) = C!RemoveAt(s, p)
    BY <2>1, <2>4 DEF C!RemoveFirst
  <2> DEFINE a == SubSeq(s, 1, p - 1)
             b == SubSeq(s, p + 1, Len(s))
  <2>6. /\ a \in Seq(X) /\ Len(a) = p - 1
        /\ \A i \in 1 .. p - 1 : a[i] = s[i]
    <3>1. \A i \in 1 .. p - 1 : s[i] \in X
      BY <1>1, <2>1, ElementOfSeq
    <3> QED BY <1>1, <2>1, <3>1, SubSeqProperties
  <2>7. /\ b \in Seq(X) /\ Len(b) = Len(s) - p
        /\ \A i \in 1 .. Len(s) - p : b[i] = s[p + i]
    <3>1. \A i \in p + 1 .. Len(s) : s[i] \in X
      BY <1>1, <2>1, ElementOfSeq
    <3> QED BY <1>1, <2>1, <3>1, SubSeqProperties
  <2>8. C!ToFront(s, x) = <<x>> \o (a \o b)
    BY <2>5 DEF C!ToFront, C!RemoveAt
  <2> HIDE DEF a, b
  <2>9. /\ a \o b \in Seq(X) /\ Len(a \o b) = Len(s) - 1
        /\ \A i \in 1 .. Len(s) - 1 : (a \o b)[i] = IF i < p THEN s[i] ELSE s[i + 1]
    <3>1. /\ a \o b \in Seq(X) /\ Len(a \o b) = Len(s) - 1
          /\ \A i \in 1 .. Len(s) - 1 :
                (a \o b)[i] = IF i <= p - 1 THEN a[i] ELSE b[i - (p - 1)]
      <4>1. /\ a \o b \in Seq(X) /\ Len(a \o b) = Len(a) + Len(b)
            /\ \A i \in 1 .. Len(a) + Len(b) :
                  (a \o b)[i] = IF i <= Len(a) THEN a[i] ELSE b[i - Len(a)]
        BY <2>6, <2>7, ConcatProperties
      <4>2. Len(a) + Len(b) = Len(s) - 1 /\ Len(a) = p - 1
        BY <1>1, <2>1, <2>6, <2>7
      <4> QED BY <4>1, <4>2
    <3>2. ASSUME NEW i \in 1 .. Len(s) - 1
          PROVE  (a \o b)[i] = IF i < p THEN s[i] ELSE s[i + 1]
      <4>1. CASE i < p
        BY <1>1, <2>1, <2>6, <3>1, <4>1
      <4>2. CASE ~(i < p)
        <5>1. i - (p - 1) \in 1 .. Len(s) - p /\ ~(i <= p - 1) /\ p + (i - (p - 1)) = i + 1
          BY <1>1, <2>1, <4>2
        <5>2. b[i - (p - 1)] = s[p + (i - (p - 1))]
          BY <2>7, <5>1
        <5>3. b[i - (p - 1)] = s[i + 1]
          BY <5>1, <5>2
        <5> QED BY <3>1, <4>2, <5>1, <5>3
      <4> QED BY <4>1, <4>2
    <3> QED BY <3>1, <3>2
  <2> DEFINE r == a \o b
  <2>10. r \in Seq(X) /\ Len(r) = Len(s) - 1
         /\ \A i \in 1 .. Len(s) - 1 : r[i] = IF i < p THEN s[i] ELSE s[i + 1]
    BY <2>9
  <2> HIDE DEF r
  <2>11. C!ToFront(s, x) = <<x>> \o r
    BY <2>8 DEF r
  <2>12. /\ <<x>> \o r \in Seq(X) /\ Len(<<x>> \o r) = Len(s)
         /\ \A i \in 1 .. Len(s) : (<<x>> \o r)[i] = IF i = 1 THEN x ELSE r[i - 1]
    BY <1>1, <2>1, <2>10, ConcatProperties
  <2> DEFINE t == <<x>> \o r
  <2>13. /\ t \in Seq(X) /\ Len(t) = Len(s) /\ C!ToFront(s, x) = t
         /\ \A i \in 1 .. Len(s) : t[i] = IF i = 1 THEN x ELSE r[i - 1]
    BY <2>11, <2>12
  <2> HIDE DEF t
  <2>14. ASSUME NEW j \in 1 .. Len(t)
         PROVE  t[j] = IF j = 1 THEN x ELSE IF j <= p THEN s[j - 1] ELSE s[j]
    <3>1. CASE j = 1
      BY <2>13, <3>1
    <3>2. CASE j # 1
      <4>1. j - 1 \in 1 .. Len(s) - 1 /\ t[j] = r[j - 1]
        BY <1>1, <2>13, <3>2
      <4>2. t[j] = IF j - 1 < p THEN s[j - 1] ELSE s[j - 1 + 1]
        BY <2>10, <4>1
      <4> QED BY <1>1, <2>13, <3>2, <4>2
    <3> QED BY <3>1, <3>2
  <2> QED BY <1>3, <2>13, <2>14 DEF IsToFront
<1> QED BY <1>1, <1>2, <1>3 DEF IsPlace

\* t and s have the same elements at their first m places.
SameFirst(t, s, m) ==
    /\ \A j \in 1 .. m : \E o \in 1 .. m : t[j] = s[o]
    /\ \A o \in 1 .. m : \E j \in 1 .. m : t[j] = s[o]

\* As sets.
Firsts(s, m) == {s[j] : j \in 1 .. m}

\* Two beginnings with the same elements are the same set.
LEMMA SameSet ==
    ASSUME NEW t, NEW s, NEW m, SameFirst(t, s, m)
    PROVE  Firsts(t, m) = Firsts(s, m)
<1>1. ASSUME NEW x, x \in Firsts(t, m) PROVE x \in Firsts(s, m)
  BY <1>1 DEF SameFirst, Firsts
<1>2. ASSUME NEW x, x \in Firsts(s, m) PROVE x \in Firsts(t, m)
  <2>1. PICK o \in 1 .. m : x = s[o]
    BY <1>2 DEF Firsts
  <2>2. PICK j \in 1 .. m : t[j] = s[o]
    BY DEF SameFirst
  <2> QED BY <2>1, <2>2 DEF Firsts
<1> QED BY <1>1, <1>2

\* t starts with x and the first m of s.
Prepends(t, x, s, m) == \A j \in 1 .. m + 1 : t[j] = IF j = 1 THEN x ELSE s[j - 1]

\* An element in front is one more in the set.
LEMMA PrependFirsts ==
    ASSUME NEW s, NEW t, NEW x, NEW m \in Nat, Prepends(t, x, s, m)
    PROVE  Firsts(s, m) \cup {x} = Firsts(t, m + 1)
<1>1. ASSUME NEW y \in Firsts(s, m) PROVE y \in Firsts(t, m + 1)
  <2>1. PICK i \in 1 .. m : y = s[i]
    BY DEF Firsts
  <2>2. i + 1 \in 1 .. m + 1 /\ i + 1 # 1 /\ i + 1 - 1 = i
    OBVIOUS
  <2>3. t[i + 1] = s[i + 1 - 1]
    BY <2>2 DEF Prepends
  <2> QED BY <2>1, <2>2, <2>3 DEF Firsts
<1>2. x \in Firsts(t, m + 1)
  <2>1. 1 \in 1 .. m + 1
    OBVIOUS
  <2>2. t[1] = x
    BY <2>1 DEF Prepends
  <2> QED BY <2>1, <2>2 DEF Firsts
<1>3. ASSUME NEW y \in Firsts(t, m + 1) PROVE y \in Firsts(s, m) \cup {x}
  <2>1. PICK j \in 1 .. m + 1 : y = t[j]
    BY DEF Firsts
  <2>2. CASE j = 1
    BY <2>1, <2>2 DEF Prepends
  <2>3. CASE j # 1
    <3>1. j - 1 \in 1 .. m
      BY <2>3
    <3> QED BY <2>1, <2>3, <3>1 DEF Firsts, Prepends
  <2> QED BY <2>2, <2>3
<1> QED BY <1>1, <1>2, <1>3

\* Moved to the front, elements stay distinct, and the first m are the same when x was
\* one of them.
LEMMA ToFrontKeeps ==
    ASSUME NEW X, NEW s \in Seq(X), NEW t \in Seq(X), NEW x, Distinct(s), NEW p, IsPlace(s, x, p),
           IsToFront(t, s, x, p)
    PROVE  /\ Distinct(t)
           /\ \A m \in p .. Len(s) : SameFirst(t, s, m)
<1>1. Len(s) \in Nat /\ Len(t) \in Nat /\ p \in 1 .. Len(s) + 1
  BY DEF IsPlace
<1>2. ASSUME NEW j \in 1 .. Len(t), j # 1
      PROVE  \E o \in 1 .. Len(s) : t[j] = s[o] /\ o # p /\ o = IF j <= p THEN j - 1 ELSE j
  <2>1. CASE j <= p
    BY <1>1, <1>2, <2>1 DEF IsToFront
  <2>2. CASE ~(j <= p)
    BY <1>1, <1>2, <2>2 DEF IsToFront
  <2> QED BY <2>1, <2>2
<1>3. ASSUME NEW j \in 1 .. Len(t), j # 1 PROVE t[j] # x
  <2>1. PICK o \in 1 .. Len(s) : t[j] = s[o] /\ o # p
    BY <1>2, <1>3
  <2> QED BY <1>1, <2>1 DEF IsPlace, Distinct
<1>4. ASSUME NEW i \in 1 .. Len(t), NEW j \in 1 .. Len(t), t[i] = t[j] PROVE i = j
  <2>1. CASE i = 1 \/ j = 1
    <3>1. t[1] = x
      BY <1>1, <2>1 DEF IsToFront
    <3> QED BY <1>3, <1>4, <2>1, <3>1
  <2>2. CASE i # 1 /\ j # 1
    <3>1. PICK o \in 1 .. Len(s) : t[i] = s[o] /\ o # p /\ o = IF i <= p THEN i - 1 ELSE i
      BY <1>2, <2>2
    <3>2. PICK q \in 1 .. Len(s) : t[j] = s[q] /\ q # p /\ q = IF j <= p THEN j - 1 ELSE j
      BY <1>2, <2>2
    <3>3. o = q
      BY <1>4, <3>1, <3>2 DEF Distinct
    <3> QED BY <1>1, <3>1, <3>2, <3>3
  <2> QED BY <2>1, <2>2
<1>5. ASSUME NEW m \in p .. Len(s) PROVE SameFirst(t, s, m)
  <2>1. p <= Len(s) /\ Len(t) = Len(s) /\ s[p] = x /\ t[1] = x /\ p \in 1 .. m /\ m \in 1 .. Len(s)
    BY <1>1, <1>5 DEF IsPlace, IsToFront
  <2>2. ASSUME NEW j \in 1 .. m PROVE \E o \in 1 .. m : t[j] = s[o]
    <3>1. CASE j = 1
      BY <2>1, <3>1
    <3>2. CASE j # 1
      <4>1. PICK o \in 1 .. Len(s) : t[j] = s[o] /\ o # p /\ o = IF j <= p THEN j - 1 ELSE j
        BY <1>2, <2>1, <3>2
      <4>2. o \in 1 .. m
        BY <1>1, <2>1, <4>1
      <4> QED BY <4>1, <4>2
    <3> QED BY <3>1, <3>2
  <2>3. ASSUME NEW o \in 1 .. m PROVE \E j \in 1 .. m : t[j] = s[o]
    <3>1. CASE o = p
      BY <2>1, <3>1
    <3>2. CASE o < p
      <4>1. o + 1 \in 1 .. m /\ o + 1 \in 1 .. Len(t) /\ o + 1 # 1 /\ o + 1 <= p /\ o + 1 - 1 = o
        BY <1>1, <2>1, <3>2
      <4>2. t[o + 1] = s[o + 1 - 1]
        BY <4>1 DEF IsToFront
      <4> QED BY <4>1, <4>2
    <3>3. CASE o > p
      <4>1. o \in 1 .. Len(t) /\ o # 1 /\ ~(o <= p)
        BY <1>1, <2>1, <3>3
      <4> QED BY <4>1 DEF IsToFront
    <3> QED BY <1>1, <3>1, <3>2, <3>3
  <2> QED BY <2>2, <2>3 DEF SameFirst
<1> QED BY <1>4, <1>5 DEF Distinct

-----------------------------------------------------------------------------
\* LRU.cpp and LRU2.cpp: what is in the list, the index and the values, next to the
\* keys used so far.
CacheLists ==
    /\ capacity \in Nat /\ (undefined => capacity = 0)
    /\ cache \in Seq(Addresses) /\ Distinct(cache)
    /\ uses \in Seq(CacheKeys) /\ Distinct(uses)
    /\ Len(cache) = IF Len(uses) < capacity THEN Len(uses) ELSE capacity

\* The index leads from the keys used last to the nodes of the list.
CacheIndex ==
    /\ DOMAIN index = Firsts(uses, Len(cache))
    /\ \A i \in 1 .. Len(cache) : index[uses[i]] = cache[i]

\* The nodes of the list have the keys used last, with the values stored last.
CacheValues ==
    /\ DOMAIN pair = Firsts(cache, Len(cache))
    /\ \A i \in 1 .. Len(uses) : uses[i] \in DOMAIN latest /\ latest[uses[i]] \in Values
    /\ \A i \in 1 .. Len(cache) : pair[cache[i]] = <<uses[i], latest[uses[i]]>>

\* The inductive invariant of a cache.
CacheInv == CacheLists /\ CacheIndex /\ CacheValues

\* A cache starts empty.
LEMMA CacheInit == Init => CacheInv
<1> SUFFICES ASSUME Init PROVE CacheInv
  OBVIOUS
<1>1. /\ capacity \in Nat /\ undefined = FALSE
      /\ cache = <<>> /\ uses = <<>> /\ index = <<>> /\ pair = <<>> /\ latest = <<>>
  BY CapacityAssumption DEF Init, C!New
<1>2. Len(<<>>) = 0 /\ DOMAIN <<>> = {} /\ 1 .. 0 = {} /\ \A X : <<>> \in Seq(X)
  OBVIOUS
<1>3. 1 .. Len(cache) = {} /\ 1 .. Len(uses) = {} /\ Len(cache) = 0 /\ Len(uses) = 0
      /\ cache \in Seq(Addresses) /\ uses \in Seq(CacheKeys)
  BY <1>1, <1>2
<1>4. DOMAIN index = {} /\ DOMAIN pair = {}
  BY <1>1, <1>2
<1>5. CacheLists
  BY <1>1, <1>3 DEF CacheLists, Distinct
<1>6. CacheIndex /\ CacheValues
  BY <1>3, <1>4 DEF CacheIndex, CacheValues, Firsts
<1> QED BY <1>5, <1>6 DEF CacheInv

\* What is in a key's node.
LEMMA CachedKey ==
    ASSUME CacheInv, NEW k, k \in DOMAIN index
    PROVE  \E p \in 1 .. Len(cache) :
              /\ uses[p] = k /\ index[k] = cache[p]
              /\ IsPlace(uses, k, p) /\ IsPlace(cache, index[k], p)
              /\ p <= Len(uses) /\ k \in CacheKeys /\ index[k] \in Addresses
<1> USE DEF CacheInv, CacheLists, CacheIndex
<1>1. PICK p \in 1 .. Len(cache) : uses[p] = k
  BY DEF Firsts
<1>2. Len(cache) \in Nat /\ Len(uses) \in Nat /\ Len(cache) <= Len(uses)
  OBVIOUS
<1>3. p \in 1 .. Len(uses) /\ index[k] = cache[p]
  BY <1>1, <1>2
<1>4. IsPlace(uses, k, p) /\ IsPlace(cache, index[k], p)
  BY <1>1, <1>2, <1>3 DEF IsPlace
<1>5. k \in CacheKeys /\ index[k] \in Addresses
  BY <1>1, <1>3, ElementOfSeq
<1> QED BY <1>1, <1>2, <1>3, <1>4, <1>5

\* A cached key comes to the front, its node to the front of the list.
LEMMA TouchKeeps ==
    ASSUME CacheInv, NEW k, k \in DOMAIN index, C!Touch(k)
    PROVE  /\ CacheLists' /\ CacheIndex'
           /\ Len(cache') = Len(cache) /\ Len(uses') = Len(uses)
           /\ Firsts(cache', Len(cache)) = Firsts(cache, Len(cache))
           /\ \A j \in 1 .. Len(uses) : \E i \in 1 .. Len(uses) :
                 /\ uses'[j] = uses[i]
                 /\ j \in 1 .. Len(cache) => i \in 1 .. Len(cache) /\ cache'[j] = cache[i]
<1> USE DEF CacheInv
<1>1. PICK p \in 1 .. Len(cache) :
         /\ uses[p] = k /\ index[k] = cache[p]
         /\ IsPlace(uses, k, p) /\ IsPlace(cache, index[k], p)
         /\ p <= Len(uses) /\ k \in CacheKeys /\ index[k] \in Addresses
  BY CachedKey
<1>2. /\ Len(cache) \in Nat /\ Len(uses) \in Nat /\ Len(cache) <= Len(uses) /\ capacity \in Nat
      /\ cache \in Seq(Addresses) /\ Distinct(cache)
      /\ uses \in Seq(CacheKeys) /\ Distinct(uses)
      /\ p \in 1 .. Len(uses)
  BY <1>1 DEF CacheLists
<1>3. uses' \in Seq(CacheKeys) /\ IsToFront(uses', uses, k, p)
  BY <1>1, <1>2, ToFrontIs DEF C!Touch
<1>4. cache' \in Seq(Addresses) /\ IsToFront(cache', cache, index[k], p)
  BY <1>1, <1>2, ToFrontIs DEF C!Touch
<1>5. /\ Distinct(uses')
      /\ \A m \in p .. Len(uses) : SameFirst(uses', uses, m)
  BY <1>1, <1>2, <1>3, ToFrontKeeps
<1>6. /\ Distinct(cache')
      /\ \A m \in p .. Len(cache) : SameFirst(cache', cache, m)
  BY <1>1, <1>2, <1>4, ToFrontKeeps
<1>7. Len(cache') = Len(cache) /\ Len(uses') = Len(uses) /\ Len(cache) \in p .. Len(cache)
      /\ Len(cache) \in p .. Len(uses)
  BY <1>2, <1>3, <1>4 DEF IsToFront
<1>8. CacheLists'
  BY <1>2, <1>3, <1>4, <1>5, <1>6, <1>7 DEF CacheLists, C!Touch
<1>9. ASSUME NEW j \in 1 .. Len(uses)
      PROVE  \E i \in 1 .. Len(uses) :
                 /\ uses'[j] = uses[i]
                 /\ j \in 1 .. Len(cache) => i \in 1 .. Len(cache) /\ cache'[j] = cache[i]
  <2>1. CASE j = 1
    BY <1>1, <1>2, <1>3, <1>4, <1>7, <2>1 DEF IsToFront
  <2>2. CASE j # 1 /\ j <= p
    <3>1. j - 1 \in 1 .. Len(uses) /\ (j \in 1 .. Len(cache) => j - 1 \in 1 .. Len(cache))
      BY <1>2, <2>2
    <3>2. uses'[j] = uses[j - 1] /\ (j \in 1 .. Len(cache) => cache'[j] = cache[j - 1])
      BY <1>3, <1>4, <1>7, <2>2 DEF IsToFront
    <3> QED BY <3>1, <3>2
  <2>3. CASE ~(j <= p)
    <3>1. j # 1
      BY <1>2, <2>3
    <3>2. uses'[j] = uses[j] /\ (j \in 1 .. Len(cache) => cache'[j] = cache[j])
      BY <1>3, <1>4, <1>7, <2>3, <3>1 DEF IsToFront
    <3> QED BY <3>2
  <2> QED BY <2>1, <2>2, <2>3
<1>10. CacheIndex'
  <2>1. index' = index
    BY DEF C!Touch
  <2>2. DOMAIN index' = Firsts(uses', Len(cache'))
    <3>1. Firsts(uses', Len(cache)) = Firsts(uses, Len(cache))
      <4>1. SameFirst(uses', uses, Len(cache))
        BY <1>5, <1>7
      <4> QED BY <4>1, SameSet
    <3> QED BY <1>7, <2>1, <3>1 DEF CacheIndex
  <2>3. ASSUME NEW j \in 1 .. Len(cache') PROVE index'[uses'[j]] = cache'[j]
    <3>1. j \in 1 .. Len(uses) /\ j \in 1 .. Len(cache)
      BY <1>2, <1>7
    <3>2. PICK i \in 1 .. Len(cache) : uses'[j] = uses[i] /\ cache'[j] = cache[i]
      BY <1>9, <3>1
    <3> QED BY <2>1, <3>2 DEF CacheIndex
  <2> QED BY <2>2, <2>3 DEF CacheIndex
<1>11. Firsts(cache', Len(cache)) = Firsts(cache, Len(cache))
  <2>1. SameFirst(cache', cache, Len(cache))
    BY <1>6, <1>7
  <2> QED BY <2>1, SameSet
<1> QED BY <1>7, <1>8, <1>9, <1>10, <1>11

\* get.
LEMMA GetKeeps == ASSUME CacheInv, NEW k, C!Get(k) PROVE CacheInv'
<1>1. k \in DOMAIN index /\ C!Touch(k) /\ pair' = pair /\ latest' = latest
  BY DEF C!Get
<1>2. /\ CacheLists' /\ CacheIndex'
      /\ Len(cache') = Len(cache) /\ Len(uses') = Len(uses)
      /\ Firsts(cache', Len(cache)) = Firsts(cache, Len(cache))
      /\ \A j \in 1 .. Len(uses) : \E i \in 1 .. Len(uses) :
            /\ uses'[j] = uses[i]
            /\ j \in 1 .. Len(cache) => i \in 1 .. Len(cache) /\ cache'[j] = cache[i]
  BY <1>1, TouchKeeps
<1>3. Len(cache) \in Nat /\ Len(uses) \in Nat /\ Len(cache) <= Len(uses)
  BY DEF CacheInv, CacheLists
<1>4. CacheValues'
  <2>1. DOMAIN pair' = Firsts(cache', Len(cache'))
    BY <1>1, <1>2 DEF CacheInv, CacheValues
  <2>2. ASSUME NEW j \in 1 .. Len(uses')
        PROVE  uses'[j] \in DOMAIN latest' /\ latest'[uses'[j]] \in Values
    BY <1>1, <1>2 DEF CacheInv, CacheValues
  <2>3. ASSUME NEW j \in 1 .. Len(cache')
        PROVE  pair'[cache'[j]] = <<uses'[j], latest'[uses'[j]]>>
    <3>1. j \in 1 .. Len(uses) /\ j \in 1 .. Len(cache)
      BY <1>2, <1>3
    <3>2. PICK i \in 1 .. Len(cache) : uses'[j] = uses[i] /\ cache'[j] = cache[i]
      BY <1>2, <3>1
    <3> QED BY <1>1, <3>2 DEF CacheInv, CacheValues
  <2> QED BY <2>1, <2>2, <2>3 DEF CacheValues
<1> QED BY <1>2, <1>4 DEF CacheInv

\* put and push of a cached key: LRU.cpp stores the new value.
LEMMA PutCachedKeeps ==
    ASSUME CacheInv, NEW k, NEW v \in Values, C!PutCached(k, v)
    PROVE  CacheInv'
<1>1. k \in DOMAIN index /\ C!Touch(k)
  BY DEF C!PutCached
<1>2. /\ CacheLists' /\ CacheIndex'
      /\ Len(cache') = Len(cache) /\ Len(uses') = Len(uses)
      /\ Firsts(cache', Len(cache)) = Firsts(cache, Len(cache))
      /\ \A j \in 1 .. Len(uses) : \E i \in 1 .. Len(uses) :
            /\ uses'[j] = uses[i]
            /\ j \in 1 .. Len(cache) => i \in 1 .. Len(cache) /\ cache'[j] = cache[i]
  BY <1>1, TouchKeeps
<1>3. Len(cache) \in Nat /\ Len(uses) \in Nat /\ Len(cache) <= Len(uses)
  BY DEF CacheInv, CacheLists
<1>4. PICK p \in 1 .. Len(cache) : uses[p] = k /\ index[k] = cache[p]
  BY <1>1, CachedKey
<1>5. CASE pair' = pair /\ latest' = latest
  <2>1. DOMAIN pair' = Firsts(cache', Len(cache'))
    BY <1>2, <1>5 DEF CacheInv, CacheValues
  <2>2. ASSUME NEW j \in 1 .. Len(uses')
        PROVE  uses'[j] \in DOMAIN latest' /\ latest'[uses'[j]] \in Values
    BY <1>2, <1>5 DEF CacheInv, CacheValues
  <2>3. ASSUME NEW j \in 1 .. Len(cache')
        PROVE  pair'[cache'[j]] = <<uses'[j], latest'[uses'[j]]>>
    <3>1. j \in 1 .. Len(uses) /\ j \in 1 .. Len(cache)
      BY <1>2, <1>3
    <3>2. PICK i \in 1 .. Len(cache) : uses'[j] = uses[i] /\ cache'[j] = cache[i]
      BY <1>2, <3>1
    <3> QED BY <1>5, <3>2 DEF CacheInv, CacheValues
  <2> QED BY <1>2, <2>1, <2>2, <2>3 DEF CacheInv, CacheValues
<1>6. CASE pair' = C!Update(pair, index[k], <<k, v>>) /\ latest' = C!Update(latest, k, v)
  <2>1. DOMAIN pair' = Firsts(cache', Len(cache'))
    <3>1. index[k] \in DOMAIN pair
      BY <1>4 DEF CacheInv, CacheValues, Firsts
    <3> QED BY <1>2, <1>6, <3>1 DEF CacheInv, CacheValues, C!Update
  <2>2. ASSUME NEW j \in 1 .. Len(uses')
        PROVE  uses'[j] \in DOMAIN latest' /\ latest'[uses'[j]] \in Values
    <3>1. PICK i \in 1 .. Len(uses) : uses'[j] = uses[i]
      BY <1>2
    <3>2. uses[i] \in DOMAIN latest /\ latest[uses[i]] \in Values
      BY DEF CacheInv, CacheValues
    <3> QED BY <1>6, <3>1, <3>2 DEF C!Update
  <2>3. ASSUME NEW j \in 1 .. Len(cache')
        PROVE  pair'[cache'[j]] = <<uses'[j], latest'[uses'[j]]>>
    <3>1. j \in 1 .. Len(uses) /\ j \in 1 .. Len(cache)
      BY <1>2, <1>3
    <3>2. PICK i \in 1 .. Len(cache) : uses'[j] = uses[i] /\ cache'[j] = cache[i]
      BY <1>2, <3>1
    <3>3. /\ cache[i] \in DOMAIN pair /\ uses[i] \in DOMAIN latest
          /\ pair[cache[i]] = <<uses[i], latest[uses[i]]>>
      BY <1>3, <3>2 DEF CacheInv, CacheValues, Firsts
    <3>4. CASE i = p
      BY <1>4, <1>6, <3>2, <3>3, <3>4 DEF C!Update
    <3>5. CASE i # p
      <4>1. uses[i] # k /\ cache[i] # index[k]
        BY <1>3, <1>4, <3>5 DEF CacheInv, CacheLists, Distinct
      <4> QED BY <1>6, <3>2, <3>3, <4>1 DEF C!Update
    <3> QED BY <3>4, <3>5
  <2> QED BY <1>2, <2>1, <2>2, <2>3 DEF CacheInv, CacheValues
<1> QED BY <1>5, <1>6 DEF C!PutCached

\* put and push of another key: it comes first, a node that is not in the list comes
\* first there, and when the list was full its last key and node are gone.
LEMMA PutNewKeeps ==
    ASSUME CacheInv, kind \in C!Kinds, NEW k \in CacheKeys, NEW v \in Values, C!PutNew(k, v)
    PROVE  CacheInv'
<1> DEFINE m == IF C!Full THEN Len(cache) - 1 ELSE Len(cache)
           kept == IF C!Full THEN C!Front(cache) ELSE cache
           old == cache[Len(cache)]
<1>1. /\ Len(cache) \in Nat /\ Len(uses) \in Nat /\ Len(cache) <= Len(uses) /\ capacity \in Nat
      /\ cache \in Seq(Addresses) /\ Distinct(cache)
      /\ uses \in Seq(CacheKeys) /\ Distinct(uses)
      /\ Len(cache) = IF Len(uses) < capacity THEN Len(uses) ELSE capacity
      /\ undefined' = undefined /\ capacity' = capacity
      /\ (undefined => capacity = 0)
  BY DEF CacheInv, CacheLists, C!PutNew
<1>2. k \notin DOMAIN index /\ uses' = C!ToFront(uses, k) /\ latest' = C!Update(latest, k, v)
  BY DEF C!PutNew
<1>3. PICK n \in Addresses :
         /\ n \notin C!ToSet(kept)
         /\ cache' = <<n>> \o kept
         /\ pair' = C!Update(IF C!Full THEN C!Without(pair, old) ELSE pair, n, <<k, v>>)
         /\ index' = C!Update(IF C!Full THEN C!Erased(index, pair[old][1]) ELSE index, k, n)
  BY DEF C!PutNew, C!Last
<1>4. C!Full => cache # <<>> /\ Len(cache) > 0
  BY <1>1, EmptySeq DEF C!PutNew
<1>5. C!Full <=> Len(cache) = capacity
  BY <1>1 DEF C!Full
<1>6. m \in Nat /\ m <= Len(cache)
  BY <1>1, <1>4
<1>7. kept \in Seq(Addresses) /\ Len(kept) = m /\ \A i \in 1 .. m : kept[i] = cache[i]
  <2>1. CASE C!Full
    <3>1. \A i \in 1 .. Len(cache) - 1 : cache[i] \in Addresses
      BY <1>1, ElementOfSeq
    <3> QED BY <1>1, <1>4, <2>1, <3>1, SubSeqProperties DEF C!Front
  <2>2. CASE ~C!Full
    BY <1>1, <2>2
  <2> QED BY <2>1, <2>2
<1>8. \A i \in 1 .. m : cache[i] # n
  BY <1>3, <1>7 DEF C!ToSet
<1> HIDE DEF m, kept
<1>9. /\ cache' \in Seq(Addresses) /\ Len(cache') = m + 1
      /\ \A j \in 1 .. m + 1 : cache'[j] = IF j = 1 THEN n ELSE cache[j - 1]
  <2>1. <<n>> \in Seq(Addresses) /\ Len(<<n>>) = 1 /\ <<n>>[1] = n
    OBVIOUS
  <2>2. /\ <<n>> \o kept \in Seq(Addresses) /\ Len(<<n>> \o kept) = m + 1
        /\ \A j \in 1 .. m + 1 : (<<n>> \o kept)[j] = IF j = 1 THEN n ELSE kept[j - 1]
    BY <1>6, <1>7, <2>1, ConcatProperties
  <2> QED BY <1>3, <1>6, <1>7, <2>2
<1>10. PICK p \in 1 .. Len(uses) + 1 : IsPlace(uses, k, p)
  BY <1>1, OnePlace
<1>11. p > Len(cache)
  <2> SUFFICES ASSUME p <= Len(cache) PROVE FALSE
    BY <1>1
  <2>1. uses[p] = k /\ p \in 1 .. Len(cache)
    BY <1>1, <1>10 DEF IsPlace
  <2> QED BY <1>2, <2>1 DEF CacheInv, CacheIndex, Firsts
<1>12. uses' \in Seq(CacheKeys) /\ IsToFront(uses', uses, k, p) /\ Distinct(uses')
  BY <1>1, <1>2, <1>10, ToFrontIs, ToFrontKeeps
<1>13. /\ Len(uses') \in Nat /\ m + 1 <= Len(uses')
       /\ \A j \in 1 .. m + 1 : uses'[j] = IF j = 1 THEN k ELSE uses[j - 1]
  BY <1>1, <1>6, <1>10, <1>11, <1>12 DEF IsToFront
<1>14. CacheLists'
  <2>1. Distinct(cache')
    <3>1. ASSUME NEW i \in 1 .. m + 1, NEW j \in 1 .. m + 1, cache'[i] = cache'[j] PROVE i = j
      <4>1. CASE i = 1 /\ j # 1
        <5>1. j - 1 \in 1 .. m
          BY <1>6, <4>1
        <5> QED BY <1>8, <1>9, <3>1, <4>1, <5>1
      <4>2. CASE i # 1 /\ j = 1
        <5>1. i - 1 \in 1 .. m
          BY <1>6, <4>2
        <5> QED BY <1>8, <1>9, <3>1, <4>2, <5>1
      <4>3. CASE i # 1 /\ j # 1
        <5>1. i - 1 \in 1 .. Len(cache) /\ j - 1 \in 1 .. Len(cache)
          BY <1>1, <1>6, <4>3
        <5>2. cache[i - 1] = cache[j - 1]
          BY <1>9, <3>1, <4>3
        <5>3. i - 1 = j - 1
          BY <1>1, <5>1, <5>2 DEF Distinct
        <5> QED BY <5>3
      <4> QED BY <4>1, <4>2, <4>3
    <3> QED BY <1>9, <3>1 DEF Distinct
  <2>2. Len(cache') = IF Len(uses') < capacity THEN Len(uses') ELSE capacity
    <3>1. CASE C!Full
      BY <1>1, <1>5, <1>6, <1>9, <1>13, <3>1 DEF m
    <3>2. CASE ~C!Full
      <4>1. Len(cache) = Len(uses) /\ p = Len(uses) + 1 /\ m = Len(cache) /\ Len(uses) < capacity
        BY <1>1, <1>5, <1>10, <1>11, <3>2 DEF m
      <4>2. Len(uses') = Len(uses) + 1
        BY <1>1, <1>12, <4>1 DEF IsToFront
      <4> QED BY <1>1, <1>9, <4>1, <4>2
    <3> QED BY <3>1, <3>2
  <2> QED BY <1>1, <1>9, <1>12, <2>1, <2>2 DEF CacheLists
<1> DEFINE rest == IF C!Full THEN C!Erased(index, pair[old][1]) ELSE index
           pairs == IF C!Full THEN C!Without(pair, old) ELSE pair
\* The erased key is the one used least recently.
<1>15. C!Full => pair[old][1] = uses[Len(cache)] /\ m + 1 = Len(cache)
  <2> SUFFICES ASSUME C!Full PROVE pair[old][1] = uses[Len(cache)] /\ m + 1 = Len(cache)
    OBVIOUS
  <2>1. Len(cache) \in 1 .. Len(cache)
    BY <1>1, <1>4
  <2>2. pair[old] = <<uses[Len(cache)], latest[uses[Len(cache)]]>>
    BY <2>1 DEF CacheInv, CacheValues
  <2> QED BY <1>1, <2>2 DEF m
<1>16. \A i \in 1 .. m : uses[i] # k
  BY <1>1, <1>2, <1>6 DEF CacheInv, CacheIndex, Firsts
<1>17. /\ DOMAIN rest = Firsts(uses, m)
       /\ \A i \in 1 .. m : rest[uses[i]] = cache[i]
  <2>1. CASE C!Full
    <3>1. rest = [y \in DOMAIN index \ {uses[Len(cache)]} |-> index[y]]
      BY <1>15, <2>1 DEF C!Erased, C!Without
    <3>2. DOMAIN rest = Firsts(uses, Len(cache)) \ {uses[Len(cache)]}
      BY <3>1 DEF CacheInv, CacheIndex
    <3>3. m = Len(cache) - 1 /\ Len(cache) \in 1 .. Len(uses)
      BY <1>1, <1>4, <2>1 DEF m
    <3>4. \A i \in 1 .. m : uses[i] # uses[Len(cache)] /\ i \in 1 .. Len(cache)
      BY <1>1, <3>3 DEF Distinct
    <3>5. Firsts(uses, Len(cache)) \ {uses[Len(cache)]} = Firsts(uses, m)
      <4>1. ASSUME NEW x \in Firsts(uses, Len(cache)), x # uses[Len(cache)]
            PROVE  x \in Firsts(uses, m)
        <5>1. PICK i \in 1 .. Len(cache) : x = uses[i]
          BY DEF Firsts
        <5>2. i \in 1 .. m
          BY <1>1, <3>3, <4>1, <5>1
        <5> QED BY <5>1, <5>2 DEF Firsts
      <4>2. ASSUME NEW x \in Firsts(uses, m)
            PROVE  x \in Firsts(uses, Len(cache)) /\ x # uses[Len(cache)]
        BY <3>4 DEF Firsts
      <4> QED BY <4>1, <4>2
    <3>6. ASSUME NEW i \in 1 .. m PROVE rest[uses[i]] = cache[i]
      <4>1. uses[i] \in DOMAIN rest
        BY <3>2, <3>5 DEF Firsts
      <4> QED BY <3>1, <3>4, <4>1 DEF CacheInv, CacheIndex
    <3> QED BY <3>2, <3>5, <3>6
  <2>2. CASE ~C!Full
    BY <2>2 DEF m, CacheInv, CacheIndex
  <2> QED BY <2>1, <2>2
<1>18. /\ DOMAIN pairs = Firsts(cache, m)
       /\ \A i \in 1 .. m : pairs[cache[i]] = <<uses[i], latest[uses[i]]>>
  <2>1. CASE C!Full
    <3>1. pairs = [y \in DOMAIN pair \ {old} |-> pair[y]]
      BY <2>1 DEF C!Without
    <3>2. DOMAIN pairs = Firsts(cache, Len(cache)) \ {old}
      BY <3>1 DEF CacheInv, CacheValues
    <3>3. m = Len(cache) - 1 /\ Len(cache) \in 1 .. Len(cache)
      BY <1>1, <1>4, <2>1 DEF m
    <3>4. \A i \in 1 .. m : cache[i] # old /\ i \in 1 .. Len(cache)
      BY <1>1, <3>3 DEF Distinct
    <3>5. Firsts(cache, Len(cache)) \ {old} = Firsts(cache, m)
      <4>1. ASSUME NEW x \in Firsts(cache, Len(cache)), x # old
            PROVE  x \in Firsts(cache, m)
        <5>1. PICK i \in 1 .. Len(cache) : x = cache[i]
          BY DEF Firsts
        <5>2. i \in 1 .. m
          BY <1>1, <3>3, <4>1, <5>1
        <5> QED BY <5>1, <5>2 DEF Firsts
      <4>2. ASSUME NEW x \in Firsts(cache, m)
            PROVE  x \in Firsts(cache, Len(cache)) /\ x # old
        BY <3>4 DEF Firsts
      <4> QED BY <4>1, <4>2
    <3>6. ASSUME NEW i \in 1 .. m PROVE pairs[cache[i]] = <<uses[i], latest[uses[i]]>>
      <4>1. cache[i] \in DOMAIN pairs
        BY <3>2, <3>5 DEF Firsts
      <4> QED BY <3>1, <3>4, <4>1 DEF CacheInv, CacheValues
    <3> QED BY <3>2, <3>5, <3>6
  <2>2. CASE ~C!Full
    BY <2>2 DEF m, CacheInv, CacheValues
  <2> QED BY <2>1, <2>2
<1>19. index' = C!Update(rest, k, n) /\ pair' = C!Update(pairs, n, <<k, v>>)
  BY <1>3
<1> HIDE DEF rest, pairs, old
<1>20. CacheIndex'
  <2>1. DOMAIN index' = Firsts(uses', Len(cache'))
    <3>1. Firsts(uses, m) \cup {k} = Firsts(uses', m + 1)
      <4>1. Prepends(uses', k, uses, m)
        BY <1>13 DEF Prepends
      <4> QED BY <1>6, <4>1, PrependFirsts
    <3> QED BY <1>9, <1>17, <1>19, <3>1 DEF C!Update
  <2>2. ASSUME NEW j \in 1 .. m + 1 PROVE index'[uses'[j]] = cache'[j]
    <3>1. CASE j = 1
      BY <1>9, <1>13, <1>19, <3>1 DEF C!Update
    <3>2. CASE j # 1
      <4>1. j - 1 \in 1 .. m
        BY <1>6, <3>2
      <4>2. uses[j - 1] \in DOMAIN rest /\ uses[j - 1] # k
        BY <1>16, <1>17, <4>1 DEF Firsts
      <4>3. index'[uses[j - 1]] = cache[j - 1]
        BY <1>17, <1>19, <4>1, <4>2 DEF C!Update
      <4> QED BY <1>9, <1>13, <3>2, <4>3
    <3> QED BY <3>1, <3>2
  <2> QED BY <1>9, <2>1, <2>2 DEF CacheIndex
<1>21. CacheValues'
  <2>1. DOMAIN pair' = Firsts(cache', Len(cache'))
    <3>1. Firsts(cache, m) \cup {n} = Firsts(cache', m + 1)
      <4>1. Prepends(cache', n, cache, m)
        BY <1>9 DEF Prepends
      <4> QED BY <1>6, <4>1, PrependFirsts
    <3> QED BY <1>9, <1>18, <1>19, <3>1 DEF C!Update
  <2>2. ASSUME NEW j \in 1 .. Len(uses')
        PROVE  uses'[j] \in DOMAIN latest' /\ latest'[uses'[j]] \in Values
    <3>1. CASE uses'[j] = k
      BY <1>2, <3>1 DEF C!Update
    <3>2. CASE uses'[j] # k
      <4>1. \E i \in 1 .. Len(uses) : uses'[j] = uses[i]
        <5>1. j # 1
          BY <1>12, <3>2 DEF IsToFront
        <5>2. uses'[j] = IF j <= p THEN uses[j - 1] ELSE uses[j]
          BY <1>12, <5>1 DEF IsToFront
        <5>3. (j <= p => j - 1 \in 1 .. Len(uses)) /\ (~(j <= p) => j \in 1 .. Len(uses))
          BY <1>1, <1>10, <1>12, <1>13, <5>1 DEF IsToFront
        <5> QED BY <5>2, <5>3
      <4>2. PICK i \in 1 .. Len(uses) : uses'[j] = uses[i]
        BY <4>1
      <4>3. uses[i] \in DOMAIN latest /\ latest[uses[i]] \in Values
        BY DEF CacheInv, CacheValues
      <4> QED BY <1>2, <3>2, <4>2, <4>3 DEF C!Update
    <3> QED BY <3>1, <3>2
  <2>3. ASSUME NEW j \in 1 .. m + 1 PROVE pair'[cache'[j]] = <<uses'[j], latest'[uses'[j]]>>
    <3>1. CASE j = 1
      <4>1. pair'[n] = <<k, v>> /\ latest'[k] = v
        BY <1>2, <1>19 DEF C!Update
      <4> QED BY <1>9, <1>13, <3>1, <4>1
    <3>2. CASE j # 1
      <4>1. j - 1 \in 1 .. m /\ j - 1 \in 1 .. Len(uses)
        BY <1>1, <1>6, <3>2
      <4>2. /\ cache[j - 1] \in DOMAIN pairs /\ cache[j - 1] # n
            /\ uses[j - 1] # k /\ uses[j - 1] \in DOMAIN latest
        BY <1>8, <1>16, <1>18, <4>1 DEF Firsts, CacheInv, CacheValues
      <4>3. pair'[cache[j - 1]] = pairs[cache[j - 1]] /\ latest'[uses[j - 1]] = latest[uses[j - 1]]
        BY <1>2, <1>19, <4>2 DEF C!Update
      <4> QED BY <1>9, <1>13, <1>18, <3>2, <4>1, <4>3
    <3> QED BY <3>1, <3>2
  <2> QED BY <1>9, <2>1, <2>2, <2>3 DEF CacheValues
<1> QED BY <1>14, <1>20, <1>21 DEF CacheInv

\* A cache without a node to give up has capacity 0.
LEMMA PutNowhereKeeps ==
    ASSUME CacheInv, kind \in C!Kinds, NEW k, C!PutNowhere(k)
    PROVE  CacheInv'
<1>1. capacity = 0
  BY EmptySeq DEF CacheInv, CacheLists, C!PutNowhere, C!Full
<1> QED BY <1>1 DEF CacheInv, CacheLists, CacheIndex, CacheValues, C!PutNowhere

\* Every operation of a cache.
LEMMA CacheStep ==
    ASSUME CacheInv, kind \in C!Kinds, C!Next \/ UNCHANGED cacheVars
    PROVE  CacheInv'
<1>1. CASE UNCHANGED cacheVars
  BY <1>1 DEF CacheInv, CacheLists, CacheIndex, CacheValues, cacheVars
<1>2. CASE C!Next
  BY <1>2, GetKeeps, PutCachedKeeps, PutNewKeeps, PutNowhereKeeps DEF C!Next
<1> QED BY <1>1, <1>2

\* What holds of a cache that is in use.
CachesInv == kind \in C!Kinds => CacheInv

\* The steps of a cache keep its invariant.
LEMMA CachesInvariant == Spec => []CachesInv
<1> USE DEF CachesInv
<1>1. Init => CachesInv
  BY CacheInit
<1>2. CachesInv /\ [Next]_vars => CachesInv'
  BY Frame, CacheStep
<1> QED BY <1>1, <1>2, PTL DEF Spec

\* The caches keep the keys used last with their values, whatever their capacity.
THEOREM CachesKeepLatest == Spec => []CacheKeepsLatest
<1> USE DEF CachesInv
<1>1. CachesInv => CacheKeepsLatest
  <2> SUFFICES ASSUME CacheInv PROVE C!KeepsLatest
    BY DEF CacheKeepsLatest
  <2>1. DOMAIN cache = 1 .. Len(cache)
    BY DEF CacheInv, CacheLists
  <2> QED BY <2>1 DEF CacheInv, CacheLists, CacheIndex, CacheValues, C!KeepsLatest, Firsts
<1> QED BY <1>1, CachesInvariant, PTL

-----------------------------------------------------------------------------
\* What a place of a buffer can hold.
Bytes == Characters \cup {S!Nul, "junk"}

\* The buffer b of a string of n characters reads as t.
Reads(b, n, t) ==
    /\ b \in Seq(Bytes) /\ n \in Nat /\ Len(b) = n + 1
    /\ t \in Seq(Characters) /\ Len(t) <= n
    /\ \A i \in 1 .. Len(t) : b[i] = t[i]
    /\ b[Len(t) + 1] = S!Nul

\* The types of the strings.
StringTypes ==
    /\ memory \in [Addresses -> Seq(Bytes)]
    /\ data \in [StringNames -> Addresses \cup {S!None}]
    /\ length \in [StringNames -> Nat]
    /\ text \in [StringNames -> Seq(Characters)]
    /\ cut \in BOOLEAN

\* A buffer reads as the text of its string, all of it unless a NUL was written into one.
StringReads ==
    \A s \in StringNames : S!Alive(s) =>
        /\ Reads(memory[data[s]], length[s], text[s])
        /\ cut = FALSE => Len(text[s]) = length[s]

\* A buffer of no string is the empty one that a sum of SimpleString has left behind.
Left(a) == kind = "SimpleString" /\ memory[a] = S!Buffer(0, <<>>)

\* No two strings share a buffer, and nothing else is allocated but what sums leave behind.
StringOwns ==
    /\ \A s, t \in StringNames : S!Alive(s) /\ data[s] = data[t] => s = t
    /\ \A a \in Addresses : memory[a] # <<>> => Left(a) \/ \E s \in StringNames : data[s] = a

\* The inductive invariant of the strings.
StringInv == StringTypes /\ StringReads /\ StringOwns

\* Nothing is allocated at first.
LEMMA StringInit == Init => StringInv
<1> SUFFICES ASSUME Init PROVE StringInv
  OBVIOUS
<1>1. /\ memory = [a \in Addresses |-> <<>>] /\ data = [s \in StringNames |-> S!None]
      /\ length = [s \in StringNames |-> 0] /\ text = [s \in StringNames |-> <<>>]
      /\ cut = FALSE
  BY DEF Init, S!New
<1>2. StringTypes
  BY <1>1, EmptySeq DEF StringTypes
<1> QED BY <1>1, <1>2 DEF StringInv, StringReads, StringOwns, S!Alive

\* A new buffer reads as what it is made of.
LEMMA BufferReads ==
    ASSUME NEW t \in Seq(Characters), NEW n \in Nat, Len(t) <= n
    PROVE  Reads(S!Buffer(n, t), n, t)
<1> DEFINE b == S!Buffer(n, t)
<1>1. b = [i \in 1 .. n + 1 |-> IF i <= Len(t) THEN t[i]
                                ELSE IF i = Len(t) + 1 THEN S!Nul ELSE "junk"]
  BY DEF S!Buffer
<1>2. ASSUME NEW i \in 1 .. n + 1 PROVE b[i] \in Bytes
  <2>1. CASE i <= Len(t)
    <3>1. t[i] \in Characters
      BY <2>1, ElementOfSeq
    <3> QED BY <1>1, <2>1, <3>1 DEF Bytes
  <2>2. CASE ~(i <= Len(t))
    BY <1>1, <2>2 DEF Bytes
  <2> QED BY <2>1, <2>2
<1>3. b \in Seq(Bytes) /\ Len(b) = n + 1
  BY <1>1, <1>2
<1>4. \A i \in 1 .. Len(t) : b[i] = t[i]
  BY <1>1
<1>5. b[Len(t) + 1] = S!Nul
  BY <1>1
<1> QED BY <1>3, <1>4, <1>5 DEF Reads

\* strlen and strcpy see the text.
LEMMA CStringIs ==
    ASSUME StringInv, NEW s \in StringNames, S!Alive(s)
    PROVE  S!CString(s) = text[s]
<1> DEFINE b == memory[data[s]]
           t == text[s]
<1>1. Reads(b, length[s], t)
  BY DEF StringInv, StringReads
<1> HIDE DEF b, t
<1>2. /\ b \in Seq(Bytes) /\ t \in Seq(Characters) /\ Len(t) \in Nat /\ Len(b) \in Nat
      /\ Len(t) + 1 \in 1 .. Len(b) /\ b[Len(t) + 1] = S!Nul
      /\ \A i \in 1 .. Len(t) : b[i] = t[i]
  BY <1>1 DEF Reads
<1>3. \A i \in 1 .. Len(t) : b[i] # S!Nul /\ b[i] \in Characters
  <2>1. \A i \in 1 .. Len(t) : t[i] \in Characters
    BY <1>2, ElementOfSeq
  <2> QED BY <1>2, <2>1, StringsAssumption DEF S!Nul
<1> DEFINE I == {i \in 1 .. Len(b) : b[i] = S!Nul}
<1>4. Len(t) + 1 \in I /\ \A i \in I : i \in Nat /\ Len(t) + 1 <= i
  BY <1>2, <1>3
<1>5. S!Min(I) = Len(t) + 1
  <2>1. \E x \in I : \A y \in I : x <= y
    BY <1>4
  <2>2. S!Min(I) \in I /\ \A y \in I : S!Min(I) <= y
    BY <2>1 DEF S!Min
  <2> HIDE DEF I
  <2> QED BY <1>2, <1>4, <2>2
<1>6. S!CString(s) = SubSeq(b, 1, Len(t))
  <2>1. S!CString(s) = SubSeq(b, 1, (IF I # {} THEN S!Min(I) ELSE 0) - 1)
    BY DEF S!CString, S!SelectInSeq, b
  <2>2. (IF I # {} THEN S!Min(I) ELSE 0) = Len(t) + 1
    BY <1>4, <1>5
  <2>3. (IF I # {} THEN S!Min(I) ELSE 0) - 1 = Len(t)
    BY <1>2, <2>2
  <2> QED BY <2>1, <2>3
<1>7. SubSeq(b, 1, Len(t)) = t
  <2>1. /\ SubSeq(b, 1, Len(t)) \in Seq(Characters)
        /\ Len(SubSeq(b, 1, Len(t))) = Len(t)
        /\ \A i \in 1 .. Len(t) : SubSeq(b, 1, Len(t))[i] = b[i]
    BY <1>2, <1>3, SubSeqProperties
  <2> QED BY <1>2, <2>1, SeqEqual
<1> QED BY <1>6, <1>7 DEF t

\* A string that gets a new buffer, at a free address or its own, and takes no other's.
LEMMA NewBufferKeeps ==
    ASSUME StringInv, NEW s \in StringNames, NEW a \in Addresses, NEW n, NEW t,
           S!Becomes(s, a, n, t), a \in S!Free \/ a = data[s],
           Reads(memory'[a], n, t), cut = FALSE => Len(t) = n,
           memory' \in [Addresses -> Seq(Bytes)],
           \A x \in Addresses : memory'[x] # memory[x] => x \in S!Free \/ x = data[s],
           \A x \in Addresses \ {a} :
               memory'[x] # <<>> => Left(x)' \/ (memory'[x] = memory[x] /\ x # data[s])
    PROVE  StringInv'
<1>1. /\ data' = [data EXCEPT ![s] = a] /\ length' = [length EXCEPT ![s] = n]
      /\ text' = [text EXCEPT ![s] = t] /\ kind' = kind /\ cut' = cut
  BY DEF S!Becomes
<1>2. \A r \in StringNames \ {s} : S!Alive(r) => data[r] # a /\ memory'[data[r]] = memory[data[r]]
  <2> SUFFICES ASSUME NEW r \in StringNames \ {s}, S!Alive(r)
               PROVE  data[r] # a /\ memory'[data[r]] = memory[data[r]]
    OBVIOUS
  <2>1. data[r] \in Addresses
    BY DEF StringInv, StringTypes, S!Alive
  <2>2. Reads(memory[data[r]], length[r], text[r])
    BY DEF StringInv, StringReads
  <2>3. data[r] \notin S!Free
    BY <2>2, EmptySeq DEF Reads, S!Free
  <2>4. data[r] # data[s]
    BY DEF StringInv, StringOwns
  <2> QED BY <2>1, <2>3, <2>4
<1>3. StringTypes'
  <2>1. n \in Nat /\ t \in Seq(Characters)
    BY DEF Reads
  <2> QED BY <1>1, <2>1 DEF StringInv, StringTypes
<1>4. ASSUME NEW r \in StringNames, S!Alive(r)'
      PROVE  Reads(memory[data[r]], length[r], text[r])' /\ (cut' = FALSE => Len(text[r])' = length'[r])
  <2>1. CASE r = s
    BY <1>1, <2>1 DEF StringInv, StringTypes
  <2>2. CASE r # s
    <3>1. data'[r] = data[r] /\ length'[r] = length[r] /\ text'[r] = text[r] /\ S!Alive(r)
      BY <1>1, <1>4, <2>2 DEF StringInv, StringTypes, S!Alive
    <3>2. memory'[data'[r]] = memory[data[r]]
      BY <1>2, <2>2, <3>1
    <3>3. Reads(memory[data[r]], length[r], text[r]) /\ (cut = FALSE => Len(text[r]) = length[r])
      BY <3>1 DEF StringInv, StringReads
    <3> QED BY <1>1, <3>1, <3>2, <3>3
  <2> QED BY <2>1, <2>2
<1>5. ASSUME NEW q \in StringNames, NEW r \in StringNames, S!Alive(q)', data'[q] = data'[r]
      PROVE  q = r
  BY <1>1, <1>2, <1>5 DEF StringInv, StringTypes, StringOwns, S!Alive
<1>6. ASSUME NEW x \in Addresses, memory'[x] # <<>>
      PROVE  Left(x)' \/ \E r \in StringNames : data'[r] = x
  <2>1. CASE x = a
    BY <1>1, <2>1 DEF StringInv, StringTypes
  <2>2. CASE x # a /\ ~Left(x)'
    <3>1. memory[x] # <<>> /\ memory'[x] = memory[x] /\ x # data[s]
      BY <1>6, <2>2
    <3>2. ~Left(x)
      BY <1>1, <2>2, <3>1 DEF Left
    <3>3. PICK r \in StringNames : data[r] = x
      BY <3>1, <3>2 DEF StringInv, StringOwns
    <3> QED BY <1>1, <3>1, <3>3 DEF StringInv, StringTypes
  <2> QED BY <2>1, <2>2
<1>7. StringReads'
  BY <1>4 DEF StringReads
<1>8. StringOwns'
  BY <1>5, <1>6 DEF StringOwns
<1> QED BY <1>3, <1>7, <1>8 DEF StringInv

\* A constructor.
LEMMA ConstructKeeps ==
    ASSUME StringInv, NEW s \in StringNames, NEW str \in Seq(Characters), S!Construct(s, str)
    PROVE  StringInv'
<1> DEFINE b == S!Buffer(Len(str), str)
<1>1. PICK a \in S!Free : memory' = [memory EXCEPT ![a] = b] /\ S!Becomes(s, a, Len(str), str)
  BY DEF S!Construct, S!Fresh
<1>2. a \in Addresses /\ Len(str) \in Nat /\ data[s] \notin Addresses
  BY AddressAssumption DEF S!Free, S!Construct, S!Alive, S!None
<1>3. Reads(b, Len(str), str)
  BY <1>2, BufferReads
<1>4. b \in Seq(Bytes) /\ memory \in [Addresses -> Seq(Bytes)]
  BY <1>3 DEF Reads, StringInv, StringTypes
<1> HIDE DEF b
<1>5. /\ memory' \in [Addresses -> Seq(Bytes)] /\ memory'[a] = b
      /\ \A x \in Addresses \ {a} : memory'[x] = memory[x]
  BY <1>1, <1>2, <1>4
<1> QED BY <1>1, <1>2, <1>3, <1>5, NewBufferKeeps

\* The copy constructor.
LEMMA CopyKeeps ==
    ASSUME StringInv, NEW s \in StringNames, NEW other \in StringNames, S!Copy(s, other)
    PROVE  StringInv'
<1> DEFINE n == length[other]
           t == text[other]
           b == S!Buffer(n, t)
<1>1. S!Alive(other) /\ S!CString(other) = t
  BY CStringIs DEF S!Copy
<1>2. PICK a \in S!Free : memory' = [memory EXCEPT ![a] = b] /\ S!Becomes(s, a, n, t)
  BY <1>1 DEF S!Copy, S!Fresh
<1>3. a \in Addresses /\ data[s] \notin Addresses
  BY AddressAssumption DEF S!Free, S!Copy, S!Alive, S!None
<1>4. /\ n \in Nat /\ t \in Seq(Characters) /\ Len(t) <= n /\ (cut = FALSE => Len(t) = n)
  BY <1>1 DEF StringInv, StringReads, Reads
<1>5. Reads(b, n, t)
  BY <1>4, BufferReads
<1>6. b \in Seq(Bytes) /\ memory \in [Addresses -> Seq(Bytes)]
  BY <1>5 DEF Reads, StringInv, StringTypes
<1> HIDE DEF b, n, t
<1>7. /\ memory' \in [Addresses -> Seq(Bytes)] /\ memory'[a] = b
      /\ \A x \in Addresses \ {a} : memory'[x] = memory[x]
  BY <1>2, <1>3, <1>6
<1> QED BY <1>2, <1>3, <1>4, <1>5, <1>7, NewBufferKeeps

\* A string alive that exchanges its buffer for one at a, which reads as t.
LEMMA ReplacedKeeps ==
    ASSUME StringInv, NEW s \in StringNames, S!Alive(s), NEW a, NEW b, NEW n, NEW t,
           a \in S!Free \/ a = data[s], Reads(b, n, t), cut = FALSE => Len(t) = n,
           memory' = S!Replaced(s, a, b), S!Becomes(s, a, n, t)
    PROVE  StringInv'
<1>1. a \in Addresses /\ data[s] \in Addresses
  BY DEF S!Free, StringInv, StringTypes, S!Alive
<1>2. b \in Seq(Bytes) /\ memory \in [Addresses -> Seq(Bytes)] /\ <<>> \in Seq(Bytes)
  BY EmptySeq DEF Reads, StringInv, StringTypes
<1>3. memory' = [memory EXCEPT ![data[s]] = <<>>, ![a] = b]
  BY DEF S!Replaced
<1>4. /\ memory' \in [Addresses -> Seq(Bytes)] /\ memory'[a] = b
      /\ a # data[s] => memory'[data[s]] = <<>>
      /\ \A x \in Addresses \ {a, data[s]} : memory'[x] = memory[x]
  BY <1>1, <1>2, <1>3
<1>5. \A x \in Addresses : memory'[x] # memory[x] => x \in S!Free \/ x = data[s]
  BY <1>4
<1>6. \A x \in Addresses \ {a} : memory'[x] # <<>> => memory'[x] = memory[x] /\ x # data[s]
  BY <1>4
<1> QED BY <1>1, <1>4, <1>5, <1>6, NewBufferKeeps

\* Assignment.
LEMMA AssignKeeps ==
    ASSUME StringInv, NEW s \in StringNames, NEW other \in StringNames, S!Assign(s, other)
    PROVE  StringInv'
<1> DEFINE n == length[other]
           t == text[other]
           b == S!Buffer(n, t)
<1>1. S!Alive(s) /\ S!Alive(other) /\ S!CString(other) = t
  BY CStringIs DEF S!Assign
<1>2. PICK a \in S!Free \cup {data[s]} : memory' = S!Replaced(s, a, b) /\ S!Becomes(s, a, n, t)
  BY <1>1 DEF S!Assign, S!Fresh
<1>3. /\ n \in Nat /\ t \in Seq(Characters) /\ Len(t) <= n /\ (cut = FALSE => Len(t) = n)
  BY <1>1 DEF StringInv, StringReads, Reads
<1>4. Reads(b, n, t)
  BY <1>3, BufferReads
<1> HIDE DEF b, n, t
<1> QED BY <1>1, <1>2, <1>3, <1>4, ReplacedKeeps

\* Of numbers.
LEMMA Fits ==
    ASSUME NEW i \in Nat, NEW j \in Nat, NEW m \in Nat, NEW n \in Nat, i <= m, j <= n
    PROVE  i + j <= m + n /\ i + j \in Nat /\ m + n \in Nat
  OBVIOUS

\* Two texts one after the other.
LEMMA JoinedIs ==
    ASSUME StringInv, NEW s \in StringNames, NEW other \in StringNames,
           S!Alive(s), S!Alive(other)
    PROVE  LET n == length[s] + length[other]
               t == text[s] \o text[other]
           IN  /\ S!Joined(s, other) = t /\ n \in Nat /\ t \in Seq(Characters) /\ Len(t) \in Nat
               /\ Len(t) <= n /\ (cut = FALSE => Len(t) = n)
<1>1. S!Joined(s, other) = text[s] \o text[other]
  BY CStringIs DEF S!Joined
<1>2. /\ length[s] \in Nat /\ text[s] \in Seq(Characters) /\ Len(text[s]) \in Nat
      /\ Len(text[s]) <= length[s]
  BY DEF StringInv, StringReads, Reads
<1>3. /\ length[other] \in Nat /\ text[other] \in Seq(Characters) /\ Len(text[other]) \in Nat
      /\ Len(text[other]) <= length[other]
  BY DEF StringInv, StringReads, Reads
<1>4. /\ text[s] \o text[other] \in Seq(Characters)
      /\ Len(text[s] \o text[other]) = Len(text[s]) + Len(text[other])
  BY <1>2, <1>3, ConcatProperties
<1>5. Len(text[s] \o text[other]) <= length[s] + length[other]
  <2>1. Len(text[s]) + Len(text[other]) <= length[s] + length[other]
    BY <1>2, <1>3, Fits
  <2> QED BY <1>4, <2>1, Zenon
<1>6. ASSUME cut = FALSE PROVE Len(text[s] \o text[other]) = length[s] + length[other]
  <2>1. Len(text[s]) = length[s] /\ Len(text[other]) = length[other]
    BY <1>6 DEF StringInv, StringReads
  <2> QED BY <1>4, <2>1
<1>7. length[s] + length[other] \in Nat /\ Len(text[s] \o text[other]) \in Nat
  BY <1>2, <1>3, <1>4, Fits
<1> QED BY <1>1, <1>4, <1>5, <1>6, <1>7

\* append, also of a string to itself.
LEMMA AppendKeeps ==
    ASSUME StringInv, NEW s \in StringNames, NEW other \in StringNames, S!AppendTo(s, other)
    PROVE  StringInv'
<1> DEFINE n == length[s] + length[other]
           t == text[s] \o text[other]
           b == S!Buffer(n, t)
<1>1. S!Alive(s) /\ S!Alive(other)
  BY DEF S!AppendTo
<1>2. /\ S!Joined(s, other) = t /\ n \in Nat /\ t \in Seq(Characters)
      /\ Len(t) <= n /\ (cut = FALSE => Len(t) = n)
  BY <1>1, JoinedIs
<1>3. PICK a \in S!Free : memory' = S!Replaced(s, a, b) /\ S!Becomes(s, a, n, t)
  BY <1>2 DEF S!AppendTo, S!Fresh
<1>4. Reads(b, n, t)
  BY <1>2, BufferReads
<1> HIDE DEF b, n, t
<1> QED BY <1>1, <1>2, <1>3, <1>4, ReplacedKeeps

\* operator+, whose buffer String measures and whose intermediate SimpleString forgets.
LEMMA PlusKeeps ==
    ASSUME StringInv, NEW r \in StringNames, NEW s \in StringNames, NEW other \in StringNames,
           S!Plus(r, s, other)
    PROVE  StringInv'
<1> DEFINE n == length[s] + length[other]
           t == text[s] \o text[other]
<1>1. S!Alive(s) /\ S!Alive(other) /\ data[r] \notin Addresses
  BY AddressAssumption DEF S!Plus, S!Alive, S!None
<1>2. /\ S!Joined(s, other) = t /\ n \in Nat /\ t \in Seq(Characters) /\ Len(t) \in Nat
      /\ Len(t) <= n /\ (cut = FALSE => Len(t) = n)
  BY <1>1, JoinedIs
<1>3. memory \in [Addresses -> Seq(Bytes)]
  BY DEF StringInv, StringTypes
<1>4. PICK a \in S!Free, b \in S!Free :
         \/ /\ kind = "SimpleString"
            /\ memory' = [memory EXCEPT ![a] = S!Buffer(0, <<>>), ![b] = S!Buffer(n, t)]
            /\ S!Becomes(r, b, n, t)
         \/ /\ kind = "String"
            /\ memory' = [memory EXCEPT ![b] = S!Buffer(Len(t), t)]
            /\ S!Becomes(r, b, Len(t), t)
  BY <1>2 DEF S!Plus, S!Fresh
<1>5. a \in Addresses /\ b \in Addresses
  BY DEF S!Free
<1> HIDE DEF n, t
<1>6. CASE /\ kind = "SimpleString"
           /\ memory' = [memory EXCEPT ![a] = S!Buffer(0, <<>>), ![b] = S!Buffer(n, t)]
           /\ S!Becomes(r, b, n, t)
  <2>1. Reads(S!Buffer(n, t), n, t)
    BY <1>2, BufferReads
  <2>2. Reads(S!Buffer(0, <<>>), 0, <<>>)
    <3>1. <<>> \in Seq(Characters) /\ Len(<<>>) <= 0 /\ 0 \in Nat
      BY EmptySeq
    <3> QED BY <3>1, BufferReads
  <2>3. /\ memory' \in [Addresses -> Seq(Bytes)] /\ memory'[b] = S!Buffer(n, t)
        /\ \A x \in Addresses \ {a, b} : memory'[x] = memory[x]
    <3>1. S!Buffer(n, t) \in Seq(Bytes) /\ S!Buffer(0, <<>>) \in Seq(Bytes)
      BY <2>1, <2>2 DEF Reads
    <3> QED BY <1>3, <1>5, <1>6, <3>1
  <2>4. kind' = "SimpleString" /\ (a # b => memory'[a] = S!Buffer(0, <<>>))
    BY <1>3, <1>5, <1>6 DEF S!Becomes
  <2>5. \A x \in Addresses \ {b} :
            memory'[x] # <<>> => Left(x)' \/ (memory'[x] = memory[x] /\ x # data[r])
    BY <1>1, <2>3, <2>4 DEF Left
  <2>6. \A x \in Addresses : memory'[x] # memory[x] => x \in S!Free \/ x = data[r]
    BY <1>4, <2>3
  <2> QED BY <1>2, <1>5, <1>6, <2>1, <2>3, <2>5, <2>6, NewBufferKeeps
<1>7. CASE /\ kind = "String"
           /\ memory' = [memory EXCEPT ![b] = S!Buffer(Len(t), t)]
           /\ S!Becomes(r, b, Len(t), t)
  <2>1. Reads(S!Buffer(Len(t), t), Len(t), t)
    BY <1>2, BufferReads
  <2>2. /\ memory' \in [Addresses -> Seq(Bytes)] /\ memory'[b] = S!Buffer(Len(t), t)
        /\ \A x \in Addresses \ {b} : memory'[x] = memory[x]
    <3>1. S!Buffer(Len(t), t) \in Seq(Bytes)
      BY <2>1 DEF Reads
    <3> QED BY <1>3, <1>5, <1>7, <3>1
  <2>3. \A x \in Addresses \ {b} : memory'[x] # <<>> => memory'[x] = memory[x] /\ x # data[r]
    BY <1>1, <2>2
  <2>4. \A x \in Addresses : memory'[x] # memory[x] => x \in S!Free \/ x = data[r]
    BY <2>2
  <2> QED BY <1>2, <1>5, <1>7, <2>1, <2>2, <2>3, <2>4, NewBufferKeeps
<1> QED BY <1>4, <1>6, <1>7

\* A buffer that is written in place and reads as another text.
LEMMA WrittenKeeps ==
    ASSUME StringInv, NEW s \in StringNames, S!Alive(s), NEW b, NEW t,
           Reads(b, length[s], t), cut' = FALSE => Len(t) = length[s],
           cut' \in BOOLEAN, cut' = FALSE => cut = FALSE,
           memory' = [memory EXCEPT ![data[s]] = b], text' = [text EXCEPT ![s] = t],
           kind' = kind, data' = data, length' = length
    PROVE  StringInv'
<1>1. data[s] \in Addresses
  BY DEF StringInv, StringTypes, S!Alive
<1>2. StringTypes'
  BY <1>1 DEF StringInv, StringTypes, Reads
<1>3. ASSUME NEW r \in StringNames, S!Alive(r)'
      PROVE  Reads(memory[data[r]], length[r], text[r])' /\ (cut' = FALSE => Len(text[r])' = length'[r])
  <2>1. CASE r = s
    BY <1>1, <2>1 DEF StringInv, StringTypes
  <2>2. CASE r # s
    <3>1. S!Alive(r) /\ data[r] # data[s] /\ text'[r] = text[r]
      BY <1>3, <2>2 DEF StringInv, StringTypes, StringOwns, S!Alive
    <3>2. memory'[data[r]] = memory[data[r]]
      BY <1>1, <3>1 DEF StringInv, StringTypes, S!Alive
    <3>3. Reads(memory[data[r]], length[r], text[r]) /\ (cut = FALSE => Len(text[r]) = length[r])
      BY <3>1 DEF StringInv, StringReads
    <3> QED BY <3>1, <3>2, <3>3
  <2> QED BY <2>1, <2>2
<1>4. \A q, r \in StringNames : S!Alive(q)' /\ data'[q] = data'[r] => q = r
  BY DEF StringInv, StringOwns, S!Alive
<1>5. ASSUME NEW x \in Addresses, memory'[x] # <<>>
      PROVE  Left(x)' \/ \E r \in StringNames : data'[r] = x
  <2>1. CASE x = data[s]
    BY <2>1
  <2>2. CASE x # data[s]
    <3>1. memory'[x] = memory[x]
      BY <1>1, <2>2 DEF StringInv, StringTypes
    <3> QED BY <1>5, <3>1 DEF StringInv, StringOwns, Left
  <2> QED BY <2>1, <2>2
<1> QED BY <1>2, <1>3, <1>4, <1>5 DEF StringInv, StringReads, StringOwns

\* s[i] = x.
LEMMA WriteKeeps ==
    ASSUME StringInv, NEW s \in StringNames, NEW i \in 1 .. MaxLength,
           NEW x \in Characters \cup {S!Nul}, S!Write(s, i, x)
    PROVE  StringInv'
<1> DEFINE b == memory[data[s]]
           t == text[s]
           c1 == [b EXCEPT ![i] = x]
           u == IF x = S!Nul THEN SubSeq(t, 1, i - 1) ELSE [t EXCEPT ![i] = x]
<1>1. /\ S!Alive(s) /\ i <= Len(t) /\ data[s] \in Addresses
      /\ memory' = [memory EXCEPT ![data[s]] = c1]
      /\ text' = [text EXCEPT ![s] = u]
      /\ cut' = (cut \/ x = S!Nul)
      /\ kind' = kind /\ data' = data /\ length' = length
  BY DEF S!Write, StringInv, StringTypes, S!Alive
<1>2. Reads(b, length[s], t) /\ (cut = FALSE => Len(t) = length[s])
  BY <1>1 DEF StringInv, StringReads
<1> HIDE DEF b, t
<1>3. /\ b \in Seq(Bytes) /\ length[s] \in Nat /\ Len(b) = length[s] + 1
      /\ t \in Seq(Characters) /\ Len(t) <= length[s] /\ Len(t) \in Nat
      /\ i \in 1 .. Len(t) /\ i \in 1 .. Len(b) /\ i \in Nat
      /\ \A j \in 1 .. Len(t) : b[j] = t[j]
      /\ b[Len(t) + 1] = S!Nul
  BY <1>1, <1>2 DEF Reads
<1>4. /\ c1 \in Seq(Bytes) /\ Len(c1) = Len(b)
      /\ \A j \in 1 .. Len(b) : c1[j] = IF j = i THEN x ELSE b[j]
  <2>1. x \in Bytes
    BY DEF Bytes
  <2> QED BY <1>3, <2>1, ExceptSeq
<1> HIDE DEF c1
<1>5. CASE x = S!Nul
  <2>1. /\ u \in Seq(Characters) /\ Len(u) = i - 1
        /\ \A j \in 1 .. i - 1 : u[j] = t[j]
    <3>1. \A j \in 1 .. i - 1 : t[j] \in Characters
      BY <1>3, ElementOfSeq
    <3> QED BY <1>3, <1>5, <3>1, SubSeqProperties
  <2> HIDE DEF u
  <2>2. Reads(c1, length[s], u)
    <3>1. Len(u) \in Nat /\ Len(u) <= length[s] /\ Len(u) + 1 = i
      BY <1>3, <2>1
    <3>2. c1[Len(u) + 1] = S!Nul
      BY <1>3, <1>4, <1>5, <3>1
    <3>3. \A j \in 1 .. Len(u) : c1[j] = u[j]
      <4> SUFFICES ASSUME NEW j \in 1 .. Len(u) PROVE c1[j] = u[j]
        OBVIOUS
      <4>1. j \in 1 .. i - 1 /\ j \in 1 .. Len(t) /\ j \in 1 .. Len(b) /\ j # i
        BY <1>3, <2>1
      <4> QED BY <1>3, <1>4, <2>1, <4>1
    <3>4. c1 \in Seq(Bytes) /\ Len(c1) = length[s] + 1
      BY <1>3, <1>4
    <3> QED BY <1>3, <2>1, <3>1, <3>2, <3>3, <3>4 DEF Reads
  <2> QED BY <1>1, <1>5, <2>2, WrittenKeeps
<1>6. CASE x # S!Nul
  <2>1. /\ u \in Seq(Characters) /\ Len(u) = Len(t)
        /\ \A j \in 1 .. Len(t) : u[j] = IF j = i THEN x ELSE t[j]
    BY <1>3, <1>6, ExceptSeq
  <2> HIDE DEF u
  <2>2. Reads(c1, length[s], u)
    <3>1. Len(u) + 1 \in 1 .. Len(b) /\ Len(u) + 1 # i
      BY <1>3, <2>1
    <3>2. c1[Len(u) + 1] = S!Nul
      BY <1>3, <1>4, <2>1, <3>1
    <3>3. \A j \in 1 .. Len(u) : c1[j] = u[j]
      <4> SUFFICES ASSUME NEW j \in 1 .. Len(u) PROVE c1[j] = u[j]
        OBVIOUS
      <4>1. j \in 1 .. Len(t) /\ j \in 1 .. Len(b)
        BY <1>3, <2>1
      <4> QED BY <1>3, <1>4, <2>1, <4>1
    <3>4. c1 \in Seq(Bytes) /\ Len(c1) = length[s] + 1 /\ Len(u) <= length[s]
      BY <1>3, <1>4, <2>1
    <3> QED BY <1>3, <2>1, <3>2, <3>3, <3>4 DEF Reads
  <2>3. cut' = cut /\ cut \in BOOLEAN
    BY <1>1, <1>6 DEF StringInv, StringTypes
  <2>4. cut' = FALSE => Len(u) = length[s]
    BY <1>2, <2>1, <2>3
  <2> QED BY <1>1, <2>2, <2>3, <2>4, WrittenKeeps
<1> QED BY <1>5, <1>6

\* The destructor.
LEMMA DestroyKeeps ==
    ASSUME StringInv, NEW s \in StringNames, S!Destroy(s)
    PROVE  StringInv'
<1>1. /\ S!Alive(s) /\ data[s] \in Addresses
      /\ memory' = [memory EXCEPT ![data[s]] = <<>>]
      /\ data' = [data EXCEPT ![s] = S!None] /\ length' = [length EXCEPT ![s] = 0]
      /\ text' = [text EXCEPT ![s] = <<>>] /\ kind' = kind /\ cut' = cut
  BY DEF S!Destroy, S!Becomes, S!Alive, StringInv, StringTypes
<1>2. StringTypes'
  <2>1. <<>> \in Seq(Bytes) /\ <<>> \in Seq(Characters) /\ 0 \in Nat
    BY EmptySeq
  <2> QED BY <1>1, <2>1 DEF StringInv, StringTypes
<1>3. ASSUME NEW r \in StringNames, S!Alive(r)'
      PROVE  /\ r # s /\ S!Alive(r) /\ data'[r] = data[r] /\ data[r] # data[s]
             /\ data[r] \in Addresses
  <2>1. r # s
    BY <1>1, <1>3 DEF StringInv, StringTypes, S!Alive
  <2>2. data'[r] = data[r] /\ S!Alive(r)
    BY <1>1, <1>3, <2>1 DEF StringInv, StringTypes, S!Alive
  <2> QED BY <2>1, <2>2 DEF StringInv, StringTypes, StringOwns, S!Alive
<1>4. StringReads'
  <2> SUFFICES ASSUME NEW r \in StringNames, S!Alive(r)'
               PROVE  /\ Reads(memory[data[r]], length[r], text[r])'
                      /\ cut' = FALSE => Len(text[r])' = length'[r]
    BY DEF StringReads
  <2>1. memory'[data'[r]] = memory[data[r]] /\ length'[r] = length[r] /\ text'[r] = text[r]
    BY <1>1, <1>3 DEF StringInv, StringTypes
  <2>2. Reads(memory[data[r]], length[r], text[r]) /\ (cut = FALSE => Len(text[r]) = length[r])
    BY <1>3 DEF StringInv, StringReads
  <2> QED BY <1>1, <2>1, <2>2
<1>5. ASSUME NEW q \in StringNames, NEW r \in StringNames, S!Alive(q)', data'[q] = data'[r]
      PROVE  q = r
  <2>1. S!Alive(r)'
    BY <1>5 DEF S!Alive
  <2> QED BY <1>3, <1>5, <2>1 DEF StringInv, StringOwns
<1>6. ASSUME NEW x \in Addresses, memory'[x] # <<>>
      PROVE  Left(x)' \/ \E r \in StringNames : data'[r] = x
  <2>1. x # data[s] /\ memory[x] # <<>> /\ memory'[x] = memory[x]
    BY <1>1, <1>6 DEF StringInv, StringTypes
  <2>2. CASE Left(x)
    BY <1>1, <2>1, <2>2 DEF Left
  <2>3. CASE \E r \in StringNames : data[r] = x
    BY <1>1, <2>1, <2>3 DEF StringInv, StringTypes
  <2> QED BY <2>1, <2>2, <2>3 DEF StringInv, StringOwns
<1> QED BY <1>2, <1>4, <1>5, <1>6 DEF StringInv, StringOwns

\* Every operation of a string.
LEMMA StringStep ==
    ASSUME StringInv, S!Next \/ UNCHANGED <<kind, stringVars>>
    PROVE  StringInv'
<1>1. CASE UNCHANGED <<kind, stringVars>>
  BY <1>1 DEF StringInv, StringTypes, StringReads, StringOwns, Reads, Left, S!Alive, stringVars
<1>2. CASE S!Next
  <2>1. PICK s \in StringNames :
           \/ S!Construct(s, <<>>) \/ S!Destroy(s)
           \/ \E x \in Characters : S!Construct(s, <<x>>)
           \/ \E x \in Characters \cup {S!Nul}, i \in 1 .. MaxLength : S!Write(s, i, x)
           \/ \E o \in StringNames : S!Copy(s, o) \/ S!Assign(s, o) \/ S!AppendTo(s, o)
           \/ \E o, p \in StringNames : S!Plus(s, o, p)
    BY <1>2 DEF S!Next
  <2>2. <<>> \in Seq(Characters) /\ \A x \in Characters : <<x>> \in Seq(Characters)
    OBVIOUS
  <2>3. CASE S!Construct(s, <<>>)
    BY <2>2, <2>3, ConstructKeeps
  <2>4. CASE \E x \in Characters : S!Construct(s, <<x>>)
    BY <2>2, <2>4, ConstructKeeps
  <2>5. CASE \E x \in Characters \cup {S!Nul}, i \in 1 .. MaxLength : S!Write(s, i, x)
    BY <2>5, WriteKeeps
  <2>6. CASE \E o \in StringNames : S!Copy(s, o) \/ S!Assign(s, o) \/ S!AppendTo(s, o)
    BY <2>6, CopyKeeps, AssignKeeps, AppendKeeps
  <2>7. CASE \E o, p \in StringNames : S!Plus(s, o, p)
    BY <2>7, PlusKeeps
  <2> QED BY <2>1, <2>3, <2>4, <2>5, <2>6, <2>7, DestroyKeeps
<1> QED BY <1>1, <1>2

\* What the invariant says of the buffers.
LEMMA BuffersOwned == StringInv => S!OwnBuffers
<1> SUFFICES ASSUME StringInv PROVE S!OwnBuffers
  OBVIOUS
<1>1. ASSUME NEW s \in StringNames, S!Alive(s)
      PROVE  /\ Len(memory[data[s]]) = length[s] + 1
             /\ S!Nul \in S!Range(memory[data[s]]) /\ S!CString(s) = text[s]
             /\ Len(text[s]) <= length[s] /\ (cut \/ Len(text[s]) = length[s])
             /\ \A t \in StringNames \ {s} : data[t] # data[s]
  <2>1. Reads(memory[data[s]], length[s], text[s]) /\ (cut = FALSE => Len(text[s]) = length[s])
    BY <1>1 DEF StringInv, StringReads
  <2>2. S!Nul \in S!Range(memory[data[s]])
    <3>1. Len(text[s]) + 1 \in DOMAIN memory[data[s]]
      BY <2>1 DEF Reads
    <3> QED BY <2>1, <3>1 DEF Reads, S!Range
  <2>3. cut \in BOOLEAN
    BY DEF StringInv, StringTypes
  <2>4. cut \/ Len(text[s]) = length[s]
    BY <2>1, <2>3
  <2>5. \A t \in StringNames \ {s} : data[t] # data[s]
    BY <1>1 DEF StringInv, StringOwns
  <2>6. Len(memory[data[s]]) = length[s] + 1 /\ Len(text[s]) <= length[s]
    BY <2>1 DEF Reads
  <2> QED BY <1>1, <2>2, <2>4, <2>5, <2>6, CStringIs
<1>2. ASSUME NEW a \in Addresses \ S!Free
      PROVE  \/ \E s \in StringNames : data[s] = a
             \/ kind = "SimpleString" /\ memory[a] = S!Buffer(0, <<>>)
  <2>1. memory[a] # <<>>
    BY <1>2 DEF S!Free
  <2> QED BY <1>2, <2>1 DEF StringInv, StringOwns, Left
<1> QED BY <1>1, <1>2 DEF S!OwnBuffers

\* What holds of the strings.
StringsInv == kind \in S!Kinds => StringInv

\* The operations on strings keep their invariant.
LEMMA StringsInvariant == Spec => []StringsInv
<1> USE DEF StringsInv
<1>1. Init => StringsInv
  BY StringInit
<1>2. StringsInv /\ [Next]_vars => StringsInv'
  <2> SUFFICES ASSUME StringsInv, [Next]_vars, kind \in S!Kinds PROVE StringInv'
    BY Frame
  <2>1. S!Next \/ UNCHANGED <<kind, stringVars>>
    BY Frame
  <2> QED BY <2>1, StringStep
<1> QED BY <1>1, <1>2, PTL DEF Spec

\* Both string classes own the buffers they read, whatever is copied, assigned, appended,
\* written and destroyed; String allocates no other, and SimpleString only the buffers of
\* empty strings that its operator+ leaves behind (string.cpp:78, string.hpp).
THEOREM StringsOwnTheirBuffers == Spec => []StringsOwnBuffers
<1> USE DEF StringsInv
<1>1. StringsInv => StringsOwnBuffers
  BY BuffersOwned DEF StringsOwnBuffers
<1> QED BY <1>1, StringsInvariant, PTL

-----------------------------------------------------------------------------
\* The heap counts as FiniteSets counts.
LEMMA HeapCardinality == \A X : Q!Cardinality(X) = Cardinality(X)
  BY DEF Q!Cardinality, Cardinality

\* Two elements swapped.
LEMMA SwappedIs ==
    ASSUME NEW s \in Seq(HeapValues), NEW i \in 0 .. Len(s) - 1, NEW j \in 0 .. Len(s) - 1
    PROVE  /\ Q!Swapped(s, i, j) \in Seq(HeapValues) /\ Len(Q!Swapped(s, i, j)) = Len(s)
           /\ \A k \in 1 .. Len(s) :
                 Q!Swapped(s, i, j)[k] = IF k = j + 1 THEN s[i + 1]
                                         ELSE IF k = i + 1 THEN s[j + 1] ELSE s[k]
<1>1. Len(s) \in Nat /\ DOMAIN s = 1 .. Len(s) /\ s \in [1 .. Len(s) -> HeapValues]
  OBVIOUS
<1>2. i + 1 \in 1 .. Len(s) /\ j + 1 \in 1 .. Len(s)
  BY <1>1
<1>3. [s EXCEPT ![i + 1] = s[j + 1], ![j + 1] = s[i + 1]] \in [1 .. Len(s) -> HeapValues]
  BY <1>1, <1>2
<1>4. \A k \in 1 .. Len(s) :
         [s EXCEPT ![i + 1] = s[j + 1], ![j + 1] = s[i + 1]][k] =
            IF k = j + 1 THEN s[i + 1] ELSE IF k = i + 1 THEN s[j + 1] ELSE s[k]
  BY <1>1, <1>2
<1>5. \A m \in Nat : \A g \in [1 .. m -> HeapValues] : g \in Seq(HeapValues) /\ Len(g) = m
  OBVIOUS
<1> QED BY <1>1, <1>3, <1>4, <1>5 DEF Q!Swapped

\* The parent of an index and its two children.
LEMMA ParentIs ==
    /\ \A i \in Nat : i # 0 => Q!Parent(i) \in Nat /\ Q!Parent(i) < i
    /\ \A i \in Nat, k \in Nat : k # 0 => (Q!Parent(k) = i <=> (k = 2 * i + 1 \/ k = 2 * i + 2))
  BY DEF Q!Parent

\* The elements are numbers.
LEMMA Numbers ==
    ASSUME NEW s \in Seq(HeapValues), NEW k \in 1 .. Len(s)
    PROVE  s[k] \in Int /\ s[k] \in HeapValues
<1>1. s[k] \in HeapValues
  OBVIOUS
<1> QED BY <1>1, HeapAssumption

\* An element and its children: the largest of them is the element itself or a larger child.
LEMMA LargestIs ==
    ASSUME NEW s \in Seq(HeapValues), NEW i \in Nat
    PROVE  LET m == Q!Largest(s, i)
           IN  /\ m # i => /\ m \in 1 .. Len(s) - 1 /\ i \in 0 .. Len(s) - 1 /\ i < m
                           /\ Q!Parent(m) = i /\ s[i + 1] < s[m + 1]
               /\ \A k \in 1 .. Len(s) - 1 : Q!Parent(k) = i => s[k + 1] <= s[m + 1]
<1> DEFINE l == 2 * i + 1
           r == 2 * i + 2
           a == Q!LargerOf(s, i, l)
           m == Q!LargerOf(s, a, r)
<1>1. /\ Len(s) \in Nat /\ l \in Nat /\ r \in Nat /\ i < l /\ l < r /\ l # 0 /\ r # 0
      /\ \A k \in 1 .. Len(s) : s[k] \in Int
  <2>1. \A k \in 1 .. Len(s) : s[k] \in Int
    BY Numbers
  <2>2. Len(s) \in Nat /\ l \in Nat /\ r \in Nat /\ i < l /\ l < r /\ l # 0 /\ r # 0
    OBVIOUS
  <2> QED BY <2>1, <2>2
<1>2. Q!Parent(l) = i /\ Q!Parent(r) = i
  BY ParentIs
<1>3. \A k \in 1 .. Len(s) - 1 : Q!Parent(k) = i => k = l \/ k = r
  BY ParentIs
<1>4. Q!Largest(s, i) = m
  BY DEF Q!Largest
<1> HIDE DEF l, r
<1>5. /\ a = i \/ (a = l /\ l < Len(s) /\ s[i + 1] < s[l + 1])
      /\ l < Len(s) => s[l + 1] <= s[a + 1]
  BY <1>1 DEF Q!LargerOf
<1>6. /\ m = a \/ (m = r /\ r < Len(s) /\ s[a + 1] < s[r + 1])
      /\ r < Len(s) => s[r + 1] <= s[m + 1] /\ s[a + 1] <= s[m + 1]
  BY <1>1, <1>5 DEF Q!LargerOf
<1> HIDE DEF a, m
<1>7. \A k \in 1 .. Len(s) - 1 : Q!Parent(k) = i => s[k + 1] <= s[m + 1]
  <2> SUFFICES ASSUME NEW k \in 1 .. Len(s) - 1, Q!Parent(k) = i PROVE s[k + 1] <= s[m + 1]
    OBVIOUS
  <2>1. CASE k = r
    BY <1>1, <1>6, <2>1
  <2>2. CASE k = l
    <3>1. l < Len(s) /\ s[l + 1] <= s[a + 1] /\ a + 1 \in 1 .. Len(s) /\ l + 1 \in 1 .. Len(s)
      BY <1>1, <1>5, <2>2
    <3>2. CASE m = a
      BY <2>2, <3>1, <3>2
    <3>3. CASE m = r /\ r < Len(s)
      <4>1. s[l + 1] \in Int /\ s[a + 1] \in Int /\ s[r + 1] \in Int
        BY <1>1, <3>1, <3>3
      <4> QED BY <1>6, <2>2, <3>1, <3>3, <4>1
    <3> QED BY <1>6, <3>2, <3>3
  <2> QED BY <1>3, <2>1, <2>2
<1>8. ASSUME m # i
      PROVE  /\ m \in 1 .. Len(s) - 1 /\ i \in 0 .. Len(s) - 1 /\ i < m
             /\ Q!Parent(m) = i /\ s[i + 1] < s[m + 1]
  <2>1. CASE m = a
    BY <1>1, <1>2, <1>5, <1>8, <2>1
  <2>2. CASE m = r /\ r < Len(s) /\ s[a + 1] < s[r + 1]
    <3>1. s[i + 1] < s[r + 1]
      <4>1. CASE a = i
        BY <2>2, <4>1
      <4>2. CASE a = l /\ l < Len(s) /\ s[i + 1] < s[l + 1]
        <5>1. s[i + 1] \in Int /\ s[l + 1] \in Int /\ s[r + 1] \in Int
          BY <1>1, <2>2, <4>2
        <5> QED BY <2>2, <4>2, <5>1
      <4> QED BY <1>5, <4>1, <4>2
    <3> QED BY <1>1, <1>2, <2>2, <3>1
  <2> QED BY <1>6, <2>1, <2>2
<1> QED BY <1>4, <1>7, <1>8

\* heapify_up as it is defined.
LEMMA HeapifyUpIs ==
    ASSUME NEW s \in Seq(HeapValues), NEW i \in Nat
    PROVE  Q!HeapifyUp[<<s, i>>] =
              IF Q!Rises(s, i) THEN Q!HeapifyUp[<<Q!Swapped(s, Q!Parent(i), i), Q!Parent(i)>>] ELSE s
<1> DEFINE St == Seq(HeapValues) \X Nat
           P == {q \in St : Q!Rises(q[1], q[2])}
           h == [q \in P |-> <<Q!Swapped(q[1], Q!Parent(q[2]), q[2]), Q!Parent(q[2])>>]
           out == [q \in St |-> q[1]]
<1>1. ASSUME NEW q \in P PROVE <<Q!Swapped(q[1], Q!Parent(q[2]), q[2]), Q!Parent(q[2])>> \in St
  <2>1. q[1] \in Seq(HeapValues) /\ q[2] \in Nat /\ q[2] \in 1 .. Len(q[1]) - 1
    BY DEF Q!Rises
  <2>2. Q!Parent(q[2]) \in Nat /\ Q!Parent(q[2]) < q[2]
    BY <2>1, ParentIs
  <2>3. Q!Parent(q[2]) \in 0 .. Len(q[1]) - 1 /\ q[2] \in 0 .. Len(q[1]) - 1
    <3> HIDE DEF P
    <3> QED BY <2>1, <2>2
  <2>4. Q!Swapped(q[1], Q!Parent(q[2]), q[2]) \in Seq(HeapValues)
    BY <2>1, <2>3, SwappedIs
  <2> QED BY <2>2, <2>4
<1>2. h \in [P -> St] /\ P \in SUBSET St
  BY <1>1
<1>3. PICK f : ByRecursion(f, St, P, h, out)
  <2> HIDE DEF St, P, h, out
  <2> QED BY <1>2, Recursion
<1>4. f = [q \in Seq(HeapValues) \X Nat |->
              IF Q!Rises(q[1], q[2])
              THEN f[<<Q!Swapped(q[1], Q!Parent(q[2]), q[2]), Q!Parent(q[2])>>]
              ELSE q[1]]
  BY <1>3 DEF ByRecursion
<1>5. Q!HeapifyUp = [q \in Seq(HeapValues) \X Nat |->
              IF Q!Rises(q[1], q[2])
              THEN Q!HeapifyUp[<<Q!Swapped(q[1], Q!Parent(q[2]), q[2]), Q!Parent(q[2])>>]
              ELSE q[1]]
  BY <1>4, Zenon DEF Q!HeapifyUp
<1>6. <<s, i>> \in Seq(HeapValues) \X Nat
  OBVIOUS
<1> HIDE DEF St, P, h, out
<1> QED BY <1>5, <1>6

\* heapify_down as it is defined.
LEMMA HeapifyDownIs ==
    ASSUME NEW s \in Seq(HeapValues), NEW i \in Nat
    PROVE  Q!HeapifyDown[<<s, i>>] =
              IF Q!Largest(s, i) # i
              THEN Q!HeapifyDown[<<Q!Swapped(s, i, Q!Largest(s, i)), Q!Largest(s, i)>>] ELSE s
<1> DEFINE St == Seq(HeapValues) \X Nat
           P == {q \in St : Q!Largest(q[1], q[2]) # q[2]}
           h == [q \in P |-> <<Q!Swapped(q[1], q[2], Q!Largest(q[1], q[2])), Q!Largest(q[1], q[2])>>]
           out == [q \in St |-> q[1]]
<1>1. ASSUME NEW q \in P
      PROVE  <<Q!Swapped(q[1], q[2], Q!Largest(q[1], q[2])), Q!Largest(q[1], q[2])>> \in St
  <2>1. q[1] \in Seq(HeapValues) /\ q[2] \in Nat /\ Q!Largest(q[1], q[2]) # q[2]
    OBVIOUS
  <2>2. Q!Largest(q[1], q[2]) \in 0 .. Len(q[1]) - 1 /\ q[2] \in 0 .. Len(q[1]) - 1
    <3> HIDE DEF P
    <3> QED BY <2>1, LargestIs
  <2>3. Q!Swapped(q[1], q[2], Q!Largest(q[1], q[2])) \in Seq(HeapValues)
    BY <2>1, <2>2, SwappedIs
  <2> QED BY <2>2, <2>3
<1>2. h \in [P -> St] /\ P \in SUBSET St
  BY <1>1
<1>3. PICK f : ByRecursion(f, St, P, h, out)
  <2> HIDE DEF St, P, h, out
  <2> QED BY <1>2, Recursion
<1>4. f = [q \in Seq(HeapValues) \X Nat |->
              IF Q!Largest(q[1], q[2]) # q[2]
              THEN f[<<Q!Swapped(q[1], q[2], Q!Largest(q[1], q[2])), Q!Largest(q[1], q[2])>>]
              ELSE q[1]]
  BY <1>3 DEF ByRecursion
<1>5. Q!HeapifyDown = [q \in Seq(HeapValues) \X Nat |->
              IF Q!Largest(q[1], q[2]) # q[2]
              THEN Q!HeapifyDown[<<Q!Swapped(q[1], q[2], Q!Largest(q[1], q[2])), Q!Largest(q[1], q[2])>>]
              ELSE q[1]]
  BY <1>4, Zenon DEF Q!HeapifyDown
<1>6. <<s, i>> \in Seq(HeapValues) \X Nat
  OBVIOUS
<1> HIDE DEF St, P, h, out
<1> QED BY <1>5, <1>6

-----------------------------------------------------------------------------
\* Bijections of the places keep the bag of the values.
LEMMA BagMoved ==
    ASSUME NEW s \in Seq(HeapValues), NEW t \in Seq(HeapValues), Len(t) = Len(s),
           NEW g \in [1 .. Len(s) -> 1 .. Len(s)],
           \A k, m \in 1 .. Len(s) : g[k] = g[m] => k = m,
           \A m \in 1 .. Len(s) : \E k \in 1 .. Len(s) : g[k] = m,
           \A k \in 1 .. Len(s) : t[g[k]] = s[k]
    PROVE  Q!ToBag(t) = Q!ToBag(s)
<1>1. DOMAIN s = 1 .. Len(s) /\ DOMAIN t = 1 .. Len(s) /\ Len(s) \in Nat
  OBVIOUS
<1>2. Q!Range(t) = Q!Range(s)
  <2>1. \A x \in Q!Range(s) : x \in Q!Range(t)
    BY <1>1 DEF Q!Range
  <2>2. \A x \in Q!Range(t) : x \in Q!Range(s)
    BY <1>1 DEF Q!Range
  <2> QED BY <2>1, <2>2
<1>3. ASSUME NEW x
      PROVE  Q!Cardinality({i \in DOMAIN t : t[i] = x}) = Q!Cardinality({i \in DOMAIN s : s[i] = x})
  <2> DEFINE A == {i \in 1 .. Len(s) : s[i] = x}
             B == {i \in 1 .. Len(s) : t[i] = x}
             h == [i \in A |-> g[i]]
  <2>1. h \in [A -> B]
    OBVIOUS
  <2>2. \A i, j \in A : h[i] = h[j] => i = j
    OBVIOUS
  <2>3. \A m \in B : \E i \in A : h[i] = m
    <3> SUFFICES ASSUME NEW m \in B PROVE \E i \in A : g[i] = m
      OBVIOUS
    <3>1. PICK k \in 1 .. Len(s) : g[k] = m
      OBVIOUS
    <3>2. k \in A
      BY <3>1
    <3> QED BY <3>1, <3>2
  <2>4. h \in Bijection(A, B)
    <3> HIDE DEF A, B, h
    <3> QED BY <2>1, <2>2, <2>3, Fun_IsBij
  <2>5. IsFiniteSet(A)
    <3>1. IsFiniteSet(1 .. Len(s))
      BY <1>1, FS_Interval
    <3>2. A \in SUBSET (1 .. Len(s))
      OBVIOUS
    <3> HIDE DEF A
    <3> QED BY <3>1, <3>2, FS_Subset
  <2>6. Cardinality(B) = Cardinality(A)
    <3> HIDE DEF A, B, h
    <3> QED BY <2>4, <2>5, FS_Bijection DEF ExistsBijection
  <2>7. {i \in DOMAIN t : t[i] = x} = B /\ {i \in DOMAIN s : s[i] = x} = A
    BY <1>1
  <2> HIDE DEF A, B
  <2> QED BY <2>6, <2>7, HeapCardinality
<1> DEFINE cs(x) == Q!Cardinality({i \in DOMAIN s : s[i] = x})
           ct(x) == Q!Cardinality({i \in DOMAIN t : t[i] = x})
<1>4. /\ Q!ToBag(s) = [x \in Q!Range(s) |-> cs(x)]
      /\ Q!ToBag(t) = [x \in Q!Range(t) |-> ct(x)]
  BY Zenon DEF Q!ToBag
<1>5. \A x : ct(x) = cs(x)
  BY <1>3
<1> HIDE DEF cs, ct
<1> QED BY <1>2, <1>4, <1>5

\* A swap keeps the bag of the values.
LEMMA BagSwapped ==
    ASSUME NEW s \in Seq(HeapValues), NEW i \in 0 .. Len(s) - 1, NEW j \in 0 .. Len(s) - 1
    PROVE  Q!ToBag(Q!Swapped(s, i, j)) = Q!ToBag(s)
<1> DEFINE g == [k \in 1 .. Len(s) |-> IF k = i + 1 THEN j + 1 ELSE IF k = j + 1 THEN i + 1 ELSE k]
           t == Q!Swapped(s, i, j)
<1>1. Len(s) \in Nat /\ i + 1 \in 1 .. Len(s) /\ j + 1 \in 1 .. Len(s)
  OBVIOUS
<1>2. /\ t \in Seq(HeapValues) /\ Len(t) = Len(s)
      /\ \A k \in 1 .. Len(s) : t[k] = IF k = j + 1 THEN s[i + 1]
                                       ELSE IF k = i + 1 THEN s[j + 1] ELSE s[k]
  BY SwappedIs
<1>3. g \in [1 .. Len(s) -> 1 .. Len(s)]
  BY <1>1
<1>4. \A k, m \in 1 .. Len(s) : g[k] = g[m] => k = m
  BY <1>1
<1>5. ASSUME NEW m \in 1 .. Len(s) PROVE g[g[m]] = m /\ t[g[m]] = s[m]
  <2>1. CASE m = i + 1
    BY <1>1, <1>2, <2>1
  <2>2. CASE m = j + 1 /\ m # i + 1
    BY <1>1, <1>2, <2>2
  <2>3. CASE m # i + 1 /\ m # j + 1
    BY <1>1, <1>2, <2>3
  <2> QED BY <2>1, <2>2, <2>3
<1>6. \A m \in 1 .. Len(s) : \E k \in 1 .. Len(s) : g[k] = m
  BY <1>3, <1>5
<1> HIDE DEF g, t
<1>7. \A k \in 1 .. Len(s) : t[g[k]] = s[k]
  BY <1>5
<1>8. Q!ToBag(t) = Q!ToBag(s)
  BY <1>2, <1>3, <1>4, <1>6, <1>7, BagMoved
<1> QED BY <1>8 DEF t

\* The values of a bag are counted.
LEMMA BagIs ==
    ASSUME NEW s \in Seq(HeapValues)
    PROVE  /\ DOMAIN Q!ToBag(s) = {s[i] : i \in 1 .. Len(s)}
           /\ \A x \in DOMAIN Q!ToBag(s) :
                 /\ Q!ToBag(s)[x] = Cardinality({i \in 1 .. Len(s) : s[i] = x})
                 /\ Q!ToBag(s)[x] \in Nat \ {0}
           /\ \A x : IsFiniteSet({i \in 1 .. Len(s) : s[i] = x})
<1> DEFINE A(x) == {i \in 1 .. Len(s) : s[i] = x}
           n(x) == Q!Cardinality({i \in DOMAIN s : s[i] = x})
<1>1. Len(s) \in Nat /\ DOMAIN s = 1 .. Len(s)
  OBVIOUS
<1>2. Q!ToBag(s) = [x \in Q!Range(s) |-> n(x)]
  BY Zenon DEF Q!ToBag
<1>3. \A x : n(x) = Cardinality(A(x))
  BY <1>1, HeapCardinality
<1>4. ASSUME NEW x PROVE IsFiniteSet(A(x))
  <2>1. IsFiniteSet(1 .. Len(s))
    BY <1>1, FS_Interval
  <2>2. A(x) \in SUBSET (1 .. Len(s))
    OBVIOUS
  <2> HIDE DEF A
  <2> QED BY <2>1, <2>2, FS_Subset
<1>5. Q!Range(s) = {s[i] : i \in 1 .. Len(s)}
  BY <1>1 DEF Q!Range
<1>6. ASSUME NEW x \in Q!Range(s) PROVE Cardinality(A(x)) \in Nat \ {0}
  <2>1. A(x) # {}
    BY <1>5
  <2> HIDE DEF A
  <2>2. Cardinality(A(x)) \in Nat /\ (Cardinality(A(x)) = 0 <=> A(x) = {})
    BY <1>4, FS_CardinalityType, FS_EmptySet
  <2> QED BY <2>1, <2>2
<1> HIDE DEF n
<1> QED BY <1>2, <1>3, <1>4, <1>5, <1>6

\* One more value at the end.
LEMMA BagAppended ==
    ASSUME NEW s \in Seq(HeapValues), NEW v \in HeapValues
    PROVE  Q!ToBag(Append(s, v)) = Q!BagAdd(Q!ToBag(s), v)
<1> DEFINE t == Append(s, v)
           n == Len(s)
<1>1. /\ n \in Nat /\ t \in Seq(HeapValues) /\ Len(t) = n + 1 /\ t[n + 1] = v
      /\ \A i \in 1 .. n : t[i] = s[i]
  BY AppendProperties
<1> HIDE DEF t, n
<1>2. /\ DOMAIN Q!ToBag(s) = {s[i] : i \in 1 .. n}
      /\ \A x \in DOMAIN Q!ToBag(s) : Q!ToBag(s)[x] = Cardinality({i \in 1 .. n : s[i] = x})
      /\ \A x : IsFiniteSet({i \in 1 .. n : s[i] = x})
  BY BagIs DEF n
<1>3. /\ DOMAIN Q!ToBag(t) = {t[i] : i \in 1 .. n + 1}
      /\ \A x \in DOMAIN Q!ToBag(t) : Q!ToBag(t)[x] = Cardinality({i \in 1 .. n + 1 : t[i] = x})
  BY <1>1, BagIs
<1>4. DOMAIN Q!ToBag(t) = DOMAIN Q!ToBag(s) \cup {v}
  <2>1. \A x \in DOMAIN Q!ToBag(t) : x \in DOMAIN Q!ToBag(s) \cup {v}
    BY <1>1, <1>2, <1>3
  <2>2. \A x \in DOMAIN Q!ToBag(s) : x \in DOMAIN Q!ToBag(t)
    BY <1>1, <1>2, <1>3
  <2>3. v \in DOMAIN Q!ToBag(t)
    BY <1>1, <1>3
  <2> QED BY <2>1, <2>2, <2>3
<1>5. ASSUME NEW x, x # v
      PROVE  {i \in 1 .. n + 1 : t[i] = x} = {i \in 1 .. n : s[i] = x}
  BY <1>1, <1>5
<1>6. {i \in 1 .. n + 1 : t[i] = v} = {i \in 1 .. n : s[i] = v} \cup {n + 1}
  BY <1>1
<1>7. Cardinality({i \in 1 .. n + 1 : t[i] = v}) = Cardinality({i \in 1 .. n : s[i] = v}) + 1
  <2> DEFINE A == {i \in 1 .. n : s[i] = v}
  <2>1. n + 1 \notin A
    BY <1>1
  <2>2. IsFiniteSet(A)
    BY <1>2
  <2> HIDE DEF A
  <2>3. Cardinality(A \cup {n + 1}) = Cardinality(A) + 1
    BY <2>1, <2>2, FS_AddElement
  <2> QED BY <1>6, <2>3 DEF A
<1>8. CASE v \in DOMAIN Q!ToBag(s)
  <2>1. Q!BagAdd(Q!ToBag(s), v) = [e \in DOMAIN Q!ToBag(s) |-> IF e = v THEN Q!ToBag(s)[e] + 1 ELSE Q!ToBag(s)[e]]
    BY <1>8 DEF Q!BagAdd
  <2>2. DOMAIN Q!ToBag(t) = DOMAIN Q!ToBag(s)
    BY <1>4, <1>8
  <2>3. ASSUME NEW e \in DOMAIN Q!ToBag(s)
        PROVE  Q!ToBag(t)[e] = IF e = v THEN Q!ToBag(s)[e] + 1 ELSE Q!ToBag(s)[e]
    <3>0. /\ Q!ToBag(s)[e] = Cardinality({i \in 1 .. n : s[i] = e})
          /\ Q!ToBag(t)[e] = Cardinality({i \in 1 .. n + 1 : t[i] = e})
      BY <1>2, <1>3, <2>2
    <3>1. CASE e = v
      BY <1>7, <3>0, <3>1
    <3>2. CASE e # v
      BY <1>5, <3>0, <3>2
    <3> QED BY <3>1, <3>2
  <2>4. Q!ToBag(t) = [e \in DOMAIN Q!ToBag(t) |-> Q!ToBag(t)[e]]
    BY Zenon DEF Q!ToBag
  <2> QED BY <2>1, <2>2, <2>3, <2>4 DEF t
<1>9. CASE v \notin DOMAIN Q!ToBag(s)
  <2>1. Q!BagAdd(Q!ToBag(s), v) = [e \in DOMAIN Q!ToBag(s) \cup {v} |-> IF e = v THEN 1 ELSE Q!ToBag(s)[e]]
    BY <1>9 DEF Q!BagAdd
  <2>2. Cardinality({i \in 1 .. n : s[i] = v}) = 0
    <3>1. {i \in 1 .. n : s[i] = v} = {}
      BY <1>2, <1>9
    <3> QED BY <3>1, FS_EmptySet
  <2>3. ASSUME NEW e \in DOMAIN Q!ToBag(t)
        PROVE  Q!ToBag(t)[e] = IF e = v THEN 1 ELSE Q!ToBag(s)[e]
    <3>1. CASE e = v
      BY <1>3, <1>7, <2>2, <3>1
    <3>2. CASE e # v
      <4>1. e \in DOMAIN Q!ToBag(s)
        BY <1>4, <3>2
      <4> QED BY <1>2, <1>3, <1>5, <3>2, <4>1
    <3> QED BY <3>1, <3>2
  <2>4. Q!ToBag(t) = [e \in DOMAIN Q!ToBag(t) |-> Q!ToBag(t)[e]]
    BY Zenon DEF Q!ToBag
  <2> QED BY <1>4, <2>1, <2>3, <2>4 DEF t
<1> QED BY <1>8, <1>9

\* A value added to a bag and removed again.
LEMMA AddRemove ==
    ASSUME NEW B, B = [e \in DOMAIN B |-> B[e]], \A e \in DOMAIN B : B[e] \in Nat \ {0}, NEW v
    PROVE  Q!BagRemove(Q!BagAdd(B, v), v) = B
<1>1. CASE v \in DOMAIN B
  <2> DEFINE b == Q!BagAdd(B, v)
  <2>1. b = [e \in DOMAIN B |-> IF e = v THEN B[e] + 1 ELSE B[e]]
    BY <1>1 DEF Q!BagAdd
  <2>2. v \in DOMAIN b /\ b[v] = B[v] + 1 /\ b[v] # 1 /\ DOMAIN b = DOMAIN B
    BY <1>1, <2>1
  <2> HIDE DEF b
  <2>3. Q!BagRemove(b, v) = [e \in DOMAIN B |-> IF e = v THEN b[e] - 1 ELSE b[e]]
    BY <2>2 DEF Q!BagRemove
  <2>4. \A e \in DOMAIN B : (IF e = v THEN b[e] - 1 ELSE b[e]) = B[e]
    BY <2>1
  <2>5. Q!BagRemove(b, v) = B
    BY <2>3, <2>4
  <2> QED BY <2>5 DEF b
<1>2. CASE v \notin DOMAIN B
  <2> DEFINE b == Q!BagAdd(B, v)
  <2>1. b = [e \in DOMAIN B \cup {v} |-> IF e = v THEN 1 ELSE B[e]]
    BY <1>2 DEF Q!BagAdd
  <2>2. v \in DOMAIN b /\ b[v] = 1 /\ DOMAIN b \ {v} = DOMAIN B
    BY <1>2, <2>1
  <2> HIDE DEF b
  <2>3. Q!BagRemove(b, v) = [e \in DOMAIN B |-> b[e]]
    BY <2>2 DEF Q!BagRemove
  <2>4. \A e \in DOMAIN B : b[e] = B[e]
    BY <1>2, <2>1
  <2>5. Q!BagRemove(b, v) = B
    BY <2>3, <2>4
  <2> QED BY <2>5 DEF b
<1> QED BY <1>1, <1>2

-----------------------------------------------------------------------------
\* No element is larger than its parent.
Heap(s) == \A k \in 1 .. Len(s) - 1 : s[k + 1] <= s[Q!Parent(k) + 1]

\* The same but for index i on its way up: its children are not larger than its parent.
Rising(s, i) ==
    /\ i < Len(s)
    /\ \A k \in 1 .. Len(s) - 1 :
          /\ k # i => s[k + 1] <= s[Q!Parent(k) + 1]
          /\ i # 0 /\ Q!Parent(k) = i => s[k + 1] <= s[Q!Parent(i) + 1]

\* The same but for the children of index i on its way down.
Sinking(s, i) ==
    \A k \in 1 .. Len(s) - 1 :
       /\ Q!Parent(k) # i => s[k + 1] <= s[Q!Parent(k) + 1]
       /\ i # 0 /\ Q!Parent(k) = i => s[k + 1] <= s[Q!Parent(i) + 1]

\* A vector made a heap, with the same values.
HeapOf(r, s) == r \in Seq(HeapValues) /\ Len(r) = Len(s) /\ Heap(r) /\ Q!ToBag(r) = Q!ToBag(s)

\* One step up.
LEMMA RisesOnce ==
    ASSUME NEW s \in Seq(HeapValues), NEW i \in Nat, Rising(s, i), Q!Rises(s, i)
    PROVE  LET p == Q!Parent(i)
               t == Q!Swapped(s, p, i)
           IN  /\ p \in Nat /\ p < i /\ t \in Seq(HeapValues) /\ Len(t) = Len(s)
               /\ Q!ToBag(t) = Q!ToBag(s) /\ Rising(t, p)
<1> DEFINE p == Q!Parent(i)
           t == Q!Swapped(s, p, i)
<1>1. i \in 1 .. Len(s) - 1 /\ s[p + 1] < s[i + 1] /\ Len(s) \in Nat
  BY DEF Q!Rises
<1>2. p \in Nat /\ p < i /\ (p # 0 => Q!Parent(p) \in Nat /\ Q!Parent(p) < p)
  BY <1>1, ParentIs
<1>3. p \in 0 .. Len(s) - 1 /\ i \in 0 .. Len(s) - 1
  BY <1>1, <1>2
<1>4. /\ t \in Seq(HeapValues) /\ Len(t) = Len(s)
      /\ \A k \in 1 .. Len(s) : t[k] = IF k = i + 1 THEN s[p + 1]
                                       ELSE IF k = p + 1 THEN s[i + 1] ELSE s[k]
  BY <1>3, SwappedIs
<1>5. Q!ToBag(t) = Q!ToBag(s)
  BY <1>3, BagSwapped
<1> HIDE DEF p, t
<1>6. /\ t[p + 1] = s[i + 1] /\ t[i + 1] = s[p + 1]
      /\ \A k \in 0 .. Len(s) - 1 : k # p /\ k # i => t[k + 1] = s[k + 1]
  BY <1>1, <1>2, <1>3, <1>4
<1>7. \A k \in 0 .. Len(s) - 1 : s[k + 1] \in Int
  BY <1>1, Numbers
<1>8. ASSUME NEW k \in 1 .. Len(s) - 1
      PROVE  /\ k # p => t[k + 1] <= t[Q!Parent(k) + 1]
             /\ p # 0 /\ Q!Parent(k) = p => t[k + 1] <= t[Q!Parent(p) + 1]
  <2> DEFINE q == Q!Parent(k)
  <2>1. q \in Nat /\ q < k
    BY ParentIs
  <2>2. /\ k # i => s[k + 1] <= s[q + 1]
        /\ q = i => s[k + 1] <= s[p + 1]
    BY <1>1 DEF Rising, p
  <2>3. q \in 0 .. Len(s) - 1 /\ k \in 0 .. Len(s) - 1
    BY <1>1, <2>1
  <2>4. s[k + 1] \in Int /\ s[q + 1] \in Int /\ s[p + 1] \in Int /\ s[i + 1] \in Int
    BY <1>3, <1>7, <2>3
  <2>5. k = i => q = p
    BY DEF p
  <2> HIDE DEF q
  <2>6. ASSUME k # p PROVE t[k + 1] <= t[q + 1]
    <3>1. CASE k = i
      BY <1>1, <1>6, <2>4, <2>5, <3>1
    <3>2. CASE k # i /\ q = i
      BY <1>6, <2>2, <2>3, <2>6, <3>2
    <3>3. CASE k # i /\ q = p
      BY <1>1, <1>6, <2>2, <2>3, <2>4, <2>6, <3>3
    <3>4. CASE k # i /\ q # i /\ q # p
      BY <1>6, <2>2, <2>3, <2>6, <3>4
    <3> QED BY <3>1, <3>2, <3>3, <3>4
  <2>7. ASSUME p # 0, q = p PROVE t[k + 1] <= t[Q!Parent(p) + 1]
    <3> DEFINE o == Q!Parent(p)
    <3>1. o \in Nat /\ o < p /\ o \in 0 .. Len(s) - 1
      BY <1>1, <1>2, <1>3, <2>7
    <3>2. p \in 1 .. Len(s) - 1 /\ p # i
      BY <1>1, <1>2, <2>7
    <3>3. s[p + 1] <= s[o + 1]
      BY <3>2 DEF Rising
    <3> SUFFICES t[k + 1] <= t[o + 1]
      OBVIOUS
    <3> HIDE DEF o
    <3>4. t[o + 1] = s[o + 1] /\ s[o + 1] \in Int
      BY <1>2, <1>6, <1>7, <3>1
    <3>5. CASE k = i
      BY <1>6, <3>3, <3>4, <3>5
    <3>6. CASE k # i
      <4>1. k # p
        BY <2>1, <2>7
      <4> QED BY <1>6, <2>2, <2>3, <2>4, <2>7, <3>3, <3>4, <3>6, <4>1
    <3> QED BY <3>5, <3>6
  <2> QED BY <2>6, <2>7 DEF q
<1>9. Rising(t, p)
  BY <1>3, <1>4, <1>8 DEF Rising
<1> QED BY <1>2, <1>4, <1>5, <1>9 DEF p, t

\* heapify_up makes a heap.
LEMMA HeapifiedUp ==
    ASSUME NEW s \in Seq(HeapValues), NEW i \in Nat, Rising(s, i)
    PROVE  HeapOf(Q!HeapifyUp[<<s, i>>], s)
<1> DEFINE Bad == {j \in Nat : \E u \in Seq(HeapValues) :
                      Rising(u, j) /\ ~HeapOf(Q!HeapifyUp[<<u, j>>], u)}
<1>1. SUFFICES ASSUME Bad # {} PROVE FALSE
  OBVIOUS
<1>2. PICK j \in Bad : \A k \in Bad : j <= k
  BY <1>1, LeastOf
<1>3. PICK u \in Seq(HeapValues) : Rising(u, j) /\ ~HeapOf(Q!HeapifyUp[<<u, j>>], u)
  OBVIOUS
<1>4. j \in Nat
  OBVIOUS
<1>5. CASE Q!Rises(u, j)
  <2> DEFINE p == Q!Parent(j)
             t == Q!Swapped(u, p, j)
  <2>1. /\ p \in Nat /\ p < j /\ t \in Seq(HeapValues) /\ Len(t) = Len(u)
        /\ Q!ToBag(t) = Q!ToBag(u) /\ Rising(t, p)
    BY <1>3, <1>4, <1>5, RisesOnce
  <2>2. Q!HeapifyUp[<<u, j>>] = Q!HeapifyUp[<<t, p>>]
    BY <1>4, <1>5, HeapifyUpIs
  <2> HIDE DEF p, t
  <2>3. p \notin Bad
    <3> HIDE DEF Bad
    <3> QED BY <1>2, <1>4, <2>1
  <2>4. HeapOf(Q!HeapifyUp[<<t, p>>], t)
    BY <2>1, <2>3
  <2>5. HeapOf(Q!HeapifyUp[<<t, p>>], u)
    BY <2>1, <2>4 DEF HeapOf
  <2> QED BY <1>3, <2>2, <2>5
<1>6. CASE ~Q!Rises(u, j)
  <2>1. Q!HeapifyUp[<<u, j>>] = u
    BY <1>4, <1>6, HeapifyUpIs
  <2>2. ASSUME NEW k \in 1 .. Len(u) - 1 PROVE u[k + 1] <= u[Q!Parent(k) + 1]
    <3>1. CASE k # j
      BY <1>3, <3>1 DEF Rising
    <3>2. CASE k = j
      <4>1. ~(u[Q!Parent(k) + 1] < u[k + 1])
        BY <1>6, <3>2 DEF Q!Rises
      <4>2. Q!Parent(k) \in Nat /\ Q!Parent(k) < k /\ Len(u) \in Nat
        BY ParentIs
      <4>3. k + 1 \in 1 .. Len(u) /\ Q!Parent(k) + 1 \in 1 .. Len(u)
        BY <4>2
      <4>4. u[k + 1] \in Int /\ u[Q!Parent(k) + 1] \in Int
        BY <4>3, Numbers
      <4> QED BY <4>1, <4>4
    <3> QED BY <3>1, <3>2
  <2>3. HeapOf(u, u)
    BY <2>2 DEF HeapOf, Heap
  <2> QED BY <1>3, <2>1, <2>3
<1> QED BY <1>5, <1>6

\* One step down.
LEMMA SinksOnce ==
    ASSUME NEW s \in Seq(HeapValues), NEW i \in Nat, Sinking(s, i), Q!Largest(s, i) # i
    PROVE  LET m == Q!Largest(s, i)
               t == Q!Swapped(s, i, m)
           IN  /\ i < Len(s) /\ m \in Nat /\ i < m /\ t \in Seq(HeapValues) /\ Len(t) = Len(s)
               /\ Q!ToBag(t) = Q!ToBag(s) /\ Sinking(t, m)
<1> DEFINE m == Q!Largest(s, i)
           t == Q!Swapped(s, i, m)
<1>1. /\ m \in 1 .. Len(s) - 1 /\ i \in 0 .. Len(s) - 1 /\ i < m /\ Len(s) \in Nat
      /\ Q!Parent(m) = i /\ s[i + 1] < s[m + 1]
      /\ \A k \in 1 .. Len(s) - 1 : Q!Parent(k) = i => s[k + 1] <= s[m + 1]
  BY LargestIs
<1>2. m \in 0 .. Len(s) - 1
  BY <1>1
<1>3. /\ t \in Seq(HeapValues) /\ Len(t) = Len(s)
      /\ \A k \in 1 .. Len(s) : t[k] = IF k = m + 1 THEN s[i + 1]
                                       ELSE IF k = i + 1 THEN s[m + 1] ELSE s[k]
  BY <1>1, <1>2, SwappedIs
<1>4. Q!ToBag(t) = Q!ToBag(s)
  BY <1>1, <1>2, BagSwapped
<1> HIDE DEF m, t
<1>5. /\ t[m + 1] = s[i + 1] /\ t[i + 1] = s[m + 1]
      /\ \A k \in 0 .. Len(s) - 1 : k # m /\ k # i => t[k + 1] = s[k + 1]
  BY <1>1, <1>3
<1>6. \A k \in 0 .. Len(s) - 1 : s[k + 1] \in Int
  BY <1>1, Numbers
<1>7. ASSUME NEW k \in 1 .. Len(s) - 1
      PROVE  /\ Q!Parent(k) # m => t[k + 1] <= t[Q!Parent(k) + 1]
             /\ m # 0 /\ Q!Parent(k) = m => t[k + 1] <= t[Q!Parent(m) + 1]
  <2> DEFINE q == Q!Parent(k)
  <2>1. q \in Nat /\ q < k
    BY ParentIs
  <2>2. q # i => s[k + 1] <= s[q + 1]
    BY DEF Sinking
  <2>3. q \in 0 .. Len(s) - 1 /\ k \in 0 .. Len(s) - 1
    BY <1>1, <2>1
  <2>4. s[k + 1] \in Int /\ s[q + 1] \in Int /\ s[m + 1] \in Int /\ s[i + 1] \in Int
    BY <1>1, <1>2, <1>6, <2>3
  <2>5. (k = m => q = i) /\ (q = i => s[k + 1] <= s[m + 1])
    BY <1>1
  <2>6. i # 0 /\ k = i => s[m + 1] <= s[q + 1]
    BY <1>1 DEF Sinking
  <2> HIDE DEF q
  <2>7. ASSUME q # m PROVE t[k + 1] <= t[q + 1]
    <3>1. CASE k = m
      BY <1>1, <1>5, <2>4, <2>5, <3>1
    <3>2. CASE k # m /\ q = i
      BY <1>5, <2>1, <2>3, <2>5, <3>2
    <3>3. CASE k # m /\ k = i
      BY <1>5, <2>1, <2>3, <2>6, <2>7, <3>3
    <3>4. CASE k # m /\ q # i /\ k # i
      BY <1>5, <2>2, <2>3, <2>7, <3>4
    <3> QED BY <3>1, <3>2, <3>3, <3>4
  <2>8. ASSUME q = m PROVE t[k + 1] <= t[i + 1]
    BY <1>1, <1>5, <2>1, <2>2, <2>3, <2>8
  <2> QED BY <1>1, <2>7, <2>8 DEF q
<1>8. Sinking(t, m)
  BY <1>3, <1>7 DEF Sinking
<1>9. i < Len(s) /\ m \in Nat /\ i < m
  BY <1>1
<1> QED BY <1>3, <1>4, <1>8, <1>9 DEF m, t

\* heapify_down makes a heap.
LEMMA HeapifiedDown ==
    ASSUME NEW s \in Seq(HeapValues), NEW i \in Nat, Sinking(s, i)
    PROVE  HeapOf(Q!HeapifyDown[<<s, i>>], s)
<1> DEFINE Bad == {n \in Nat : \E u \in Seq(HeapValues), j \in Nat :
                      /\ Len(u) <= j + n
                      /\ Sinking(u, j) /\ ~HeapOf(Q!HeapifyDown[<<u, j>>], u)}
<1>1. SUFFICES ASSUME Bad # {} PROVE FALSE
  <2>1. Len(s) \in Nat /\ Len(s) <= i + Len(s)
    OBVIOUS
  <2>2. Len(s) \notin Bad
    BY <1>1
  <2> QED BY <2>1, <2>2
<1>2. PICK n \in Bad : \A k \in Bad : n <= k
  BY <1>1, LeastOf
<1>3. PICK u \in Seq(HeapValues), j \in Nat :
         Len(u) <= j + n /\ Sinking(u, j) /\ ~HeapOf(Q!HeapifyDown[<<u, j>>], u)
  OBVIOUS
<1>4. n \in Nat /\ Len(u) \in Nat
  OBVIOUS
<1>5. CASE Q!Largest(u, j) # j
  <2> DEFINE m == Q!Largest(u, j)
             t == Q!Swapped(u, j, m)
  <2>1. /\ j < Len(u) /\ m \in Nat /\ j < m /\ t \in Seq(HeapValues) /\ Len(t) = Len(u)
        /\ Q!ToBag(t) = Q!ToBag(u) /\ Sinking(t, m)
    BY <1>3, <1>5, SinksOnce
  <2>2. Q!HeapifyDown[<<u, j>>] = Q!HeapifyDown[<<t, m>>]
    BY <1>5, HeapifyDownIs
  <2> HIDE DEF m, t
  <2>3. n - 1 \in Nat /\ Len(t) <= m + (n - 1) /\ ~(n <= n - 1)
    BY <1>3, <1>4, <2>1
  <2>4. n - 1 \notin Bad
    <3> HIDE DEF Bad
    <3> QED BY <1>2, <2>3
  <2>5. HeapOf(Q!HeapifyDown[<<t, m>>], t)
    BY <2>1, <2>3, <2>4
  <2>6. HeapOf(Q!HeapifyDown[<<t, m>>], u)
    BY <2>1, <2>5 DEF HeapOf
  <2> QED BY <1>3, <2>2, <2>6
<1>6. CASE Q!Largest(u, j) = j
  <2>1. Q!HeapifyDown[<<u, j>>] = u
    BY <1>6, HeapifyDownIs
  <2>2. ASSUME NEW k \in 1 .. Len(u) - 1 PROVE u[k + 1] <= u[Q!Parent(k) + 1]
    <3>1. CASE Q!Parent(k) # j
      BY <1>3, <3>1 DEF Sinking
    <3>2. CASE Q!Parent(k) = j
      BY <1>6, <3>2, LargestIs
    <3> QED BY <3>1, <3>2
  <2>3. HeapOf(u, u)
    BY <2>2 DEF HeapOf, Heap
  <2> QED BY <1>3, <2>1, <2>3
<1> QED BY <1>5, <1>6

\* The first element of a heap is a largest one.
LEMMA RootIsLargest ==
    ASSUME NEW s \in Seq(HeapValues), Heap(s)
    PROVE  \A k \in 1 .. Len(s) : s[k] <= s[1]
<1> DEFINE Bad == {k \in Nat : k < Len(s) /\ ~(s[k + 1] <= s[1])}
<1>1. SUFFICES ASSUME Bad # {} PROVE FALSE
  <2> SUFFICES ASSUME NEW k \in 1 .. Len(s) PROVE s[k] <= s[1]
    OBVIOUS
  <2>1. k - 1 \in Nat /\ k - 1 < Len(s) /\ k - 1 + 1 = k
    OBVIOUS
  <2>2. k - 1 \notin Bad
    BY <1>1
  <2> QED BY <2>1, <2>2
<1>2. PICK k \in Bad : \A j \in Bad : k <= j
  BY <1>1, LeastOf
<1>3. k \in Nat /\ k < Len(s) /\ ~(s[k + 1] <= s[1]) /\ Len(s) \in Nat
  OBVIOUS
<1>4. 1 \in 1 .. Len(s) /\ k + 1 \in 1 .. Len(s)
  BY <1>3
<1>5. s[1] \in Int /\ s[k + 1] \in Int
  BY <1>4, Numbers
<1>6. k # 0
  BY <1>3, <1>5
<1> DEFINE p == Q!Parent(k)
<1>7. p \in Nat /\ p < k /\ k \in 1 .. Len(s) - 1
  BY <1>3, <1>6, ParentIs
<1>8. s[k + 1] <= s[p + 1]
  BY <1>7 DEF Heap
<1> HIDE DEF p
<1>9. s[p + 1] \in Int
  <2>1. p + 1 \in 1 .. Len(s)
    BY <1>3, <1>7
  <2> QED BY <2>1, Numbers
<1>10. p \notin Bad
  <2> HIDE DEF Bad
  <2> QED BY <1>2, <1>3, <1>7
<1>11. s[p + 1] <= s[1]
  BY <1>3, <1>7, <1>10
<1> QED BY <1>3, <1>5, <1>8, <1>9, <1>11

-----------------------------------------------------------------------------
\* The queue is a heap of the values pushed and not popped.
HeapInv == c \in Seq(HeapValues) /\ Heap(c) /\ Q!ToBag(c) = pushed

\* The queue is empty at first.
LEMMA HeapInit == Q!Init => HeapInv
<1> SUFFICES ASSUME Q!Init PROVE HeapInv
  OBVIOUS
<1>1. c = <<>> /\ c \in Seq(HeapValues) /\ Len(c) = 0
  BY DEF Q!Init
<1>2. Heap(c)
  BY <1>1 DEF Heap
<1>3. Q!ToBag(c) = <<>>
  <2>1. DOMAIN Q!ToBag(c) = {}
    <3>1. DOMAIN Q!ToBag(c) = {c[i] : i \in 1 .. Len(c)}
      BY <1>1, BagIs
    <3>2. 1 .. Len(c) = {}
      BY <1>1
    <3> QED BY <3>1, <3>2
  <2>2. Q!ToBag(c) = [e \in DOMAIN Q!ToBag(c) |-> Q!ToBag(c)[e]]
    BY Zenon DEF Q!ToBag
  <2> QED BY <2>1, <2>2
<1> QED BY <1>1, <1>2, <1>3 DEF HeapInv, Q!Init

\* A push.
LEMMA HeapPush ==
    ASSUME HeapInv, NEW v \in HeapValues, Q!Push(v)
    PROVE  HeapInv' /\ Len(c') = Len(c) + 1
<1> DEFINE t == Append(c, v)
           n == Len(c)
<1>1. c \in Seq(HeapValues) /\ Heap(c) /\ Q!ToBag(c) = pushed
  BY DEF HeapInv
<1>2. c' = Q!HeapifyUp[<<t, n>>] /\ pushed' = Q!BagAdd(pushed, v)
  BY DEF Q!Push
<1>3. /\ n \in Nat /\ t \in Seq(HeapValues) /\ Len(t) = n + 1
      /\ \A i \in 1 .. n : t[i] = c[i]
  BY <1>1, AppendProperties
<1>4. Q!ToBag(t) = Q!BagAdd(Q!ToBag(c), v)
  BY <1>1, BagAppended
<1>5. Rising(t, n)
  <2>1. \A k \in 1 .. n - 1 : c[k + 1] <= c[Q!Parent(k) + 1]
    BY <1>1 DEF Heap
  <2> HIDE DEF t, n
  <2>2. n < Len(t)
    BY <1>3
  <2>3. ASSUME NEW k \in 1 .. Len(t) - 1
        PROVE  /\ k # n => t[k + 1] <= t[Q!Parent(k) + 1]
               /\ n # 0 /\ Q!Parent(k) = n => t[k + 1] <= t[Q!Parent(n) + 1]
    <3>1. k \in Nat /\ k <= n /\ k # 0 /\ Q!Parent(k) \in Nat /\ Q!Parent(k) < k
      BY <1>3, ParentIs
    <3>2. Q!Parent(k) # n
      BY <1>3, <3>1
    <3>3. CASE k # n
      <4>1. k \in 1 .. n - 1 /\ k + 1 \in 1 .. n /\ Q!Parent(k) + 1 \in 1 .. n
        BY <1>3, <3>1, <3>3
      <4> QED BY <1>3, <2>1, <3>2, <4>1
    <3> QED BY <3>2, <3>3
  <2> QED BY <2>2, <2>3 DEF Rising
<1>6. HeapOf(Q!HeapifyUp[<<t, n>>], t)
  <2> HIDE DEF t, n
  <2> QED BY <1>3, <1>5, HeapifiedUp
<1>7. HeapInv'
  BY <1>1, <1>2, <1>4, <1>6 DEF HeapInv, HeapOf
<1>8. Len(c') = Len(c) + 1
  BY <1>2, <1>3, <1>6 DEF HeapOf
<1> QED BY <1>7, <1>8

\* A pop.
LEMMA HeapPop ==
    ASSUME HeapInv, Q!Pop
    PROVE  HeapInv' /\ Len(c') = Len(c) - 1
<1> DEFINE n == Len(c)
           t == Q!Swapped(c, 0, n - 1)
           f == Q!Front(t)
<1>1. c \in Seq(HeapValues) /\ Heap(c) /\ Q!ToBag(c) = pushed /\ c # <<>>
  BY DEF HeapInv, Q!Pop
<1>2. c' = Q!HeapifyDown[<<f, 0>>] /\ pushed' = Q!BagRemove(pushed, c[1])
  BY DEF Q!Pop
<1>3. n \in Nat /\ n # 0 /\ 0 \in 0 .. n - 1 /\ n - 1 \in 0 .. n - 1 /\ 1 \in 1 .. n
  BY <1>1
<1>4. /\ t \in Seq(HeapValues) /\ Len(t) = n
      /\ \A k \in 1 .. n : t[k] = IF k = n - 1 + 1 THEN c[0 + 1]
                                 ELSE IF k = 0 + 1 THEN c[n - 1 + 1] ELSE c[k]
      /\ Q!ToBag(t) = Q!ToBag(c)
  BY <1>1, <1>3, SwappedIs, BagSwapped
<1> HIDE DEF t
<1>5. t[n] = c[1] /\ \A k \in 2 .. n - 1 : t[k] = c[k]
  <2>1. n - 1 + 1 = n /\ n \in 1 .. n
    BY <1>3
  <2>2. t[n] = c[1]
    BY <1>4, <2>1
  <2>3. ASSUME NEW k \in 2 .. n - 1 PROVE t[k] = c[k]
    <3>1. k \in 1 .. n /\ k # n - 1 + 1 /\ k # 0 + 1
      BY <1>3
    <3> QED BY <1>4, <3>1
  <2> QED BY <2>2, <2>3
<1>6. /\ f \in Seq(HeapValues) /\ Len(f) = n - 1 /\ \A k \in 1 .. n - 1 : f[k] = t[k]
  BY <1>3, <1>4, SubSeqProperties DEF Q!Front
<1> HIDE DEF f
<1>7. c[1] \in HeapValues
  BY <1>1, <1>3, Numbers
<1>8. t = Append(f, c[1])
  <2> DEFINE a == Append(f, c[1])
  <2>1. /\ a \in Seq(HeapValues) /\ Len(a) = n /\ a[n] = c[1]
        /\ \A k \in 1 .. n - 1 : a[k] = f[k]
    <3>1. Len(f) + 1 = n
      BY <1>3, <1>6
    <3>2. /\ a \in Seq(HeapValues) /\ Len(a) = Len(f) + 1 /\ a[Len(f) + 1] = c[1]
          /\ \A k \in 1 .. Len(f) : a[k] = f[k]
      BY <1>6, <1>7, AppendProperties
    <3> QED BY <1>6, <3>1, <3>2
  <2> HIDE DEF a
  <2>2. \A k \in 1 .. n : a[k] = t[k]
    BY <1>3, <1>5, <1>6, <2>1
  <2>3. a = t
    BY <1>4, <2>1, <2>2, SeqEqual
  <2> QED BY <2>3 DEF a
<1>9. Q!ToBag(f) = pushed'
  <2> DEFINE B == Q!ToBag(f)
  <2>1. Q!ToBag(c) = Q!BagAdd(B, c[1])
    BY <1>4, <1>6, <1>7, <1>8, BagAppended
  <2>2. B = [e \in DOMAIN B |-> B[e]] /\ \A e \in DOMAIN B : B[e] \in Nat \ {0}
    <3>1. B = [e \in DOMAIN B |-> B[e]]
      BY Zenon DEF Q!ToBag
    <3> QED BY <1>6, <3>1, BagIs
  <2> HIDE DEF B
  <2>3. Q!BagRemove(Q!BagAdd(B, c[1]), c[1]) = B
    BY <2>2, AddRemove
  <2>4. pushed' = B
    BY <1>1, <1>2, <2>1, <2>3
  <2> QED BY <2>4 DEF B
<1>10. Sinking(f, 0)
  <2> SUFFICES ASSUME NEW k \in 1 .. Len(f) - 1, Q!Parent(k) # 0
               PROVE  f[k + 1] <= f[Q!Parent(k) + 1]
    BY DEF Sinking
  <2>1. k # 0 /\ k \in Nat /\ Q!Parent(k) \in Nat /\ Q!Parent(k) < k
    BY ParentIs
  <2>2. k + 1 \in 2 .. n - 1 /\ Q!Parent(k) + 1 \in 2 .. n - 1 /\ k \in 1 .. n - 1
    BY <1>3, <1>6, <2>1
  <2>3. f[k + 1] = c[k + 1] /\ f[Q!Parent(k) + 1] = c[Q!Parent(k) + 1]
    BY <1>3, <1>5, <1>6, <2>2
  <2>4. c[k + 1] <= c[Q!Parent(k) + 1]
    BY <1>1, <2>2 DEF Heap
  <2> QED BY <2>3, <2>4
<1>11. HeapOf(Q!HeapifyDown[<<f, 0>>], f)
  BY <1>6, <1>10, HeapifiedDown
<1>12. HeapInv'
  BY <1>2, <1>9, <1>11 DEF HeapInv, HeapOf
<1>13. Len(c') = Len(c) - 1
  BY <1>2, <1>6, <1>11 DEF HeapOf
<1> QED BY <1>12, <1>13

\* The first value is a largest one of those pushed and not popped.
LEMMA HeapServes == HeapInv => Q!ServesLargest
<1> SUFFICES ASSUME HeapInv PROVE Q!ServesLargest
  OBVIOUS
<1>1. c \in Seq(HeapValues) /\ Q!ToBag(c) = pushed
  BY DEF HeapInv
<1>2. \A k \in 1 .. Len(c) : c[k] <= c[1]
  BY RootIsLargest DEF HeapInv
<1>3. DOMAIN pushed = {c[i] : i \in 1 .. Len(c)}
  BY <1>1, BagIs
<1> QED BY <1>1, <1>2, <1>3 DEF Q!ServesLargest

\* What holds of the priority queue.
HeapsInv == kind = "PriorityQueue" => HeapInv

\* Pushes and pops keep the invariant of the priority queue.
LEMMA HeapsInvariant == Spec => []HeapsInv
<1> USE DEF HeapsInv
<1>1. Init => HeapsInv
  BY HeapInit DEF Init
<1>2. HeapsInv /\ [Next]_vars => HeapsInv'
  <2> SUFFICES ASSUME HeapsInv, [Next]_vars PROVE HeapsInv'
    OBVIOUS
  <2>1. kind' = kind /\ (kind = "PriorityQueue" => Q!Next \/ UNCHANGED heapVars)
    BY Frame
  <2>2. CASE kind = "PriorityQueue" /\ Q!Next
    <3>1. HeapInv'
      BY <2>2, HeapPush, HeapPop DEF Q!Next
    <3> QED BY <3>1
  <2>3. CASE kind = "PriorityQueue" /\ UNCHANGED heapVars
    <3>1. UNCHANGED <<c, pushed>>
      BY <2>3 DEF heapVars
    <3> QED BY <2>3, <3>1 DEF HeapInv, Heap
  <2>4. CASE kind # "PriorityQueue"
    BY <2>1, <2>4
  <2> QED BY <2>1, <2>2, <2>3, <2>4
<1> QED BY <1>1, <1>2, PTL DEF Spec

\* SimplePriorityQueue serves a largest value first after any pushes and pops: top() is a
\* largest of the values pushed and not popped, and pop() removes that value and no other.
THEOREM LargestServed == Spec => []HeapServesLargest
<1> USE DEF HeapsInv
<1>1. HeapsInv => HeapServesLargest
  BY HeapServes DEF HeapServesLargest
<1> QED BY <1>1, HeapsInvariant, PTL

-----------------------------------------------------------------------------
\* The hash tables count as FiniteSets counts.
LEMMA TableCardinality == \A X : H!Cardinality(X) = Cardinality(X)
  BY DEF H!Cardinality, Cardinality

\* A key has a bucket.
LEMMA HashIs ==
    ASSUME NEW k \in TableKeys, NEW n \in Nat \ {0}
    PROVE  H!Hash(k, n) \in 1 .. n
<1>1. k \in Nat
  BY TableAssumption
<1> QED BY <1>1 DEF H!Hash

\* One more node in its bucket.
LEMMA PushedIs ==
    ASSUME NEW t \in H!Tables, NEW n \in H!Node
    PROVE  /\ H!Pushed(t, n) \in H!Tables /\ Len(H!Pushed(t, n)) = Len(t)
           /\ \A i \in 1 .. Len(t) :
                 /\ t[i] \in Seq(H!Node)
                 /\ H!Pushed(t, n)[i] = IF i = H!Hash(n[1], Len(t)) THEN Append(t[i], n) ELSE t[i]
<1> DEFINE h == H!Hash(n[1], Len(t))
<1>1. /\ t \in Seq(Seq(H!Node)) /\ Len(t) \in Nat /\ DOMAIN t = 1 .. Len(t)
      /\ \A i \in 1 .. Len(t) : t[i] \in Seq(H!Node)
  BY DEF H!Tables
<1>2. \A i \in 1 .. Len(t) : Append(t[i], n) \in Seq(H!Node)
  BY <1>1, AppendProperties
<1>3. H!Pushed(t, n) = [t EXCEPT ![h] = Append(t[h], n)]
  BY DEF H!Pushed
<1> HIDE DEF h
<1>4. [t EXCEPT ![h] = Append(t[h], n)] \in [1 .. Len(t) -> Seq(H!Node)]
  BY <1>1, <1>2
<1>5. \A i \in 1 .. Len(t) :
         [t EXCEPT ![h] = Append(t[h], n)][i] = IF i = h THEN Append(t[i], n) ELSE t[i]
  BY <1>1
<1>6. \A m \in Nat : \A g \in [1 .. m -> Seq(H!Node)] : g \in Seq(Seq(H!Node)) /\ Len(g) = m
  OBVIOUS
<1>7. H!Pushed(t, n) \in Seq(Seq(H!Node)) /\ Len(H!Pushed(t, n)) = Len(t)
  BY <1>1, <1>3, <1>4, <1>6
<1> QED BY <1>1, <1>3, <1>5, <1>7 DEF H!Tables, h

\* The first of a sequence and the others.
LEMMA FirstAndRest ==
    ASSUME NEW X, NEW s \in Seq(X), s # <<>>
    PROVE  /\ Head(s) \in X /\ Head(s) = s[1] /\ Tail(s) \in Seq(X)
           /\ Len(s) \in Nat \ {0} /\ Len(Tail(s)) = Len(s) - 1
           /\ \A i \in 1 .. Len(s) - 1 : Tail(s)[i] = s[i + 1]
<1>1. Len(s) \in Nat \ {0}
  BY EmptySeq
<1>2. /\ Head(s) \in X /\ Tail(s) \in Seq(X) /\ Len(Tail(s)) = Len(s) - 1
      /\ \A i \in 1 .. Len(Tail(s)) : Tail(s)[i] = s[i + 1]
  BY HeadTailProperties
<1>3. Head(s) = s[1]
  OBVIOUS
<1> QED BY <1>1, <1>2, <1>3

\* The loop over a bucket as it is defined.
LEMMA EmptiedIs ==
    ASSUME NEW b \in Seq(H!Node), NEW t \in H!Tables
    PROVE  H!Emptied[<<b, t>>] =
              IF b = <<>> THEN t ELSE H!Emptied[<<Tail(b), H!Pushed(t, Head(b))>>]
<1> DEFINE St == Seq(H!Node) \X H!Tables
           P == {q \in St : q[1] # <<>>}
           h == [q \in P |-> <<Tail(q[1]), H!Pushed(q[2], Head(q[1]))>>]
           out == [q \in St |-> q[2]]
<1>1. ASSUME NEW q \in P PROVE <<Tail(q[1]), H!Pushed(q[2], Head(q[1]))>> \in St
  <2>1. q[1] \in Seq(H!Node) /\ q[2] \in H!Tables /\ q[1] # <<>>
    OBVIOUS
  <2>2. Tail(q[1]) \in Seq(H!Node) /\ Head(q[1]) \in H!Node
    BY <2>1, FirstAndRest
  <2>3. H!Pushed(q[2], Head(q[1])) \in H!Tables
    BY <2>1, <2>2, PushedIs
  <2> QED BY <2>2, <2>3
<1>2. h \in [P -> St] /\ P \in SUBSET St
  BY <1>1
<1>3. PICK f : ByRecursion(f, St, P, h, out)
  <2> HIDE DEF St, P, h, out
  <2> QED BY <1>2, Recursion
<1>4. f = [q \in Seq(H!Node) \X H!Tables |->
              IF q[1] = <<>> THEN q[2] ELSE f[<<Tail(q[1]), H!Pushed(q[2], Head(q[1]))>>]]
  BY <1>3 DEF ByRecursion
<1>5. H!Emptied = [q \in Seq(H!Node) \X H!Tables |->
              IF q[1] = <<>> THEN q[2] ELSE H!Emptied[<<Tail(q[1]), H!Pushed(q[2], Head(q[1]))>>]]
  BY <1>4, Zenon DEF H!Emptied
<1>6. <<b, t>> \in Seq(H!Node) \X H!Tables
  OBVIOUS
<1> HIDE DEF St, P, h, out
<1> QED BY <1>5, <1>6

\* It ends with a table of the same size.
LEMMA EmptiedType ==
    ASSUME NEW b \in Seq(H!Node), NEW t \in H!Tables
    PROVE  H!Emptied[<<b, t>>] \in H!Tables /\ Len(H!Emptied[<<b, t>>]) = Len(t)
<1> DEFINE Good(x, u) == H!Emptied[<<x, u>>] \in H!Tables /\ Len(H!Emptied[<<x, u>>]) = Len(u)
           Bad == {n \in Nat : \E x \in Seq(H!Node), u \in H!Tables : Len(x) = n /\ ~Good(x, u)}
<1>1. SUFFICES ASSUME Bad # {} PROVE FALSE
  <2>1. Len(b) \in Nat
    OBVIOUS
  <2>2. Len(b) \notin Bad
    <3> HIDE DEF Bad
    <3> QED BY <1>1
  <2> QED BY <2>1, <2>2
<1>2. PICK n \in Bad : \A k \in Bad : n <= k
  BY <1>1, LeastOf
<1>3. PICK x \in Seq(H!Node), u \in H!Tables : Len(x) = n /\ ~Good(x, u)
  OBVIOUS
<1>4. CASE x = <<>>
  <2>1. H!Emptied[<<x, u>>] = u
    BY <1>4, EmptiedIs
  <2> QED BY <1>3, <2>1
<1>5. CASE x # <<>>
  <2> DEFINE y == Tail(x)
             w == H!Pushed(u, Head(x))
  <2>1. y \in Seq(H!Node) /\ Head(x) \in H!Node /\ Len(y) = n - 1 /\ n - 1 \in Nat /\ ~(n <= n - 1)
    BY <1>3, <1>5, FirstAndRest
  <2>2. w \in H!Tables /\ Len(w) = Len(u)
    BY <2>1, PushedIs
  <2>3. H!Emptied[<<x, u>>] = H!Emptied[<<y, w>>]
    BY <1>5, EmptiedIs
  <2> HIDE DEF y, w
  <2>4. n - 1 \notin Bad
    <3> HIDE DEF Bad
    <3> QED BY <1>2, <2>1
  <2>5. Good(y, w)
    BY <2>1, <2>2, <2>4
  <2> QED BY <1>3, <2>2, <2>3, <2>5
<1> QED BY <1>4, <1>5

\* The loop over the buckets as it is defined.
LEMMA DistributedIs ==
    ASSUME NEW b \in H!Tables, NEW t \in H!Tables
    PROVE  H!Distributed[<<b, t>>] =
              IF b = <<>> THEN t ELSE H!Distributed[<<Tail(b), H!Emptied[<<Head(b), t>>]>>]
<1> DEFINE St == H!Tables \X H!Tables
           P == {q \in St : q[1] # <<>>}
           h == [q \in P |-> <<Tail(q[1]), H!Emptied[<<Head(q[1]), q[2]>>]>>]
           out == [q \in St |-> q[2]]
<1>1. ASSUME NEW q \in P PROVE <<Tail(q[1]), H!Emptied[<<Head(q[1]), q[2]>>]>> \in St
  <2>1. q[1] \in Seq(Seq(H!Node)) /\ q[2] \in H!Tables /\ q[1] # <<>>
    BY DEF H!Tables
  <2>2. Tail(q[1]) \in H!Tables /\ Head(q[1]) \in Seq(H!Node)
    BY <2>1, FirstAndRest DEF H!Tables
  <2>3. H!Emptied[<<Head(q[1]), q[2]>>] \in H!Tables
    BY <2>1, <2>2, EmptiedType
  <2> QED BY <2>2, <2>3
<1>2. h \in [P -> St] /\ P \in SUBSET St
  BY <1>1
<1>3. PICK f : ByRecursion(f, St, P, h, out)
  <2> HIDE DEF St, P, h, out
  <2> QED BY <1>2, Recursion
<1>4. f = [q \in H!Tables \X H!Tables |->
              IF q[1] = <<>> THEN q[2] ELSE f[<<Tail(q[1]), H!Emptied[<<Head(q[1]), q[2]>>]>>]]
  BY <1>3 DEF ByRecursion
<1>5. H!Distributed = [q \in H!Tables \X H!Tables |->
              IF q[1] = <<>> THEN q[2] ELSE H!Distributed[<<Tail(q[1]), H!Emptied[<<Head(q[1]), q[2]>>]>>]]
  BY <1>4, Zenon DEF H!Distributed
<1>6. <<b, t>> \in H!Tables \X H!Tables
  OBVIOUS
<1> HIDE DEF St, P, h, out
<1> QED BY <1>5, <1>6

-----------------------------------------------------------------------------
\* A table holds the keys of K with their values in f: each node is in the bucket of its key,
\* and each key has one node.
Holds(t, f, K) ==
    /\ t \in H!Tables /\ Len(t) # 0 /\ K \subseteq TableKeys
    /\ \A i \in 1 .. Len(t) : \A j \in 1 .. Len(t[i]) :
          /\ t[i][j][1] \in K /\ t[i][j][2] = f[t[i][j][1]]
          /\ H!Hash(t[i][j][1], Len(t)) = i
    /\ \A i \in 1 .. Len(t) : \A j, m \in 1 .. Len(t[i]) : t[i][j][1] = t[i][m][1] => j = m
    /\ \A k \in K : \E j \in 1 .. Len(t[H!Hash(k, Len(t))]) : t[H!Hash(k, Len(t))][j][1] = k

\* The nodes of a bucket have their values in f and keys of their own, none of K.
Fresh(b, f, K) ==
    /\ \A j \in 1 .. Len(b) : b[j][1] \notin K /\ b[j][2] = f[b[j][1]]
    /\ \A j, m \in 1 .. Len(b) : b[j][1] = b[m][1] => j = m

\* The keys of a bucket, and of a table.
KeysOf(b) == {b[j][1] : j \in 1 .. Len(b)}
KeysIn(t) == UNION {KeysOf(t[i]) : i \in 1 .. Len(t)}

\* A key that is not there, with its node.
LEMMA PushedHolds ==
    ASSUME NEW t, NEW f, NEW K, Holds(t, f, K),
           NEW n \in H!Node, n[1] \notin K, n[2] = f[n[1]]
    PROVE  Holds(H!Pushed(t, n), f, K \cup {n[1]})
<1> DEFINE k == n[1]
           h == H!Hash(k, Len(t))
           u == H!Pushed(t, n)
<1>1. /\ t \in H!Tables /\ Len(t) \in Nat \ {0} /\ k \in TableKeys
      /\ K \cup {k} \subseteq TableKeys
  BY DEF Holds, H!Node, H!Tables
<1>2. h \in 1 .. Len(t)
  BY <1>1, HashIs
<1>3. /\ u \in H!Tables /\ Len(u) = Len(t)
      /\ \A i \in 1 .. Len(t) :
            t[i] \in Seq(H!Node) /\ u[i] = IF i = h THEN Append(t[i], n) ELSE t[i]
  BY <1>1, PushedIs
<1> HIDE DEF u
<1>4. /\ Len(t[h]) \in Nat /\ Len(u[h]) = Len(t[h]) + 1 /\ u[h][Len(t[h]) + 1] = n
      /\ \A j \in 1 .. Len(t[h]) : u[h][j] = t[h][j]
  <2>1. t[h] \in Seq(H!Node) /\ u[h] = Append(t[h], n)
    BY <1>2, <1>3
  <2> HIDE DEF h
  <2> QED BY <2>1, AppendProperties
<1>5. \A i \in 1 .. Len(t) : i # h => u[i] = t[i]
  BY <1>3
<1>6. /\ \A i \in 1 .. Len(t) : \A j \in 1 .. Len(t[i]) :
            /\ t[i][j][1] \in K /\ t[i][j][2] = f[t[i][j][1]]
            /\ H!Hash(t[i][j][1], Len(t)) = i
      /\ \A i \in 1 .. Len(t) : \A j, m \in 1 .. Len(t[i]) : t[i][j][1] = t[i][m][1] => j = m
      /\ \A x \in K : \E j \in 1 .. Len(t[H!Hash(x, Len(t))]) : t[H!Hash(x, Len(t))][j][1] = x
  BY DEF Holds
<1>7. H!Hash(k, Len(t)) = h
  OBVIOUS
<1> HIDE DEF h
<1>8. ASSUME NEW i \in 1 .. Len(u), NEW j \in 1 .. Len(u[i])
      PROVE  /\ u[i][j][1] \in K \cup {k} /\ u[i][j][2] = f[u[i][j][1]]
             /\ H!Hash(u[i][j][1], Len(u)) = i
  <2>1. CASE i # h
    BY <1>3, <1>5, <1>6, <2>1
  <2>2. CASE i = h /\ j = Len(t[h]) + 1
    BY <1>3, <1>4, <1>7, <2>2
  <2>3. CASE i = h /\ j # Len(t[h]) + 1
    <3>1. j \in 1 .. Len(t[h])
      BY <1>4, <2>3
    <3> QED BY <1>2, <1>3, <1>4, <1>6, <2>3, <3>1
  <2> QED BY <2>1, <2>2, <2>3
<1>9. ASSUME NEW i \in 1 .. Len(u), NEW j \in 1 .. Len(u[i]), NEW m \in 1 .. Len(u[i]),
             u[i][j][1] = u[i][m][1]
      PROVE  j = m
  <2>1. CASE i # h
    BY <1>3, <1>5, <1>6, <1>9, <2>1
  <2>2. CASE i = h
    <3>1. \A l \in 1 .. Len(u[h]) : l # Len(t[h]) + 1 => l \in 1 .. Len(t[h])
      BY <1>4
    <3>2. ASSUME NEW l \in 1 .. Len(t[h]) PROVE u[h][l] = t[h][l] /\ u[h][l][1] # k
      <4>1. t[h][l][1] \in K
        BY <1>2, <1>6
      <4>2. u[h][l] = t[h][l]
        BY <1>4
      <4> QED BY <4>1, <4>2
    <3>3. u[h][Len(t[h]) + 1][1] = k
      BY <1>4
    <3>4. CASE j = Len(t[h]) + 1 /\ m = Len(t[h]) + 1
      BY <3>4
    <3>5. CASE j = Len(t[h]) + 1 /\ m # Len(t[h]) + 1
      BY <1>9, <2>2, <3>1, <3>2, <3>3, <3>5
    <3>6. CASE j # Len(t[h]) + 1 /\ m = Len(t[h]) + 1
      BY <1>9, <2>2, <3>1, <3>2, <3>3, <3>6
    <3>7. CASE j # Len(t[h]) + 1 /\ m # Len(t[h]) + 1
      BY <1>2, <1>6, <1>9, <2>2, <3>1, <3>2, <3>7
    <3> QED BY <3>4, <3>5, <3>6, <3>7
  <2> QED BY <2>1, <2>2
<1>10. ASSUME NEW x \in K \cup {k}
       PROVE  \E j \in 1 .. Len(u[H!Hash(x, Len(u))]) : u[H!Hash(x, Len(u))][j][1] = x
  <2>1. CASE x = k
    <3>1. Len(t[h]) + 1 \in 1 .. Len(u[h]) /\ u[h][Len(t[h]) + 1][1] = k
      BY <1>4
    <3> QED BY <1>3, <1>7, <2>1, <3>1
  <2>2. CASE x \in K
    <3>1. PICK j \in 1 .. Len(t[H!Hash(x, Len(t))]) : t[H!Hash(x, Len(t))][j][1] = x
      BY <1>6, <2>2
    <3>2. H!Hash(x, Len(t)) \in 1 .. Len(t)
      BY <1>1, <2>2, HashIs
    <3>3. CASE H!Hash(x, Len(t)) = h
      <4>1. j \in 1 .. Len(u[h]) /\ u[h][j][1] = x
        BY <1>4, <3>1, <3>3
      <4> QED BY <1>3, <3>3, <4>1
    <3>4. CASE H!Hash(x, Len(t)) # h
      BY <1>3, <1>5, <3>1, <3>2, <3>4
    <3> QED BY <3>3, <3>4
  <2> QED BY <2>1, <2>2
<1>11. Len(u) # 0
  BY <1>1, <1>3
<1>12. Holds(u, f, K \cup {k})
  BY <1>1, <1>3, <1>8, <1>9, <1>10, <1>11 DEF Holds
<1> QED BY <1>12 DEF u

\* The keys of a bucket are those of its first node and of the others.
LEMMA KeysOfRest ==
    ASSUME NEW b \in Seq(H!Node), b # <<>>, NEW f, NEW K, Fresh(b, f, K)
    PROVE  /\ KeysOf(b) = KeysOf(Tail(b)) \cup {Head(b)[1]}
           /\ Head(b)[1] \notin K /\ Head(b)[2] = f[Head(b)[1]]
           /\ Fresh(Tail(b), f, K \cup {Head(b)[1]})
<1> DEFINE n == Len(b)
           r == Tail(b)
<1>1. /\ n \in Nat \ {0} /\ Head(b) = b[1] /\ Len(r) = n - 1
      /\ \A i \in 1 .. n - 1 : r[i] = b[i + 1]
  BY FirstAndRest
<1>2. /\ \A j \in 1 .. n : b[j][1] \notin K /\ b[j][2] = f[b[j][1]]
      /\ \A j, m \in 1 .. n : b[j][1] = b[m][1] => j = m
  BY DEF Fresh
<1> HIDE DEF n, r
<1>3. \A j \in 1 .. n - 1 : j + 1 \in 1 .. n /\ j + 1 # 1 /\ r[j] = b[j + 1]
  BY <1>1
<1>4. KeysOf(b) = KeysOf(r) \cup {b[1][1]}
  <2>1. ASSUME NEW j \in 1 .. n PROVE b[j][1] \in KeysOf(r) \cup {b[1][1]}
    <3>1. CASE j = 1
      BY <3>1
    <3>2. CASE j # 1
      <4>1. j - 1 \in 1 .. n - 1 /\ j - 1 + 1 = j
        BY <1>1, <3>2
      <4>2. r[j - 1] = b[j]
        BY <1>1, <4>1
      <4> QED BY <1>1, <4>1, <4>2 DEF KeysOf
    <3> QED BY <3>1, <3>2
  <2>2. ASSUME NEW j \in 1 .. n - 1 PROVE r[j][1] \in KeysOf(b)
    BY <1>3 DEF KeysOf, n
  <2>3. b[1][1] \in KeysOf(b)
    BY <1>1 DEF KeysOf, n
  <2>4. KeysOf(r) = {r[j][1] : j \in 1 .. n - 1} /\ KeysOf(b) = {b[j][1] : j \in 1 .. n}
    BY <1>1 DEF KeysOf, n
  <2> QED BY <2>1, <2>2, <2>3, <2>4
<1>5. 1 \in 1 .. n
  BY <1>1
<1>6. Fresh(r, f, K \cup {b[1][1]})
  <2>1. ASSUME NEW j \in 1 .. n - 1 PROVE r[j][1] \notin K \cup {b[1][1]} /\ r[j][2] = f[r[j][1]]
    BY <1>2, <1>3, <1>5
  <2>2. ASSUME NEW j \in 1 .. n - 1, NEW m \in 1 .. n - 1, r[j][1] = r[m][1] PROVE j = m
    <3>1. j + 1 = m + 1
      BY <1>2, <1>3, <2>2
    <3> QED BY <3>1
  <2> QED BY <1>1, <2>1, <2>2 DEF Fresh
<1> QED BY <1>1, <1>2, <1>4, <1>5, <1>6 DEF r

\* The nodes of a bucket pushed into a table that has none of their keys.
LEMMA EmptiedHolds ==
    ASSUME NEW f, NEW b \in Seq(H!Node), NEW t, NEW K, Holds(t, f, K), Fresh(b, f, K)
    PROVE  Holds(H!Emptied[<<b, t>>], f, K \cup KeysOf(b))
<1> DEFINE Bad == {n \in Nat : \E x \in Seq(H!Node), u \in H!Tables, M \in SUBSET TableKeys :
                      /\ Len(x) = n /\ Holds(u, f, M) /\ Fresh(x, f, M)
                      /\ ~Holds(H!Emptied[<<x, u>>], f, M \cup KeysOf(x))}
<1>1. SUFFICES ASSUME Bad # {} PROVE FALSE
  <2>1. Len(b) \in Nat
    OBVIOUS
  <2>2. Len(b) \notin Bad
    <3> HIDE DEF Bad
    <3> QED BY <1>1
  <2>3. t \in H!Tables /\ K \in SUBSET TableKeys
    BY DEF Holds
  <2> QED BY <2>1, <2>2, <2>3
<1>2. PICK n \in Bad : \A k \in Bad : n <= k
  BY <1>1, LeastOf
<1>3. PICK x \in Seq(H!Node), u \in H!Tables, M \in SUBSET TableKeys :
         /\ Len(x) = n /\ Holds(u, f, M) /\ Fresh(x, f, M)
         /\ ~Holds(H!Emptied[<<x, u>>], f, M \cup KeysOf(x))
  OBVIOUS
<1>4. CASE x = <<>>
  <2>1. H!Emptied[<<x, u>>] = u
    BY <1>4, EmptiedIs
  <2>2. KeysOf(x) = {}
    BY <1>4 DEF KeysOf
  <2> QED BY <1>3, <2>1, <2>2
<1>5. CASE x # <<>>
  <2> DEFINE y == Tail(x)
             e == Head(x)
             w == H!Pushed(u, e)
             N == M \cup {e[1]}
  <2>1. y \in Seq(H!Node) /\ e \in H!Node /\ Len(y) = n - 1 /\ n - 1 \in Nat /\ ~(n <= n - 1)
    BY <1>3, <1>5, FirstAndRest
  <2>2. /\ KeysOf(x) = KeysOf(y) \cup {e[1]} /\ e[1] \notin M /\ e[2] = f[e[1]]
        /\ Fresh(y, f, N)
    BY <1>3, <1>5, KeysOfRest
  <2>3. Holds(w, f, N)
    BY <1>3, <2>1, <2>2, PushedHolds
  <2>4. H!Emptied[<<x, u>>] = H!Emptied[<<y, w>>]
    BY <1>5, EmptiedIs
  <2>5. M \cup KeysOf(x) = N \cup KeysOf(y)
    BY <2>2
  <2> HIDE DEF y, w, e, N
  <2>6. n - 1 \notin Bad
    <3> HIDE DEF Bad
    <3> QED BY <1>2, <2>1
  <2>7. w \in H!Tables /\ N \in SUBSET TableKeys
    BY <2>3 DEF Holds
  <2>8. Holds(H!Emptied[<<y, w>>], f, N \cup KeysOf(y))
    BY <2>1, <2>2, <2>3, <2>6, <2>7
  <2> QED BY <1>3, <2>4, <2>5, <2>8
<1> QED BY <1>4, <1>5

\* The nodes of all buckets have their values in f and keys of their own, none of K.
AllFresh(t, f, K) ==
    /\ \A i \in 1 .. Len(t) : Fresh(t[i], f, K)
    /\ \A i, m \in 1 .. Len(t) : i # m => KeysOf(t[i]) \cap KeysOf(t[m]) = {}

\* The keys of a table are those of its first bucket and of the others.
LEMMA KeysInRest ==
    ASSUME NEW t \in H!Tables, t # <<>>, NEW f, NEW K, AllFresh(t, f, K)
    PROVE  /\ KeysIn(t) = KeysIn(Tail(t)) \cup KeysOf(Head(t))
           /\ Fresh(Head(t), f, K)
           /\ AllFresh(Tail(t), f, K \cup KeysOf(Head(t)))
<1> DEFINE n == Len(t)
           r == Tail(t)
<1>1. /\ n \in Nat \ {0} /\ Head(t) = t[1] /\ Len(r) = n - 1
      /\ \A i \in 1 .. n - 1 : r[i] = t[i + 1]
  <2>1. t \in Seq(Seq(H!Node))
    BY DEF H!Tables
  <2> QED BY <2>1, FirstAndRest
<1>2. /\ \A i \in 1 .. n : Fresh(t[i], f, K)
      /\ \A i, m \in 1 .. n : i # m => KeysOf(t[i]) \cap KeysOf(t[m]) = {}
  BY DEF AllFresh
<1>3. KeysIn(t) = UNION {KeysOf(t[i]) : i \in 1 .. n}
  BY DEF KeysIn
<1> HIDE DEF n, r
<1>4. \A j \in 1 .. n - 1 : j + 1 \in 1 .. n /\ j + 1 # 1 /\ r[j] = t[j + 1]
  BY <1>1
<1>5. 1 \in 1 .. n
  BY <1>1
<1>6. KeysIn(t) = KeysIn(r) \cup KeysOf(t[1])
  <2>1. KeysIn(r) = UNION {KeysOf(r[i]) : i \in 1 .. n - 1}
    BY <1>1 DEF KeysIn
  <2>2. ASSUME NEW j \in 1 .. n PROVE KeysOf(t[j]) \subseteq KeysIn(r) \cup KeysOf(t[1])
    <3>1. CASE j = 1
      BY <3>1
    <3>2. CASE j # 1
      <4>1. j - 1 \in 1 .. n - 1 /\ j - 1 + 1 = j
        BY <1>1, <3>2
      <4>2. r[j - 1] = t[j]
        BY <1>1, <4>1
      <4>3. KeysOf(r[j - 1]) \subseteq KeysIn(r)
        BY <2>1, <4>1
      <4> QED BY <4>2, <4>3
    <3> QED BY <3>1, <3>2
  <2>3. ASSUME NEW j \in 1 .. n - 1 PROVE KeysOf(r[j]) \subseteq KeysIn(t)
    <3>1. KeysOf(t[j + 1]) \subseteq KeysIn(t)
      BY <1>3, <1>4
    <3> QED BY <1>4, <3>1
  <2>4. KeysOf(t[1]) \subseteq KeysIn(t)
    BY <1>3, <1>5
  <2>5. KeysIn(t) \subseteq KeysIn(r) \cup KeysOf(t[1])
    BY <1>3, <2>2
  <2>6. KeysIn(r) \subseteq KeysIn(t)
    BY <2>1, <2>3
  <2> QED BY <2>4, <2>5, <2>6
<1>7. AllFresh(r, f, K \cup KeysOf(t[1]))
  <2>1. ASSUME NEW j \in 1 .. n - 1 PROVE Fresh(r[j], f, K \cup KeysOf(t[1]))
    <3>1. Fresh(r[j], f, K) /\ KeysOf(r[j]) \cap KeysOf(t[1]) = {}
      BY <1>2, <1>4, <1>5
    <3> QED BY <3>1 DEF Fresh, KeysOf
  <2>2. ASSUME NEW j \in 1 .. n - 1, NEW m \in 1 .. n - 1, j # m
        PROVE  KeysOf(r[j]) \cap KeysOf(r[m]) = {}
    <3>1. j + 1 # m + 1
      BY <2>2
    <3> QED BY <1>2, <1>4, <3>1
  <2> QED BY <1>1, <2>1, <2>2 DEF AllFresh
<1> QED BY <1>1, <1>2, <1>5, <1>6, <1>7 DEF r

\* The buckets emptied into a table that has none of their keys.
LEMMA DistributedHolds ==
    ASSUME NEW f, NEW b \in H!Tables, NEW t, NEW K, Holds(t, f, K), AllFresh(b, f, K)
    PROVE  Holds(H!Distributed[<<b, t>>], f, K \cup KeysIn(b))
<1> DEFINE Bad == {n \in Nat : \E x \in H!Tables, u \in H!Tables, M \in SUBSET TableKeys :
                      /\ Len(x) = n /\ Holds(u, f, M) /\ AllFresh(x, f, M)
                      /\ ~Holds(H!Distributed[<<x, u>>], f, M \cup KeysIn(x))}
<1>1. SUFFICES ASSUME Bad # {} PROVE FALSE
  <2>1. Len(b) \in Nat
    BY DEF H!Tables
  <2>2. Len(b) \notin Bad
    <3> HIDE DEF Bad
    <3> QED BY <1>1
  <2>3. t \in H!Tables /\ K \in SUBSET TableKeys
    BY DEF Holds
  <2> QED BY <2>1, <2>2, <2>3
<1>2. PICK n \in Bad : \A k \in Bad : n <= k
  BY <1>1, LeastOf
<1>3. PICK x \in H!Tables, u \in H!Tables, M \in SUBSET TableKeys :
         /\ Len(x) = n /\ Holds(u, f, M) /\ AllFresh(x, f, M)
         /\ ~Holds(H!Distributed[<<x, u>>], f, M \cup KeysIn(x))
  OBVIOUS
<1>4. CASE x = <<>>
  <2>1. H!Distributed[<<x, u>>] = u
    BY <1>4, DistributedIs
  <2>2. KeysIn(x) = {}
    BY <1>4 DEF KeysIn
  <2> QED BY <1>3, <2>1, <2>2
<1>5. CASE x # <<>>
  <2> DEFINE y == Tail(x)
             e == Head(x)
             w == H!Emptied[<<e, u>>]
             N == M \cup KeysOf(e)
  <2>1. y \in H!Tables /\ e \in Seq(H!Node) /\ Len(y) = n - 1 /\ n - 1 \in Nat /\ ~(n <= n - 1)
    <3>1. x \in Seq(Seq(H!Node))
      BY DEF H!Tables
    <3> QED BY <1>3, <1>5, <3>1, FirstAndRest DEF H!Tables
  <2>2. /\ KeysIn(x) = KeysIn(y) \cup KeysOf(e) /\ Fresh(e, f, M) /\ AllFresh(y, f, N)
    BY <1>3, <1>5, KeysInRest
  <2>3. H!Distributed[<<x, u>>] = H!Distributed[<<y, w>>]
    BY <1>5, DistributedIs
  <2>4. Holds(w, f, N)
    <3> HIDE DEF e
    <3> QED BY <1>3, <2>1, <2>2, EmptiedHolds
  <2>5. M \cup KeysIn(x) = N \cup KeysIn(y)
    BY <2>2
  <2> HIDE DEF y, w, e, N
  <2>6. n - 1 \notin Bad
    <3> HIDE DEF Bad
    <3> QED BY <1>2, <2>1
  <2>7. w \in H!Tables /\ N \in SUBSET TableKeys
    BY <2>4 DEF Holds
  <2>8. Holds(H!Distributed[<<y, w>>], f, N \cup KeysIn(y))
    BY <2>1, <2>2, <2>4, <2>6, <2>7
  <2> QED BY <1>3, <2>3, <2>5, <2>8
<1> QED BY <1>4, <1>5

\* A table without nodes.
LEMMA EmptyHolds ==
    ASSUME NEW n \in Nat \ {0}, NEW f
    PROVE  H!Empty(n) \in H!Tables /\ Len(H!Empty(n)) = n /\ Holds(H!Empty(n), f, {})
<1>1. H!Empty(n) \in [1 .. n -> Seq(H!Node)] /\ \A i \in 1 .. n : H!Empty(n)[i] = <<>>
  BY DEF H!Empty
<1>2. \A m \in Nat : \A g \in [1 .. m -> Seq(H!Node)] : g \in Seq(Seq(H!Node)) /\ Len(g) = m
  OBVIOUS
<1>3. H!Empty(n) \in H!Tables /\ Len(H!Empty(n)) = n
  BY <1>1, <1>2 DEF H!Tables
<1>4. \A i \in 1 .. n : Len(H!Empty(n)[i]) = 0
  BY <1>1
<1> QED BY <1>3, <1>4 DEF Holds

\* The table that has grown holds the same.
LEMMA RehashedHolds ==
    ASSUME NEW t, NEW f, NEW K, Holds(t, f, K)
    PROVE  Holds(H!Rehashed(t), f, K)
<1>1. /\ t \in H!Tables /\ Len(t) \in Nat \ {0} /\ 2 * Len(t) \in Nat \ {0}
      /\ \A i \in 1 .. Len(t) : \A j \in 1 .. Len(t[i]) :
            /\ t[i][j][1] \in K /\ t[i][j][2] = f[t[i][j][1]]
            /\ H!Hash(t[i][j][1], Len(t)) = i
      /\ \A i \in 1 .. Len(t) : \A j, m \in 1 .. Len(t[i]) : t[i][j][1] = t[i][m][1] => j = m
      /\ \A k \in K : \E j \in 1 .. Len(t[H!Hash(k, Len(t))]) : t[H!Hash(k, Len(t))][j][1] = k
      /\ K \subseteq TableKeys
  <2>1. Len(t) \in Nat \ {0}
    BY DEF Holds, H!Tables
  <2> QED BY <2>1 DEF Holds
<1>2. AllFresh(t, f, {})
  <2>1. \A i \in 1 .. Len(t) : Fresh(t[i], f, {})
    BY <1>1 DEF Fresh
  <2>2. \A i, m \in 1 .. Len(t) : i # m => KeysOf(t[i]) \cap KeysOf(t[m]) = {}
    BY <1>1 DEF KeysOf
  <2> QED BY <2>1, <2>2 DEF AllFresh
<1>3. KeysIn(t) = K
  <2>1. ASSUME NEW k \in K PROVE k \in KeysIn(t)
    <3>1. H!Hash(k, Len(t)) \in 1 .. Len(t)
      BY <1>1, HashIs
    <3>2. k \in KeysOf(t[H!Hash(k, Len(t))])
      BY <1>1 DEF KeysOf
    <3> QED BY <3>1, <3>2 DEF KeysIn
  <2>2. ASSUME NEW i \in 1 .. Len(t) PROVE KeysOf(t[i]) \subseteq K
    BY <1>1 DEF KeysOf
  <2> QED BY <2>1, <2>2 DEF KeysIn
<1>4. Holds(H!Empty(2 * Len(t)), f, {})
  BY <1>1, EmptyHolds
<1>5. Holds(H!Distributed[<<t, H!Empty(2 * Len(t))>>], f, {} \cup KeysIn(t))
  BY <1>1, <1>2, <1>4, DistributedHolds
<1>6. {} \cup KeysIn(t) = K
  BY <1>3
<1> QED BY <1>5, <1>6 DEF H!Rehashed

\* The same nodes under values that agree.
LEMMA HoldsAgree ==
    ASSUME NEW t, NEW f, NEW g, NEW K, Holds(t, f, K), \A k \in K : g[k] = f[k]
    PROVE  Holds(t, g, K)
BY DEF Holds

\* What a bucket is made of.
LEMMA BucketOf ==
    ASSUME NEW t, NEW f, NEW K, Holds(t, f, K), NEW k \in TableKeys
    PROVE  LET h == H!Hash(k, Len(t))
           IN  /\ h \in 1 .. Len(t) /\ t[h] \in Seq(H!Node) /\ Len(t) \in Nat \ {0}
               /\ t \in Seq(Seq(H!Node)) /\ Len(t[h]) \in Nat /\ DOMAIN t[h] = 1 .. Len(t[h])
<1>1. t \in Seq(Seq(H!Node)) /\ Len(t) \in Nat \ {0}
  BY DEF Holds, H!Tables
<1>2. H!Hash(k, Len(t)) \in 1 .. Len(t)
  BY <1>1, HashIs
<1>3. t[H!Hash(k, Len(t))] \in Seq(H!Node)
  BY <1>1, <1>2
<1> HIDE DEF Holds
<1>4. \A s \in Seq(H!Node) : Len(s) \in Nat /\ DOMAIN s = 1 .. Len(s)
  OBVIOUS
<1> QED BY <1>1, <1>2, <1>3, <1>4

\* A bucket replaced by another.
LEMMA BucketReplaced ==
    ASSUME NEW t \in Seq(Seq(H!Node)), NEW h \in 1 .. Len(t), NEW b \in Seq(H!Node)
    PROVE  LET u == [t EXCEPT ![h] = b]
           IN  /\ u \in H!Tables /\ Len(u) = Len(t)
               /\ \A i \in 1 .. Len(t) : u[i] = IF i = h THEN b ELSE t[i]
<1>1. Len(t) \in Nat /\ DOMAIN t = 1 .. Len(t) /\ t \in [1 .. Len(t) -> Seq(H!Node)]
  OBVIOUS
<1>2. [t EXCEPT ![h] = b] \in [1 .. Len(t) -> Seq(H!Node)]
  BY <1>1
<1>3. \A m \in Nat : \A g \in [1 .. m -> Seq(H!Node)] : g \in Seq(Seq(H!Node)) /\ Len(g) = m
  OBVIOUS
<1>4. [t EXCEPT ![h] = b] \in Seq(Seq(H!Node)) /\ Len([t EXCEPT ![h] = b]) = Len(t)
  BY <1>1, <1>2, <1>3
<1>5. \A i \in 1 .. Len(t) : [t EXCEPT ![h] = b][i] = IF i = h THEN b ELSE t[i]
  BY <1>1
<1> QED BY <1>4, <1>5 DEF H!Tables

\* A bucket of a table of n buckets, the one of number h, holds the keys of K that hash to it.
Bucket(b, f, K, n, h) ==
    /\ \A j \in 1 .. Len(b) :
          b[j][1] \in K /\ b[j][2] = f[b[j][1]] /\ H!Hash(b[j][1], n) = h
    /\ \A j, m \in 1 .. Len(b) : b[j][1] = b[m][1] => j = m
    /\ \A x \in K : H!Hash(x, n) = h => \E j \in 1 .. Len(b) : b[j][1] = x

\* A table holds what its buckets hold.
LEMMA HoldsBuckets ==
    ASSUME NEW t, NEW f, NEW K
    PROVE  Holds(t, f, K) <=> /\ t \in H!Tables /\ Len(t) # 0 /\ K \subseteq TableKeys
                              /\ \A i \in 1 .. Len(t) : Bucket(t[i], f, K, Len(t), i)
<1>1. ASSUME Holds(t, f, K), NEW i \in 1 .. Len(t) PROVE Bucket(t[i], f, K, Len(t), i)
  <2>1. /\ \A j \in 1 .. Len(t[i]) :
              /\ t[i][j][1] \in K /\ t[i][j][2] = f[t[i][j][1]]
              /\ H!Hash(t[i][j][1], Len(t)) = i
        /\ \A j, m \in 1 .. Len(t[i]) : t[i][j][1] = t[i][m][1] => j = m
    BY <1>1 DEF Holds
  <2>2. ASSUME NEW x \in K, H!Hash(x, Len(t)) = i PROVE \E j \in 1 .. Len(t[i]) : t[i][j][1] = x
    <3>1. \E j \in 1 .. Len(t[H!Hash(x, Len(t))]) : t[H!Hash(x, Len(t))][j][1] = x
      BY <1>1 DEF Holds
    <3> QED BY <2>2, <3>1
  <2> QED BY <2>1, <2>2 DEF Bucket
<1>2. ASSUME t \in H!Tables, Len(t) # 0, K \subseteq TableKeys,
             \A i \in 1 .. Len(t) : Bucket(t[i], f, K, Len(t), i)
      PROVE  Holds(t, f, K)
  <2>1. ASSUME NEW i \in 1 .. Len(t)
        PROVE  /\ \A j \in 1 .. Len(t[i]) :
                     /\ t[i][j][1] \in K /\ t[i][j][2] = f[t[i][j][1]]
                     /\ H!Hash(t[i][j][1], Len(t)) = i
               /\ \A j, m \in 1 .. Len(t[i]) : t[i][j][1] = t[i][m][1] => j = m
    BY <1>2 DEF Bucket
  <2>2. ASSUME NEW x \in K
        PROVE  \E j \in 1 .. Len(t[H!Hash(x, Len(t))]) : t[H!Hash(x, Len(t))][j][1] = x
    <3>1. Len(t) \in Nat \ {0} /\ x \in TableKeys
      BY <1>2 DEF H!Tables
    <3>2. H!Hash(x, Len(t)) \in 1 .. Len(t)
      BY <3>1, HashIs
    <3> QED BY <1>2, <3>2 DEF Bucket
  <2> QED BY <1>2, <2>1, <2>2 DEF Holds
<1>3. Holds(t, f, K) => t \in H!Tables /\ Len(t) # 0 /\ K \subseteq TableKeys
  BY DEF Holds
<1> QED BY <1>1, <1>2, <1>3

\* A bucket replaced by one that holds the keys of M that hash to it, where M and g are K and
\* f for the other buckets.
LEMMA ReplacedHolds ==
    ASSUME NEW t, NEW f, NEW K, Holds(t, f, K), NEW h \in 1 .. Len(t),
           NEW b \in Seq(H!Node), NEW g, NEW M \in SUBSET K, Bucket(b, g, M, Len(t), h),
           \A x \in K : H!Hash(x, Len(t)) # h => x \in M /\ g[x] = f[x]
    PROVE  Holds([t EXCEPT ![h] = b], g, M)
<1> DEFINE n == Len(t)
           u == [t EXCEPT ![h] = b]
<1>1. /\ t \in Seq(Seq(H!Node)) /\ n # 0 /\ K \subseteq TableKeys
      /\ \A i \in 1 .. n : Bucket(t[i], f, K, n, i)
  BY HoldsBuckets DEF H!Tables
<1>2. /\ u \in H!Tables /\ Len(u) = n
      /\ \A i \in 1 .. n : u[i] = IF i = h THEN b ELSE t[i]
  BY <1>1, BucketReplaced
<1>3. Bucket(b, g, M, n, h) /\ \A x \in K : H!Hash(x, n) # h => x \in M /\ g[x] = f[x]
  OBVIOUS
<1> HIDE DEF u, n
<1>4. ASSUME NEW i \in 1 .. n PROVE Bucket(u[i], g, M, n, i)
  <2>1. CASE i = h
    BY <1>2, <1>3, <2>1
  <2>2. CASE i # h
    <3>1. u[i] = t[i] /\ Bucket(t[i], f, K, n, i)
      BY <1>1, <1>2, <2>2
    <3>2. ASSUME NEW x \in K, H!Hash(x, n) = i PROVE x \in M /\ g[x] = f[x]
      BY <1>3, <2>2, <3>2
    <3>3. Bucket(t[i], g, M, n, i)
      BY <3>1, <3>2 DEF Bucket
    <3> QED BY <3>1, <3>3
  <2> QED BY <2>1, <2>2
<1>5. Holds(u, g, M)
  BY <1>1, <1>2, <1>4, HoldsBuckets
<1> QED BY <1>5 DEF u

\* The parts of a node.
LEMMA PairIs ==
    ASSUME NEW x, NEW y, NEW z, z = <<x, y>>
    PROVE  z[1] = x /\ z[2] = y
OBVIOUS

\* A key gets another value.
LEMMA AssignedHolds ==
    ASSUME NEW t, NEW f, NEW g, NEW K, Holds(t, f, K), NEW k \in K, NEW v,
           <<k, v>> \in H!Node, g[k] = v, \A x \in K : x # k => g[x] = f[x],
           NEW h, h = H!Hash(k, Len(t)),
           NEW b, b = [i \in DOMAIN t[h] |-> IF t[h][i][1] = k THEN <<k, v>> ELSE t[h][i]]
    PROVE  Holds([t EXCEPT ![h] = b], g, K)
<1> DEFINE n == Len(t)
           a == t[h]
<1>1. /\ h \in 1 .. n /\ a \in Seq(H!Node) /\ Len(a) \in Nat /\ DOMAIN a = 1 .. Len(a)
      /\ K \subseteq TableKeys
  <2>1. k \in TableKeys /\ K \subseteq TableKeys
    BY DEF Holds
  <2> QED BY <2>1, BucketOf
<1>2. Bucket(a, f, K, n, h)
  BY <1>1, HoldsBuckets
<1>3. b = [i \in 1 .. Len(a) |-> IF a[i][1] = k THEN <<k, v>> ELSE a[i]]
  BY <1>1
<1>4. \A i \in 1 .. Len(a) : a[i] \in H!Node
  BY <1>1
<1>5. h = H!Hash(k, n)
  OBVIOUS
<1> HIDE DEF a, n
<1>6. b \in Seq(H!Node) /\ Len(b) = Len(a)
  <2>1. b \in [1 .. Len(a) -> H!Node]
    BY <1>3, <1>4
  <2>2. \A m \in Nat : \A e \in [1 .. m -> H!Node] : e \in Seq(H!Node) /\ Len(e) = m
    OBVIOUS
  <2> QED BY <1>1, <2>1, <2>2
<1>7. ASSUME NEW j \in 1 .. Len(a)
      PROVE  b[j][1] = a[j][1] /\ b[j][2] = g[a[j][1]] /\ a[j][1] \in K
  <2>1. a[j][1] \in K /\ a[j][2] = f[a[j][1]]
    BY <1>2 DEF Bucket
  <2>2. CASE a[j][1] = k
    <3>1. b[j] = <<k, v>>
      BY <1>3, <2>2
    <3>2. b[j][1] = k /\ b[j][2] = v
      BY <3>1, PairIs
    <3> QED BY <2>1, <2>2, <3>2
  <2>3. CASE a[j][1] # k
    <3>1. b[j] = a[j]
      BY <1>3, <2>3
    <3> QED BY <2>1, <2>3, <3>1
  <2> QED BY <2>2, <2>3
<1>8. Bucket(b, g, K, n, h)
  <2>1. /\ \A j \in 1 .. Len(a) : H!Hash(a[j][1], n) = h
        /\ \A j, m \in 1 .. Len(a) : a[j][1] = a[m][1] => j = m
        /\ \A x \in K : H!Hash(x, n) = h => \E j \in 1 .. Len(a) : a[j][1] = x
    BY <1>2 DEF Bucket
  <2>2. ASSUME NEW j \in 1 .. Len(a)
        PROVE  b[j][1] \in K /\ b[j][2] = g[b[j][1]] /\ H!Hash(b[j][1], n) = h
    BY <1>7, <2>1
  <2>3. ASSUME NEW j \in 1 .. Len(a), NEW m \in 1 .. Len(a), b[j][1] = b[m][1] PROVE j = m
    BY <1>7, <2>1, <2>3
  <2>4. ASSUME NEW x \in K, H!Hash(x, n) = h PROVE \E j \in 1 .. Len(a) : b[j][1] = x
    <3>1. PICK j \in 1 .. Len(a) : a[j][1] = x
      BY <2>1, <2>4
    <3> QED BY <1>7, <3>1
  <2>5. Len(b) = Len(a)
    BY <1>6
  <2> QED BY <2>2, <2>3, <2>4, <2>5 DEF Bucket
<1>9. \A x \in K : H!Hash(x, n) # h => x \in K /\ g[x] = f[x]
  BY <1>5
<1> QED BY <1>1, <1>6, <1>8, <1>9, ReplacedHolds DEF n

\* A sequence without one of its elements.
LEMMA Without1 ==
    ASSUME NEW X, NEW s \in Seq(X), NEW p \in 1 .. Len(s)
    PROVE  /\ H!RemoveAt(s, p) \in Seq(X) /\ Len(H!RemoveAt(s, p)) = Len(s) - 1
           /\ \A i \in 1 .. Len(s) - 1 : H!RemoveAt(s, p)[i] = IF i < p THEN s[i] ELSE s[i + 1]
<1> DEFINE n == Len(s)
           a == SubSeq(s, 1, p - 1)
           b == SubSeq(s, p + 1, n)
<1>1. n \in Nat /\ p \in Int /\ 1 <= p /\ p <= n /\ p - 1 \in Int /\ p + 1 \in Int
  OBVIOUS
<1>2. a \in Seq(X) /\ Len(a) = p - 1 /\ \A i \in 1 .. p - 1 : a[i] = s[i]
  <2>1. \A i \in 1 .. p - 1 : s[i] \in X /\ 1 + i - 1 = i
    BY <1>1
  <2>2. (IF 1 <= p - 1 THEN p - 1 - 1 + 1 ELSE 0) = p - 1 /\ p - 1 - 1 + 1 = p - 1
    BY <1>1
  <2>3. /\ a \in Seq(X) /\ Len(a) = IF 1 <= p - 1 THEN p - 1 - 1 + 1 ELSE 0
        /\ \A i \in 1 .. p - 1 - 1 + 1 : a[i] = s[1 + i - 1]
    BY <1>1, <2>1, SubSeqProperties
  <2> HIDE DEF a
  <2> QED BY <2>1, <2>2, <2>3
<1>3. b \in Seq(X) /\ Len(b) = n - p /\ \A i \in 1 .. n - p : b[i] = s[p + i]
  <2>1. \A i \in p + 1 .. n : s[i] \in X
    BY <1>1
  <2>2. (IF p + 1 <= n THEN n - (p + 1) + 1 ELSE 0) = n - p /\ n - (p + 1) + 1 = n - p
    BY <1>1
  <2>3. /\ b \in Seq(X) /\ Len(b) = IF p + 1 <= n THEN n - (p + 1) + 1 ELSE 0
        /\ \A i \in 1 .. n - (p + 1) + 1 : b[i] = s[p + 1 + i - 1]
    BY <1>1, <2>1, SubSeqProperties
  <2>4. \A i \in 1 .. n - p : p + 1 + i - 1 = p + i
    BY <1>1
  <2> HIDE DEF b
  <2> QED BY <2>2, <2>3, <2>4
<1>4. H!RemoveAt(s, p) = a \o b
  BY DEF H!RemoveAt
<1> HIDE DEF a, b, n
<1>5. /\ a \o b \in Seq(X) /\ Len(a \o b) = p - 1 + (n - p)
      /\ \A i \in 1 .. p - 1 + (n - p) : (a \o b)[i] = IF i <= p - 1 THEN a[i] ELSE b[i - (p - 1)]
  <2>1. /\ Len(a \o b) = Len(a) + Len(b) /\ a \o b \in Seq(X)
        /\ \A i \in 1 .. Len(a) + Len(b) :
              (a \o b)[i] = IF i <= Len(a) THEN a[i] ELSE b[i - Len(a)]
    BY <1>2, <1>3, ConcatProperties
  <2>2. Len(a) = p - 1 /\ Len(b) = n - p
    BY <1>2, <1>3
  <2> QED BY Zenon, <2>1, <2>2
<1>6. p - 1 + (n - p) = n - 1
  BY <1>1
<1>7. ASSUME NEW i \in 1 .. n - 1 PROVE (a \o b)[i] = IF i < p THEN s[i] ELSE s[i + 1]
  <2>1. CASE i < p
    <3>1. i <= p - 1 /\ i \in 1 .. p - 1
      BY <1>1, <2>1
    <3> QED BY <1>2, <1>5, <1>6, <2>1, <3>1
  <2>2. CASE ~(i < p)
    <3>1. ~(i <= p - 1) /\ i - (p - 1) \in 1 .. n - p /\ p + (i - (p - 1)) = i + 1
      BY <1>1, <2>2
    <3> QED BY <1>3, <1>5, <1>6, <2>2, <3>1
  <2> QED BY <2>1, <2>2
<1> QED BY <1>4, <1>5, <1>6, <1>7 DEF n

\* A key removed with its node.
LEMMA ErasedHolds ==
    ASSUME NEW t, NEW f, NEW g, NEW K, Holds(t, f, K), NEW k \in K,
           \A x \in K : x # k => g[x] = f[x],
           NEW h, h = H!Hash(k, Len(t)), NEW p \in 1 .. Len(t[h]), t[h][p][1] = k
    PROVE  Holds([t EXCEPT ![h] = H!RemoveAt(t[h], p)], g, K \ {k})
<1> DEFINE n == Len(t)
           a == t[h]
           b == H!RemoveAt(a, p)
           l == Len(a)
           q(j) == IF j < p THEN j ELSE j + 1
<1>1. h \in 1 .. n /\ a \in Seq(H!Node) /\ l \in Nat
  <2>1. k \in TableKeys
    BY DEF Holds
  <2> QED BY <2>1, BucketOf
<1>2. Bucket(a, f, K, n, h)
  BY <1>1, HoldsBuckets
<1>3. /\ b \in Seq(H!Node) /\ Len(b) = l - 1
      /\ \A j \in 1 .. l - 1 : b[j] = IF j < p THEN a[j] ELSE a[j + 1]
  BY <1>1, Without1
<1>4. p \in 1 .. l /\ a[p][1] = k /\ h = H!Hash(k, n)
  OBVIOUS
<1>5. /\ \A j \in 1 .. l : /\ a[j][1] \in K /\ a[j][2] = f[a[j][1]]
                          /\ H!Hash(a[j][1], n) = h
      /\ \A j, m \in 1 .. l : a[j][1] = a[m][1] => j = m
      /\ \A x \in K : H!Hash(x, n) = h => \E j \in 1 .. l : a[j][1] = x
  BY <1>2 DEF Bucket
<1> HIDE DEF n, a, b, l
<1>6. \A j \in 1 .. l - 1 : q(j) \in 1 .. l /\ q(j) # p
  BY <1>1, <1>4
<1>7. \A j \in 1 .. l - 1 : b[j] = a[q(j)]
  BY <1>3
<1>8. \A j, m \in 1 .. l - 1 : q(j) = q(m) => j = m
  BY <1>1, <1>4
<1>9. ASSUME NEW i \in 1 .. l, i # p PROVE \E j \in 1 .. l - 1 : q(j) = i
  <2>1. CASE i < p
    <3>1. i \in 1 .. l - 1
      BY <1>1, <1>4, <2>1
    <3> QED BY <2>1, <3>1
  <2>2. CASE p < i
    <3>1. i - 1 \in 1 .. l - 1 /\ ~(i - 1 < p) /\ i - 1 + 1 = i
      BY <1>1, <1>4, <2>2
    <3>2. q(i - 1) = i
      BY <3>1
    <3> QED BY <3>1, <3>2
  <2> QED BY <1>4, <1>9, <2>1, <2>2
<1> HIDE DEF q
<1>10. ASSUME NEW j \in 1 .. l - 1
       PROVE  b[j][1] \in K \ {k} /\ b[j][2] = g[b[j][1]] /\ H!Hash(b[j][1], n) = h
  <2>1. q(j) \in 1 .. l /\ q(j) # p /\ b[j] = a[q(j)]
    BY <1>6, <1>7
  <2>2. a[q(j)][1] # k
    BY <1>4, <1>5, <2>1
  <2> QED BY <1>5, <2>1, <2>2
<1>11. ASSUME NEW j \in 1 .. l - 1, NEW m \in 1 .. l - 1, b[j][1] = b[m][1] PROVE j = m
  <2>1. q(j) \in 1 .. l /\ q(m) \in 1 .. l /\ a[q(j)][1] = a[q(m)][1]
    BY <1>6, <1>7, <1>11
  <2> QED BY <1>5, <1>8, <2>1
<1>12. ASSUME NEW x \in K \ {k}, H!Hash(x, n) = h PROVE \E j \in 1 .. l - 1 : b[j][1] = x
  <2>1. PICK i \in 1 .. l : a[i][1] = x
    BY <1>5, <1>12
  <2>2. i # p
    BY <1>4, <2>1
  <2>3. PICK j \in 1 .. l - 1 : q(j) = i
    BY <1>9, <2>2
  <2> QED BY <1>7, <2>1, <2>3
<1>13. Bucket(b, g, K \ {k}, n, h)
  BY <1>3, <1>10, <1>11, <1>12 DEF Bucket
<1>14. \A x \in K : H!Hash(x, n) # h => x \in K \ {k} /\ g[x] = f[x]
  BY <1>4
<1> DEFINE M == K \ {k}
<1>15. /\ M \in SUBSET K /\ Bucket(b, g, M, n, h)
       /\ \A x \in K : H!Hash(x, n) # h => x \in M /\ g[x] = f[x]
  BY <1>13, <1>14
<1> HIDE DEF M
<1>16. Holds([t EXCEPT ![h] = b], g, M)
  <2>1. h \in 1 .. Len(t) /\ b \in Seq(H!Node)
    BY <1>1, <1>3 DEF n
  <2>2. /\ M \in SUBSET K /\ Bucket(b, g, M, Len(t), h)
        /\ \A x \in K : H!Hash(x, Len(t)) # h => x \in M /\ g[x] = f[x]
    BY <1>15 DEF n
  <2>3. Holds(t, f, K)
    OBVIOUS
  <2>4. \A J \in SUBSET K :
           /\ Bucket(b, g, J, Len(t), h)
           /\ \A x \in K : H!Hash(x, Len(t)) # h => x \in J /\ g[x] = f[x]
           => Holds([t EXCEPT ![h] = b], g, J)
    BY <2>1, <2>3, ReplacedHolds
  <2> QED BY <2>2, <2>4
<1> QED BY <1>16 DEF a, b, M

-----------------------------------------------------------------------------
\* The table holds what the map holds, and its size counts the keys.
TableInv ==
    /\ Holds(buckets, content, DOMAIN content)
    /\ IsFiniteSet(DOMAIN content) /\ size = Cardinality(DOMAIN content)

\* The table is empty at first.
LEMMA TableInit == H!New => TableInv
<1> SUFFICES ASSUME H!New PROVE TableInv
  OBVIOUS
<1>1. content = <<>> /\ size = 0 /\ buckets = H!Empty(InitialBuckets)
  BY DEF H!New
<1>2. DOMAIN content = {}
  BY <1>1
<1>3. Holds(buckets, content, {})
  BY <1>1, EmptyHolds, TableAssumption
<1> QED BY <1>1, <1>2, <1>3, FS_EmptySet DEF TableInv

\* find reaches the keys of the map: the one node of the key.
LEMMA PlacesIs ==
    ASSUME TableInv, NEW k \in TableKeys
    PROVE  /\ H!Found(k) <=> k \in DOMAIN content
           /\ H!Found(k) => \E p \in 1 .. Len(buckets[H!Hash(k, Len(buckets))]) :
                 H!Places(k) = {p} /\ buckets[H!Hash(k, Len(buckets))][p][1] = k
<1> DEFINE h == H!Hash(k, Len(buckets))
           a == buckets[h]
<1>1. Holds(buckets, content, DOMAIN content)
  BY DEF TableInv
<1>2. h \in 1 .. Len(buckets) /\ DOMAIN a = 1 .. Len(a)
  BY <1>1, BucketOf
<1>3. Bucket(a, content, DOMAIN content, Len(buckets), h)
  BY <1>1, <1>2, HoldsBuckets
<1>4. H!Places(k) = {i \in 1 .. Len(a) : a[i][1] = k}
  BY <1>2 DEF H!Places
<1>5. h = H!Hash(k, Len(buckets))
  OBVIOUS
<1> HIDE DEF a, h
<1>6. ASSUME NEW p \in H!Places(k)
      PROVE  p \in 1 .. Len(a) /\ k \in DOMAIN content /\ H!Places(k) = {p} /\ a[p][1] = k
  <2>1. p \in 1 .. Len(a) /\ a[p][1] = k
    BY <1>4
  <2>2. k \in DOMAIN content
    BY <1>3, <2>1 DEF Bucket
  <2>3. \A i \in H!Places(k) : i = p
    BY <1>3, <1>4, <2>1 DEF Bucket
  <2> QED BY <2>1, <2>2, <2>3
<1>7. ASSUME k \in DOMAIN content PROVE H!Places(k) # {}
  <2>1. \E j \in 1 .. Len(a) : a[j][1] = k
    BY <1>3, <1>5, <1>7 DEF Bucket
  <2> QED BY <1>4, <2>1
<1>8. H!Found(k) <=> k \in DOMAIN content
  BY <1>6, <1>7 DEF H!Found
<1>9. H!Found(k) => \E p \in 1 .. Len(a) : H!Places(k) = {p} /\ a[p][1] = k
  BY <1>6 DEF H!Found
<1> QED BY <1>8, <1>9 DEF a, h

\* A new node, of insert and of operator[], in the table or in the one it grows to.
LEMMA TableAdded ==
    ASSUME TableInv, NEW k \in TableKeys, ~H!Found(k), NEW v \in Values \cup {H!Default},
           H!Added(k, v)
    PROVE  TableInv'
<1> DEFINE K == DOMAIN content
           t == H!Grown(buckets)
           n == <<k, v>>
           g == [x \in K \cup {k} |-> IF x = k THEN v ELSE content[x]]
<1>1. Holds(buckets, content, K) /\ IsFiniteSet(K) /\ size = Cardinality(K) /\ k \notin K
  BY PlacesIs DEF TableInv
<1>2. buckets' = H!Pushed(t, n) /\ size' = size + 1 /\ content' = g
  BY DEF H!Added
<1>3. Holds(t, content, K)
  <2>1. t = H!Rehashed(buckets) \/ t = buckets
    BY DEF H!Grown
  <2> QED BY <1>1, <2>1, RehashedHolds
<1>4. DOMAIN g = K \cup {k} /\ g[k] = v /\ \A x \in K : g[x] = content[x]
  BY <1>1
<1>5. n \in H!Node
  BY DEF H!Node
<1>6. n[1] = k /\ n[2] = v
  BY PairIs
<1> HIDE DEF t, n, g, K
<1>7. Holds(t, g, K)
  BY <1>3, <1>4, HoldsAgree
<1>8. n[1] \notin K /\ n[2] = g[n[1]]
  BY <1>1, <1>4, <1>6
<1>9. Holds(H!Pushed(t, n), g, K \cup {n[1]})
  BY <1>5, <1>7, <1>8, PushedHolds
<1>10. Holds(buckets', content', DOMAIN content')
  BY <1>2, <1>4, <1>6, <1>9
<1>11. IsFiniteSet(K \cup {k}) /\ Cardinality(K \cup {k}) = Cardinality(K) + 1
  BY <1>1, FS_AddElement
<1>12. DOMAIN content' = K \cup {k} /\ size' = Cardinality(K) + 1
  BY <1>1, <1>2, <1>4
<1> QED BY <1>10, <1>11, <1>12 DEF TableInv

\* A value assigned through the reference of operator[].
LEMMA TableAssigned ==
    ASSUME TableInv, NEW k \in TableKeys, NEW v \in Values \cup {H!Default}, H!Assign(k, v)
    PROVE  TableInv'
<1> DEFINE K == DOMAIN content
           h == H!Hash(k, Len(buckets))
           a == buckets[h]
           b == [i \in DOMAIN a |-> IF i \in H!Places(k) THEN <<k, v>> ELSE a[i]]
           g == [content EXCEPT ![k] = v]
<1>1. Holds(buckets, content, K) /\ IsFiniteSet(K) /\ size = Cardinality(K) /\ k \in K
  BY PlacesIs DEF TableInv, H!Assign
<1>2. buckets' = [buckets EXCEPT ![h] = b] /\ size' = size /\ content' = g
  <2>1. h \in 1 .. Len(buckets) /\ DOMAIN buckets = 1 .. Len(buckets)
    <3>1. buckets \in Seq(Seq(H!Node))
      BY <1>1, BucketOf
    <3>2. DOMAIN buckets = 1 .. Len(buckets)
      BY <3>1
    <3> QED BY <1>1, <3>2, BucketOf
  <2>2. buckets' = [buckets EXCEPT ![h] =
                       [i \in DOMAIN @ |-> IF i \in H!Places(k) THEN <<k, v>> ELSE @[i]]]
    BY Zenon DEF H!Assign
  <2> QED BY <2>1, <2>2 DEF H!Assign
<1>3. b = [i \in DOMAIN a |-> IF a[i][1] = k THEN <<k, v>> ELSE a[i]]
  <2>1. H!Places(k) = {i \in DOMAIN a : a[i][1] = k}
    BY DEF H!Places
  <2>2. \A i \in DOMAIN a : i \in H!Places(k) <=> a[i][1] = k
    BY <2>1
  <2> HIDE DEF a
  <2> QED BY <2>2
<1>4. DOMAIN g = K /\ g[k] = v /\ \A x \in K : x # k => g[x] = content[x]
  BY <1>1
<1>5. <<k, v>> \in H!Node
  BY DEF H!Node
<1> HIDE DEF b, g, K
<1>6. Holds([buckets EXCEPT ![h] = b], g, K)
  BY <1>1, <1>3, <1>4, <1>5, AssignedHolds
<1> QED BY <1>1, <1>2, <1>4, <1>6 DEF TableInv

\* erase: the node found goes, and with it the key.
LEMMA TableErased ==
    ASSUME TableInv, NEW k \in TableKeys, H!Erase(k)
    PROVE  TableInv'
<1> DEFINE K == DOMAIN content
           h == H!Hash(k, Len(buckets))
           g == [x \in K \ {k} |-> content[x]]
<1>1. Holds(buckets, content, K) /\ IsFiniteSet(K) /\ size = Cardinality(K) /\ k \in K
  BY PlacesIs DEF TableInv, H!Erase
<1>2. PICK p \in 1 .. Len(buckets[h]) : H!Places(k) = {p} /\ buckets[h][p][1] = k
  BY PlacesIs DEF H!Erase
<1>3. (CHOOSE i \in H!Places(k) : \A j \in H!Places(k) : i <= j) = p
  <2>1. p \in H!Places(k) /\ \A j \in H!Places(k) : p <= j
    BY <1>2
  <2>2. \A i \in H!Places(k) : i = p
    BY <1>2
  <2> QED BY <2>1, <2>2
<1>4. buckets' = [buckets EXCEPT ![h] = H!RemoveAt(buckets[h], p)]
  <2>1. buckets' = [buckets EXCEPT ![h] =
                       H!RemoveAt(@, CHOOSE i \in H!Places(k) : \A j \in H!Places(k) : i <= j)]
    BY Zenon DEF H!Erase
  <2> QED BY Zenon, <1>3, <2>1
<1>5. size' = size - 1 /\ content' = g
  BY DEF H!Erase
<1>6. DOMAIN g = K \ {k} /\ \A x \in K : x # k => g[x] = content[x]
  OBVIOUS
<1>7. h = H!Hash(k, Len(buckets))
  OBVIOUS
<1> HIDE DEF g, K, h
<1>8. Holds([buckets EXCEPT ![h] = H!RemoveAt(buckets[h], p)], g, K \ {k})
  <2>1. \A q \in 1 .. Len(buckets[h]) : buckets[h][q][1] = k
           => Holds([buckets EXCEPT ![h] = H!RemoveAt(buckets[h], q)], g, K \ {k})
    BY <1>1, <1>6, <1>7, ErasedHolds
  <2> QED BY <1>2, <2>1
<1>9. Holds(buckets', content', DOMAIN content')
  BY <1>4, <1>5, <1>6, <1>8
<1>10. IsFiniteSet(K \ {k}) /\ Cardinality(K \ {k}) = Cardinality(K) - 1
  BY <1>1, FS_RemoveElement
<1>11. DOMAIN content' = K \ {k} /\ size' = Cardinality(K) - 1
  BY <1>1, <1>5, <1>6
<1> QED BY <1>9, <1>10, <1>11 DEF TableInv

\* The nodes of the table are those of the map, each once.
LEMMA TableIs == TableInv => H!IsMap
<1> SUFFICES ASSUME TableInv PROVE H!IsMap
  OBVIOUS
<1> DEFINE K == DOMAIN content
           B(i) == Len(buckets[i])
           F == [p \in H!Slots |-> buckets[p[1]][p[2]][1]]
<1>1. Holds(buckets, content, K) /\ IsFiniteSet(K) /\ size = Cardinality(K)
  BY DEF TableInv
<1>2. /\ buckets \in Seq(Seq(H!Node)) /\ Len(buckets) \in Nat \ {0}
      /\ DOMAIN buckets = 1 .. Len(buckets)
      /\ \A i \in 1 .. Len(buckets) : DOMAIN buckets[i] = 1 .. B(i)
  <2>1. buckets \in Seq(Seq(H!Node)) /\ Len(buckets) # 0
    BY <1>1 DEF Holds, H!Tables
  <2>2. \A i \in 1 .. Len(buckets) : buckets[i] \in Seq(H!Node)
    BY <2>1
  <2>3. \A s \in Seq(H!Node) : DOMAIN s = 1 .. Len(s)
    OBVIOUS
  <2> QED BY <2>1, <2>2, <2>3
<1>3. /\ \A i \in 1 .. Len(buckets) : \A j \in 1 .. B(i) :
            /\ buckets[i][j][1] \in K /\ buckets[i][j][2] = content[buckets[i][j][1]]
            /\ H!Hash(buckets[i][j][1], Len(buckets)) = i
      /\ \A i \in 1 .. Len(buckets) : \A j, m \in 1 .. B(i) :
            buckets[i][j][1] = buckets[i][m][1] => j = m
      /\ \A k \in K : \E j \in 1 .. B(H!Hash(k, Len(buckets))) :
            buckets[H!Hash(k, Len(buckets))][j][1] = k
      /\ K \subseteq TableKeys
  BY <1>1 DEF Holds
<1>4. H!Slots = UNION {{i} \X (1 .. B(i)) : i \in 1 .. Len(buckets)}
  BY <1>2 DEF H!Slots
<1> HIDE DEF B, K
<1>5. ASSUME NEW p \in H!Slots
      PROVE  p[1] \in 1 .. Len(buckets) /\ p[2] \in 1 .. B(p[1]) /\ p = <<p[1], p[2]>>
  <2>1. PICK i \in 1 .. Len(buckets) : p \in {i} \X (1 .. B(i))
    BY <1>4
  <2> QED BY <2>1
<1>6. ASSUME NEW i \in 1 .. Len(buckets), NEW j \in 1 .. B(i)
      PROVE  <<i, j>> \in H!Slots
  <2>1. <<i, j>> \in {i} \X (1 .. B(i))
    OBVIOUS
  <2> QED BY <1>4, <2>1
<1>7. F \in [H!Slots -> K]
  BY <1>3, <1>5
<1>8. ASSUME NEW p \in H!Slots, NEW q \in H!Slots, F[p] = F[q] PROVE p = q
  <2>1. buckets[p[1]][p[2]][1] = buckets[q[1]][q[2]][1]
    BY <1>8
  <2>2. p[1] = q[1]
    BY <1>3, <1>5, <2>1
  <2>3. p[2] = q[2]
    BY <1>3, <1>5, <2>1, <2>2
  <2> QED BY <1>5, <2>2, <2>3
<1>9. ASSUME NEW k \in K PROVE \E p \in H!Slots : F[p] = k /\ buckets[p[1]][p[2]] = <<k, content[k]>>
  <2> DEFINE h == H!Hash(k, Len(buckets))
  <2>1. h \in 1 .. Len(buckets)
    BY <1>2, <1>3, HashIs
  <2>2. PICK j \in 1 .. B(h) : buckets[h][j][1] = k
    BY <1>3
  <2> HIDE DEF h
  <2>3. <<h, j>> \in H!Slots
    BY <1>6, <2>1
  <2>4. <<h, j>>[1] = h /\ <<h, j>>[2] = j
    BY PairIs
  <2>5. F[<<h, j>>] = k
    BY <2>2, <2>3, <2>4
  <2>6. buckets[h][j] \in H!Node /\ buckets[h][j][2] = content[k]
    BY <1>2, <1>3, <2>1, <2>2 DEF B
  <2>7. buckets[h][j] = <<k, content[k]>>
    BY <2>2, <2>6 DEF H!Node
  <2> QED BY <2>3, <2>4, <2>5, <2>7
<1> HIDE DEF F
<1>10. Cardinality(H!Slots) = Cardinality(K)
  <2>1. F \in Bijection(H!Slots, K)
    BY <1>7, <1>8, <1>9, Fun_IsBij
  <2>2. ExistsBijection(H!Slots, K)
    BY <2>1, Fun_ExistsBij
  <2>3. ExistsBijection(K, H!Slots)
    BY <2>2, Fun_ExistsBijSymmetric
  <2> QED BY <1>1, <2>3, FS_Bijection
<1>11. H!Nodes = {<<k, content[k]>> : k \in K}
  <2>1. ASSUME NEW p \in H!Slots PROVE \E k \in K : buckets[p[1]][p[2]] = <<k, content[k]>>
    <3>1. /\ buckets[p[1]][p[2]] \in H!Node /\ buckets[p[1]][p[2]][1] \in K
          /\ buckets[p[1]][p[2]][2] = content[buckets[p[1]][p[2]][1]]
      BY <1>2, <1>3, <1>5 DEF B
    <3> QED BY <3>1 DEF H!Node
  <2>2. H!Nodes \subseteq {<<k, content[k]>> : k \in K}
    BY <2>1 DEF H!Nodes
  <2>3. ASSUME NEW k \in K PROVE <<k, content[k]>> \in H!Nodes
    BY <1>9 DEF H!Nodes
  <2>4. {<<k, content[k]>> : k \in K} \subseteq H!Nodes
    BY <2>3
  <2> QED BY Zenon, <2>2, <2>4
<1>12. \A k \in TableKeys : H!Found(k) <=> k \in K
  BY PlacesIs DEF K
<1> QED BY <1>1, <1>10, <1>11, <1>12, TableCardinality DEF H!IsMap, K

\* What holds of a hash table.
TablesInv == kind \in H!Kinds => TableInv

\* The operations of the hash tables keep their invariant.
LEMMA TablesInvariant == Spec => []TablesInv
<1> USE DEF TablesInv
<1>1. Init => TablesInv
  BY TableInit DEF Init
<1>2. TablesInv /\ [Next]_vars => TablesInv'
  <2> SUFFICES ASSUME TablesInv, [Next]_vars PROVE TablesInv'
    OBVIOUS
  <2>1. kind' = kind /\ (kind \in H!Kinds => H!Next \/ UNCHANGED <<buckets, size, content>>)
    BY Frame
  <2>2. CASE kind \in H!Kinds /\ H!Next
    <3>1. TableInv
      BY <2>2
    <3>2. PICK k \in TableKeys : \/ \E v \in Values \cup {H!Default} : H!Insert(k, v) \/ H!Assign(k, v)
                                 \/ H!Index(k) \/ H!Erase(k)
      BY <2>2 DEF H!Next
    <3>3. ASSUME UNCHANGED <<buckets, size, content>> PROVE TableInv'
      BY <3>1, <3>3 DEF TableInv
    <3>4. ASSUME NEW v \in Values \cup {H!Default}, H!Insert(k, v) PROVE TableInv'
      BY <3>1, <3>3, <3>4, TableAdded DEF H!Insert
    <3>5. ASSUME NEW v \in Values \cup {H!Default}, H!Assign(k, v) PROVE TableInv'
      BY <3>1, <3>5, TableAssigned
    <3>6. ASSUME H!Index(k) PROVE TableInv'
      BY <3>1, <3>3, <3>6, TableAdded DEF H!Index
    <3>7. ASSUME H!Erase(k) PROVE TableInv'
      BY <3>1, <3>7, TableErased
    <3>8. TableInv'
      BY <3>2, <3>4, <3>5, <3>6, <3>7
    <3> QED BY <3>8
  <2>3. CASE kind \in H!Kinds /\ UNCHANGED <<buckets, size, content>>
    BY <2>3 DEF TableInv
  <2>4. CASE kind \notin H!Kinds
    BY <2>1, <2>4
  <2> QED BY <2>1, <2>2, <2>3, <2>4
<1> QED BY <1>1, <1>2, PTL DEF Spec

\* After any inserts, assignments, erasures and rehashes a table of any number of buckets is a
\* map: find reaches each key that was inserted and not erased, and no other, with its value,
\* and the size counts them.
THEOREM TablesAreMaps == Spec => []TableIsMap
<1> USE DEF TablesInv
<1>1. TablesInv => TableIsMap
  BY TableIs DEF TableIsMap
<1> QED BY <1>1, TablesInvariant, PTL
=============================================================================
