----------------------------- MODULE SharedPtr -----------------------------
(***************************************************************************)
(* The shared pointers of C++/smart_ptr. SharedPtr (shared_ptr.hpp)        *)
(* decrements the counter and then loads it, and its assignments drop what *)
(* they held; Shared_ptr (shared_ptr.cpp) decrements and tests at once and *)
(* releases before it assigns. Each pointer belongs to one thread, which   *)
(* is where they interfere: destructors of different pointers overlap.     *)
(***************************************************************************)
EXTENDS Integers, FiniteSets

CONSTANTS Pointers,
          Objects,    \* bound: the objects that are ever created
          MaxDropped  \* bound: owners of an object that assignments forget

None == "none"    \* not constructed, or destroyed
Empty == "empty"  \* constructed without an object

VARIABLES class,     \* which of the two classes it is
          made,      \* the objects created so far
          holds,     \* what each pointer holds
          loading,   \* the object whose counter a destructor is about to load
          cnt,       \* the counter of each object
          freed,     \* how often the object has been deleted
          dropped,   \* owners that an assignment has forgotten
          overlap,   \* objects of which two destructors were loading at once
          dead       \* a null counter was dereferenced

vars == <<class, made, holds, loading, cnt, freed, dropped, overlap, dead>>

Classes == {"SharedPtr", "Shared_ptr"}

New == /\ made = {}
       /\ holds = [p \in Pointers |-> None]
       /\ loading = [p \in Pointers |-> Empty]
       /\ cnt = [o \in Objects |-> 0]
       /\ freed = [o \in Objects |-> 0]
       /\ dropped = [o \in Objects |-> 0]
       /\ overlap = {}
       /\ dead = FALSE

Init == New /\ class \in Classes

Idle(p) == ~dead /\ loading[p] = Empty
Exists(p) == Idle(p) /\ holds[p] # None
Free(p) == Idle(p) /\ holds[p] = None

Owners(o) == {p \in Pointers : holds[p] = o}
Loading(o) == {p \in Pointers : loading[p] = o}

Hold(p, o) == holds' = [holds EXCEPT ![p] = o]

DefaultConstruct(p) ==
    /\ Free(p) /\ Hold(p, Empty)
    /\ UNCHANGED <<class, made, loading, cnt, freed, dropped, overlap, dead>>

Construct(p, o) ==
    /\ Free(p) /\ o \notin made
    /\ made' = made \cup {o}
    /\ Hold(p, o)
    /\ cnt' = [cnt EXCEPT ![o] = 1]
    /\ UNCHANGED <<class, loading, freed, dropped, overlap, dead>>

\* The new owner increments the counter of the source. SharedPtr does not ask
\* whether there is one.
Copy(p, q) ==
    /\ Free(p) /\ Exists(q)
    /\ \/ /\ holds[q] # Empty
          /\ Hold(p, holds[q])
          /\ cnt' = [cnt EXCEPT ![holds[q]] = @ + 1]
          /\ UNCHANGED dead
       \/ /\ holds[q] = Empty /\ class = "Shared_ptr"
          /\ Hold(p, Empty)
          /\ UNCHANGED <<cnt, dead>>
       \/ /\ holds[q] = Empty /\ class = "SharedPtr"
          /\ dead' = TRUE
          /\ UNCHANGED <<holds, cnt>>
    /\ UNCHANGED <<class, made, loading, freed, dropped, overlap>>

Move(p, q) ==
    /\ Free(p) /\ Exists(q)
    /\ holds' = [holds EXCEPT ![p] = holds[q], ![q] = Empty]
    /\ UNCHANGED <<class, made, loading, cnt, freed, dropped, overlap, dead>>

FreesFirst(n, o) == [cnt |-> n[o] - 1, free |-> n[o] > 0]

\* release(): the counter, and whether this was the last owner.
Released(n, o) == [cnt |-> n[o] - 1, free |-> n[o] = 1]

\* The objects after a pointer has released o and, for a copy, acquired s.
After(o, s) ==
    LET without == IF o = Empty THEN cnt ELSE [cnt EXCEPT ![o] = Released(cnt, o).cnt]
    IN  /\ cnt' = IF s = Empty THEN without ELSE [without EXCEPT ![s] = @ + 1]
        /\ freed' = IF o # Empty /\ Released(cnt, o).free
                    THEN [freed EXCEPT ![o] = @ + 1] ELSE freed

Forget(o) == \/ o = Empty /\ UNCHANGED dropped
             \/ /\ o # Empty /\ dropped[o] < MaxDropped
                /\ dropped' = [dropped EXCEPT ![o] = @ + 1]

\* SharedPtr: the assigned pointer forgets what it held, which may be its own source.
Overwrite(p, q, acquired) ==
    /\ class = "SharedPtr"
    /\ Hold(p, holds[q])
    /\ Forget(holds[p])
    /\ cnt' = IF acquired THEN [cnt EXCEPT ![holds[q]] = @ + 1] ELSE cnt
    /\ UNCHANGED <<freed, dead>>

Assign(p, q) ==
    /\ Exists(p) /\ Exists(q)
    /\ \/ holds[q] # Empty /\ Overwrite(p, q, TRUE)
       \/ /\ holds[q] = Empty /\ class = "SharedPtr"
          /\ dead' = TRUE
          /\ UNCHANGED <<holds, cnt, freed, dropped>>
       \/ /\ class = "Shared_ptr" /\ p # q
          /\ Hold(p, holds[q])
          /\ After(holds[p], holds[q])
          /\ UNCHANGED <<dropped, dead>>
    /\ UNCHANGED <<class, made, loading, overlap>>

\* SharedPtr moved to itself ends up empty.
MoveAssign(p, q) ==
    /\ Exists(p) /\ Exists(q)
    /\ \/ /\ class = "SharedPtr"
          /\ holds' = [holds EXCEPT ![p] = holds[q], ![q] = Empty]
          /\ Forget(holds[p])
          /\ UNCHANGED <<cnt, freed>>
       \/ /\ class = "Shared_ptr" /\ p # q
          /\ holds' = [holds EXCEPT ![p] = holds[q], ![q] = Empty]
          /\ After(holds[p], Empty)
          /\ UNCHANGED dropped
    /\ UNCHANGED <<class, made, loading, overlap, dead>>

\* ~Shared_ptr and, of an empty pointer, ~SharedPtr.
Destroy(p) ==
    /\ Exists(p) /\ (class = "Shared_ptr" \/ holds[p] = Empty)
    /\ Hold(p, None)
    /\ After(holds[p], Empty)
    /\ UNCHANGED <<class, made, loading, dropped, overlap, dead>>

\* ~SharedPtr: fetch_sub,
Decrement(p) ==
    /\ Exists(p) /\ class = "SharedPtr" /\ holds[p] # Empty
    /\ Hold(p, None)
    /\ cnt' = [cnt EXCEPT ![holds[p]] = @ - 1]
    /\ loading' = [loading EXCEPT ![p] = holds[p]]
    /\ overlap' = IF Loading(holds[p]) # {}
                  THEN overlap \cup {holds[p]} ELSE overlap
    /\ UNCHANGED <<class, made, freed, dropped, dead>>

\* then load and, at zero, delete. A counter that is deleted already may still
\* read as zero or as anything else.
LoadAndDelete(p) ==
    /\ ~dead /\ loading[p] # Empty
    /\ LET o == loading[p]
       IN  \/ cnt[o] = 0 /\ freed' = [freed EXCEPT ![o] = @ + 1]
           \/ (cnt[o] # 0 \/ freed[o] > 0) /\ UNCHANGED freed
    /\ loading' = [loading EXCEPT ![p] = Empty]
    /\ UNCHANGED <<class, made, holds, cnt, dropped, overlap, dead>>

Next == \E p \in Pointers :
            \/ DefaultConstruct(p) \/ Destroy(p) \/ Decrement(p) \/ LoadAndDelete(p)
            \/ \E o \in Objects : Construct(p, o)
            \/ \E q \in Pointers : Copy(p, q) \/ Move(p, q) \/ Assign(p, q) \/ MoveAssign(p, q)

-----------------------------------------------------------------------------
TypeOK == /\ class \in Classes
          /\ made \subseteq Objects
          /\ holds \in [Pointers -> made \cup {None, Empty}]
          /\ loading \in [Pointers -> made \cup {Empty}]
          /\ \A o \in Objects : cnt[o] \in Nat /\ freed[o] \in Nat
          /\ dropped \in [Objects -> 0 .. MaxDropped]
          /\ overlap \subseteq made
          /\ dead \in BOOLEAN

\* Neither class deletes an object that has an owner, also one that an assignment has
\* forgotten; until then the counter counts both. Shared_ptr deletes it once and with
\* its last owner. SharedPtr fails to delete it exactly if an owner was forgotten, and
\* deletes it again only if two destructors were between fetch_sub and load at once.
FreedWithLastOwner ==
    \A o \in made :
        /\ freed[o] > 0 => Owners(o) = {} /\ dropped[o] = 0
        /\ freed[o] = 0 => cnt[o] = Cardinality(Owners(o)) + dropped[o]
        /\ class = "Shared_ptr" => freed[o] = IF Owners(o) = {} THEN 1 ELSE 0
        /\ Owners(o) \cup Loading(o) = {} => (freed[o] = 0 <=> dropped[o] > 0)
        /\ freed[o] > 1 => o \in overlap
=============================================================================
