----------------------------- MODULE Singleton -----------------------------
(***************************************************************************)
(* design-patterns/Singleton/lazy.cpp: getInstance with its double-checked *)
(* locking, called by several threads, and destory, called when they are   *)
(* done. The first look at instance takes no mutex: each access to it is a *)
(* step. The constructor prints, so the pointer is stored after it.        *)
(***************************************************************************)
EXTENDS Integers

CONSTANTS Callers,
          Nobody,
          MaxInstances   \* bound: instances ever constructed

VARIABLES instance,   \* 0 is the null pointer
          constructed,
          owner,      \* the thread that owns the mutex
          caller,     \* where each thread is in getInstance
          result      \* what getInstance has returned, 0 before

vars == <<instance, constructed, owner, caller, result>>

Init == /\ instance = 0
        /\ constructed = 0
        /\ owner = Nobody
        /\ caller = [t \in Callers |-> "first"]
        /\ result = [t \in Callers |-> 0]

Goto(t, l) == caller' = [caller EXCEPT ![t] = l]

\* if (instance == nullptr), without the mutex
FirstCheck(t) == /\ caller[t] = "first"
                 /\ Goto(t, IF instance = 0 THEN "lock" ELSE "return")
                 /\ UNCHANGED <<instance, constructed, owner, result>>

Lock(t) == /\ caller[t] = "lock" /\ owner = Nobody
           /\ owner' = t
           /\ Goto(t, "second")
           /\ UNCHANGED <<instance, constructed, result>>

CheckedBefore == TRUE

\* if (instance == nullptr), with the mutex
StillNull == instance = 0

SecondCheck(t) == /\ caller[t] = "second"
                  /\ Goto(t, IF StillNull THEN "new" ELSE "unlock")
                  /\ UNCHANGED <<instance, constructed, owner, result>>

Construct(t) == /\ caller[t] = "new"
                /\ constructed' = constructed + 1
                /\ Goto(t, "store")
                /\ UNCHANGED <<instance, owner, result>>

Store(t) == /\ caller[t] = "store"
            /\ instance' = constructed
            /\ Goto(t, "unlock")
            /\ UNCHANGED <<constructed, owner, result>>

Unlock(t) == /\ caller[t] = "unlock"
             /\ owner' = Nobody
             /\ Goto(t, "return")
             /\ UNCHANGED <<instance, constructed, result>>

Return(t) == /\ caller[t] = "return"
             /\ result' = [result EXCEPT ![t] = instance]
             /\ Goto(t, "done")
             /\ UNCHANGED <<instance, constructed, owner>>

GetInstance(t) == \/ FirstCheck(t) \/ Lock(t) \/ SecondCheck(t) \/ Construct(t)
                  \/ Store(t) \/ Unlock(t) \/ Return(t)

\* After the joins, as main has it: nobody is in getInstance.
Destory == /\ constructed < MaxInstances
           /\ \A t \in Callers : caller[t] = "done"
           /\ instance' = 0
           /\ caller' = [t \in Callers |-> "first"]
           /\ result' = [t \in Callers |-> 0]
           /\ UNCHANGED <<constructed, owner>>

Next == Destory \/ \E t \in Callers : GetInstance(t)

Spec == Init /\ [][Next]_vars

-----------------------------------------------------------------------------
TypeOK == /\ instance \in 0 .. constructed
          /\ constructed \in 0 .. MaxInstances
          /\ owner \in Callers \cup {Nobody}
          /\ caller \in [Callers -> {"first", "lock", "second", "new", "store",
                                     "unlock", "return", "done"}]
          /\ result \in [Callers -> 0 .. constructed]

\* All threads get the same instance, the last one constructed: none is created
\* beside it (lazy.cpp:28-35).
OneInstance == \A t \in Callers : caller[t] = "done" => result[t] = constructed
=============================================================================
