----------------------------- MODULE Semaphores -----------------------------
(***************************************************************************)
(* ipc_sem_write.cpp and ipc_sem_read.cpp of operating-systems/process: a  *)
(* producer and a consumer process around three named semaphores. Whoever  *)
(* comes first creates them, the writer removes the names at its end, and  *)
(* both, started by hand, may run again. A semaphore whose name is gone    *)
(* lives on for those who have it open, so each name stands for a sequence *)
(* of semaphores; one killed process leaves them as they are.              *)
(***************************************************************************)
EXTENDS Integers, Sequences, FiniteSets

CONSTANTS BufferSize,  \* BUFFER_SIZE, 10 in the code
          Rounds,      \* items of a run, 20 in the code
          MaxRuns,     \* bound: how often each program is started
          MaxCrashes   \* bound: how many processes are killed

Programs == {"write", "read"}
Names == {"empty", "full", "mutex"}

VARIABLES sems,     \* the values of the semaphores created under each name
          bound,    \* the one the name stands for now, 0 for none
          handle,   \* the ones each process has open
          at,       \* where each process is
          left,     \* the items each process has still to handle
          starts,   \* how often each program has been started
          crashes,
          pairs,    \* <<empty, full>> as processes have used them together
          items     \* items in the buffer that each full semaphore counts

vars == <<sems, bound, handle, at, left, starts, crashes, pairs, items>>

Init == /\ sems = [n \in Names |-> <<>>]
        /\ bound = [n \in Names |-> 0]
        /\ handle = [p \in Programs |-> [n \in Names |-> 0]]
        /\ at = [p \in Programs |-> "ended"]
        /\ left = [p \in Programs |-> 0]
        /\ starts = [p \in Programs |-> 0]
        /\ crashes = 0
        /\ pairs = {}
        /\ items = <<>>

\* The semaphore a process waits for first, and the one it posts last.
Taken(p) == IF p = "write" THEN "empty" ELSE "full"

GivesBack(p) == Taken(p)

Given(p) == IF p = "write" THEN "full" ELSE "empty"

Initial(n) == CASE n = "empty" -> BufferSize [] n = "full" -> 0 [] n = "mutex" -> 1

Goto(p, l) == at' = [at EXCEPT ![p] = l]

Start(p) == /\ at[p] = "ended" /\ starts[p] < MaxRuns
            /\ starts' = [starts EXCEPT ![p] = @ + 1]
            /\ left' = [left EXCEPT ![p] = Rounds]
            /\ Goto(p, "open empty")
            /\ UNCHANGED <<sems, bound, handle, crashes, pairs, items>>

\* sem_open with O_CREAT opens what the name stands for or creates it.
Open(p, n) == IF bound[n] # 0
              THEN /\ handle' = [handle EXCEPT ![p][n] = bound[n]]
                   /\ UNCHANGED <<sems, bound>>
              ELSE /\ sems' = [sems EXCEPT ![n] = Append(@, Initial(n))]
                   /\ bound' = [bound EXCEPT ![n] = Len(sems[n]) + 1]
                   /\ handle' = [handle EXCEPT ![p][n] = Len(sems[n]) + 1]

OpenStep(p) ==
    /\ \/ at[p] = "open empty" /\ Open(p, "empty") /\ Goto(p, "open full")
          /\ UNCHANGED <<pairs, items>>
       \/ /\ at[p] = "open full" /\ Open(p, "full") /\ Goto(p, "open mutex")
          /\ pairs' = pairs \cup {<<handle[p]["empty"], handle'[p]["full"]>>}
          /\ items' = IF bound["full"] = 0 THEN Append(items, 0) ELSE items
       \/ at[p] = "open mutex" /\ Open(p, "mutex") /\ Goto(p, "take")
          /\ UNCHANGED <<pairs, items>>
    /\ UNCHANGED <<left, starts, crashes>>

Value(p, n) == sems[n][handle[p][n]]
Post(p, n) == sems' = [sems EXCEPT ![n][handle[p][n]] = @ + 1]
Wait(p, n) == Value(p, n) > 0 /\ sems' = [sems EXCEPT ![n][handle[p][n]] = @ - 1]

\* The loop: wait for a slot or an item, then for the mutex, and post both.
Take(p) == /\ at[p] = "take" /\ left[p] > 0
           /\ Wait(p, Taken(p)) /\ Goto(p, "lock")
           /\ UNCHANGED <<left, items>>
Lock(p) == /\ at[p] = "lock"
           /\ Wait(p, "mutex") /\ Goto(p, "inside")
           /\ UNCHANGED <<left, items>>
Unlock(p) == /\ at[p] = "inside"
             /\ Post(p, "mutex") /\ Goto(p, "give")
             /\ items' = [items EXCEPT ![handle[p]["full"]] = IF p = "write" THEN @ + 1 ELSE @ - 1]
             /\ UNCHANGED left
Give(p) == /\ at[p] = "give"
           /\ Post(p, Given(p)) /\ Goto(p, "take")
           /\ left' = [left EXCEPT ![p] = @ - 1]
           /\ UNCHANGED items

Round(p) == /\ Take(p) \/ Lock(p) \/ Unlock(p) \/ Give(p)
            /\ UNCHANGED <<bound, handle, starts, crashes, pairs>>

\* sem_close; only the writer removes the names, one after the other.
Close(p) == /\ at[p] = "take" /\ left[p] = 0
            /\ handle' = [handle EXCEPT ![p] = [n \in Names |-> 0]]
            /\ Goto(p, IF p = "write" THEN "unlink empty" ELSE "ended")
            /\ UNCHANGED <<sems, bound, left, starts, crashes, pairs, items>>

Unlink == /\ \/ /\ at["write"] = "unlink empty" /\ bound' = [bound EXCEPT !["empty"] = 0]
                /\ Goto("write", "unlink full")
             \/ /\ at["write"] = "unlink full" /\ bound' = [bound EXCEPT !["full"] = 0]
                /\ Goto("write", "unlink mutex")
             \/ /\ at["write"] = "unlink mutex" /\ bound' = [bound EXCEPT !["mutex"] = 0]
                /\ Goto("write", "ended")
          /\ UNCHANGED <<sems, handle, left, starts, crashes, pairs, items>>

Crash(p) == /\ at[p] # "ended" /\ crashes < MaxCrashes
            /\ crashes' = crashes + 1
            /\ handle' = [handle EXCEPT ![p] = [n \in Names |-> 0]]
            /\ Goto(p, "ended")
            /\ UNCHANGED <<sems, bound, left, starts, pairs, items>>

Step(p) == OpenStep(p) \/ Round(p) \/ Close(p) \/ (p = "write" /\ Unlink)

Next == \E p \in Programs : Start(p) \/ Step(p) \/ Crash(p)

-----------------------------------------------------------------------------
Places == {"ended", "open empty", "open full", "open mutex", "take", "lock",
           "inside", "give", "unlink empty", "unlink full", "unlink mutex"}

TypeOK == /\ sems \in [Names -> Seq(Nat)]
          /\ \A n \in Names : bound[n] \in 0 .. Len(sems[n])
          /\ \A p \in Programs, n \in Names : handle[p][n] \in 0 .. Len(sems[n])
          /\ at \in [Programs -> Places]
          /\ left \in [Programs -> 0 .. Rounds]
          /\ starts \in [Programs -> 0 .. MaxRuns]
          /\ crashes \in 0 .. MaxCrashes

\* Processes that have taken their permit and not given theirs, of these semaphores.
Holding(e, f) == {p \in Programs : /\ at[p] \in {"lock", "inside", "give"}
                                   /\ handle[p]["empty"] = e /\ handle[p]["full"] = f}

\* As long as two semaphores are only used together, the buffer they guard never
\* holds more than its slots nor gives an item that is not there, whoever is killed;
\* while nobody is, no slot is lost (ipc_sem_write.cpp:27-39, ipc_sem_read.cpp:27-39).
SlotsKept ==
    \A q \in {r \in pairs : \A o \in pairs : o[1] = r[1] <=> o[2] = r[2]} :
        /\ items[q[2]] \in 0 .. BufferSize
        /\ crashes = 0 => sems["empty"][q[1]] + sems["full"][q[2]]
                              = BufferSize - Cardinality(Holding(q[1], q[2]))

\* Both inside at once only if the names were removed between their openings.
Excluded ==
    at["write"] = "inside" /\ at["read"] = "inside"
        => handle["write"]["mutex"] # handle["read"]["mutex"]

\* One run of each program, undisturbed, is over and has left no name behind.
RunOver == /\ \A p \in Programs : at[p] = "ended"
           /\ \A n \in Names : bound[n] = 0
Undisturbed == crashes = 0 /\ \A p \in Programs : starts[p] = 1
=============================================================================
