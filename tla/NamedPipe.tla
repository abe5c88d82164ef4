------------------------------ MODULE NamedPipe ------------------------------
(***************************************************************************)
(* operating-systems/process/ipc_pipe_named.cpp: a run of the program      *)
(* makes a named pipe and forks; the parent opens it and writes a message, *)
(* the child opens it and reads, and both remove the name at their ends.   *)
(* Several runs share the name.                                            *)
(***************************************************************************)
EXTENDS Integers

CONSTANTS Runs,       \* positive numbers, each also the pipe that the run makes
          MaxDeaths   \* bound: how many processes are killed

VARIABLES fifo,      \* the pipe the name stands for, 0 for none
          place,     \* what each process does next
          open,      \* the pipe each process has open, 0 for none
          filled,    \* pipes that hold a message
          heard,     \* what each child has read
          disturbed, \* runs in whose way something outside of them has come
          deaths

vars == <<fifo, place, open, filled, heard, disturbed, deaths>>

Sides == {"parent", "child"}
Procs == Runs \X Sides
Other(side) == CHOOSE s \in Sides : s # side

Init == /\ fifo = 0 /\ filled = {} /\ disturbed = {} /\ deaths = 0
        /\ place = [p \in Procs |-> "none"]
        /\ open = [p \in Procs |-> 0]
        /\ heard = [r \in Runs |-> "nothing"]

Goes(p, l) == place' = [place EXCEPT ![p] = l]

\* mkfifo fails if the name exists; then comes fork. The runs are numbered as
\* they start.
Start(r) == /\ place[r, "parent"] = "none"
            /\ \A s \in Runs : s < r => place[s, "parent"] # "none"
            /\ place' = [p \in Procs |-> IF p[1] # r THEN place[p]
                                         ELSE IF fifo = 0 THEN "open" ELSE "no pipe"]
            /\ fifo' = IF fifo = 0 THEN r ELSE fifo
            /\ UNCHANGED <<open, filled, heard, disturbed, deaths>>

\* Those that have the pipe open at one side, or wait in open() for the other.
At(f, side) == {p \in Procs : p[2] = side /\ open[p] = f}

\* open waits for somebody at the other side, and lets those go on who wait there.
Opened(p, l) ==
    [q \in Procs |->
        IF q = p THEN IF At(fifo, Other(p[2])) # {} THEN l ELSE "opening"
        ELSE IF q[2] # p[2] /\ place[q] = "opening" /\ open[q] = fifo
             THEN IF q[2] = "parent" THEN "write" ELSE "read"
             ELSE place[q]]

Open(p) == /\ place[p] = "open"
           /\ IF fifo = 0
              THEN Goes(p, "failed") /\ UNCHANGED <<open, disturbed>>
              ELSE /\ place' = Opened(p, IF p[2] = "parent" THEN "write" ELSE "read")
                   /\ open' = [open EXCEPT ![p] = fifo]
                   /\ disturbed' = IF fifo = p[1] THEN disturbed ELSE disturbed \cup {fifo, p[1]}
           /\ UNCHANGED <<fifo, filled, heard, deaths>>

\* Without a reader SIGPIPE ends the parent.
Write(r) == LET p == <<r, "parent">> IN
    /\ place[p] = "write"
    /\ IF At(open[p], "child") # {}
       THEN Goes(p, "close") /\ filled' = filled \cup {open[p]} /\ UNCHANGED open
       ELSE Goes(p, "failed") /\ open' = [open EXCEPT ![p] = 0] /\ UNCHANGED filled
    /\ UNCHANGED <<fifo, heard, disturbed, deaths>>

Waits(p) == open[p] \notin filled /\ At(open[p], "parent") # {}

\* read takes all there is, or nothing when no writer is left.
Read(r) == LET p == <<r, "child">> IN
    /\ place[p] = "read" /\ ~Waits(p)
    /\ heard' = [heard EXCEPT ![r] = IF open[p] \in filled THEN "message" ELSE "end of file"]
    /\ filled' = filled \ {open[p]}
    /\ Goes(p, "close")
    /\ UNCHANGED <<fifo, open, disturbed, deaths>>

\* What was not read is gone when the last process closes the pipe.
Shut(p) == /\ open' = [open EXCEPT ![p] = 0]
           /\ filled' = filled \ {f \in filled : \A q \in Procs : open'[q] # f}

Close(p) == /\ place[p] = "close"
            /\ Shut(p) /\ Goes(p, "unlink")
            /\ UNCHANGED <<fifo, heard, disturbed, deaths>>

\* Both unlink, the later one perhaps the pipe of another run.
Unlink(p) == /\ place[p] = "unlink"
             /\ fifo' = 0
             /\ disturbed' = disturbed \cup ({fifo} \ {0, p[1]})
             /\ Goes(p, "end")
             /\ UNCHANGED <<open, filled, heard, deaths>>

Stopped(p) == place[p] \in {"none", "no pipe", "failed", "end"}

Kill(p) == /\ ~Stopped(p) /\ deaths < MaxDeaths
           /\ deaths' = deaths + 1
           /\ Shut(p) /\ Goes(p, "failed")
           /\ disturbed' = disturbed \cup {p[1]}
           /\ UNCHANGED <<fifo, heard>>

Step(p) == \/ Open(p) \/ Close(p) \/ Unlink(p)
           \/ p[2] = "parent" /\ Write(p[1])
           \/ p[2] = "child" /\ Read(p[1])

RunStep(r) == \E side \in Sides : Step(<<r, side>>)

Next == (\E r \in Runs : Start(r) \/ RunStep(r)) \/ \E p \in Procs : Kill(p)

-----------------------------------------------------------------------------
TypeOK == /\ fifo \in Runs \cup {0}
          /\ place \in [Procs -> {"none", "no pipe", "open", "opening", "write", "read",
                                  "close", "unlink", "failed", "end"}]
          /\ open \in [Procs -> Runs \cup {0}]
          /\ filled \subseteq Runs /\ disturbed \subseteq Runs
          /\ heard \in [Runs -> {"nothing", "message", "end of file"}]
          /\ deaths \in 0 .. MaxDeaths

\* While no process of a run is killed, no other run removes its name and nobody
\* else meets it in the pipe, neither side fails and the child gets the message.
ChildHears ==
    \A r \in Runs \ disturbed :
        /\ \A side \in Sides : place[r, side] # "failed"
        /\ place[r, "child"] \in {"close", "unlink", "end"} => heard[r] = "message"

RunOver(r) == \A side \in Sides : Stopped(<<r, side>>)
=============================================================================
