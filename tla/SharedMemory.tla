---------------------------- MODULE SharedMemory ----------------------------
(***************************************************************************)
(* ipc_shm_write.cpp and ipc_shm_read.cpp of operating-systems/process:    *)
(* the writer copies a message into a named shared memory object, waits a  *)
(* while and removes the name; the reader opens the object and prints it.  *)
(* Nothing else tells a reader when the message is there.                  *)
(***************************************************************************)
EXTENDS Integers, Sequences

CONSTANTS Writers, Readers,  \* processes, each started once
          MaxKilled          \* bound: how many writers are killed

VARIABLES objects,  \* of each object created: sized or not, and its text
          shmName,  \* the object the name stands for, 0 for none
          mapped,   \* the object each process has mapped, 0 for none
          stage,    \* what each process does next
          written,  \* readers whose object held the message when they opened it
          shown,    \* what each reader has printed
          killedWriters

vars == <<objects, shmName, mapped, stage, written, shown, killedWriters>>

Processes == Writers \cup Readers

Init == /\ objects = <<>> /\ shmName = 0
        /\ mapped = [p \in Processes |-> 0]
        /\ stage = [p \in Processes |-> "open"]
        /\ written = {}
        /\ shown = [r \in Readers |-> "nothing"]
        /\ killedWriters = 0

Moves(p, s) == stage' = [stage EXCEPT ![p] = s]

Creates(w) == /\ stage[w] = "open"
              /\ objects' = IF shmName = 0 THEN Append(objects, [sized |-> FALSE, text |-> "zeros"])
                                           ELSE objects
              /\ shmName' = IF shmName = 0 THEN Len(objects') ELSE shmName
              /\ mapped' = [mapped EXCEPT ![w] = shmName']
              /\ Moves(w, "truncate")
              /\ UNCHANGED <<written, shown, killedWriters>>

Emptied(o) == [sized |-> TRUE, text |-> "zeros"]

\* ftruncate to the size the object may have already keeps what is in it.
Resized(o) == [o EXCEPT !.sized = TRUE]

\* strncpy leaves a message that is there already as it is, byte by byte.
Copied(o, text) == IF o.text = "message" THEN o ELSE [o EXCEPT !.text = text]

Writes(w) ==
    /\ \E change \in {<<"truncate", "copy">>, <<"copy", "copy rest">>, <<"copy rest", "unlink">>} :
        /\ stage[w] = change[1]
        /\ Moves(w, change[2])
        /\ objects' = [objects EXCEPT ![mapped[w]] =
                          CASE stage[w] = "truncate"  -> Resized(@)
                            [] stage[w] = "copy"      -> Copied(@, "a part")
                            [] stage[w] = "copy rest" -> Copied(@, "message")]
    /\ UNCHANGED <<shmName, mapped, written, shown, killedWriters>>

\* shm_unlink, some seconds later.
Unlinks(w) == /\ stage[w] = "unlink"
              /\ shmName' = 0
              /\ Moves(w, "end")
              /\ UNCHANGED <<objects, mapped, written, shown, killedWriters>>

Opens(r) == /\ stage[r] = "open"
            /\ IF shmName = 0
               THEN shown' = [shown EXCEPT ![r] = "no object"] /\ Moves(r, "end")
               ELSE UNCHANGED shown /\ Moves(r, "print")
            /\ mapped' = [mapped EXCEPT ![r] = shmName]
            /\ written' = IF shmName # 0 /\ objects[shmName].text = "message"
                          THEN written \cup {r} ELSE written
            /\ UNCHANGED <<objects, shmName, killedWriters>>

\* Reading a page beyond the size of the object raises SIGBUS.
Prints(r) == /\ stage[r] = "print"
             /\ LET o == objects[mapped[r]] IN
                    shown' = [shown EXCEPT ![r] = IF o.sized THEN o.text ELSE "bus error"]
             /\ Moves(r, "end")
             /\ UNCHANGED <<objects, shmName, mapped, written, killedWriters>>

KillWriter(w) == /\ stage[w] \notin {"open", "end"} /\ killedWriters < MaxKilled
                 /\ killedWriters' = killedWriters + 1
                 /\ Moves(w, "end")
                 /\ UNCHANGED <<objects, shmName, mapped, written, shown>>

Next == \/ \E w \in Writers : Creates(w) \/ Writes(w) \/ Unlinks(w) \/ KillWriter(w)
        \/ \E r \in Readers : Opens(r) \/ Prints(r)

-----------------------------------------------------------------------------
TypeOK == /\ objects \in Seq([sized : BOOLEAN, text : {"zeros", "a part", "message"}])
          /\ shmName \in 0 .. Len(objects)
          /\ mapped \in [Processes -> 0 .. Len(objects)]
          /\ stage \in [Processes -> {"open", "truncate", "copy", "copy rest", "unlink", "print", "end"}]
          /\ written \subseteq Readers
          /\ shown \in [Readers -> {"nothing", "zeros", "a part", "message", "no object", "bus error"}]
          /\ killedWriters \in 0 .. MaxKilled

\* A reader that opens an object after the message was written gets the message,
\* also when the name is removed, or another writer writes to it, in between.
ReadsWhole == \A r \in written : stage[r] = "end" => shown[r] = "message"
=============================================================================
