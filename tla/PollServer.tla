----------------------------- MODULE PollServer -----------------------------
(***************************************************************************)
(* computer-networks/server_poll_bio.cpp: one thread, blocking sockets,    *)
(* and an array of slots for poll. An iteration accepts at most one        *)
(* connection and then serves the slots poll has reported, one recv each.  *)
(***************************************************************************)
EXTENDS Sockets

CONSTANT MaxClients   \* slots, 5 in the code

VARIABLES fds,     \* the descriptor in each slot, -1 for none
          due,     \* the slots still to look at, as poll reported them; 0 listens
          echo     \* the slot whose echo is to be sent, 0 for none

Slots == 1 .. MaxClients
server == <<fds, due, echo>>
vars == <<sockets, server>>

New == /\ fds = [i \in Slots |-> -1]
       /\ due = {}
       /\ echo = 0

Init == SocketsInit /\ New

Of(i) == table[fds[i]]

ClientReceives(c) == Receive(c) /\ UNCHANGED server

ClientStep == \E c \in Clients :
    \/ ClientReceives(c)
    \/ (Connect(c) \/ Send(c) \/ Finish(c) \/ Reset(c)) /\ UNCHANGED server

\* poll() waits for the listening socket and the used slots: revents of a slot
\* with fd -1 is 0.
Reported == {i \in Slots : fds[i] # -1 /\ Readable(Of(i))}
                \cup {i \in {0} : Backlog # {}}

Poll == /\ ~killed /\ due = {} /\ echo = 0 /\ Reported # {}
        /\ due' = Reported
        /\ UNCHANGED <<sockets, fds, echo>>

FreeSlots == {i \in Slots : fds[i] = -1}

\* The connection goes to the first free slot or is closed.
Accept(c) ==
    /\ ~killed /\ echo = 0 /\ 0 \in due /\ c \in Backlog
    /\ \/ /\ FreeSlots # {}
          /\ Opened(c)
          /\ fds' = [fds EXCEPT ![Min(FreeSlots)] = NewFd]
       \/ /\ FreeSlots = {}
          /\ Rejected(c)
          /\ UNCHANGED fds
    /\ due' = due \ {0}
    /\ UNCHANGED echo

Serving(i) == ~killed /\ echo = 0 /\ due # {} /\ i = Min(due) /\ i # 0

Recv(i) == /\ Serving(i) /\ HasData(Of(i))
           /\ ReadUnit(Of(i))
           /\ echo' = i
           /\ due' = due \ {i}
           /\ UNCHANGED fds

KeepsSlot(i) == fds

\* fds[i].fd = -1
Vacated(i) == [fds EXCEPT ![i] = -1]

\* recv returns 0 or an error.
Close(i) == /\ Serving(i) /\ ~HasData(Of(i)) /\ peer[Of(i)] # "up"
            /\ Closed(fds[i])
            /\ fds' = Vacated(i)
            /\ due' = due \ {i}
            /\ UNCHANGED echo

\* The sockets block: send waits for a client that does not receive.
Echo == /\ ~killed /\ echo # 0
        /\ HasRoom(Of(echo)) \/ peer[Of(echo)] = "reset"
        /\ Wrote(Of(echo))
        /\ echo' = 0
        /\ UNCHANGED <<fds, due>>

ServerStep == Poll \/ Echo \/ (\E c \in Clients : Accept(c)) \/ \E i \in Slots : Recv(i) \/ Close(i)

Next == ClientStep \/ ServerStep

-----------------------------------------------------------------------------
TypeOK == /\ SocketsTypeOK
          /\ fds \in [Slots -> Fds \cup {-1}]
          /\ due \subseteq Slots \cup {0}
          /\ echo \in Slots \cup {0}

\* Every slot in use has an open connection of its own and every open connection
\* a slot; recv, on a blocking socket, is called only when it has something to
\* return, also in an iteration that has just filled a slot
\* (server_poll_bio.cpp:69-100).
SlotsAgree ==
    /\ \A i \in Slots : fds[i] # -1 => Of(i) # NoClient /\ conn[Of(i)] = "open"
    /\ \A c \in Clients : conn[c] = "open" => Cardinality({i \in Slots : fds[i] # -1 /\ Of(i) = c}) = 1
    /\ \A i \in Slots : Serving(i) => fds[i] # -1 /\ Readable(Of(i))
    /\ \A c \in Clients : conn[c] = "closed" => peer[c] # "up"
=============================================================================
