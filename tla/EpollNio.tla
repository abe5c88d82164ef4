------------------------------ MODULE EpollNio ------------------------------
(***************************************************************************)
(* computer-networks/server_epoll_nio.cpp: one thread and edge-triggered   *)
(* epoll. The interest in a connection alternates between reading, one     *)
(* read for each event whatever there is, and writing one response. A      *)
(* read that finds nothing closes the connection.                          *)
(***************************************************************************)
EXTENDS Sockets

CONSTANT ListenFd

VARIABLES interest,  \* "in" or "out" for each descriptor
          ready,     \* descriptors in the ready list of epoll
          batch      \* events of the current batch not handled yet

server == <<interest, ready, batch>>
vars == <<sockets, server>>

New == /\ interest = [f \in Fds |-> "in"]
       /\ ready = {}
       /\ batch = {}

Init == SocketsInit /\ New

\* What epoll looks at when it is told of the descriptor, and when it reports.
HasEvent(f, way) ==
    LET c == table[f]
    IN  \/ way = "in" /\ Readable(c)
        \/ way = "out" /\ (HasRoom(c) \/ peer[c] = "reset")

\* The ready list after an edge on the connection of c. A reset is always reported.
Edge(c, way) == ready' = ready \cup {f \in Fds : table[f] = c
                                        /\ (interest[f] = way \/ way = "reset")}

ClientReceives(c) == Receive(c) /\ Edge(c, "out") /\ UNCHANGED <<interest, batch>>

ClientStep == \E c \in Clients :
    \/ ClientReceives(c)
    \/ /\ \/ Connect(c) /\ UNCHANGED ready
          \/ (Send(c) \/ Finish(c)) /\ Edge(c, "in")
          \/ Reset(c) /\ Edge(c, "reset")
       /\ UNCHANGED <<interest, batch>>

Event(f, way) == [fd |-> f, way |-> way]

\* The listening socket is level-triggered.
Reported == {Event(f, interest[f]) : f \in {g \in ready : HasEvent(g, interest[g])}}
                \cup {Event(ListenFd, "in") : c \in Backlog}

Wait == /\ ~killed /\ batch = {} /\ Reported # {}
        /\ batch' = Reported
        /\ ready' = {}
        /\ UNCHANGED <<sockets, interest>>

Handle(e) == ~killed /\ e \in batch /\ batch' = batch \ {e}

\* EPOLL_CTL_ADD and EPOLL_CTL_MOD: a descriptor that has the event already is ready.
Watch(f, way) == /\ interest' = [interest EXCEPT ![f] = way]
                 /\ ready' = (ready \ {f}) \cup {g \in {f} : HasEvent(g, way)'}

\* One accept for each event.
Accept(e, c) == /\ Handle(e) /\ e.fd = ListenFd /\ c \in Backlog
                /\ Opened(c)
                /\ Watch(NewFd, "in")

ReadsOn == "in"

\* ev.events = EPOLLOUT | EPOLLET
StaysIn == "in"

ThenWrite == "out"

Read(e) == /\ Handle(e) /\ e.fd # ListenFd /\ e.way = "in"
           /\ HasData(table[e.fd])
           /\ ReadUnit(table[e.fd])
           /\ Watch(e.fd, ThenWrite)

\* read returns 0 or an error, which may be EAGAIN; close() also removes the
\* descriptor from epoll, so the EPOLL_CTL_DEL that follows fails.
Close(e) == /\ Handle(e) /\ e.fd # ListenFd /\ e.way = "in"
            /\ ~HasData(table[e.fd])
            /\ Closed(e.fd)
            /\ ready' = ready \ {e.fd}
            /\ UNCHANGED interest

\* The result of write is not looked at.
Write(e) == /\ Handle(e) /\ e.fd # ListenFd /\ e.way = "out"
            /\ Wrote(table[e.fd])
            /\ Watch(e.fd, "in")

ServerStep == Wait \/ \E e \in batch : \/ Read(e) \/ Close(e) \/ Write(e)
                                       \/ \E c \in Clients : Accept(e, c)

Next == ClientStep \/ ServerStep

-----------------------------------------------------------------------------
TypeOK == /\ SocketsTypeOK
          /\ interest \in [Fds -> {"in", "out"}]
          /\ ready \subseteq Fds
          /\ batch \subseteq {Event(f, way) : f \in Fds \cup {ListenFd}, way \in {"in", "out"}}

\* No edge is missed: a connection with an event the server waits for is in the
\* ready list or in the batch. An event finds the connection it was reported for,
\* with data or room, so a read that finds nothing means that the client is gone
\* (server_epoll_nio.cpp:110-137).
NothingOverlooked ==
    /\ \A f \in Fds : table[f] # NoClient /\ HasEvent(f, interest[f])
            => f \in ready \/ Event(f, interest[f]) \in batch
    /\ \A e \in batch : e.fd # ListenFd => table[e.fd] # NoClient /\ HasEvent(e.fd, e.way)
    /\ \A c \in Clients : conn[c] = "closed" => peer[c] # "up"
=============================================================================
