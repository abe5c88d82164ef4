---------------------------- MODULE EpollReactor ----------------------------
(***************************************************************************)
(* The event handling of computer-networks/server_reactor.cpp: the thread  *)
(* of loop() waits on epoll, accepts connections and dispatches every      *)
(* other event to the pool; a worker reads all there is, echoes it and     *)
(* arms the descriptor again, or closes it. Descriptors are numbers the    *)
(* kernel hands out again as soon as they are closed, so the code is right *)
(* only if an event, a queued job or a handler never outlives the          *)
(* connection it was raised for.                                           *)
(*                                                                         *)
(* Sockets, epoll and the clients are external: they are modelled as the   *)
(* code uses them. Data is a sequence of units numbered by each client.    *)
(* The pool is a queue served in order, which is what ReactorPool is shown *)
(* to implement.                                                           *)
(***************************************************************************)
EXTENDS Integers, Sequences, FiniteSetsExt

CONSTANTS Conns,     \* connections, never more than once each
          NoConn,
          Fds,       \* bound: the descriptors connections can get
          ListenFd,
          Workers,
          MaxMsgs,   \* bound: units of data a client sends
          SendBuf    \* units the send buffer of a socket holds

ASSUME EpollAssumption ==
    /\ NoConn \notin Conns
    /\ Fds \subseteq Nat /\ ListenFd \notin Fds
    /\ MaxMsgs \in Nat
    /\ SendBuf \in Nat \ {0}

VARIABLES
    phase,    \* of the shutdown
    (* the clients and the kernel's side of each connection *)
    conn,     \* what became of it
    peer,     \* "up", or it has sent FIN or RST
    sent,     \* units the client has sent
    recvd,    \* units the client has received
    table,    \* the connection of each descriptor
    armed,    \* descriptors whose one-shot interest is enabled
    (* the server *)
    got,      \* units of each connection that read() has returned
    written,  \* units of each connection that write() has accepted, in order
    full,     \* a write() on the connection has returned EAGAIN
    lpc,      \* where the loop thread is
    batch,    \* events of the current batch not looked at yet
    jobs,     \* events dispatched to the pool
    wpc,      \* where each worker is
    event,    \* the event each worker handles
    outbuf    \* units each worker has to echo

kernel == <<conn, peer, sent, recvd, table, armed>>
client == <<peer, sent, recvd>>
data == <<got, written, full>>
loop == <<lpc, batch>>
worker == <<wpc, event, outbuf>>
vars == <<phase, kernel, data, loop, jobs, worker>>

NoEvent == [fd |-> -1, conn |-> NoConn, hup |-> FALSE]

Init ==
    /\ phase = "up"
    /\ conn = [c \in Conns |-> "new"]
    /\ peer = [c \in Conns |-> "up"]
    /\ sent = [c \in Conns |-> 0]
    /\ recvd = [c \in Conns |-> 0]
    /\ table = [f \in Fds |-> NoConn]
    /\ armed = {}
    /\ got = [c \in Conns |-> 0]
    /\ written = [c \in Conns |-> <<>>]
    /\ full = [c \in Conns |-> FALSE]
    /\ lpc = "test"
    /\ batch = {}
    /\ jobs = <<>>
    /\ wpc = [w \in Workers |-> "idle"]
    /\ event = [w \in Workers |-> NoEvent]
    /\ outbuf = [w \in Workers |-> <<>>]

Alive == phase # "killed"
EpollOpen == phase \in {"up", "signalled"}
ListenOpen == phase \in {"up", "signalled", "epollClosed"}

-----------------------------------------------------------------------------
(* The clients.                                                            *)

Connect(c) ==
    /\ conn[c] = "new" /\ ListenOpen
    /\ conn' = [conn EXCEPT ![c] = "backlog"]
    /\ UNCHANGED <<phase, client, table, armed, data, loop, jobs, worker>>

Send(c) ==
    /\ conn[c] \in {"backlog", "open"} /\ peer[c] = "up"
    /\ sent[c] < MaxMsgs
    /\ sent' = [sent EXCEPT ![c] = @ + 1]
    /\ UNCHANGED <<phase, conn, peer, recvd, table, armed, data, loop, jobs, worker>>

Receive(c) ==
    /\ peer[c] # "reset"
    /\ recvd[c] < Len(written[c])
    /\ recvd' = [recvd EXCEPT ![c] = @ + 1]
    /\ UNCHANGED <<phase, conn, peer, sent, table, armed, data, loop, jobs, worker>>

\* shutdown() or close(); a closed client answers later data with a reset.
Finish(c) ==
    /\ conn[c] \in {"backlog", "open"} /\ peer[c] = "up"
    /\ peer' = [peer EXCEPT ![c] = "fin"]
    /\ UNCHANGED <<phase, conn, sent, recvd, table, armed, data, loop, jobs, worker>>

Reset(c) ==
    /\ conn[c] \in {"backlog", "open"} /\ peer[c] # "reset"
    /\ peer' = [peer EXCEPT ![c] = "reset"]
    /\ UNCHANGED <<phase, conn, sent, recvd, table, armed, data, loop, jobs, worker>>

ClientStep == \E c \in Conns : \/ Connect(c) \/ Send(c) \/ Receive(c)
                               \/ Finish(c) \/ Reset(c)

-----------------------------------------------------------------------------
(* main: the signal, then stop(), which closes the descriptors of epoll and *)
(* of the listening socket. The joins that follow are in ReactorPool.       *)

Stop ==
    /\ \/ phase = "up" /\ phase' = "signalled"
       \/ phase = "signalled" /\ phase' = "epollClosed"
       \/ phase = "epollClosed" /\ phase' = "closed"
    /\ UNCHANGED <<kernel, data, loop, jobs, worker>>

-----------------------------------------------------------------------------
(* What the kernel reports. Level-triggered for the listening socket; a    *)
(* connection that is armed and readable is in the ready list, since both  *)
(* arming it and new data put it there.                                    *)

Backlog == {c \in Conns : conn[c] = "backlog"}
Readable(c) == got[c] < sent[c] \/ peer[c] # "up"

Ready ==
    {[fd |-> f, conn |-> table[f], hup |-> peer[table[f]] = "reset"] :
        f \in {g \in armed : Readable(table[g])}}
    \cup
    {[fd |-> ListenFd, conn |-> NoConn, hup |-> FALSE] :
        x \in {y \in {ListenFd} : ListenOpen /\ Backlog # {}}}

Persistent(S) == armed

\* EPOLLONESHOT: reporting an event disables the descriptor.
OneShot(S) == armed \ {e.fd : e \in S}

FreeFds == {f \in Fds : table[f] = NoConn}

\* The lowest free number.
NewFd == Min(FreeFds)

-----------------------------------------------------------------------------
(* The loop thread.                                                        *)

\* while (g_running)
Test ==
    /\ Alive /\ lpc = "test"
    /\ lpc' = IF phase = "up" THEN "wait" ELSE "left"
    /\ UNCHANGED <<phase, kernel, data, batch, jobs, worker>>

\* epoll_wait returns the events there are. A call under way when stop() closes
\* the descriptor goes on.
Poll ==
    /\ Alive /\ lpc = "wait" /\ Ready # {}
    /\ batch' = Ready
    /\ armed' = OneShot(Ready)
    /\ lpc' = "batch"
    /\ UNCHANGED <<phase, conn, client, table, data, jobs, worker>>

\* epoll_wait times out, or fails because its descriptor is closed. While the
\* server runs this only makes the thread wait again.
PollNothing ==
    /\ Alive /\ lpc = "wait" /\ phase # "up"
    /\ lpc' = "test"
    /\ UNCHANGED <<phase, kernel, data, batch, jobs, worker>>

BatchDone ==
    /\ Alive /\ lpc = "batch" /\ batch = {}
    /\ lpc' = "test"
    /\ UNCHANGED <<phase, kernel, data, batch, jobs, worker>>

\* The event of the listening socket starts the accept loop. Once stop() has set
\* listen_fd_ to -1 it is taken for the event of a connection.
StartAccept(e) ==
    /\ Alive /\ lpc = "batch" /\ e \in batch
    /\ e.fd = ListenFd
    /\ batch' = batch \ {e}
    /\ lpc' = "accept"
    /\ UNCHANGED <<phase, kernel, data, jobs, worker>>

Dispatch(e) ==
    /\ Alive /\ lpc = "batch" /\ e \in batch
    /\ e.fd # ListenFd \/ ~ListenOpen
    /\ batch' = batch \ {e}
    /\ jobs' = Append(jobs, e)
    /\ UNCHANGED <<phase, kernel, data, lpc, worker>>

\* accept, then EPOLL_CTL_ADD, which fails once stop() has closed epoll: the
\* connection is closed again.
Accept(c) ==
    /\ Alive /\ lpc = "accept"
    /\ ListenOpen /\ conn[c] = "backlog" /\ FreeFds # {}
    /\ IF EpollOpen
       THEN /\ conn' = [conn EXCEPT ![c] = "open"]
            /\ table' = [table EXCEPT ![NewFd] = c]
            /\ armed' = armed \cup {NewFd}
       ELSE /\ conn' = [conn EXCEPT ![c] = "closed"]
            /\ UNCHANGED <<table, armed>>
    /\ UNCHANGED <<phase, client, data, loop, jobs, worker>>

\* accept fails: nobody is waiting, no descriptor is free, or the socket is closed.
AcceptEnd ==
    /\ Alive /\ lpc = "accept"
    /\ Backlog = {} \/ FreeFds = {} \/ ~ListenOpen
    /\ lpc' = "batch"
    /\ UNCHANGED <<phase, kernel, data, batch, jobs, worker>>

LoopStep == \/ Test \/ Poll \/ PollNothing \/ BatchDone
            \/ \E e \in batch : StartAccept(e) \/ Dispatch(e)
            \/ \E c \in Conns : Accept(c)
            \/ AcceptEnd

-----------------------------------------------------------------------------
(* A worker: handleEvent(fd, evts), one system call at a time.             *)

Goto(w, l) == wpc' = [wpc EXCEPT ![w] = l]

\* The connection behind the descriptor a worker uses: NoConn if it is closed.
At(w) == IF event[w].fd \in Fds THEN table[event[w].fd] ELSE NoConn

\* The worker takes a job; EPOLLHUP and EPOLLERR are looked at first.
Take(w) ==
    /\ Alive /\ wpc[w] = "idle" /\ jobs # <<>>
    /\ event' = [event EXCEPT ![w] = Head(jobs)]
    /\ jobs' = Tail(jobs)
    /\ Goto(w, IF Head(jobs).hup THEN "close" ELSE "read")
    /\ UNCHANGED <<phase, kernel, data, loop, outbuf>>

EndIsData(c) == c # NoConn /\ got[c] <= sent[c]

\* read returns n > 0.
HasData(c) == c # NoConn /\ got[c] < sent[c]

NoticesErrorsOnly(c) == IF c = NoConn THEN TRUE ELSE peer[c] = "reset"

\* With no data left read returns 0 or an error, not EAGAIN.
Gone(c) == IF c = NoConn THEN TRUE ELSE peer[c] # "up"

NextUnit(w) == got[At(w)] + 1

LastReadOnly(w) == <<NextUnit(w)>>

\* outbuf.append()
Collected(w) == Append(outbuf[w], NextUnit(w))

ReadData(w) ==
    /\ Alive /\ wpc[w] = "read" /\ HasData(At(w))
    /\ got' = [got EXCEPT ![At(w)] = NextUnit(w)]
    /\ outbuf' = [outbuf EXCEPT ![w] = Collected(w)]
    /\ UNCHANGED <<phase, kernel, written, full, loop, jobs, wpc, event>>

\* The connection is closed without an echo of what was read before.
ReadEnd(w) ==
    /\ Alive /\ wpc[w] = "read" /\ ~HasData(At(w))
    /\ Gone(At(w))
    /\ Goto(w, "close")
    /\ UNCHANGED <<phase, kernel, data, loop, jobs, event, outbuf>>

\* read returns EAGAIN.
ReadDry(w) ==
    /\ Alive /\ wpc[w] = "read" /\ ~HasData(At(w))
    /\ ~Gone(At(w))
    /\ Goto(w, "write")
    /\ UNCHANGED <<phase, kernel, data, loop, jobs, event, outbuf>>

WrittenAgain(w) == outbuf[w]

\* written += w
Unwritten(w) == Tail(outbuf[w])

Writing(w) == Alive /\ wpc[w] = "write" /\ outbuf[w] # <<>>
HasRoom(c) == Len(written[c]) - recvd[c] < SendBuf

WriteData(w) ==
    /\ Writing(w) /\ peer[At(w)] # "reset" /\ HasRoom(At(w))
    /\ written' = [written EXCEPT ![At(w)] = Append(@, Head(outbuf[w]))]
    /\ outbuf' = [outbuf EXCEPT ![w] = Unwritten(w)]
    /\ UNCHANGED <<phase, kernel, got, full, loop, jobs, wpc, event>>

\* write returns EAGAIN: the rest of outbuf is dropped.
WriteFull(w) ==
    /\ Writing(w) /\ peer[At(w)] # "reset" /\ ~HasRoom(At(w))
    /\ full' = [full EXCEPT ![At(w)] = TRUE]
    /\ outbuf' = [outbuf EXCEPT ![w] = <<>>]
    /\ Goto(w, "mod")
    /\ UNCHANGED <<phase, kernel, got, written, loop, jobs, event>>

\* write fails on a reset connection; SIGPIPE, which nobody ignores, may come
\* with it and end the process.
WriteError(w) ==
    /\ Writing(w) /\ peer[At(w)] = "reset"
    /\ phase' \in {phase, "killed"}
    /\ Goto(w, "close")
    /\ UNCHANGED <<kernel, data, loop, jobs, event, outbuf>>

WriteEnd(w) ==
    /\ Alive /\ wpc[w] = "write" /\ outbuf[w] = <<>>
    /\ Goto(w, "mod")
    /\ UNCHANGED <<phase, kernel, data, loop, jobs, event, outbuf>>

Return(w) ==
    /\ Goto(w, "idle")
    /\ event' = [event EXCEPT ![w] = NoEvent]
    /\ outbuf' = [outbuf EXCEPT ![w] = <<>>]

ForgetsToArm(w) == armed

\* ev.events = EPOLLIN | EPOLLET | EPOLLONESHOT
ArmedAgain(w) == armed \cup {event[w].fd}

\* EPOLL_CTL_MOD arms the descriptor again.
Rearm(w) ==
    /\ Alive /\ wpc[w] = "mod" /\ EpollOpen
    /\ armed' = ArmedAgain(w)
    /\ Return(w)
    /\ UNCHANGED <<phase, conn, client, table, data, loop, jobs>>

\* EPOLL_CTL_MOD fails once stop() has closed epoll.
RearmFails(w) ==
    /\ Alive /\ wpc[w] = "mod" /\ ~EpollOpen
    /\ Goto(w, "close")
    /\ UNCHANGED <<phase, kernel, data, loop, jobs, event, outbuf>>

FallsThrough(w) == Goto(w, "mod") /\ UNCHANGED <<event, outbuf>>

\* closeConnection(fd) is followed by a return from handleEvent.
AfterClose(w) == Return(w)

\* closeConnection(fd)
Close(w) ==
    /\ Alive /\ wpc[w] = "close"
    /\ conn' = [c \in Conns |-> IF c = At(w) THEN "closed" ELSE conn[c]]
    /\ table' = [f \in Fds |-> IF f = event[w].fd THEN NoConn ELSE table[f]]
    /\ armed' = armed \ {event[w].fd}
    /\ AfterClose(w)
    /\ UNCHANGED <<phase, client, data, loop, jobs>>

WorkerStep(w) ==
    \/ Take(w)
    \/ ReadData(w) \/ ReadEnd(w) \/ ReadDry(w)
    \/ WriteData(w) \/ WriteFull(w) \/ WriteError(w) \/ WriteEnd(w)
    \/ Rearm(w) \/ RearmFails(w)
    \/ Close(w)

Next == ClientStep \/ Stop \/ LoopStep \/ \E w \in Workers : WorkerStep(w)

Spec == Init /\ [][Next]_vars

\* The threads of the server are scheduled; clients and the signal need not act.
FairSpec == /\ Spec
            /\ WF_vars(LoopStep)
            /\ \A w \in Workers : WF_vars(WorkerStep(w))

-----------------------------------------------------------------------------
Events == [fd : Fds \cup {ListenFd}, conn : Conns \cup {NoConn}, hup : BOOLEAN]
Units == 1 .. MaxMsgs

TypeOK ==
    /\ phase \in {"up", "signalled", "epollClosed", "closed", "killed"}
    /\ conn \in [Conns -> {"new", "backlog", "open", "closed"}]
    /\ peer \in [Conns -> {"up", "fin", "reset"}]
    /\ sent \in [Conns -> 0 .. MaxMsgs]
    /\ recvd \in [Conns -> 0 .. MaxMsgs]
    /\ table \in [Fds -> Conns \cup {NoConn}]
    /\ armed \in SUBSET Fds
    /\ got \in [Conns -> 0 .. MaxMsgs]
    /\ written \in [Conns -> Seq(Units)]
    /\ full \in [Conns -> BOOLEAN]
    /\ lpc \in {"test", "wait", "batch", "accept", "left"}
    /\ batch \in SUBSET Events
    /\ jobs \in Seq(Events)
    /\ wpc \in [Workers -> {"idle", "read", "write", "mod", "close"}]
    /\ event \in [Workers -> Events \cup {NoEvent}]
    /\ outbuf \in [Workers -> Seq(Units)]

Busy == {w \in Workers : wpc[w] # "idle"}

\* How many times a descriptor is armed, reported, queued or handled.
Tokens(f) ==
    (IF f \in armed THEN 1 ELSE 0)
    + Cardinality({e \in batch : e.fd = f})
    + Cardinality({i \in 1 .. Len(jobs) : jobs[i].fd = f})
    + Cardinality({w \in Busy : event[w].fd = f})

\* EPOLLONESHOT and the re-arming at the end of handleEvent are what keeps two
\* workers from reading one socket, and what keeps a connection from being
\* forgotten: an open descriptor is armed, reported, queued or handled, and
\* only one of these, and a closed one is none of them.
OneOwner == \A f \in Fds : Tokens(f) = IF table[f] = NoConn THEN 0 ELSE 1

Pending == batch \cup {jobs[i] : i \in 1 .. Len(jobs)} \cup {event[w] : w \in Busy}

\* Neither an event of a batch, nor a job, nor a running handler survives the
\* connection it is about, so none can reach a connection that got the same
\* descriptor later, and closeConnection closes no stranger's.
NoStaleEvent == \A e \in Pending : e.fd \in Fds => e.conn # NoConn /\ table[e.fd] = e.conn

\* One handler after another on a connection, in different workers, echo its
\* data in order and without repetition, whatever each of them leaves out.
EchoInOrder ==
    \A c \in Conns :
        /\ \A i, j \in 1 .. Len(written[c]) : i < j => written[c][i] < written[c][j]
        /\ \A i \in 1 .. Len(written[c]) : written[c][i] <= got[c]

Handled(c) == \E w \in Busy : event[w].conn = c

\* On a connection that is still open nothing that was read is left out of the
\* echo unless the client let the send buffer fill up.
LostOnlyWhenFull ==
    \A c \in Conns : conn[c] = "open" /\ ~full[c] /\ ~Handled(c) =>
        Len(written[c]) = got[c]

\* An edge-triggered descriptor reports what came while it was disarmed only
\* because it is armed again: data on an open connection is read, whenever it
\* comes, unless the server ends or the connection does.
DataIsRead ==
    \A c \in Conns :
        (conn[c] = "open" /\ got[c] < sent[c]) ~>
            (got[c] = sent[c] \/ conn[c] = "closed" \/ phase # "up")

\* A connection whose client is gone gives its descriptor back, and one that waits
\* because accept found no descriptor free (server_reactor.cpp:197) is accepted once
\* there is one, unless another takes it.
GoneIsClosed ==
    \A c \in Conns :
        /\ (conn[c] = "open" /\ peer[c] # "up") ~> (conn[c] = "closed" \/ phase # "up")
        /\ (conn[c] = "backlog" /\ FreeFds # {}) ~>
               (conn[c] # "backlog" \/ FreeFds = {} \/ phase # "up")

\* "write back (simple echo)" (server_reactor.cpp:265): what the server read from
\* a client that then only half-closed is echoed before the server closes.
EchoedBeforeClose ==
    \A c \in Conns :
        conn[c] = "closed" /\ peer[c] = "fin" /\ ~full[c] => Len(written[c]) = got[c]
=============================================================================
