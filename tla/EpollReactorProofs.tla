-------------------------- MODULE EpollReactorProofs --------------------------
(***************************************************************************)
(* Proofs about EpollReactor for any set of connections, descriptors and   *)
(* workers: who owns a descriptor, that no event outlives the connection   *)
(* it was raised for, and, for any number of units and any send buffer,    *)
(* what the handlers echo.                                                 *)
(***************************************************************************)
EXTENDS EpollReactor, SequenceTheorems, FiniteSetTheorems, WellFoundedInduction, TLAPS

\* The types of what the argument is about.
Types ==
    /\ conn \in [Conns -> {"new", "backlog", "open", "closed"}]
    /\ table \in [Fds -> Conns \cup {NoConn}]
    /\ armed \subseteq Fds
    /\ batch \subseteq Events
    /\ jobs \in Seq(Events)
    /\ wpc \in [Workers -> {"idle", "read", "write", "mod", "close"}]
    /\ event \in [Workers -> Events \cup {NoEvent}]
    /\ \A w \in Busy : event[w] \in Events
    /\ \A w \in Workers : wpc[w] \in {"write", "mod"} => event[w].fd \in Fds
    /\ lpc \in {"batch", "accept"} \/ batch = {}

\* Where an event of a descriptor can be.
InBatch(f) == \E e \in batch : e.fd = f
InJobs(f) == \E i \in 1 .. Len(jobs) : jobs[i].fd = f
InWorker(f) == \E w \in Busy : event[w].fd = f

\* A descriptor is in one of these places at most, and there only once.
Exclusive ==
    /\ \A f \in armed : ~InBatch(f) /\ ~InJobs(f) /\ ~InWorker(f)
    /\ \A f \in Fds : /\ ~(InBatch(f) /\ InJobs(f))
                      /\ ~(InBatch(f) /\ InWorker(f))
                      /\ ~(InJobs(f) /\ InWorker(f))
    /\ \A d, e \in batch : d.fd \in Fds /\ d.fd = e.fd => d = e
    /\ \A i, j \in 1 .. Len(jobs) : jobs[i].fd \in Fds /\ jobs[i].fd = jobs[j].fd => i = j
    /\ \A v, w \in Busy : event[v].fd \in Fds /\ event[v].fd = event[w].fd => v = w

\* An event of a descriptor names the connection that has it.
Current(e) == e.fd \in Fds => e.conn # NoConn /\ table[e.fd] = e.conn

Live ==
    /\ \A f \in armed : table[f] # NoConn
    /\ \A e \in batch : Current(e)
    /\ \A i \in 1 .. Len(jobs) : Current(jobs[i])
    /\ \A w \in Busy : Current(event[w])

\* A descriptor with a connection is in one of the places.
Kept == \A f \in Fds : table[f] # NoConn =>
            f \in armed \/ InBatch(f) \/ InJobs(f) \/ InWorker(f)

\* An open connection has a descriptor of its own.
Opened ==
    /\ \A f \in Fds : table[f] # NoConn => conn[table[f]] = "open"
    /\ \A f, g \in Fds : table[f] # NoConn /\ table[f] = table[g] => f = g

Owned == Types /\ Exclusive /\ Live /\ Kept /\ Opened

-----------------------------------------------------------------------------
\* accept returns a descriptor that is free: numbers have a least one.
LEMMA LeastFd == ASSUME FreeFds # {} PROVE NewFd \in FreeFds
<1> DEFINE R == OpToRel(<, Nat)
<1>1. IsWellFoundedOn(R, Nat)
  BY NatLessThanWellFounded, Zenon
<1>2. FreeFds \subseteq Nat
  BY EpollAssumption DEF FreeFds
<1>3. PICK x \in FreeFds : \A y \in FreeFds : ~(<<y, x>> \in R)
  <2> HIDE DEF R
  <2>1. QED
    BY <1>1, <1>2, WFMin
<1>4. \A y \in FreeFds : ~(y < x)
  BY <1>2, <1>3 DEF OpToRel
<1>5. \A y \in FreeFds : x <= y
  BY <1>2, <1>4
<1>6. QED
  BY <1>5 DEF NewFd, Min

\* The queue of jobs changes at its two ends only.
LEMMA AfterAppend ==
  ASSUME jobs \in Seq(Events), NEW e \in Events, jobs' = Append(jobs, e)
  PROVE  /\ jobs' \in Seq(Events)
         /\ Len(jobs) \in Nat /\ Len(jobs') = Len(jobs) + 1
         /\ \A i \in 1 .. Len(jobs) : jobs'[i] = jobs[i]
         /\ jobs'[Len(jobs) + 1] = e
<1>1. QED
  BY AppendProperties, LenProperties

\* What is left of the queue after a job was taken from it.
LEMMA AfterTail ==
  ASSUME jobs \in Seq(Events), jobs # <<>>, jobs' = Tail(jobs)
  PROVE  /\ jobs' \in Seq(Events)
         /\ Len(jobs) \in Nat \ {0} /\ Len(jobs') = Len(jobs) - 1
         /\ \A i \in 1 .. Len(jobs') : i + 1 \in 1 .. Len(jobs) /\ jobs'[i] = jobs[i + 1]
         /\ Head(jobs) = jobs[1] /\ jobs[1] \in Events
<1>1. QED
  BY HeadTailProperties, EmptySeq

\* A step that changes none of the places, and opens or closes no connection,
\* keeps all of this.
LEMMA KeepsPlaces ==
  ASSUME Exclusive, Live, Kept, Opened,
         UNCHANGED <<table, armed, batch, jobs, event>>,
         Busy' = Busy,
         \A c \in Conns : conn'[c] = "open" <=> conn[c] = "open",
         table \in [Fds -> Conns \cup {NoConn}]
  PROVE  Exclusive' /\ Live' /\ Kept' /\ Opened'
<1>1. \A f : /\ InBatch(f)' <=> InBatch(f)
             /\ InJobs(f)' <=> InJobs(f)
             /\ InWorker(f)' <=> InWorker(f)
  BY DEF InBatch, InJobs, InWorker
<1>2. Exclusive'
  BY <1>1 DEF Exclusive
<1>3. Live'
  BY DEF Live, Current
<1>4. Kept'
  BY <1>1 DEF Kept
<1>5. Opened'
  BY DEF Opened
<1>6. QED
  BY <1>2, <1>3, <1>4, <1>5

\* At first no descriptor has a connection.
LEMMA InitOwned == Init => Owned
<1> SUFFICES ASSUME Init PROVE Owned
  OBVIOUS
<1> USE DEF Init
<1>1. Len(jobs) = 0 /\ jobs \in Seq(Events)
  BY EmptySeq
<1>2. Busy = {}
  BY DEF Busy
<1>3. Types
  <2>1. event \in [Workers -> Events \cup {NoEvent}]
    BY Zenon
  <2>2. table \in [Fds -> Conns \cup {NoConn}]
    BY Zenon
  <2>3. QED
    BY <1>1, <1>2, <2>1, <2>2 DEF Types
<1>4. Exclusive
  BY <1>1, <1>2 DEF Exclusive, InBatch, InJobs, InWorker
<1>5. Live /\ Kept /\ Opened
  BY <1>1, <1>2 DEF Live, Kept, Opened
<1>6. QED
  BY <1>3, <1>4, <1>5 DEF Owned

\* The steps that move no event between places.
LEMMA QuietSteps ==
  ASSUME Owned,
         \/ ClientStep \/ Stop \/ Test \/ PollNothing \/ BatchDone \/ AcceptEnd
         \/ \E w \in Workers : \/ ReadData(w) \/ ReadEnd(w) \/ ReadDry(w) \/ WriteData(w)
                               \/ WriteFull(w) \/ WriteError(w) \/ WriteEnd(w) \/ RearmFails(w)
         \/ UNCHANGED vars
  PROVE  Owned'
<1>0. Types /\ Exclusive /\ Live /\ Kept /\ Opened
  BY DEF Owned
<1> DEFINE Quiet == /\ Types'
                    /\ UNCHANGED <<table, armed, batch, jobs, event>>
                    /\ Busy' = Busy
                    /\ \A c \in Conns : conn'[c] = "open" <=> conn[c] = "open"
<1>1. ASSUME Quiet PROVE Owned'
  BY <1>0, <1>1, KeepsPlaces DEF Owned, Types
<1> USE DEF Types, Busy, kernel, client, data, loop, worker
<1>2. ASSUME ClientStep PROVE Quiet
  BY <1>0, <1>2 DEF ClientStep, Connect, Send, Receive, Finish, Reset
<1>3. ASSUME Stop PROVE Quiet
  BY <1>0, <1>3 DEF Stop
<1>4. ASSUME Test \/ PollNothing \/ BatchDone \/ AcceptEnd PROVE Quiet
  BY <1>0, <1>4 DEF Test, PollNothing, BatchDone, AcceptEnd
<1>5. ASSUME NEW w \in Workers, ReadData(w) PROVE Quiet
  BY <1>0, <1>5 DEF ReadData
<1>6. ASSUME NEW w \in Workers, ReadEnd(w) PROVE Quiet
  BY <1>0, <1>6 DEF ReadEnd, Goto
<1>7. ASSUME NEW w \in Workers, ReadDry(w) PROVE Quiet
  BY <1>0, <1>7 DEF ReadDry, Goto, Gone, At
<1>8. ASSUME NEW w \in Workers, WriteData(w) PROVE Quiet
  BY <1>0, <1>8 DEF WriteData
<1>9. ASSUME NEW w \in Workers, WriteFull(w) PROVE Quiet
  BY <1>0, <1>9 DEF WriteFull, Writing, Goto
<1>10. ASSUME NEW w \in Workers, WriteError(w) PROVE Quiet
  BY <1>0, <1>10 DEF WriteError, Writing, Goto
<1>11. ASSUME NEW w \in Workers, WriteEnd(w) PROVE Quiet
  BY <1>0, <1>11 DEF WriteEnd, Goto
<1>12. ASSUME NEW w \in Workers, RearmFails(w) PROVE Quiet
  BY <1>0, <1>12 DEF RearmFails, Goto
<1>13. ASSUME UNCHANGED vars PROVE Quiet
  BY <1>0, <1>13 DEF vars
<1> HIDE DEF Quiet
<1>14. QED
  BY <1>1, <1>2, <1>3, <1>4, <1>5, <1>6, <1>7, <1>8, <1>9, <1>10, <1>11, <1>12, <1>13

\* epoll_wait reports armed descriptors and disarms them, and the batch before
\* has been looked at.
LEMMA PollOwned == ASSUME Owned, Poll PROVE Owned'
<1> USE EpollAssumption
<1>0. Types /\ Exclusive /\ Live /\ Kept /\ Opened
  BY DEF Owned
<1>1. /\ batch = {} /\ batch' = Ready /\ armed' = armed \ {e.fd : e \in Ready}
      /\ UNCHANGED <<conn, table, jobs, wpc, event>> /\ lpc' = "batch"
  BY <1>0 DEF Poll, Types, OneShot, worker
<1>2. Ready \subseteq Events
  <2>1. ASSUME NEW e \in Ready PROVE e \in Events
    <3>1. CASE \E f \in armed :
                 e = [fd |-> f, conn |-> table[f], hup |-> peer[table[f]] = "reset"]
      <4>1. PICK f \in armed :
              e = [fd |-> f, conn |-> table[f], hup |-> peer[table[f]] = "reset"]
        BY <3>1
      <4>2. f \in Fds /\ table[f] \in Conns \cup {NoConn}
        BY <1>0 DEF Types
      <4>3. (peer[table[f]] = "reset") \in BOOLEAN
        OBVIOUS
      <4>4. QED
        BY <4>1, <4>2, <4>3, Zenon DEF Events
    <3>2. CASE e = [fd |-> ListenFd, conn |-> NoConn, hup |-> FALSE]
      BY <3>2 DEF Events
    <3>3. QED
      BY <2>1, <3>1, <3>2, Zenon DEF Ready
  <2>2. QED
    BY <2>1
<1>3. \A e \in Ready : e.fd \in Fds =>
        e.fd \in armed /\ e.conn = table[e.fd] /\ e.hup = (peer[table[e.fd]] = "reset")
  BY <1>0 DEF Ready, Types
<1>4. \A f : /\ InJobs(f)' <=> InJobs(f)
             /\ InWorker(f)' <=> InWorker(f)
             /\ InBatch(f)' <=> \E e \in Ready : e.fd = f
  BY <1>1 DEF InJobs, InWorker, InBatch, Busy
<1>5. Types'
  BY <1>0, <1>1, <1>2 DEF Types, Busy
<1>6. Exclusive'
  <2>1. \A d, e \in Ready : d.fd \in Fds /\ d.fd = e.fd => d = e
    BY <1>2, <1>3 DEF Events
  <2>2. \A f \in armed' : f \in armed /\ ~InBatch(f)'
    BY <1>1, <1>4
  <2>3. QED
    BY <1>0, <1>1, <1>3, <1>4, <2>1, <2>2 DEF Exclusive, Busy
<1>7. Live'
  BY <1>0, <1>1, <1>3 DEF Live, Current, Busy
<1>8. Kept'
  BY <1>0, <1>1, <1>4 DEF Kept, InBatch
<1>9. Opened'
  BY <1>0, <1>1 DEF Opened
<1>10. QED
  BY <1>5, <1>6, <1>7, <1>8, <1>9 DEF Owned

\* The event of the listening descriptor is put aside.
LEMMA StartAcceptOwned == ASSUME Owned, NEW e \in batch, StartAccept(e) PROVE Owned'
<1> USE EpollAssumption
<1>0. Types /\ Exclusive /\ Live /\ Kept /\ Opened
  BY DEF Owned
<1>1. /\ e.fd = ListenFd /\ batch' = batch \ {e} /\ lpc' = "accept"
      /\ UNCHANGED <<conn, table, armed, jobs, wpc, event>>
  BY DEF StartAccept, kernel, worker
<1>2. \A f \in Fds : /\ InJobs(f)' <=> InJobs(f)
                     /\ InWorker(f)' <=> InWorker(f)
                     /\ InBatch(f)' <=> InBatch(f)
  BY <1>1 DEF InJobs, InWorker, InBatch, Busy
<1>3. Types'
  BY <1>0, <1>1 DEF Types, Busy
<1>4. Exclusive'
  BY <1>0, <1>1, <1>2 DEF Exclusive, Busy, Types
<1>5. Live'
  BY <1>0, <1>1 DEF Live, Current, Busy
<1>6. Kept'
  BY <1>0, <1>1, <1>2 DEF Kept
<1>7. Opened'
  BY <1>0, <1>1 DEF Opened
<1>8. QED
  BY <1>3, <1>4, <1>5, <1>6, <1>7 DEF Owned

\* A dispatch moves an event from the batch to the end of the queue.
LEMMA DispatchOwned == ASSUME Owned, NEW e \in batch, Dispatch(e) PROVE Owned'
<1> USE EpollAssumption
<1>0. Types /\ Exclusive /\ Live /\ Kept /\ Opened
  BY DEF Owned
<1>1. /\ batch' = batch \ {e} /\ jobs' = Append(jobs, e) /\ lpc = "batch"
      /\ UNCHANGED <<conn, table, armed, wpc, event, lpc>>
  BY DEF Dispatch, kernel, worker
<1>2. /\ jobs' \in Seq(Events)
      /\ Len(jobs) \in Nat /\ Len(jobs') = Len(jobs) + 1
      /\ \A i \in 1 .. Len(jobs) : jobs'[i] = jobs[i]
      /\ jobs'[Len(jobs) + 1] = e
  BY <1>0, <1>1, AfterAppend DEF Types
<1>3. \A f \in Fds : InJobs(f)' <=> InJobs(f) \/ f = e.fd
  BY <1>2 DEF InJobs
<1>4. \A f \in Fds : /\ InWorker(f)' <=> InWorker(f)
                     /\ InBatch(f)' <=> InBatch(f) /\ f # e.fd
  BY <1>0, <1>1 DEF InWorker, InBatch, Busy, Exclusive
<1>5. Types'
  BY <1>0, <1>1, <1>2 DEF Types, Busy
<1>6. Exclusive'
  <2>1. \A i, j \in 1 .. Len(jobs') : jobs'[i].fd \in Fds /\ jobs'[i].fd = jobs'[j].fd => i = j
    <3>1. e.fd \in Fds => \A i \in 1 .. Len(jobs) : jobs[i].fd # e.fd
      BY <1>0 DEF Exclusive, InBatch, InJobs
    <3>2. \A i \in 1 .. Len(jobs') : i \in 1 .. Len(jobs) \/ i = Len(jobs) + 1
      BY <1>2
    <3>3. QED
      BY <1>0, <1>2, <3>1, <3>2 DEF Exclusive
  <2>2. InBatch(e.fd)
    BY DEF InBatch
  <2>3. \A f \in armed' : ~InBatch(f)' /\ ~InJobs(f)' /\ ~InWorker(f)'
    BY <1>0, <1>1, <1>3, <1>4, <2>2 DEF Exclusive, Types
  <2>4. \A f \in Fds : /\ ~(InBatch(f)' /\ InJobs(f)')
                       /\ ~(InBatch(f)' /\ InWorker(f)')
                       /\ ~(InJobs(f)' /\ InWorker(f)')
    BY <1>0, <1>3, <1>4, <2>2 DEF Exclusive
  <2>5. QED
    BY <1>0, <1>1, <2>1, <2>3, <2>4 DEF Exclusive, Busy
<1>7. Live'
  <2>1. \A i \in 1 .. Len(jobs') : Current(jobs'[i])
    BY <1>0, <1>2 DEF Live
  <2>2. QED
    BY <1>0, <1>1, <2>1 DEF Live, Current, Busy
<1>8. Kept'
  BY <1>0, <1>1, <1>3, <1>4 DEF Kept
<1>9. Opened'
  BY <1>0, <1>1 DEF Opened
<1>10. QED
  BY <1>5, <1>6, <1>7, <1>8, <1>9 DEF Owned

\* accept arms a descriptor that nothing is left of.
LEMMA AcceptOwned == ASSUME Owned, NEW c \in Conns, Accept(c) PROVE Owned'
<1> USE EpollAssumption
<1>0. Types /\ Exclusive /\ Live /\ Kept /\ Opened
  BY DEF Owned
<1>1. /\ UNCHANGED <<batch, jobs, wpc, event, lpc>> /\ conn[c] = "backlog"
      /\ NewFd \in Fds /\ table[NewFd] = NoConn
  BY LeastFd DEF Accept, loop, worker, FreeFds
<1>2. \A f : /\ InJobs(f)' <=> InJobs(f)
             /\ InWorker(f)' <=> InWorker(f)
             /\ InBatch(f)' <=> InBatch(f)
  BY <1>1 DEF InJobs, InWorker, InBatch, Busy
<1>3. CASE EpollOpen
  <2>1. /\ conn' = [conn EXCEPT ![c] = "open"]
        /\ table' = [table EXCEPT ![NewFd] = c]
        /\ armed' = armed \cup {NewFd}
    BY <1>3 DEF Accept
  <2>2. ~InBatch(NewFd) /\ ~InJobs(NewFd) /\ ~InWorker(NewFd)
    BY <1>0, <1>1 DEF Live, Current, InBatch, InJobs, InWorker
  <2>3. Types'
    BY <1>0, <1>1, <2>1 DEF Types, Busy
  <2>4. Exclusive'
    BY <1>0, <1>1, <1>2, <2>1, <2>2 DEF Exclusive, Busy
  <2>5. Live'
    BY <1>0, <1>1, <2>1, <2>2 DEF Live, Current, Busy, InBatch, InJobs, InWorker, Types
  <2>6. Kept'
    BY <1>0, <1>1, <1>2, <2>1 DEF Kept, Types
  <2>7. Opened'
    <3>1. \A f \in Fds : table[f] # c
      BY <1>0, <1>1 DEF Opened
    <3>2. QED
      BY <1>0, <1>1, <2>1, <3>1 DEF Opened, Types
  <2>8. QED
    BY <2>3, <2>4, <2>5, <2>6, <2>7 DEF Owned
<1>4. CASE ~EpollOpen
  <2>1. UNCHANGED <<table, armed>> /\ conn' = [conn EXCEPT ![c] = "closed"]
    BY <1>4 DEF Accept
  <2>2. Types' /\ Busy' = Busy
    BY <1>0, <1>1, <2>1 DEF Types, Busy
  <2>3. \A d \in Conns : conn'[d] = "open" <=> conn[d] = "open"
    BY <1>0, <1>1, <2>1 DEF Types
  <2>4. QED
    BY <1>0, <1>1, <2>1, <2>2, <2>3, KeepsPlaces DEF Owned, Types
<1>5. QED
  BY <1>3, <1>4

\* A worker takes the oldest job.
LEMMA TakeOwned == ASSUME Owned, NEW w \in Workers, Take(w) PROVE Owned'
<1> USE EpollAssumption
<1> DEFINE e == jobs[1]
<1>0. Types /\ Exclusive /\ Live /\ Kept /\ Opened
  BY DEF Owned
<1>1. /\ jobs # <<>> /\ jobs' = Tail(jobs) /\ wpc[w] = "idle"
      /\ event' = [event EXCEPT ![w] = Head(jobs)]
      /\ wpc' = [wpc EXCEPT ![w] = IF Head(jobs).hup THEN "close" ELSE "read"]
      /\ UNCHANGED <<conn, table, armed, batch, lpc>>
  BY DEF Take, Goto, kernel, loop
<1>2. /\ jobs' \in Seq(Events)
      /\ Len(jobs) \in Nat \ {0} /\ Len(jobs') = Len(jobs) - 1
      /\ \A i \in 1 .. Len(jobs') : i + 1 \in 1 .. Len(jobs) /\ jobs'[i] = jobs[i + 1]
      /\ Head(jobs) = e /\ e \in Events
  BY <1>0, <1>1, AfterTail DEF Types
<1>3. /\ Busy' = Busy \cup {w} /\ w \notin Busy
      /\ event'[w] = e
      /\ \A v \in Busy : event'[v] = event[v]
  BY <1>0, <1>1, <1>2 DEF Busy, Types
<1>4. \A i \in 1 .. Len(jobs') : e.fd \in Fds => jobs'[i].fd # e.fd
  <2>1. SUFFICES ASSUME NEW i \in 1 .. Len(jobs'), e.fd \in Fds, jobs[i + 1].fd = e.fd
                 PROVE  FALSE
    BY <1>2
  <2>2. 1 \in 1 .. Len(jobs) /\ i + 1 \in 1 .. Len(jobs) /\ i + 1 # 1
    BY <1>2
  <2>3. QED
    BY <1>0, <2>1, <2>2 DEF Exclusive
<1>5. \A f \in Fds : InJobs(f)' <=> InJobs(f) /\ f # e.fd
  <2>1. ASSUME NEW f \in Fds, InJobs(f)' PROVE InJobs(f) /\ f # e.fd
    BY <1>2, <1>4, <2>1 DEF InJobs
  <2>2. ASSUME NEW f \in Fds, InJobs(f), f # e.fd PROVE InJobs(f)'
    <3>1. PICK i \in 1 .. Len(jobs) : jobs[i].fd = f
      BY <2>2 DEF InJobs
    <3>2. i - 1 \in 1 .. Len(jobs') /\ jobs'[i - 1] = jobs[i]
      BY <1>2, <2>2, <3>1
    <3>3. QED
      BY <3>1, <3>2 DEF InJobs
  <2>3. QED
    BY <2>1, <2>2
<1>6. \A f \in Fds : /\ InWorker(f)' <=> InWorker(f) \/ f = e.fd
                     /\ InBatch(f)' <=> InBatch(f)
  BY <1>1, <1>3 DEF InWorker, InBatch
<1>7. InJobs(e.fd)
  BY <1>2 DEF InJobs
<1>8. Types'
  <2>1. wpc' \in [Workers -> {"idle", "read", "write", "mod", "close"}]
    BY <1>0, <1>1 DEF Types
  <2>2. event' \in [Workers -> Events \cup {NoEvent}]
    BY <1>0, <1>1, <1>2 DEF Types
  <2>3. \A v \in Busy' : event'[v] \in Events
    BY <1>0, <1>2, <1>3 DEF Types
  <2>4. \A v \in Workers : wpc'[v] \in {"write", "mod"} => event'[v].fd \in Fds
    BY <1>0, <1>1 DEF Types
  <2>5. QED
    BY <1>0, <1>1, <1>2, <2>1, <2>2, <2>3, <2>4 DEF Types
<1>9. Exclusive'
  <2>1. \A i, j \in 1 .. Len(jobs') : jobs'[i].fd \in Fds /\ jobs'[i].fd = jobs'[j].fd => i = j
    <3>1. SUFFICES ASSUME NEW i \in 1 .. Len(jobs'), NEW j \in 1 .. Len(jobs'),
                          jobs[i + 1].fd \in Fds, jobs[i + 1].fd = jobs[j + 1].fd
                   PROVE  i = j
      BY <1>2
    <3>2. i + 1 = j + 1
      BY <1>0, <1>2, <3>1 DEF Exclusive
    <3>3. QED
      BY <1>2, <3>2
  <2>2. \A v, u \in Busy' : event'[v].fd \in Fds /\ event'[v].fd = event'[u].fd => v = u
    <3>1. e.fd \in Fds => \A v \in Busy : event[v].fd # e.fd
      BY <1>0, <1>7 DEF Exclusive, InWorker
    <3>2. QED
      BY <1>0, <1>3, <3>1 DEF Exclusive
  <2>3. \A f \in armed' : ~InBatch(f)' /\ ~InJobs(f)' /\ ~InWorker(f)'
    BY <1>0, <1>1, <1>5, <1>6, <1>7 DEF Exclusive, Types
  <2>4. \A f \in Fds : /\ ~(InBatch(f)' /\ InJobs(f)')
                       /\ ~(InBatch(f)' /\ InWorker(f)')
                       /\ ~(InJobs(f)' /\ InWorker(f)')
    BY <1>0, <1>5, <1>6, <1>7 DEF Exclusive
  <2>5. QED
    BY <1>0, <1>1, <2>1, <2>2, <2>3, <2>4 DEF Exclusive
<1>10. Live'
  <2>1. Current(e)
    BY <1>0, <1>2 DEF Live
  <2>2. QED
    BY <1>0, <1>1, <1>2, <1>3, <2>1 DEF Live, Current
<1>11. Kept'
  BY <1>0, <1>1, <1>5, <1>6 DEF Kept
<1>12. Opened'
  BY <1>0, <1>1 DEF Opened
<1>13. QED
  BY <1>8, <1>9, <1>10, <1>11, <1>12 DEF Owned

\* The two ways in which a handler ends take its descriptor from the worker.
LEMMA ReturnLeaves ==
  ASSUME Types, Exclusive, NEW w \in Busy, Return(w),
         UNCHANGED <<batch, jobs>>
  PROVE  /\ Busy' = Busy \ {w}
         /\ \A v \in Busy' : event'[v] = event[v]
         /\ wpc' = [wpc EXCEPT ![w] = "idle"]
         /\ event' \in [Workers -> Events \cup {NoEvent}]
         /\ InWorker(event[w].fd)
         /\ \A f \in Fds : /\ InWorker(f)' <=> InWorker(f) /\ f # event[w].fd
                           /\ InBatch(f)' <=> InBatch(f)
                           /\ InJobs(f)' <=> InJobs(f)
<1>1. /\ Busy' = Busy \ {w}
      /\ \A v \in Busy' : event'[v] = event[v]
      /\ wpc' = [wpc EXCEPT ![w] = "idle"]
      /\ event' \in [Workers -> Events \cup {NoEvent}]
  BY DEF Return, Goto, Types, Busy
<1>2. \A f \in Fds : InWorker(f)' <=> InWorker(f) /\ f # event[w].fd
  BY <1>1 DEF InWorker, Exclusive
<1>3. QED
  BY <1>1, <1>2 DEF InWorker, InBatch, InJobs

\* A handler that ends well arms its descriptor again.
LEMMA RearmOwned == ASSUME Owned, NEW w \in Workers, Rearm(w) PROVE Owned'
<1> DEFINE fd == event[w].fd
<1>0. Types /\ Exclusive /\ Live /\ Kept /\ Opened
  BY DEF Owned
<1>1. /\ w \in Busy /\ fd \in Fds /\ Return(w)
      /\ armed' = armed \cup {fd}
      /\ UNCHANGED <<conn, table, batch, jobs, lpc>>
  BY <1>0 DEF Rearm, ArmedAgain, Types, Busy, loop
<1>2. /\ Busy' = Busy \ {w}
      /\ \A v \in Busy' : event'[v] = event[v]
      /\ wpc' = [wpc EXCEPT ![w] = "idle"]
      /\ event' \in [Workers -> Events \cup {NoEvent}]
      /\ InWorker(fd)
      /\ \A f \in Fds : /\ InWorker(f)' <=> InWorker(f) /\ f # fd
                        /\ InBatch(f)' <=> InBatch(f)
                        /\ InJobs(f)' <=> InJobs(f)
  BY <1>0, <1>1, ReturnLeaves
<1>3. Types'
  BY <1>0, <1>1, <1>2 DEF Types, Busy
<1>4. Exclusive'
  BY <1>0, <1>1, <1>2 DEF Exclusive, Types
<1>5. Live'
  BY <1>0, <1>1, <1>2 DEF Live, Current
<1>6. Kept'
  BY <1>0, <1>1, <1>2 DEF Kept
<1>7. Opened'
  BY <1>0, <1>1 DEF Opened
<1>8. QED
  BY <1>3, <1>4, <1>5, <1>6, <1>7 DEF Owned

\* closeConnection closes the connection the handler is about, and frees its
\* descriptor when nothing else is left of it.
LEMMA CloseOwned == ASSUME Owned, NEW w \in Workers, Close(w) PROVE Owned'
<1> DEFINE fd == event[w].fd
<1>0. Types /\ Exclusive /\ Live /\ Kept /\ Opened
  BY DEF Owned
<1>1. /\ w \in Busy /\ Return(w)
      /\ conn' = [c \in Conns |-> IF c = At(w) THEN "closed" ELSE conn[c]]
      /\ table' = [f \in Fds |-> IF f = fd THEN NoConn ELSE table[f]]
      /\ armed' = armed \ {fd}
      /\ UNCHANGED <<batch, jobs, lpc>>
  BY <1>0 DEF Close, AfterClose, Busy, loop
<1>2. /\ Busy' = Busy \ {w}
      /\ \A v \in Busy' : event'[v] = event[v]
      /\ wpc' = [wpc EXCEPT ![w] = "idle"]
      /\ event' \in [Workers -> Events \cup {NoEvent}]
      /\ InWorker(fd)
      /\ \A f \in Fds : /\ InWorker(f)' <=> InWorker(f) /\ f # fd
                        /\ InBatch(f)' <=> InBatch(f)
                        /\ InJobs(f)' <=> InJobs(f)
  BY <1>0, <1>1, ReturnLeaves
<1>3. Types'
  BY <1>0, <1>1, <1>2 DEF Types, Busy
<1>4. Exclusive'
  BY <1>0, <1>1, <1>2 DEF Exclusive, Types
<1>5. fd \in Fds => ~InBatch(fd) /\ ~InJobs(fd) /\ \A v \in Busy' : event'[v].fd # fd
  BY <1>0, <1>1, <1>2 DEF Exclusive
<1>6. Live'
  BY <1>0, <1>1, <1>2, <1>5 DEF Live, Current, InBatch, InJobs, Types
<1>7. Kept'
  BY <1>0, <1>1, <1>2 DEF Kept
<1>8. Opened'
  <2>1. \A f \in Fds : f # fd /\ table[f] # NoConn => table[f] # At(w)
    BY <1>0 DEF Opened, At
  <2>2. QED
    BY <1>0, <1>1, <2>1 DEF Opened, Types
<1>9. QED
  BY <1>3, <1>4, <1>6, <1>7, <1>8 DEF Owned

\* Every step keeps the owners of the descriptors.
LEMMA StepOwned == Owned /\ [Next]_vars => Owned'
<1> SUFFICES ASSUME Owned, [Next]_vars PROVE Owned'
  OBVIOUS
<1>1. QED
  BY QuietSteps, PollOwned, StartAcceptOwned, DispatchOwned, AcceptOwned, TakeOwned,
     RearmOwned, CloseOwned
     DEF Next, LoopStep, WorkerStep

-----------------------------------------------------------------------------
\* The places in numbers: each holds a descriptor once or not at all.
LEMMA AtMostOnce ==
  ASSUME NEW S, \A x, y \in S : x = y
  PROVE  Cardinality(S) = IF S = {} THEN 0 ELSE 1
<1>1. CASE S = {}
  BY <1>1, FS_EmptySet
<1>2. CASE S # {}
  <2>1. PICK x \in S : TRUE
    BY <1>2
  <2>2. S = {x}
    BY <2>1
  <2>3. QED
    BY <1>2, <2>2, FS_Singleton
<1>3. QED
  BY <1>1, <1>2

\* A descriptor in one place once is counted once.
LEMMA OwnedOnce == Owned => OneOwner
<1> SUFFICES ASSUME Owned, NEW f \in Fds PROVE Tokens(f) = IF table[f] = NoConn THEN 0 ELSE 1
  BY DEF OneOwner
<1> DEFINE B == {e \in batch : e.fd = f}
           J == {i \in 1 .. Len(jobs) : jobs[i].fd = f}
           W == {w \in Busy : event[w].fd = f}
<1>0. Types /\ Exclusive /\ Live /\ Kept
  BY DEF Owned
<1>1. /\ B = {} <=> ~InBatch(f)
      /\ J = {} <=> ~InJobs(f)
      /\ W = {} <=> ~InWorker(f)
  BY DEF InBatch, InJobs, InWorker
<1>2. /\ \A x, y \in B : x = y
      /\ \A x, y \in J : x = y
      /\ \A x, y \in W : x = y
  BY <1>0 DEF Exclusive
<1>3. /\ Cardinality(B) = IF InBatch(f) THEN 1 ELSE 0
      /\ Cardinality(J) = IF InJobs(f) THEN 1 ELSE 0
      /\ Cardinality(W) = IF InWorker(f) THEN 1 ELSE 0
  <2> HIDE DEF B, J, W
  <2>1. /\ Cardinality(B) = IF B = {} THEN 0 ELSE 1
        /\ Cardinality(J) = IF J = {} THEN 0 ELSE 1
        /\ Cardinality(W) = IF W = {} THEN 0 ELSE 1
    BY <1>2, AtMostOnce
  <2>2. QED
    BY <1>1, <2>1
<1>4. Tokens(f) = (IF f \in armed THEN 1 ELSE 0)
                  + Cardinality(B) + Cardinality(J) + Cardinality(W)
  BY DEF Tokens
<1> HIDE DEF B, J, W
<1>5. table[f] # NoConn <=> f \in armed \/ InBatch(f) \/ InJobs(f) \/ InWorker(f)
  BY <1>0 DEF Live, Kept, Current, InBatch, InJobs, InWorker
<1>6. /\ f \in armed => ~InBatch(f) /\ ~InJobs(f) /\ ~InWorker(f)
      /\ ~(InBatch(f) /\ InJobs(f)) /\ ~(InBatch(f) /\ InWorker(f))
      /\ ~(InJobs(f) /\ InWorker(f))
  BY <1>0 DEF Exclusive
<1>7. QED
  BY <1>3, <1>4, <1>5, <1>6

\* A descriptor that carries a connection is armed, reported, queued or handled,
\* exactly once, and a closed one not at all: EPOLLONESHOT, the re-arming and the
\* closing of handleEvent fit together for any number of workers and clients.
THEOREM OwnersUnique == Spec => []OneOwner
<1>1. QED
  BY InitOwned, StepOwned, OwnedOnce, PTL DEF Spec

\* No event, queued job or running handler survives its connection, so none acts
\* on a connection that accept gave the same descriptor later.
THEOREM NoEventOutlives == Spec => []NoStaleEvent
<1>1. Owned => NoStaleEvent
  BY DEF Owned, Live, Current, NoStaleEvent, Pending
<1>2. QED
  BY <1>1, InitOwned, StepOwned, PTL DEF Spec

-----------------------------------------------------------------------------
(***************************************************************************)
(* The handlers of a connection, in whatever workers they run, echo its    *)
(* data in order and lose none of it while the send buffer has room.       *)
(***************************************************************************)

DataTypes ==
    /\ phase \in {"up", "signalled", "epollClosed", "closed", "killed"}
    /\ peer \in [Conns -> {"up", "fin", "reset"}]
    /\ sent \in [Conns -> 0 .. MaxMsgs]
    /\ got \in [Conns -> 0 .. MaxMsgs]
    /\ written \in [Conns -> Seq(Units)]
    /\ recvd \in [Conns -> Nat]
    /\ full \in [Conns -> BOOLEAN]
    /\ lpc \in {"test", "wait", "batch", "accept", "left"}
    /\ outbuf \in [Workers -> Seq(Units)]

Rising(s) == \A i, j \in 1 .. Len(s) : i < j => s[i] < s[j]

\* What is echoed on c rises and was read, and the client has no more than it.
Echoed(c) ==
    /\ Rising(written[c])
    /\ \A i \in 1 .. Len(written[c]) : i <= written[c][i] /\ written[c][i] <= got[c]
    /\ recvd[c] <= Len(written[c])

\* What a worker holds of the connection d rises, was read, and comes after
\* all that was echoed.
Follows(s, d) ==
    /\ Rising(s)
    /\ \A i \in 1 .. Len(s) : s[i] <= got[d]
    /\ \A i \in 1 .. Len(s) : \A j \in 1 .. Len(written[d]) : written[d][j] < s[i]

\* Only the handler of a connection holds data.
Held(w) ==
    outbuf[w] # <<>> => /\ wpc[w] \in {"read", "write", "close"}
                        /\ At(w) \in Conns
                        /\ Follows(outbuf[w], At(w))

\* Nothing is read before accept.
Fresh(c) == conn[c] \in {"new", "backlog"} => got[c] = 0 /\ written[c] = <<>>

\* What was read is echoed, or its handler has the rest.
Whole(c) ==
    conn[c] = "open" /\ ~full[c] =>
        /\ (\A w \in Busy : At(w) # c) => Len(written[c]) = got[c]
        /\ \A w \in Busy : At(w) = c /\ wpc[w] # "close" =>
               Len(written[c]) + Len(outbuf[w]) = got[c]

EchoInv ==
    /\ Owned
    /\ DataTypes
    /\ \A c \in Conns : Echoed(c) /\ Fresh(c) /\ Whole(c)
    /\ \A w \in Workers : Held(w)

-----------------------------------------------------------------------------
\* The connection a worker is at is its own, and open.
LEMMA OwnConnection ==
  ASSUME Owned, NEW w \in Busy
  PROVE  /\ At(w) \in Conns \cup {NoConn}
         /\ event[w].fd \in Fds <=> At(w) # NoConn
         /\ At(w) # NoConn => conn[At(w)] = "open" /\ At(w) = event[w].conn
         /\ \A v \in Busy : At(v) = At(w) /\ At(w) # NoConn => v = w
<1>0. Types /\ Exclusive /\ Live /\ Opened
  BY DEF Owned
<1>1. event[w].fd \in Fds => At(w) = event[w].conn /\ At(w) # NoConn
  BY <1>0 DEF Live, Current, At
<1>2. event[w].fd \notin Fds => At(w) = NoConn
  BY DEF At
<1>3. At(w) \in Conns \cup {NoConn}
  BY <1>0 DEF At, Types
<1>4. At(w) # NoConn => conn[At(w)] = "open"
  BY <1>0 DEF At, Opened
<1>5. ASSUME NEW v \in Busy, At(v) = At(w), At(w) # NoConn PROVE v = w
  <2>1. event[v].fd \in Fds /\ event[w].fd \in Fds /\ table[event[v].fd] = table[event[w].fd]
    BY <1>5 DEF At
  <2>2. event[v].fd = event[w].fd
    BY <1>0, <1>5, <2>1 DEF Opened, At
  <2>3. QED
    BY <1>0, <2>1, <2>2 DEF Exclusive
<1>6. QED
  BY <1>1, <1>2, <1>3, <1>4, <1>5

\* No two handlers are at one connection.
LEMMA Alone == Owned => \A u, v \in Busy : At(v) = At(u) /\ At(u) # NoConn => v = u
BY OwnConnection

\* At first nothing was read or written.
LEMMA InitEcho == Init => EchoInv
<1> SUFFICES ASSUME Init PROVE EchoInv
  OBVIOUS
<1> USE EpollAssumption DEF Init
<1>1. Len(<<>>) = 0 /\ <<>> \in Seq(Units)
  BY EmptySeq
<1>2. DataTypes
  BY <1>1 DEF DataTypes
<1>3. \A w \in Workers : Held(w)
  BY DEF Held
<1>4. \A c \in Conns : Echoed(c) /\ Fresh(c) /\ Whole(c)
  BY <1>1 DEF Echoed, Rising, Fresh, Whole
<1>5. QED
  BY <1>2, <1>3, <1>4, InitOwned DEF EchoInv

\* Steps that touch neither the data of the server nor the workers.
LEMMA DataKept ==
  ASSUME EchoInv, Owned', DataTypes',
         UNCHANGED <<got, written, full, wpc, event, outbuf>>,
         \A c \in Conns : /\ recvd'[c] <= Len(written[c])
                          /\ conn'[c] \in {"new", "backlog"} => conn[c] \in {"new", "backlog"}
                          /\ conn'[c] = "open" => conn[c] \in {"open", "backlog"},
         \A w \in Busy : At(w)' = At(w)
  PROVE  EchoInv'
<1> USE EpollAssumption
<1>1. Busy' = Busy
  BY DEF Busy
<1>2. \A c \in Conns : Echoed(c)' /\ Fresh(c)'
  <2>1. \A c \in Conns : Echoed(c) /\ Fresh(c)
    BY DEF EchoInv
  <2>2. QED
    BY <2>1 DEF Echoed, Rising, Fresh
<1>3. \A w \in Workers : Held(w)'
  <2>1. SUFFICES ASSUME NEW w \in Workers, outbuf[w] # <<>> PROVE Held(w)'
    BY DEF Held
  <2>2. Held(w)
    BY DEF EchoInv
  <2>3. w \in Busy
    BY <2>1, <2>2 DEF Held, Busy
  <2>4. QED
    BY <2>2, <2>3 DEF Held, Follows, Rising
<1>4. \A c \in Conns : Whole(c)'
  <2>1. SUFFICES ASSUME NEW c \in Conns, conn'[c] = "open", ~full[c]
                 PROVE  /\ (\A w \in Busy : At(w) # c) => Len(written[c]) = got[c]
                        /\ \A w \in Busy : At(w) = c /\ wpc[w] # "close" =>
                               Len(written[c]) + Len(outbuf[w]) = got[c]
    BY <1>1 DEF Whole
  <2>2. Fresh(c) /\ Whole(c)
    BY DEF EchoInv
  <2>3. CASE conn[c] = "open"
    BY <2>1, <2>2, <2>3 DEF Whole
  <2>4. CASE conn[c] = "backlog"
    <3>1. Len(written[c]) = got[c]
      BY <2>2, <2>4, EmptySeq DEF Fresh
    <3>2. \A w \in Busy : At(w) # c
      BY <2>4, OwnConnection DEF EchoInv
    <3>3. QED
      BY <3>1, <3>2
  <2>5. QED
    BY <2>1, <2>3, <2>4
<1>5. QED
  BY <1>2, <1>3, <1>4 DEF EchoInv

\* The clients, stop and the event loop leave the data alone.
LEMMA IdleSteps ==
  ASSUME EchoInv, Owned',
         ClientStep \/ Stop \/ LoopStep \/ UNCHANGED vars
  PROVE  EchoInv'
<1> USE EpollAssumption
<1>0. Owned /\ DataTypes /\ Types
  BY DEF EchoInv, Owned
<1>1. \A c \in Conns : recvd[c] <= Len(written[c]) /\ Len(written[c]) \in Nat
  BY <1>0, LenProperties DEF EchoInv, Echoed, DataTypes
<1> DEFINE Idle == /\ DataTypes'
                   /\ UNCHANGED <<got, written, full, wpc, event, outbuf>>
                   /\ \A c \in Conns :
                        /\ recvd'[c] <= Len(written[c])
                        /\ conn'[c] \in {"new", "backlog"} => conn[c] \in {"new", "backlog"}
                        /\ conn'[c] = "open" => conn[c] \in {"open", "backlog"}
                   /\ \A w \in Busy : At(w)' = At(w)
<1>2. ASSUME Idle PROVE EchoInv'
  BY <1>2, DataKept
<1> USE DEF DataTypes, Types, At, kernel, client, data, loop, worker
<1>3. ASSUME NEW c \in Conns, Connect(c) \/ Finish(c) \/ Reset(c) PROVE Idle
  BY <1>0, <1>1, <1>3 DEF Connect, Finish, Reset
<1>4. ASSUME NEW c \in Conns, Send(c) PROVE Idle
  <2>1. sent' \in [Conns -> 0 .. MaxMsgs]
    BY <1>0, <1>4 DEF Send
  <2>2. QED
    BY <1>0, <1>1, <1>4, <2>1 DEF Send
<1>5. ASSUME NEW c \in Conns, Receive(c) PROVE Idle
  <2>1. recvd' \in [Conns -> Nat] /\ \A d \in Conns : recvd'[d] <= Len(written[d])
    BY <1>0, <1>1, <1>5 DEF Receive
  <2>2. QED
    BY <1>0, <1>1, <1>5, <2>1 DEF Receive
<1>6. ASSUME Stop PROVE Idle
  BY <1>0, <1>1, <1>6 DEF Stop
<1>7. ASSUME Test \/ PollNothing \/ BatchDone \/ AcceptEnd PROVE Idle
  BY <1>0, <1>1, <1>7 DEF Test, PollNothing, BatchDone, AcceptEnd
<1>8. ASSUME Poll PROVE Idle
  BY <1>0, <1>1, <1>8 DEF Poll
<1>9. ASSUME NEW e \in batch, StartAccept(e) \/ Dispatch(e) PROVE Idle
  BY <1>0, <1>1, <1>9 DEF StartAccept, Dispatch
<1>10. ASSUME NEW c \in Conns, Accept(c) PROVE Idle
  <2>1. NewFd \in Fds /\ table[NewFd] = NoConn
    BY <1>10, LeastFd DEF Accept, FreeFds
  <2>2. \A f \in Fds : f # NewFd => table'[f] = table[f]
    BY <1>0, <1>10 DEF Accept
  <2>3. \A w \in Busy : event[w].fd \in Fds => table[event[w].fd] # NoConn
    BY <1>0 DEF Owned, Live, Current
  <2>4. \A w \in Busy : At(w)' = At(w)
    BY <1>10, <2>1, <2>2, <2>3 DEF Accept
  <2>5. \A d \in Conns :
          /\ conn'[d] \in {"new", "backlog"} => conn[d] \in {"new", "backlog"}
          /\ conn'[d] = "open" => conn[d] \in {"open", "backlog"}
    BY <1>0, <1>10 DEF Accept
  <2>6. QED
    BY <1>0, <1>1, <1>10, <2>4, <2>5 DEF Accept
<1>11. ASSUME UNCHANGED vars PROVE Idle
  BY <1>0, <1>1, <1>11 DEF vars
<1> HIDE DEF Idle
<1>12. QED
  BY <1>2, <1>3, <1>4, <1>5, <1>6, <1>7, <1>8, <1>9, <1>10, <1>11 DEF ClientStep, LoopStep

-----------------------------------------------------------------------------
\* A handler that goes on to its next step, and gives up its data only to close.
LEMMA GotoKeeps ==
  ASSUME EchoInv, Owned', DataTypes',
         NEW w \in Busy, wpc[w] # "close",
         NEW l \in {"write", "mod", "close"}, wpc' = [wpc EXCEPT ![w] = l],
         l = "mod" => outbuf[w] = <<>>,
         UNCHANGED <<conn, table, recvd, got, written, full, event, outbuf>>
  PROVE  EchoInv'
<1>0. Types
  BY DEF EchoInv, Owned
<1>1. Busy' = Busy /\ wpc'[w] = l /\ \A v \in Workers : v # w => wpc'[v] = wpc[v]
  BY <1>0 DEF Busy, Types
<1>2. \A v : At(v)' = At(v)
  BY DEF At
<1>3. \A c \in Conns : Echoed(c)' /\ Fresh(c)'
  BY DEF EchoInv, Echoed, Rising, Fresh
<1>4. \A v \in Workers : Held(v)'
  <2>1. \A v \in Workers : Held(v)
    BY DEF EchoInv
  <2>2. QED
    BY <1>1, <1>2, <2>1 DEF Held, Follows, Rising
<1>5. \A c \in Conns : Whole(c)'
  <2>1. \A c \in Conns : Whole(c)
    BY DEF EchoInv
  <2>2. \A v \in Busy : wpc'[v] # "close" => wpc[v] # "close"
    BY <1>1 DEF Busy
  <2>3. QED
    BY <1>1, <1>2, <2>1, <2>2 DEF Whole
<1>6. QED
  BY <1>3, <1>4, <1>5 DEF EchoInv

\* A handler that neither reads nor writes leaves the data alone.
LEMMA GotoSteps ==
  ASSUME EchoInv, Owned', NEW w \in Workers,
         ReadEnd(w) \/ ReadDry(w) \/ WriteError(w) \/ WriteEnd(w) \/ RearmFails(w)
  PROVE  EchoInv'
<1>0. Types /\ DataTypes
  BY DEF EchoInv, Owned
<1>1. w \in Busy /\ wpc[w] # "close"
  BY DEF ReadEnd, ReadDry, WriteError, Writing, WriteEnd, RearmFails, Busy
<1>2. DataTypes'
  BY <1>0 DEF ReadEnd, ReadDry, WriteError, WriteEnd, RearmFails, DataTypes,
              kernel, client, data, loop
<1>3. /\ UNCHANGED <<conn, table, recvd, got, written, full, event, outbuf>>
      /\ \E l \in {"write", "mod", "close"} : wpc' = [wpc EXCEPT ![w] = l]
                                              /\ (l = "mod" => outbuf[w] = <<>>)
  BY DEF ReadEnd, ReadDry, WriteError, WriteEnd, RearmFails, Goto, kernel, client, data
<1>4. QED
  BY <1>1, <1>2, <1>3, GotoKeeps

\* Lemmas about the sequences: a next unit is added to what is held, and the
\* first unit held is added to what is written.
LEMMA Collect ==
  ASSUME NEW s \in Seq(Units), NEW g \in Nat, g + 1 \in Units,
         Rising(s), \A i \in 1 .. Len(s) : s[i] <= g
  PROVE  LET t == Append(s, g + 1)
         IN  /\ t \in Seq(Units) /\ t # <<>> /\ Len(t) = Len(s) + 1
             /\ Rising(t) /\ \A i \in 1 .. Len(t) : t[i] <= g + 1
             /\ \A u \in Units : u <= g /\ (\A i \in 1 .. Len(s) : u < s[i]) =>
                    \A i \in 1 .. Len(t) : u < t[i]
<1> DEFINE t == Append(s, g + 1)
<1>1. /\ t \in Seq(Units) /\ t # <<>> /\ Len(s) \in Nat /\ Len(t) = Len(s) + 1
      /\ \A i \in 1 .. Len(s) : t[i] = s[i]
      /\ t[Len(s) + 1] = g + 1
  BY AppendProperties, LenProperties
<1>2. \A i \in 1 .. Len(s) : s[i] \in Nat
  BY EpollAssumption, ElementOfSeq DEF Units
<1>3. \A i \in 1 .. Len(t) : i \in 1 .. Len(s) \/ i = Len(s) + 1
  BY <1>1
<1> HIDE DEF t
<1>4. \A i \in 1 .. Len(s) : t[i] < g + 1
  BY <1>1, <1>2
<1>5. Rising(t)
  <2>1. SUFFICES ASSUME NEW i \in 1 .. Len(t), NEW j \in 1 .. Len(t), i < j
                 PROVE  t[i] < t[j]
    BY DEF Rising
  <2>2. i \in 1 .. Len(s)
    BY <1>1, <1>3, <2>1
  <2>3. CASE j = Len(s) + 1
    BY <1>1, <1>4, <2>2, <2>3
  <2>4. CASE j \in 1 .. Len(s)
    BY <1>1, <2>1, <2>2, <2>4 DEF Rising
  <2>5. QED
    BY <1>3, <2>3, <2>4
<1>6. \A i \in 1 .. Len(t) : t[i] <= g + 1
  BY <1>1, <1>2, <1>3
<1>7. ASSUME NEW u \in Units, u <= g, \A i \in 1 .. Len(s) : u < s[i],
             NEW i \in 1 .. Len(t)
      PROVE  u < t[i]
  <2>1. u \in Nat
    BY EpollAssumption DEF Units
  <2>2. QED
    BY <1>1, <1>3, <1>7, <2>1
<1>8. QED
  BY <1>1, <1>5, <1>6, <1>7 DEF t

\* Nothing follows whatever was written.
LEMMA EmptyFollows == \A d \in Conns : Follows(<<>>, d)
<1>1. Len(<<>>) = 0
  BY EmptySeq
<1>2. QED
  BY <1>1 DEF Follows, Rising

\* More was read than was written before.
LEMMA WrittenMore ==
  ASSUME NEW u \in Units, NEW g \in Nat, NEW n \in Nat, u <= g, g <= n
  PROVE  u <= n
BY EpollAssumption DEF Units

\* read adds one unit at the end of what the handler holds.
LEMMA ReadKeeps == ASSUME EchoInv, Owned', NEW w \in Workers, ReadData(w) PROVE EchoInv'
<1> DEFINE c == At(w)
           s == outbuf[w]
           n == got[c] + 1
           t == Append(s, n)
<1>0. Types /\ DataTypes /\ Owned
  BY DEF EchoInv, Owned
<1>1. w \in Busy /\ wpc[w] = "read" /\ c # NoConn /\ got[c] < sent[c]
  BY DEF ReadData, HasData, Busy
<1>2. c \in Conns /\ conn[c] = "open" /\ \A v \in Busy : At(v) = c => v = w
  BY <1>0, <1>1, OwnConnection
<1>3. /\ UNCHANGED <<phase, peer, sent, lpc, conn, table, recvd, written, full, event, wpc>>
      /\ Busy' = Busy
      /\ \A v : At(v)' = At(v)
  BY DEF ReadData, kernel, loop, client, At, Busy
<1>4. n \in Units /\ got[c] \in Nat
  <2>1. got[c] \in 0 .. MaxMsgs /\ sent[c] \in 0 .. MaxMsgs
    BY <1>0, <1>2 DEF DataTypes
  <2>2. QED
    BY <1>1, <2>1, EpollAssumption DEF Units
<1>5. /\ got' = [got EXCEPT ![c] = n]
      /\ outbuf' = [outbuf EXCEPT ![w] = t]
  BY DEF ReadData, NextUnit, Collected
<1>6. Follows(s, c) /\ s \in Seq(Units)
  <2>1. Held(w) /\ s \in Seq(Units)
    BY <1>0 DEF EchoInv, DataTypes
  <2>2. QED
    BY <1>2, <2>1, EmptyFollows DEF Held
<1>7. /\ t \in Seq(Units) /\ t # <<>> /\ Len(t) = Len(s) + 1
      /\ Rising(t) /\ \A i \in 1 .. Len(t) : t[i] <= n
      /\ \A u \in Units : u <= got[c] /\ (\A i \in 1 .. Len(s) : u < s[i]) =>
             \A i \in 1 .. Len(t) : u < t[i]
  BY <1>4, <1>6, Collect DEF Follows
<1>8. \A d \in Conns : /\ written[d] \in Seq(Units) /\ Len(written[d]) \in Nat
                       /\ \A j \in 1 .. Len(written[d]) : written[d][j] \in Units
  BY <1>0, LenProperties, ElementOfSeq DEF DataTypes
<1>9. \A j \in 1 .. Len(written[c]) : \A i \in 1 .. Len(t) : written[c][j] < t[i]
  <2>1. \A j \in 1 .. Len(written[c]) :
           written[c][j] <= got[c] /\ \A i \in 1 .. Len(s) : written[c][j] < s[i]
    BY <1>2, <1>6 DEF EchoInv, Echoed, Follows
  <2>2. QED
    BY <1>2, <1>7, <1>8, <2>1
<1>10. n \in 0 .. MaxMsgs /\ n \in Nat /\ got[c] <= n
  BY <1>4, EpollAssumption DEF Units
<1>11. DataTypes'
  <2>1. got' \in [Conns -> 0 .. MaxMsgs]
    <3> HIDE DEF n, c
    <3>1. QED
      BY <1>0, <1>5, <1>10 DEF DataTypes
  <2>2. outbuf' \in [Workers -> Seq(Units)]
    <3> HIDE DEF t
    <3>1. QED
      BY <1>0, <1>5, <1>7 DEF DataTypes
  <2>3. QED
    BY <1>0, <1>3, <2>1, <2>2 DEF DataTypes
<1>12. /\ got'[c] = n /\ \A d \in Conns : d # c => got'[d] = got[d]
       /\ outbuf'[w] = t /\ \A v \in Workers : v # w => outbuf'[v] = outbuf[v]
  BY <1>0, <1>2, <1>5 DEF DataTypes
<1> HIDE DEF c, n, s, t
<1>13. ASSUME NEW d \in Conns PROVE Echoed(d)' /\ Fresh(d)'
  <2>1. Echoed(d) /\ Fresh(d)
    BY DEF EchoInv
  <2>2. Fresh(d)'
    BY <1>2, <1>3, <1>12, <2>1 DEF Fresh
  <2>3. \A j \in 1 .. Len(written[d]) : written[d][j] <= got'[d]
    <3>1. CASE d = c
      <4>1. \A j \in 1 .. Len(written[c]) : written[c][j] \in Units /\ written[c][j] <= got[c]
        BY <1>2, <1>8, <2>1, <3>1 DEF Echoed
      <4>2. \A j \in 1 .. Len(written[c]) : written[c][j] <= n
        BY <1>4, <1>10, <4>1, WrittenMore
      <4>3. QED
        BY <1>12, <3>1, <4>2
    <3>2. CASE d # c
      BY <1>12, <2>1, <3>2 DEF Echoed
    <3>3. QED
      BY <3>1, <3>2
  <2>4. Echoed(d)'
    BY <1>3, <2>1, <2>3 DEF Echoed, Rising
  <2>5. QED
    BY <2>2, <2>4
<1>14. ASSUME NEW v \in Workers PROVE Held(v)'
  <2>1. Held(v)
    BY DEF EchoInv
  <2>2. CASE v = w
    <3>1. At(w)' = c
      BY <1>3 DEF c
    <3>2. \A i \in 1 .. Len(t) : t[i] <= got'[c]
      BY <1>7, <1>12
    <3>3. QED
      BY <1>1, <1>2, <1>3, <1>7, <1>9, <1>12, <2>2, <3>1, <3>2 DEF Held, Follows, Rising
  <2>3. CASE v # w
    <3>1. SUFFICES ASSUME outbuf[v] # <<>> PROVE Held(v)'
      BY <1>12, <2>3 DEF Held
    <3>2. At(v) \in Conns /\ v \in Busy
      BY <2>1, <3>1 DEF Held, Busy
    <3>3. got'[At(v)] = got[At(v)]
      BY <1>2, <1>12, <2>3, <3>2
    <3>4. QED
      BY <1>3, <1>12, <2>1, <2>3, <3>1, <3>3 DEF Held, Follows, Rising
  <2>4. QED
    BY <2>2, <2>3
<1>15. ASSUME NEW d \in Conns PROVE Whole(d)'
  <2>1. Whole(d)
    BY DEF EchoInv
  <2>2. CASE d = c
    <3>1. ASSUME ~full[c] PROVE Len(written[c]) + Len(t) = n
      <4>1. Len(written[c]) + Len(s) = got[c]
        BY <1>1, <1>2, <2>1, <2>2, <3>1 DEF Whole, c, s
      <4>2. Len(s) \in Nat /\ Len(written[c]) \in Nat
        BY <1>2, <1>6, <1>8, LenProperties
      <4>3. Len(written[c]) + (Len(s) + 1) = got[c] + 1
        <5> DEFINE x == Len(written[c])
                   y == Len(s)
                   g == got[c]
        <5>1. x \in Nat /\ y \in Nat /\ g \in Nat /\ x + y = g
          BY <1>4, <4>1, <4>2
        <5> HIDE DEF x, y, g
        <5>2. x + (y + 1) = g + 1
          BY <5>1
        <5>3. QED
          BY <5>2 DEF x, y, g
      <4>4. QED
        BY <1>7, <4>3 DEF n
    <3>2. At(w) = c
      BY DEF c
    <3>3. QED
      BY <1>1, <1>2, <1>3, <1>12, <2>2, <3>1, <3>2 DEF Whole
  <2>3. CASE d # c
    <3>1. \A v \in Busy : v \in Workers /\ (At(v) = d => v # w)
      BY <2>3 DEF Busy, c
    <3>2. QED
      BY <1>3, <1>12, <2>1, <2>3, <3>1 DEF Whole
  <2>4. QED
    BY <2>2, <2>3
<1>16. QED
  BY <1>11, <1>13, <1>14, <1>15 DEF EchoInv

\* The first unit held goes to the end of what is written.
LEMMA EchoFirst ==
  ASSUME NEW r \in Seq(Units), NEW s \in Seq(Units), s # <<>>, NEW g \in Nat,
         Rising(r), \A i \in 1 .. Len(r) : i <= r[i] /\ r[i] <= g,
         Rising(s), \A i \in 1 .. Len(s) : s[i] <= g,
         \A i \in 1 .. Len(s) : \A j \in 1 .. Len(r) : r[j] < s[i]
  PROVE  LET q == Append(r, Head(s))
             t == Tail(s)
         IN  /\ q \in Seq(Units) /\ Len(r) \in Nat /\ Len(q) = Len(r) + 1
             /\ t \in Seq(Units) /\ Len(s) \in Nat \ {0} /\ Len(t) = Len(s) - 1
             /\ Rising(q) /\ \A i \in 1 .. Len(q) : i <= q[i] /\ q[i] <= g
             /\ Rising(t) /\ \A i \in 1 .. Len(t) : t[i] <= g
             /\ \A i \in 1 .. Len(t) : \A j \in 1 .. Len(q) : q[j] < t[i]
<1> DEFINE q == Append(r, Head(s))
           t == Tail(s)
<1>1. /\ t \in Seq(Units) /\ Len(s) \in Nat \ {0} /\ Len(t) = Len(s) - 1
      /\ \A i \in 1 .. Len(t) : i + 1 \in 1 .. Len(s) /\ t[i] = s[i + 1]
      /\ Head(s) = s[1] /\ 1 \in 1 .. Len(s)
  BY HeadTailProperties, EmptySeq
<1>2. /\ \A i \in 1 .. Len(s) : s[i] \in Nat /\ s[i] >= 1
      /\ \A j \in 1 .. Len(r) : r[j] \in Nat
  BY EpollAssumption, ElementOfSeq DEF Units
<1>3. /\ q \in Seq(Units) /\ Len(r) \in Nat /\ Len(q) = Len(r) + 1
      /\ \A j \in 1 .. Len(r) : q[j] = r[j]
      /\ q[Len(r) + 1] = s[1]
  BY <1>1, AppendProperties, ElementOfSeq, LenProperties
<1>4. \A j \in 1 .. Len(q) : j \in 1 .. Len(r) \/ j = Len(r) + 1
  BY <1>3
<1> HIDE DEF q, t
<1>5. Len(r) + 1 <= s[1]
  <2>1. CASE Len(r) = 0
    BY <1>1, <1>2, <2>1
  <2>2. CASE Len(r) \in 1 .. Len(r)
    BY <1>1, <1>2, <1>3, <2>2
  <2>3. QED
    BY <1>3, <2>1, <2>2
<1>6. Rising(q)
  <2>1. SUFFICES ASSUME NEW i \in 1 .. Len(q), NEW j \in 1 .. Len(q), i < j
                 PROVE  q[i] < q[j]
    BY DEF Rising
  <2>2. i \in 1 .. Len(r)
    BY <1>3, <1>4, <2>1
  <2>3. CASE j = Len(r) + 1
    BY <1>1, <1>3, <2>2, <2>3
  <2>4. CASE j \in 1 .. Len(r)
    BY <1>3, <2>1, <2>2, <2>4 DEF Rising
  <2>5. QED
    BY <1>4, <2>3, <2>4
<1>7. \A i \in 1 .. Len(q) : i <= q[i] /\ q[i] <= g
  BY <1>1, <1>3, <1>4, <1>5
<1>8. Rising(t)
  <2>1. SUFFICES ASSUME NEW i \in 1 .. Len(t), NEW j \in 1 .. Len(t), i < j
                 PROVE  s[i + 1] < s[j + 1]
    BY <1>1 DEF Rising
  <2>2. QED
    BY <1>1, <2>1 DEF Rising
<1>9. \A i \in 1 .. Len(t) : t[i] <= g
  BY <1>1
<1>10. ASSUME NEW i \in 1 .. Len(t), NEW j \in 1 .. Len(q) PROVE q[j] < t[i]
  <2>1. s[1] < s[i + 1]
    BY <1>1 DEF Rising
  <2>2. CASE j = Len(r) + 1
    BY <1>1, <1>3, <2>1, <2>2
  <2>3. CASE j \in 1 .. Len(r)
    BY <1>1, <1>3, <2>3
  <2>4. QED
    BY <1>4, <2>2, <2>3
<1>11. QED
  BY <1>1, <1>3, <1>6, <1>7, <1>8, <1>9, <1>10 DEF q, t

\* A unit that is written moves from what is held to what is written.
LEMMA OneMoved ==
  \A x, y, g \in Nat : x + y = g => (x + 1) + (y - 1) = g
OBVIOUS

\* What was not too much is not too much with one more read.
LEMMA NoMore == ASSUME NEW x \in Nat, NEW y \in Nat, x <= y PROVE x <= y + 1
OBVIOUS

\* write takes one unit from the front of what the handler holds.
LEMMA WriteKeeps == ASSUME EchoInv, Owned', NEW w \in Workers, WriteData(w) PROVE EchoInv'
<1> DEFINE c == At(w)
           r == written[c]
           s == outbuf[w]
           q == Append(r, Head(s))
           t == Tail(s)
<1>0. Types /\ DataTypes /\ Owned
  BY DEF EchoInv, Owned
<1>1. w \in Busy /\ wpc[w] = "write" /\ s # <<>>
  BY DEF WriteData, Writing, Busy
<1>2. c \in Conns /\ conn[c] = "open" /\ \A v \in Busy : At(v) = c => v = w
  <2>1. c \in Conns
    BY <1>1 DEF EchoInv, Held
  <2>2. QED
    BY <1>0, <1>1, <2>1, EpollAssumption, OwnConnection
<1>3. /\ UNCHANGED <<phase, peer, sent, lpc, conn, table, recvd, got, full, event, wpc>>
      /\ Busy' = Busy
      /\ \A v : At(v)' = At(v)
  BY DEF WriteData, kernel, loop, client, At, Busy
<1>4. /\ written' = [written EXCEPT ![c] = q]
      /\ outbuf' = [outbuf EXCEPT ![w] = t]
  BY DEF WriteData, Unwritten
<1>5. /\ r \in Seq(Units) /\ s \in Seq(Units) /\ got[c] \in Nat /\ recvd[c] \in Nat
      /\ recvd[c] <= Len(r)
      /\ Rising(r) /\ \A i \in 1 .. Len(r) : i <= r[i] /\ r[i] <= got[c]
      /\ Rising(s) /\ \A i \in 1 .. Len(s) : s[i] <= got[c]
      /\ \A i \in 1 .. Len(s) : \A j \in 1 .. Len(r) : r[j] < s[i]
  <2>1. Held(w) /\ Echoed(c)
    BY <1>2 DEF EchoInv
  <2>2. r \in Seq(Units) /\ s \in Seq(Units) /\ got[c] \in Nat /\ recvd[c] \in Nat
    BY <1>0, <1>2 DEF DataTypes
  <2>3. QED
    BY <1>1, <2>1, <2>2 DEF Held, Follows, Echoed
<1>6. /\ q \in Seq(Units) /\ Len(r) \in Nat /\ Len(q) = Len(r) + 1
      /\ t \in Seq(Units) /\ Len(s) \in Nat \ {0} /\ Len(t) = Len(s) - 1
      /\ Rising(q) /\ \A i \in 1 .. Len(q) : i <= q[i] /\ q[i] <= got[c]
      /\ Rising(t) /\ \A i \in 1 .. Len(t) : t[i] <= got[c]
      /\ \A i \in 1 .. Len(t) : \A j \in 1 .. Len(q) : q[j] < t[i]
  <2> HIDE DEF c, r, s
  <2>1. QED
    BY <1>1, <1>5, EchoFirst
<1> HIDE DEF q, t
<1>7. /\ written'[c] = q /\ \A d \in Conns : d # c => written'[d] = written[d]
      /\ outbuf'[w] = t /\ \A v \in Workers : v # w => outbuf'[v] = outbuf[v]
  BY <1>0, <1>2, <1>4 DEF DataTypes
<1>8. DataTypes'
  <2>1. written' \in [Conns -> Seq(Units)] /\ outbuf' \in [Workers -> Seq(Units)]
    BY <1>0, <1>4, <1>6 DEF DataTypes
  <2>2. QED
    BY <1>0, <1>3, <2>1 DEF DataTypes
<1>9. r = written[c] /\ s = outbuf[w] /\ c = At(w)
  OBVIOUS
<1> HIDE DEF c, r, s
<1>10. ASSUME NEW d \in Conns PROVE Echoed(d)' /\ Fresh(d)'
  <2>1. Echoed(d) /\ Fresh(d)
    BY DEF EchoInv
  <2>2. Fresh(d)'
    BY <1>2, <1>3, <1>7, <2>1 DEF Fresh
  <2>3. CASE d = c
    <3>1. recvd[c] <= Len(q)
      BY <1>5, <1>6, NoMore
    <3>2. QED
      BY <1>3, <1>6, <1>7, <2>2, <2>3, <3>1 DEF Echoed, Rising
  <2>4. CASE d # c
    BY <1>3, <1>7, <2>1, <2>2, <2>4 DEF Echoed, Rising
  <2>5. QED
    BY <2>3, <2>4
<1>11. ASSUME NEW v \in Workers PROVE Held(v)'
  <2>1. Held(v)
    BY DEF EchoInv
  <2>2. CASE v = w
    BY <1>1, <1>2, <1>3, <1>6, <1>7, <1>9, <2>2 DEF Held, Follows, Rising
  <2>3. CASE v # w
    <3>1. SUFFICES ASSUME outbuf[v] # <<>> PROVE Held(v)'
      BY <1>7, <2>3 DEF Held
    <3>2. At(v) \in Conns /\ v \in Busy
      BY <2>1, <3>1 DEF Held, Busy
    <3>3. written'[At(v)] = written[At(v)]
      BY <1>2, <1>7, <2>3, <3>2
    <3>4. QED
      BY <1>3, <1>7, <2>1, <2>3, <3>1, <3>3 DEF Held, Follows, Rising
  <2>4. QED
    BY <2>2, <2>3
<1>12. ASSUME NEW d \in Conns PROVE Whole(d)'
  <2>1. Whole(d)
    BY DEF EchoInv
  <2>2. CASE d = c
    <3>1. ASSUME ~full[c] PROVE Len(q) + Len(t) = got[c]
      <4>1. Len(r) + Len(s) = got[c]
        BY <1>1, <1>2, <1>9, <2>1, <2>2, <3>1 DEF Whole
      <4>2. (Len(r) + 1) + (Len(s) - 1) = got[c]
        <5>1. Len(r) \in Nat /\ Len(s) \in Nat /\ got[c] \in Nat
          BY <1>5, <1>6
        <5>2. QED
          BY <4>1, <5>1, OneMoved, Zenon
      <4>3. QED
        BY <1>6, <4>2
    <3>2. QED
      BY <1>1, <1>2, <1>3, <1>7, <1>9, <2>2, <3>1 DEF Whole
  <2>3. CASE d # c
    <3>1. \A v \in Busy : v \in Workers /\ (At(v) = d => v # w)
      BY <1>9, <2>3 DEF Busy
    <3>2. QED
      BY <1>3, <1>7, <2>1, <2>3, <3>1 DEF Whole
  <2>4. QED
    BY <2>2, <2>3
<1>13. QED
  BY <1>8, <1>10, <1>11, <1>12 DEF EchoInv

\* A full send buffer ends the promise for the connection.
LEMMA FullKeeps == ASSUME EchoInv, Owned', NEW w \in Workers, WriteFull(w) PROVE EchoInv'
<1>0. Types /\ DataTypes /\ Owned
  BY DEF EchoInv, Owned
<1>1. w \in Busy /\ At(w) \in Conns /\ \A v \in Busy : At(v) = At(w) => v = w
  <2>1. w \in Busy /\ At(w) \in Conns
    BY DEF WriteFull, Writing, Busy, EchoInv, Held
  <2>2. QED
    BY <1>0, <2>1, EpollAssumption, OwnConnection
<1>2. /\ UNCHANGED <<phase, peer, sent, lpc, conn, table, recvd, got, written, event>>
      /\ \A v : At(v)' = At(v)
      /\ full' = [full EXCEPT ![At(w)] = TRUE]
      /\ outbuf' = [outbuf EXCEPT ![w] = <<>>]
      /\ wpc' = [wpc EXCEPT ![w] = "mod"]
  BY DEF WriteFull, Goto, kernel, loop, client, At
<1>3. Busy' = Busy
  BY <1>0, <1>1, <1>2 DEF Busy, Types
<1>4. DataTypes'
  BY <1>0, <1>2, EmptySeq DEF DataTypes
<1>5. \A c \in Conns : Echoed(c)' /\ Fresh(c)'
  BY <1>2 DEF EchoInv, Echoed, Rising, Fresh
<1>6. \A v \in Workers : Held(v)'
  <2>1. \A v \in Workers : Held(v)
    BY DEF EchoInv
  <2>2. QED
    BY <1>0, <1>2, <2>1 DEF Held, Follows, Rising, Types, DataTypes
<1>7. ASSUME NEW c \in Conns PROVE Whole(c)'
  <2>1. Whole(c)
    BY DEF EchoInv
  <2>2. CASE c = At(w)
    BY <1>0, <1>2, <2>2 DEF Whole, DataTypes
  <2>3. CASE c # At(w)
    <3>1. \A v \in Busy : At(v) = c => wpc'[v] = wpc[v] /\ outbuf'[v] = outbuf[v]
      BY <1>0, <1>2, <2>3 DEF Busy, Types, DataTypes
    <3>2. full'[c] = full[c]
      BY <1>0, <1>2, <2>3 DEF DataTypes
    <3>3. QED
      BY <1>2, <1>3, <2>1, <3>1, <3>2 DEF Whole
  <2>4. QED
    BY <2>2, <2>3
<1>8. QED
  BY <1>4, <1>5, <1>6, <1>7 DEF EchoInv

-----------------------------------------------------------------------------
\* A handler begins with nothing in hand.
LEMMA TakeKeeps == ASSUME EchoInv, Owned', NEW w \in Workers, Take(w) PROVE EchoInv'
<1>0. Types /\ DataTypes /\ Owned
  BY DEF EchoInv, Owned
<1>1. /\ UNCHANGED <<phase, peer, sent, lpc, conn, table, recvd, got, written, full, outbuf>>
      /\ wpc[w] = "idle"
      /\ \E l \in {"close", "read"} : wpc' = [wpc EXCEPT ![w] = l]
      /\ event' = [event EXCEPT ![w] = Head(jobs)]
  BY DEF Take, Goto, kernel, client, data, loop
<1>2. /\ w \notin Busy /\ Busy' = Busy \cup {w}
      /\ \A v \in Busy : v # w /\ wpc'[v] = wpc[v] /\ At(v)' = At(v)
  BY <1>0, <1>1 DEF Busy, Types, At
<1>3. outbuf[w] = <<>>
  BY <1>1 DEF EchoInv, Held
<1>4. \A v \in Busy : At(w)' # NoConn => At(v) # At(w)'
  <2>1. (\A u, v \in Busy : At(v) = At(u) /\ At(u) # NoConn => v = u)'
    BY Alone, PTL
  <2>2. QED
    BY <1>2, <2>1
<1>5. DataTypes'
  BY <1>0, <1>1 DEF DataTypes
<1>6. \A c \in Conns : Echoed(c)' /\ Fresh(c)'
  BY <1>1 DEF EchoInv, Echoed, Rising, Fresh
<1>7. ASSUME NEW v \in Workers PROVE Held(v)'
  <2>1. Held(v)
    BY DEF EchoInv
  <2>2. outbuf[v] # <<>> => v \in Busy
    BY <2>1 DEF Held, Busy
  <2>3. QED
    BY <1>1, <1>2, <2>1, <2>2 DEF Held, Follows, Rising
<1>8. ASSUME NEW c \in Conns, conn[c] = "open", ~full[c]
      PROVE  /\ (\A v \in Busy' : At(v)' # c) => Len(written[c]) = got[c]
             /\ \A v \in Busy' : At(v)' = c /\ wpc'[v] # "close" =>
                    Len(written[c]) + Len(outbuf[v]) = got[c]
  <2>1. /\ (\A v \in Busy : At(v) # c) => Len(written[c]) = got[c]
        /\ \A v \in Busy : At(v) = c /\ wpc[v] # "close" =>
               Len(written[c]) + Len(outbuf[v]) = got[c]
    BY <1>8 DEF EchoInv, Whole
  <2>2. CASE At(w)' = c
    <3>1. \A v \in Busy : At(v) # c
      BY <1>4, <2>2, EpollAssumption
    <3>2. Len(written[c]) = got[c] /\ Len(written[c]) \in Nat
      BY <1>0, <2>1, <3>1, LenProperties DEF DataTypes
    <3>3. Len(outbuf[w]) = 0
      BY <1>3, EmptySeq
    <3>4. Len(written[c]) + Len(outbuf[w]) = got[c]
      BY <3>2, <3>3
    <3>5. QED
      BY <1>2, <2>2, <3>1, <3>4
  <2>3. CASE At(w)' # c
    BY <1>2, <2>1, <2>3
  <2>4. QED
    BY <2>2, <2>3
<1>9. \A c \in Conns : Whole(c)'
  BY <1>1, <1>8 DEF Whole
<1>10. QED
  BY <1>5, <1>6, <1>7, <1>9 DEF EchoInv

\* A handler returns with its data written, or closes the connection.
LEMMA ReturnKeeps ==
  ASSUME EchoInv, Owned', NEW w \in Workers, Rearm(w) \/ Close(w)
  PROVE  EchoInv'
<1>0. Types /\ DataTypes /\ Owned /\ Exclusive
  BY DEF EchoInv, Owned
<1>1. /\ UNCHANGED <<phase, peer, sent, lpc, recvd, got, written, full>>
      /\ w \in Busy
      /\ wpc' = [wpc EXCEPT ![w] = "idle"]
      /\ event' = [event EXCEPT ![w] = NoEvent]
      /\ outbuf' = [outbuf EXCEPT ![w] = <<>>]
  BY DEF Rearm, Close, AfterClose, Return, Goto, client, data, loop, Busy
<1>2. Busy' = Busy \ {w}
  BY <1>0, <1>1 DEF Busy, Types
<1>3. \A v \in Busy' : /\ v \in Busy /\ v # w
                       /\ wpc'[v] = wpc[v] /\ event'[v] = event[v] /\ outbuf'[v] = outbuf[v]
  BY <1>0, <1>1, <1>2 DEF Busy, Types, DataTypes
<1>4. \/ wpc[w] = "mod" /\ UNCHANGED <<conn, table>>
      \/ /\ conn' = [c \in Conns |-> IF c = At(w) THEN "closed" ELSE conn[c]]
         /\ table' = [f \in Fds |-> IF f = event[w].fd THEN NoConn ELSE table[f]]
  BY DEF Rearm, Close
<1>5. \A v \in Busy' : At(v)' = At(v)
  <2>1. \A v \in Busy' : event[v].fd \in Fds => event[v].fd # event[w].fd
    BY <1>0, <1>1, <1>3 DEF Exclusive
  <2>2. QED
    BY <1>3, <1>4, <2>1 DEF At
<1>6. \A c \in Conns : conn'[c] = "closed" \/ conn'[c] = conn[c]
  BY <1>4
<1>7. DataTypes'
  BY <1>0, <1>1, EmptySeq DEF DataTypes
<1>8. \A c \in Conns : Echoed(c)' /\ Fresh(c)'
  BY <1>1, <1>6 DEF EchoInv, Echoed, Rising, Fresh
<1>9. ASSUME NEW v \in Workers PROVE Held(v)'
  <2>1. Held(v)
    BY DEF EchoInv
  <2>2. CASE v = w
    BY <1>0, <1>1, <2>2 DEF Held, DataTypes
  <2>3. CASE v # w
    <3>1. outbuf'[v] = outbuf[v] /\ (outbuf[v] # <<>> => v \in Busy')
      BY <1>0, <1>1, <1>2, <2>1, <2>3 DEF Held, Busy, DataTypes
    <3>2. QED
      BY <1>1, <1>3, <1>5, <2>1, <3>1 DEF Held, Follows, Rising
  <2>4. QED
    BY <2>2, <2>3
<1>10. ASSUME NEW c \in Conns, conn'[c] = "open", ~full[c]
       PROVE  /\ (\A v \in Busy' : At(v)' # c) => Len(written[c]) = got[c]
              /\ \A v \in Busy' : At(v)' = c /\ wpc'[v] # "close" =>
                     Len(written[c]) + Len(outbuf'[v]) = got[c]
  <2>1. conn[c] = "open"
    BY <1>6, <1>10
  <2>2. /\ (\A v \in Busy : At(v) # c) => Len(written[c]) = got[c]
        /\ \A v \in Busy : At(v) = c /\ wpc[v] # "close" =>
               Len(written[c]) + Len(outbuf[v]) = got[c]
    BY <1>10, <2>1 DEF EchoInv, Whole
  <2>3. \A v \in Busy' : At(v)' = c /\ wpc'[v] # "close" =>
            Len(written[c]) + Len(outbuf'[v]) = got[c]
    BY <1>3, <1>5, <2>2
  <2>4. ASSUME At(w) = c PROVE Len(written[c]) = got[c]
    <3>1. wpc[w] = "mod"
      BY <1>4, <1>10, <2>4
    <3>2. outbuf[w] = <<>>
      BY <3>1 DEF EchoInv, Held
    <3>3. Len(outbuf[w]) = 0 /\ Len(written[c]) \in Nat
      BY <1>0, <3>2, EmptySeq, LenProperties DEF DataTypes
    <3>4. Len(written[c]) + Len(outbuf[w]) = got[c]
      BY <1>1, <2>2, <2>4, <3>1
    <3>5. QED
      BY <3>3, <3>4
  <2>5. ASSUME \A v \in Busy' : At(v)' # c PROVE Len(written[c]) = got[c]
    BY <1>2, <1>5, <2>2, <2>4, <2>5
  <2>6. QED
    BY <2>3, <2>5
<1>11. \A c \in Conns : Whole(c)'
  BY <1>1, <1>10 DEF Whole
<1>12. QED
  BY <1>7, <1>8, <1>9, <1>11 DEF EchoInv

\* Every step keeps the invariant of the data.
LEMMA StepEcho == EchoInv /\ [Next]_vars => EchoInv'
<1> SUFFICES ASSUME EchoInv, [Next]_vars PROVE EchoInv'
  OBVIOUS
<1>1. Owned'
  BY StepOwned DEF EchoInv
<1>2. QED
  BY <1>1, IdleSteps, GotoSteps, ReadKeeps, WriteKeeps, FullKeeps, TakeKeeps, ReturnKeeps
     DEF Next, WorkerStep

-----------------------------------------------------------------------------
\* Units are read once, and the client gets at most what it sent.
LEMMA EchoTypes == EchoInv => TypeOK
<1> SUFFICES ASSUME EchoInv PROVE TypeOK
  OBVIOUS
<1>1. Types /\ DataTypes
  BY DEF EchoInv, Owned
<1>2. ASSUME NEW c \in Conns PROVE recvd[c] \in 0 .. MaxMsgs
  <2>1. /\ recvd[c] \in Nat /\ got[c] \in Nat /\ got[c] <= MaxMsgs /\ Len(written[c]) \in Nat
        /\ \A i \in 1 .. Len(written[c]) : written[c][i] \in Nat
    BY <1>1, EpollAssumption, ElementOfSeq, LenProperties DEF DataTypes, Units
  <2>2. recvd[c] <= Len(written[c])
    BY DEF EchoInv, Echoed
  <2>3. CASE Len(written[c]) = 0
    BY <2>1, <2>2, <2>3, EpollAssumption
  <2>4. CASE Len(written[c]) \in 1 .. Len(written[c])
    <3>1. Len(written[c]) <= written[c][Len(written[c])] /\ written[c][Len(written[c])] <= got[c]
      BY <2>4 DEF EchoInv, Echoed
    <3>2. \A a, b, x, y, m \in Nat : a <= b /\ b <= x /\ x <= y /\ y <= m => a \in 0 .. m
      OBVIOUS
    <3>3. QED
      BY <2>1, <2>2, <2>4, <3>1, <3>2, EpollAssumption, Zenon
  <2>5. QED
    BY <2>1, <2>3, <2>4
<1>3. recvd \in [Conns -> 0 .. MaxMsgs]
  BY <1>1, <1>2 DEF DataTypes
<1>4. QED
  BY <1>1, <1>3 DEF Types, DataTypes, TypeOK

\* Type correctness of the event loop, its handlers and its clients.
THEOREM TypeCorrect == Spec => []TypeOK
<1>1. QED
  BY InitEcho, StepEcho, EchoTypes, PTL DEF Spec

\* Handlers that follow one another in different workers echo the data of a
\* connection in the order it was read, and no unit twice.
THEOREM EchoOrdered == Spec => []EchoInOrder
<1>1. EchoInv => EchoInOrder
  BY DEF EchoInv, Echoed, Rising, EchoInOrder
<1>2. QED
  BY <1>1, InitEcho, StepEcho, PTL DEF Spec

\* Between two handlers nothing that was read of an open connection is missing
\* from its echo, unless a write found the send buffer full.
THEOREM EchoWhole == Spec => []LostOnlyWhenFull
<1>1. EchoInv => LostOnlyWhenFull
  <2>1. SUFFICES ASSUME EchoInv, NEW c \in Conns,
                        conn[c] = "open", ~full[c], ~Handled(c)
                 PROVE  Len(written[c]) = got[c]
    BY DEF LostOnlyWhenFull
  <2>2. \A w \in Busy : At(w) # c
    BY <2>1, EpollAssumption, OwnConnection DEF EchoInv, Handled
  <2>3. QED
    BY <2>1, <2>2 DEF EchoInv, Whole
<1>2. QED
  BY <1>1, InitEcho, StepEcho, PTL DEF Spec
=============================================================================
