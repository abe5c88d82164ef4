------------------------------ MODULE Sockets ------------------------------
(***************************************************************************)
(* The clients and the kernel's side of their connections, as the simple   *)
(* servers of computer-networks use them: all of it is external. Data is   *)
(* counted in units, one for each recv or read. Descriptors are numbers    *)
(* that are handed out again, the lowest free one first.                   *)
(***************************************************************************)
EXTENDS Integers, FiniteSetsExt

CONSTANTS Clients,
          NoClient,
          Fds,      \* bound: the descriptors connections can get
          MaxMsgs,  \* bound: units of data a client sends
          Resetting,  \* bound: the clients that may reset their connection
          Room      \* replies a connection holds that its client has not received

VARIABLES conn,     \* what became of the connection of each client
          peer,     \* "up", or the client has sent FIN or RST
          sent,     \* units the client has sent
          got,      \* units the server has read
          replied,  \* replies the server has written
          recvd,    \* replies the client has received
          table,    \* the client behind each descriptor
          killed    \* SIGPIPE has ended the server

sockets == <<conn, peer, sent, got, replied, recvd, table, killed>>

SocketsInit == /\ conn = [c \in Clients |-> "new"]
               /\ peer = [c \in Clients |-> "up"]
               /\ sent = [c \in Clients |-> 0]
               /\ got = [c \in Clients |-> 0]
               /\ replied = [c \in Clients |-> 0]
               /\ recvd = [c \in Clients |-> 0]
               /\ table = [f \in Fds |-> NoClient]
               /\ killed = FALSE

-----------------------------------------------------------------------------
Connect(c) == /\ conn[c] = "new"
              /\ conn' = [conn EXCEPT ![c] = "backlog"]
              /\ UNCHANGED <<peer, sent, got, replied, recvd, table, killed>>

Live(c) == conn[c] \in {"backlog", "open"}

Send(c) == /\ Live(c) /\ peer[c] = "up" /\ sent[c] < MaxMsgs
           /\ sent' = [sent EXCEPT ![c] = @ + 1]
           /\ UNCHANGED <<conn, peer, got, replied, recvd, table, killed>>

Receive(c) == /\ peer[c] # "reset" /\ recvd[c] < replied[c]
              /\ recvd' = [recvd EXCEPT ![c] = @ + 1]
              /\ UNCHANGED <<conn, peer, sent, got, replied, table, killed>>

Finish(c) == /\ Live(c) /\ peer[c] = "up"
             /\ peer' = [peer EXCEPT ![c] = "fin"]
             /\ UNCHANGED <<conn, sent, got, replied, recvd, table, killed>>

Reset(c) == /\ c \in Resetting /\ Live(c) /\ peer[c] # "reset"
            /\ peer' = [peer EXCEPT ![c] = "reset"]
            /\ UNCHANGED <<conn, sent, got, replied, recvd, table, killed>>

-----------------------------------------------------------------------------
Backlog == {c \in Clients : conn[c] = "backlog"}
HasData(c) == got[c] < sent[c]
Readable(c) == HasData(c) \/ peer[c] # "up"
HasRoom(c) == replied[c] - recvd[c] < Room

NewFd == Min({f \in Fds : table[f] = NoClient})

Opened(c) == /\ conn' = [conn EXCEPT ![c] = "open"]
             /\ table' = [table EXCEPT ![NewFd] = c]
             /\ UNCHANGED <<peer, sent, got, replied, recvd, killed>>

Rejected(c) == /\ conn' = [conn EXCEPT ![c] = "rejected"]
               /\ UNCHANGED <<peer, sent, got, replied, recvd, table, killed>>

\* close(f); of a descriptor that is not open it does nothing.
Closed(f) == /\ conn' = IF table[f] = NoClient THEN conn ELSE [conn EXCEPT ![table[f]] = "closed"]
             /\ table' = [table EXCEPT ![f] = NoClient]
             /\ UNCHANGED <<peer, sent, got, replied, recvd, killed>>

ReadUnit(c) == /\ got' = [got EXCEPT ![c] = @ + 1]
               /\ UNCHANGED <<conn, peer, sent, replied, recvd, table, killed>>

\* A reply is accepted; on a reset connection it fails, with SIGPIPE or without.
Wrote(c) == /\ \/ /\ peer[c] # "reset"
                  /\ replied' = [replied EXCEPT ![c] = @ + 1]
                  /\ UNCHANGED killed
               \/ /\ peer[c] = "reset"
                  /\ killed' \in BOOLEAN
                  /\ UNCHANGED replied
            /\ UNCHANGED <<conn, peer, sent, got, recvd, table>>

\* The server has read and answered what c has sent, and has closed its connection
\* if c has left.
Attended(c) == \/ killed
               \/ /\ ~HasData(c)
                  /\ peer[c] # "reset" => replied[c] = got[c]
                  /\ peer[c] # "up" => conn[c] = "closed"

SocketsTypeOK ==
    /\ conn \in [Clients -> {"new", "backlog", "open", "rejected", "closed"}]
    /\ peer \in [Clients -> {"up", "fin", "reset"}]
    /\ \A c \in Clients : /\ got[c] \in 0 .. sent[c] /\ sent[c] \in 0 .. MaxMsgs
                          /\ recvd[c] \in 0 .. replied[c] /\ replied[c] \in 0 .. got[c]
    /\ table \in [Fds -> Clients \cup {NoClient}]
    /\ killed \in BOOLEAN
=============================================================================
