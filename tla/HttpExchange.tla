---------------------------- MODULE HttpExchange ----------------------------
(***************************************************************************)
(* computer-networks/server_http.cpp with its client client_http.cpp: the  *)
(* server takes one connection at a time, reads once, answers and closes;  *)
(* a client sends a request, reads once and prints. A request may arrive   *)
(* in two pieces.                                                          *)
(***************************************************************************)
EXTENDS Integers

CONSTANTS Browsers,   \* clients, each connects once
          NoBrowser,
          MaxAborts   \* bound: how many clients are killed

\* "missing" is any other path, and that of the audio where there is no file.
Paths == {"text", "audio", "missing"}

VARIABLES asks,      \* the path each client asks for
          browser,   \* where each client is
          pieces,    \* how much of its request has arrived, 2 for all
          serving,   \* the connection being handled
          took,      \* how much of it the server has read, -1 before read returns
          reply,     \* what the server has sent to each client
          partial,   \* clients of whose request the server has read only a part
          reset,     \* connections closed with something unread
          aborts

vars == <<asks, browser, pieces, serving, took, reply, partial, reset, aborts>>

Init == /\ asks \in [Browsers -> Paths]
        /\ browser = [b \in Browsers |-> "off"]
        /\ pieces = [b \in Browsers |-> 0]
        /\ serving = NoBrowser /\ took = -1
        /\ reply = [b \in Browsers |-> "none"]
        /\ partial = {} /\ reset = {} /\ aborts = 0

Becomes(b, s) == browser' = [browser EXCEPT ![b] = s]

ServerKeeps == UNCHANGED <<asks, serving, took, reply, partial>>

ClientsKeep == UNCHANGED <<asks, browser, pieces, aborts>>

\* connect, and send, which only hands the request to the system.
Connect(b) == /\ browser[b] = "off"
              /\ Becomes(b, "connected")
              /\ ServerKeeps /\ UNCHANGED <<pieces, reset, aborts>>

Replied(b) == reply[b] # "none"

\* The request arrives whole or in two pieces. What comes after the server has
\* closed the connection resets it.
Arrive(b) == /\ browser[b] = "connected" /\ pieces[b] < 2
             /\ \E n \in pieces[b] + 1 .. 2 : pieces' = [pieces EXCEPT ![b] = n]
             /\ reset' = IF Replied(b) /\ serving # b THEN reset \cup {b} ELSE reset
             /\ ServerKeeps /\ UNCHANGED <<browser, aborts>>

\* read fails, if at all, after a reset, and std::string(buffer, -1) then throws.
Receive(b) == /\ browser[b] = "connected" /\ Replied(b)
              /\ \/ Becomes(b, "answered")
                 \/ b \in reset /\ Becomes(b, "terminated")
              /\ ServerKeeps /\ UNCHANGED <<pieces, reset, aborts>>

Kill(b) == /\ browser[b] = "connected" /\ aborts < MaxAborts
           /\ aborts' = aborts + 1
           /\ Becomes(b, "gone")
           /\ ServerKeeps /\ UNCHANGED <<pieces, reset>>

Accept(b) == /\ serving = NoBrowser /\ browser[b] # "off" /\ ~Replied(b)
             /\ serving' = b
             /\ ClientsKeep /\ UNCHANGED <<took, reply, partial, reset>>

\* read waits for data or the end of the connection.
Read(b) == /\ serving = b /\ took = -1
           /\ pieces[b] > 0 \/ browser[b] = "gone"
           /\ took' = pieces[b]
           /\ partial' = IF pieces[b] < 2 THEN partial \cup {b} ELSE partial
           /\ ClientsKeep /\ UNCHANGED <<serving, reply, reset>>

Found(path) == IF path = "missing" THEN "not found" ELSE path

\* One piece may end before the path does.
Answers(b) == CASE took = 2 -> {Found(asks[b])}
                [] took = 1 -> {Found(asks[b]), "not found"}
                [] took = 0 -> {"not found"}

Respond(b) == /\ serving = b /\ took # -1 /\ ~Replied(b)
              /\ \E a \in Answers(b) : reply' = [reply EXCEPT ![b] = a]
              /\ ClientsKeep /\ UNCHANGED <<serving, took, partial, reset>>

\* close resets a connection in which something is left to read.
Close(b) == /\ serving = b /\ Replied(b)
            /\ reset' = IF pieces[b] > took THEN reset \cup {b} ELSE reset
            /\ serving' = NoBrowser /\ took' = -1
            /\ ClientsKeep /\ UNCHANGED <<reply, partial>>

BrowserStep(b) == Arrive(b) \/ Receive(b)
ServerStep == \E b \in Browsers : Accept(b) \/ Read(b) \/ Respond(b) \/ Close(b)

Next == ServerStep \/ \E b \in Browsers : Connect(b) \/ BrowserStep(b) \/ Kill(b)

-----------------------------------------------------------------------------
TypeOK == /\ asks \in [Browsers -> Paths]
          /\ browser \in [Browsers -> {"off", "connected", "answered", "terminated", "gone"}]
          /\ pieces \in [Browsers -> 0 .. 2]
          /\ serving \in Browsers \cup {NoBrowser} /\ took \in -1 .. 2
          /\ reply \in [Browsers -> {"none", "text", "audio", "not found"}]
          /\ partial \subseteq Browsers /\ reset \subseteq Browsers
          /\ aborts \in 0 .. MaxAborts

\* A client whose request was read whole gets the answer to it; only one whose
\* request was read in part may get another, or end in an exception.
RightAnswer ==
    \A b \in Browsers \ partial : /\ browser[b] = "answered" => reply[b] = Found(asks[b])
                                 /\ browser[b] # "terminated"
=============================================================================
