---------------------------- MODULE MessageQueue ----------------------------
(***************************************************************************)
(* ipc_mq_send.cpp and ipc_mq_rev.cpp of operating-systems/process: a      *)
(* sender puts two messages and "exit" into a named message queue, which   *)
(* the receiver empties up to the first "exit" and then removes. Whoever   *)
(* comes first creates the queue. One whose name is gone lives on for      *)
(* those who have it open, so the name stands for one queue of several.    *)
(***************************************************************************)
EXTENDS Integers, Sequences, SequencesExt

CONSTANTS Senders,       \* sender processes, each started once
          Capacity,      \* messages a queue holds, 10 by default
          MaxReceivers,  \* bound: how often the receiver is started, one at a time
          MaxKills       \* bound: how many processes are killed

VARIABLES queues,    \* the messages in each queue created
          named,     \* the queue the name stands for, 0 for none
          using,     \* the queue each process has open, 0 for none
          does,      \* what each process does next
          received,  \* what was taken from each queue
          runs,      \* how often the receiver was started
          kills

vars == <<queues, named, using, does, received, runs, kills>>

Receiver == 0
Procs == Senders \cup {Receiver}

Init == /\ queues = <<>> /\ received = <<>>
        /\ named = 0
        /\ using = [p \in Procs |-> 0]
        /\ does = [p \in Procs |-> "start"]
        /\ runs = 0 /\ kills = 0

Then(p, d) == does' = [does EXCEPT ![p] = d]

\* mq_open with O_CREAT.
Open(p, d) ==
    /\ IF named # 0
       THEN /\ using' = [using EXCEPT ![p] = named]
            /\ UNCHANGED <<queues, named, received>>
       ELSE /\ queues' = Append(queues, <<>>) /\ received' = Append(received, <<>>)
            /\ named' = Len(queues')
            /\ using' = [using EXCEPT ![p] = named']
    /\ Then(p, d)
    /\ UNCHANGED kills

\* What a sender sends, and what it does next.
Texts == <<"hello", "another", "exit">>
Following(i) == IF i < 3 THEN Texts[i + 1] ELSE "close"

\* mq_send waits while the queue is full.
Send(s) == \E i \in 1 .. 3 :
    /\ does[s] = Texts[i]
    /\ Len(queues[using[s]]) < Capacity
    /\ queues' = [queues EXCEPT ![using[s]] = Append(@, <<s, Texts[i]>>)]
    /\ Then(s, Following(i))
    /\ UNCHANGED <<named, using, received, runs, kills>>

EndsLoop(text) == text = "exit"

Receive == LET q == using[Receiver] IN
    /\ does[Receiver] = "receive"
    /\ queues[q] # <<>>
    /\ queues' = [queues EXCEPT ![q] = Tail(@)]
    /\ received' = [received EXCEPT ![q] = Append(@, Head(queues[q]))]
    /\ Then(Receiver, IF EndsLoop(Head(queues[q])[2]) THEN "close" ELSE "receive")
    /\ UNCHANGED <<named, using, runs, kills>>

Close(p, d) == /\ does[p] = "close"
               /\ using' = [using EXCEPT ![p] = 0]
               /\ Then(p, d)
               /\ UNCHANGED <<queues, named, received, runs, kills>>

Unlink == /\ does[Receiver] = "unlink"
          /\ named' = 0
          /\ Then(Receiver, "end")
          /\ UNCHANGED <<queues, using, received, runs, kills>>

Kill(p) == /\ does[p] \notin {"start", "end"} /\ kills < MaxKills
           /\ kills' = kills + 1
           /\ using' = [using EXCEPT ![p] = 0]
           /\ Then(p, "end")
           /\ UNCHANGED <<queues, named, received, runs>>

\* A process is started by its mq_open, the receiver again when it has ended.
Start == \/ \E s \in Senders : does[s] = "start" /\ Open(s, Texts[1]) /\ UNCHANGED runs
         \/ /\ does[Receiver] \in {"start", "end"} /\ runs < MaxReceivers
            /\ Open(Receiver, "receive")
            /\ runs' = runs + 1

Sender(s) == Send(s) \/ Close(s, "end")
ReceiverStep == Receive \/ Close(Receiver, "unlink") \/ Unlink

Next == Start \/ ReceiverStep \/ (\E s \in Senders : Sender(s)) \/ \E p \in Procs : Kill(p)

-----------------------------------------------------------------------------
TypeOK == /\ queues \in Seq(Seq(Senders \X Range(Texts)))
          /\ \A q \in DOMAIN queues : Len(queues[q]) <= Capacity
          /\ named \in 0 .. Len(queues)
          /\ using \in [Procs -> 0 .. Len(queues)]
          /\ does \in [Procs -> Range(Texts) \cup {"start", "receive", "close", "unlink", "end"}]
          /\ runs \in 0 .. MaxReceivers /\ kills \in 0 .. MaxKills

\* A queue that no receiver can reach any more.
Removed(q) == named # q /\ using[Receiver] # q

\* What is left in a queue nobody can reach was put there behind the exit of
\* another sender: a sender's messages are never lost to its own exit.
LostBehindExit ==
    \A q \in DOMAIN queues : Removed(q) /\ queues[q] # <<>> =>
        /\ received[q] # <<>> /\ Last(received[q])[2] = "exit"
        /\ \A m \in Range(queues[q]) : m[1] # Last(received[q])[1]

\* One sender and one receiver, both undisturbed.
OnePair == runs = 1 /\ kills = 0 /\ \E s \in Senders :
               does[s] # "start" /\ \A o \in Senders \ {s} : does[o] = "start"

\* They have ended, with the queue empty and its name removed.
Exchanged == /\ does[Receiver] = "end" /\ named = 0
             /\ \A s \in Senders : does[s] \in {"start", "end"}
             /\ \A q \in DOMAIN queues : queues[q] = <<>>
=============================================================================
