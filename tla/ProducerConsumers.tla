------------------------- MODULE ProducerConsumers -------------------------
(***************************************************************************)
(* operating-systems/thread/producer_consumer_1v2.cpp: one producer and    *)
(* several consumers around a queue, a mutex and a condition variable. A   *)
(* critical section is one step; notifications come after the unlock and   *)
(* are steps of their own.                                                 *)
(***************************************************************************)
EXTENDS Integers, Sequences

CONSTANTS Consumers,
          Items      \* how many items the producer makes, 5 in the code

VARIABLES que, done,
          produced,  \* items the producer has made
          consumed,  \* items in the order consumers took them
          producer,  \* where the producer is
          consumer   \* where each consumer is

vars == <<que, done, produced, consumed, producer, consumer>>

Init == /\ que = <<>>
        /\ done = FALSE
        /\ produced = 0
        /\ consumed = <<>>
        /\ producer = "produce"
        /\ consumer = [c \in Consumers |-> "ready"]

Goto(c, l) == consumer' = [consumer EXCEPT ![c] = l]

Waiting == {c \in Consumers : consumer[c] = "waiting"}

Produce == /\ producer = "produce" /\ produced < Items
           /\ que' = Append(que, produced)
           /\ produced' = produced + 1
           /\ producer' = "notify"
           /\ UNCHANGED <<done, consumed, consumer>>

NotifyOne == /\ producer = "notify"
             /\ producer' = "produce"
             /\ \/ \E c \in Waiting : Goto(c, "ready")
                \/ Waiting = {} /\ UNCHANGED consumer
             /\ UNCHANGED <<que, done, produced, consumed>>

Finish == /\ producer = "produce" /\ produced = Items
          /\ done' = TRUE
          /\ producer' = "notifyAll"
          /\ UNCHANGED <<que, produced, consumed, consumer>>

NotifyAll == /\ producer = "notifyAll"
             /\ producer' = "end"
             /\ consumer' = [c \in Consumers |->
                                IF c \in Waiting THEN "ready" ELSE consumer[c]]
             /\ UNCHANGED <<que, done, produced, consumed>>

Producer == Produce \/ NotifyOne \/ Finish \/ NotifyAll

NotPopped == que

Popped == Tail(que)

Consume(c) == /\ consumer[c] = "ready" /\ que # <<>>
              /\ consumed' = Append(consumed, Head(que))
              /\ que' = Popped
              /\ UNCHANGED <<done, produced, producer, consumer>>

Return(c) == /\ consumer[c] = "ready" /\ que = <<>> /\ done
             /\ Goto(c, "end")
             /\ UNCHANGED <<que, done, produced, consumed, producer>>

Wait(c) == /\ consumer[c] = "ready" /\ que = <<>> /\ ~done
           /\ Goto(c, "waiting")
           /\ UNCHANGED <<que, done, produced, consumed, producer>>

Consumer(c) == Consume(c) \/ Return(c) \/ Wait(c)

\* wait() may return unnotified; the while loop looks at the queue again.
SpuriousWakeup(c) == /\ c \in Waiting
                     /\ Goto(c, "ready")
                     /\ UNCHANGED <<que, done, produced, consumed, producer>>

Next == Producer \/ \E c \in Consumers : Consumer(c) \/ SpuriousWakeup(c)

-----------------------------------------------------------------------------
TypeOK == /\ que \in Seq(0 .. Items - 1)
          /\ done \in BOOLEAN
          /\ produced \in 0 .. Items
          /\ consumed \in Seq(0 .. Items - 1)
          /\ producer \in {"produce", "notify", "notifyAll", "end"}
          /\ consumer \in [Consumers -> {"ready", "waiting", "end"}]

\* Items are consumed once and in order, and no consumer leaves while there are
\* items to come (producer_consumer_1v2.cpp:40-57).
ConsumedOnce == /\ consumed \o que = [n \in 1 .. produced |-> n - 1]
                /\ \A c \in Consumers : consumer[c] = "end" => Len(consumed) = Items

\* Everybody gets to the end of main.
AllEnd == producer = "end" /\ \A c \in Consumers : consumer[c] = "end"
=============================================================================
