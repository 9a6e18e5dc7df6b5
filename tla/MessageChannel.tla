--------------------------- MODULE MessageChannel ---------------------------
(***************************************************************************)
(* What hw5/csf_assign05/message_queue.h promises of a MessageQueue, with  *)
(* no lock, semaphore or heap: a FIFO channel.  enqueue is called with a   *)
(* message and takes effect once; a dequeue hands over the oldest message, *)
(* or returns nothing when there is none that another waiting dequeue is   *)
(* not already entitled to.                                                *)
(***************************************************************************)
EXTENDS Integers, Sequences, FiniteSets

CONSTANTS Producers,   \* threads that call enqueue
          Consumers,   \* threads that call dequeue
          Message,     \* what can be enqueued
          Idle,        \* a producer or consumer with no call in progress
          Waiting      \* a consumer inside dequeue

VARIABLES queue,       \* the messages in the channel, oldest first
          putting,     \* the message each producer is enqueuing, or Idle
          taking       \* Idle, Waiting, or the message a consumer was given

chanVars == <<queue, putting, taking>>

Init ==
    /\ queue = <<>>
    /\ putting = [p \in Producers |-> Idle]
    /\ taking = [c \in Consumers |-> Idle]

PutCall(p, m) ==
    /\ putting[p] = Idle
    /\ putting' = [putting EXCEPT ![p] = m]
    /\ UNCHANGED <<queue, taking>>

Put(p) ==
    /\ putting[p] # Idle
    /\ queue' = Append(queue, putting[p])
    /\ putting' = [putting EXCEPT ![p] = Idle]
    /\ UNCHANGED taking

TakeCall(c) ==
    /\ taking[c] = Idle
    /\ taking' = [taking EXCEPT ![c] = Waiting]
    /\ UNCHANGED <<queue, putting>>

Take(c) ==
    /\ taking[c] = Waiting
    /\ queue # <<>>
    /\ taking' = [taking EXCEPT ![c] = Head(queue)]
    /\ queue' = Tail(queue)
    /\ UNCHANGED putting

\* A dequeue may give up only when the other waiting calls account for every
\* message in the channel; with one consumer, only when the channel is empty.
TakeNothing(c) ==
    /\ taking[c] = Waiting
    /\ Len(queue) <= Cardinality({d \in Consumers \ {c} : taking[d] = Waiting})
    /\ taking' = [taking EXCEPT ![c] = Idle]
    /\ UNCHANGED <<queue, putting>>

Finish(c) ==
    /\ taking[c] \in Message
    /\ taking' = [taking EXCEPT ![c] = Idle]
    /\ UNCHANGED <<queue, putting>>

Next ==
    \/ \E p \in Producers : Put(p) \/ \E m \in Message : PutCall(p, m)
    \/ \E c \in Consumers : TakeCall(c) \/ Take(c) \/ TakeNothing(c) \/ Finish(c)

Spec == Init /\ [][Next]_chanVars
=============================================================================
