---------------------------- MODULE MessageQueue ----------------------------
(***************************************************************************)
(* hw5/csf_assign05/message_queue.cpp: the queue of messages waiting to be *)
(* delivered to one user, between its construction and its destruction.    *)
(*                                                                         *)
(* Broadcasting threads (Producers) call enqueue; the threads that deliver *)
(* (Consumers) call dequeue in a loop, send what they are given and delete *)
(* it (chat_with_reciever).  The server runs one consumer per queue; the   *)
(* class itself is written for any number, and so is this module.  One     *)
(* action is one step of one thread between two points where another       *)
(* thread can intervene: taking the mutex, the body of the critical        *)
(* section, the semaphore operation, releasing the mutex.                  *)
(*                                                                         *)
(* Queue entries are pointers, so heap is modelled: enqueue copies the     *)
(* caller's message into a new allocation and the consumer deletes it.     *)
(***************************************************************************)
EXTENDS Integers, Sequences, FiniteSets

CONSTANTS Producers,   \* threads that call enqueue
          Consumers,   \* threads that call dequeue
          Message,     \* contents of a message
          Addr,        \* addresses `new Message` can return
          MaxCalls,    \* bound: enqueue calls made by one producer
          NoThread,    \* the owner of a free mutex
          NullPtr,     \* nullptr
          Freed,       \* the contents of an address that is not allocated
          Idle,        \* see MessageChannel: no call in progress
          Waiting      \* see MessageChannel: inside dequeue

Thread == Producers \cup Consumers

ASSUME QueueAssumption ==
    /\ IsFiniteSet(Producers) /\ IsFiniteSet(Consumers)
    /\ Producers \cap Consumers = {}
    /\ NoThread \notin Thread
    /\ NullPtr \notin Addr
    /\ Freed \notin Message
    /\ MaxCalls \in Nat
    /\ Idle \notin Message /\ Waiting \notin Message /\ Idle # Waiting

VARIABLES m_lock,      \* the thread that holds the mutex, or NoThread
          m_avail,     \* the value of the semaphore
          m_messages,  \* the deque of pointers
          heap,        \* contents of every address
          pc,          \* where each thread is
          arg,         \* *msg, the message a producer passed to enqueue
          msg,         \* the local variable of dequeue, then its result
          calls        \* enqueue calls made so far by each producer

vars == <<m_lock, m_avail, m_messages, heap, pc, arg, msg, calls>>

ProducerPC == {"idle", "lock", "push", "post", "unlock"}
ConsumerPC == {"idle", "wait", "check", "lock", "pop", "unlock", "got"}

Init ==
    /\ m_lock = NoThread
    /\ m_avail = 0
    /\ m_messages = <<>>
    /\ heap = [a \in Addr |-> Freed]
    /\ pc = [t \in Thread |-> "idle"]
    /\ arg \in [Producers -> Message]
    /\ msg = [c \in Consumers |-> NullPtr]
    /\ calls = [p \in Producers |-> 0]

Goto(t, label) == pc' = [pc EXCEPT ![t] = label]

\* Guard g(m_lock), or pthread_mutex_lock: blocks while another holds it.
Acquire(t, label) ==
    /\ pc[t] = "lock"
    /\ m_lock = NoThread
    /\ m_lock' = t
    /\ Goto(t, label)
    /\ UNCHANGED <<m_avail, m_messages, heap, arg, msg, calls>>

\* ~Guard, or pthread_mutex_unlock.
Release(t, label) ==
    /\ pc[t] = "unlock"
    /\ m_lock' = NoThread
    /\ Goto(t, label)
    /\ UNCHANGED <<m_avail, m_messages, heap, arg, msg, calls>>

-----------------------------------------------------------------------------
(* enqueue *)

EnqCall(p, m) ==
    /\ pc[p] = "idle"
    /\ calls[p] < MaxCalls
    /\ arg' = [arg EXCEPT ![p] = m]
    /\ calls' = [calls EXCEPT ![p] = @ + 1]
    /\ Goto(p, "lock")
    /\ UNCHANGED <<m_lock, m_avail, m_messages, heap, msg>>

EnqLock(p) == Acquire(p, "push")

\* Seeded fault: push_front.
EnqPushFront(p) ==
    /\ pc[p] = "push"
    /\ \E a \in Addr :
          /\ heap[a] = Freed
          /\ heap' = [heap EXCEPT ![a] = arg[p]]
          /\ m_messages' = <<a>> \o m_messages
    /\ Goto(p, "post")
    /\ UNCHANGED <<m_lock, m_avail, arg, msg, calls>>

\* Message *new_msg = new Message(msg->tag, msg->data); push_back(new_msg).
EnqPush(p) ==
    /\ pc[p] = "push"
    /\ \E a \in Addr :
          /\ heap[a] = Freed
          /\ heap' = [heap EXCEPT ![a] = arg[p]]
          /\ m_messages' = Append(m_messages, a)
    /\ Goto(p, "post")
    /\ UNCHANGED <<m_lock, m_avail, arg, msg, calls>>

\* Seeded fault: the sem_post is forgotten.
EnqNoPost(p) ==
    /\ pc[p] = "post"
    /\ Goto(p, "unlock")
    /\ UNCHANGED <<m_lock, m_avail, m_messages, heap, arg, msg, calls>>

\* sem_post(&m_avail), still under the mutex.
EnqPost(p) ==
    /\ pc[p] = "post"
    /\ m_avail' = m_avail + 1
    /\ Goto(p, "unlock")
    /\ UNCHANGED <<m_lock, m_messages, heap, arg, msg, calls>>

EnqUnlock(p) == Release(p, "idle")

-----------------------------------------------------------------------------
(* dequeue, and the caller's loop *)

DeqCall(c) ==
    /\ pc[c] = "idle"
    /\ Goto(c, "wait")
    /\ UNCHANGED <<m_lock, m_avail, m_messages, heap, arg, msg, calls>>

\* Seeded fault: the wait does not wait.
DeqClaimAlways(c) ==
    /\ pc[c] = "wait"
    /\ m_avail' = m_avail - 1
    /\ Goto(c, "check")
    /\ UNCHANGED <<m_lock, m_messages, heap, arg, msg, calls>>

\* sem_timedwait returns 0: one permit is taken.
DeqClaim(c) ==
    /\ pc[c] = "wait"
    /\ m_avail > 0
    /\ m_avail' = m_avail - 1
    /\ Goto(c, "check")
    /\ UNCHANGED <<m_lock, m_messages, heap, arg, msg, calls>>

\* Seeded fault: the result of sem_timedwait is not looked at, only empty().
DeqTimeoutIgnored(c) ==
    /\ pc[c] = "wait"
    /\ m_avail = 0
    /\ Goto(c, "check")
    /\ UNCHANGED <<m_lock, m_avail, m_messages, heap, arg, msg, calls>>

\* sem_timedwait times out: nullptr is returned, and the caller loops.
DeqTimeout(c) ==
    /\ pc[c] = "wait"
    /\ m_avail = 0
    /\ Goto(c, "idle")
    /\ UNCHANGED <<m_lock, m_avail, m_messages, heap, arg, msg, calls>>

\* !m_messages.empty(), read without the mutex.  The read races with a
\* push_back or a pop_front of another thread; empty() compares two pointers,
\* each read whole, so it sees the deque before or after that operation.
DeqCheck(c) ==
    /\ pc[c] = "check"
    /\ Goto(c, IF m_messages # <<>> THEN "lock" ELSE "idle")
    /\ UNCHANGED <<m_lock, m_avail, m_messages, heap, arg, msg, calls>>

DeqLock(c) == Acquire(c, "pop")

\* Seeded fault: front() without pop_front().
DeqPeek(c) ==
    /\ pc[c] = "pop"
    /\ m_messages # <<>>
    /\ msg' = [msg EXCEPT ![c] = Head(m_messages)]
    /\ Goto(c, "unlock")
    /\ UNCHANGED <<m_lock, m_avail, m_messages, heap, arg, calls>>

\* front() and pop_front(); on an empty deque they are undefined, and any
\* pointer may come back.
DeqPop(c) ==
    /\ pc[c] = "pop"
    /\ \/ /\ m_messages # <<>>
          /\ msg' = [msg EXCEPT ![c] = Head(m_messages)]
          /\ m_messages' = Tail(m_messages)
       \/ /\ m_messages = <<>>
          /\ \E a \in Addr : msg' = [msg EXCEPT ![c] = a]
          /\ UNCHANGED m_messages
    /\ Goto(c, "unlock")
    /\ UNCHANGED <<m_lock, m_avail, heap, arg, calls>>

\* Seeded fault: the mutex is left locked.
DeqKeepLock(c) ==
    /\ pc[c] = "unlock"
    /\ Goto(c, "got")
    /\ UNCHANGED <<m_lock, m_avail, m_messages, heap, arg, msg, calls>>

DeqUnlock(c) == Release(c, "got")

\* The caller sends *msg to its client and deletes it.
Deliver(c) ==
    /\ pc[c] = "got"
    /\ heap' = [heap EXCEPT ![msg[c]] = Freed]
    /\ msg' = [msg EXCEPT ![c] = NullPtr]
    /\ Goto(c, "idle")
    /\ UNCHANGED <<m_lock, m_avail, m_messages, arg, calls>>

-----------------------------------------------------------------------------

EnqStep(p) == EnqLock(p) \/ EnqPush(p) \/ EnqPost(p) \/ EnqUnlock(p)

DeqStep(c) ==
    \/ DeqCall(c) \/ DeqClaim(c) \/ DeqTimeout(c) \/ DeqCheck(c)
    \/ DeqLock(c) \/ DeqPop(c) \/ DeqUnlock(c) \/ Deliver(c)

Next ==
    \/ \E p \in Producers : EnqStep(p) \/ \E m \in Message : EnqCall(p, m)
    \/ \E c \in Consumers : DeqStep(c)

Spec == Init /\ [][Next]_vars

\* A call in progress keeps running, and a consumer keeps calling dequeue;
\* nobody is obliged to call enqueue.
FairSpec ==
    /\ Spec
    /\ \A p \in Producers : WF_vars(EnqStep(p))
    /\ \A c \in Consumers : WF_vars(DeqStep(c))

-----------------------------------------------------------------------------
(* Properties *)

\* Every variable holds a value of its type; in particular the semaphore is
\* never negative (sem_timedwait only takes a permit that was posted).
TypeOK ==
    /\ m_lock \in Thread \cup {NoThread}
    /\ m_avail \in Nat
    /\ m_messages \in Seq(Addr)
    /\ heap \in [Addr -> Message \cup {Freed}]
    /\ pc \in [Thread -> ProducerPC \cup ConsumerPC]
    /\ \A p \in Producers : pc[p] \in ProducerPC
    /\ \A c \in Consumers : pc[c] \in ConsumerPC
    /\ arg \in [Producers -> Message]
    /\ msg \in [Consumers -> Addr \cup {NullPtr}]
    /\ calls \in [Producers -> Nat]

\* Threads inside a critical section: between lock and unlock.
InCS(t) == pc[t] \in {"push", "post", "pop", "unlock"}

\* The mutex is held by exactly the thread that is in its critical section.
LockInv == \A t \in Thread : InCS(t) <=> m_lock = t

\* Consumers past sem_timedwait that have not taken their message yet, and
\* the producer between push_back and sem_post.
Claimed  == {c \in Consumers : pc[c] \in {"check", "lock", "pop"}}
Unposted == {p \in Producers : pc[p] = "post"}

\* "the semaphore keeps a count of how many messages are currently in the
\* queue" (message_queue.h:26): exactly so, once the calls between their
\* semaphore operation and their deque operation are accounted for.
PermitsMatch ==
    Len(m_messages) = m_avail + Cardinality(Claimed) + Cardinality(Unposted)

\* front()/pop_front() never run on an empty deque, and a consumer that took a
\* permit never finds the deque empty and throws its permit away: the check
\* outside the mutex at message_queue.cpp:55 is harmless.
NoEmptyPop == \A c \in Claimed : m_messages # <<>>

\* The pointer a consumer holds between pop_front and delete.
Held(c) == pc[c] \in {"unlock", "got"}

\* Every allocated message is in exactly one place -- one position of the
\* deque or one consumer's hands -- and everything there is allocated: no
\* message is leaked, delivered twice, or deleted while still queued.
QueuedOnce == \A i, j \in DOMAIN m_messages : m_messages[i] = m_messages[j] => i = j
HeldOnce   == \A c, d \in Consumers : Held(c) /\ Held(d) /\ msg[c] = msg[d] => c = d
HeldNotQueued ==
    \A c \in Consumers, i \in DOMAIN m_messages : Held(c) => msg[c] # m_messages[i]
Owned(a) == \/ \E i \in DOMAIN m_messages : m_messages[i] = a
            \/ \E c \in Consumers : Held(c) /\ msg[c] = a
AllocatedIsOwned == \A a \in Addr : heap[a] # Freed <=> Owned(a)

Ownership == QueuedOnce /\ HeldOnce /\ HeldNotQueued /\ AllocatedIsOwned

\* Refinement of MessageChannel.  A message enters the channel when its
\* permit is posted and leaves it when it is popped.
Posted ==
    IF Unposted = {} THEN m_messages ELSE SubSeq(m_messages, 1, Len(m_messages) - 1)

chanQueue == [i \in 1..Len(Posted) |-> heap[Posted[i]]]

chanPutting ==
    [p \in Producers |-> IF pc[p] \in {"lock", "push", "post"} THEN arg[p] ELSE Idle]

chanTaking ==
    [c \in Consumers |-> IF pc[c] = "idle" THEN Idle
                         ELSE IF Held(c) THEN heap[msg[c]]
                         ELSE Waiting]

Channel == INSTANCE MessageChannel
             WITH queue <- chanQueue, putting <- chanPutting, taking <- chanTaking

\* The locks, the semaphore and the pointers implement a FIFO channel: nothing
\* is lost, duplicated, altered or reordered, and dequeue returns nullptr only
\* when no message is left for it.
ImplementsChannel == Channel!Spec

\* Every queued message is eventually delivered and deleted, although each
\* dequeue gives up after one second.
MessageDelivered ==
    \A a \in Addr :
        (\E i \in DOMAIN m_messages : m_messages[i] = a) ~> heap[a] = Freed

\* "enqueue ... will not block" (message_queue.h:16): a call returns, whatever
\* the consumers are doing.
EnqueueReturns == \A p \in Producers : pc[p] # "idle" ~> pc[p] = "idle"
=============================================================================
