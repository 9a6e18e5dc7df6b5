------------------------- MODULE MessageQueueProofs -------------------------
(***************************************************************************)
(* Machine-checked proofs about MessageQueue, for any finite sets of       *)
(* producers and consumers, any messages and addresses and any number of   *)
(* calls.                                                                  *)
(***************************************************************************)
EXTENDS MessageQueue, FiniteSetTheorems, SequenceTheorems, TLAPS

\* The steps a thread can take, as one disjunction.
LEMMA NextCases ==
    ASSUME Next
    PROVE  \/ \E p \in Producers :
                \/ \E m \in Message : EnqCall(p, m)
                \/ EnqLock(p) \/ EnqPush(p) \/ EnqPost(p) \/ EnqUnlock(p)
           \/ \E c \in Consumers :
                \/ DeqCall(c) \/ DeqClaim(c) \/ DeqTimeout(c) \/ DeqCheck(c)
                \/ DeqLock(c) \/ DeqPop(c) \/ DeqUnlock(c) \/ Deliver(c)
  BY DEF Next, EnqStep, DeqStep

-----------------------------------------------------------------------------
(* Type correctness *)

LEMMA TypeInit == Init => TypeOK
  BY QueueAssumption DEF Init, TypeOK, Thread, ProducerPC, ConsumerPC

LEMMA TypeStep == TypeOK /\ [Next]_vars => TypeOK'
  <1> SUFFICES ASSUME TypeOK, [Next]_vars PROVE TypeOK'
    OBVIOUS
  <1> USE QueueAssumption DEF TypeOK, Thread, ProducerPC, ConsumerPC, Goto
  <1>1. CASE UNCHANGED vars
    BY <1>1 DEF vars
  <1>2. ASSUME NEW p \in Producers, NEW m \in Message, EnqCall(p, m) PROVE TypeOK'
    BY <1>2 DEF EnqCall
  <1>3. ASSUME NEW p \in Producers, EnqLock(p) PROVE TypeOK'
    BY <1>3 DEF EnqLock, Acquire
  <1>4. ASSUME NEW p \in Producers, EnqPush(p) PROVE TypeOK'
    BY <1>4 DEF EnqPush
  <1>5. ASSUME NEW p \in Producers, EnqPost(p) PROVE TypeOK'
    BY <1>5 DEF EnqPost
  <1>6. ASSUME NEW p \in Producers, EnqUnlock(p) PROVE TypeOK'
    BY <1>6 DEF EnqUnlock, Release
  <1>7. ASSUME NEW c \in Consumers, DeqCall(c) PROVE TypeOK'
    BY <1>7 DEF DeqCall
  <1>8. ASSUME NEW c \in Consumers, DeqClaim(c) PROVE TypeOK'
    BY <1>8 DEF DeqClaim
  <1>9. ASSUME NEW c \in Consumers, DeqTimeout(c) PROVE TypeOK'
    BY <1>9 DEF DeqTimeout
  <1>10. ASSUME NEW c \in Consumers, DeqCheck(c) PROVE TypeOK'
    BY <1>10 DEF DeqCheck
  <1>11. ASSUME NEW c \in Consumers, DeqLock(c) PROVE TypeOK'
    BY <1>11 DEF DeqLock, Acquire
  <1>12. ASSUME NEW c \in Consumers, DeqPop(c) PROVE TypeOK'
    <2>1. msg' \in [Consumers -> Addr \cup {NullPtr}] /\ m_messages' \in Seq(Addr)
      <3>1. CASE m_messages # <<>>
        <4>1. Head(m_messages) \in Addr /\ Tail(m_messages) \in Seq(Addr)
          BY <3>1, HeadTailProperties
        <4>2. QED
          BY <1>12, <3>1, <4>1 DEF DeqPop
      <3>2. CASE m_messages = <<>>
        BY <1>12, <3>2 DEF DeqPop
      <3>3. QED
        BY <3>1, <3>2
    <2>2. QED
      BY <1>12, <2>1 DEF DeqPop
  <1>13. ASSUME NEW c \in Consumers, DeqUnlock(c) PROVE TypeOK'
    BY <1>13 DEF DeqUnlock, Release
  <1>14. ASSUME NEW c \in Consumers, Deliver(c) PROVE TypeOK'
    BY <1>14 DEF Deliver
  <1>15. QED
    BY <1>1, <1>2, <1>3, <1>4, <1>5, <1>6, <1>7, <1>8, <1>9, <1>10, <1>11,
       <1>12, <1>13, <1>14, NextCases

\* Every variable keeps its type; the semaphore never goes below zero.
THEOREM TypeCorrect == Spec => []TypeOK
  BY TypeInit, TypeStep, PTL DEF Spec

-----------------------------------------------------------------------------
(* The mutex *)

LEMMA LockInit == Init => LockInv
  BY QueueAssumption DEF Init, LockInv, InCS, Thread

LEMMA LockStep == TypeOK /\ LockInv /\ [Next]_vars => LockInv'
  <1> SUFFICES ASSUME TypeOK, LockInv, [Next]_vars PROVE LockInv'
    OBVIOUS
  <1> USE QueueAssumption DEF TypeOK, LockInv, InCS, Thread, Goto
  <1>1. CASE UNCHANGED vars
    BY <1>1 DEF vars
  <1>2. ASSUME NEW p \in Producers, NEW m \in Message, EnqCall(p, m) PROVE LockInv'
    BY <1>2 DEF EnqCall
  <1>3. ASSUME NEW p \in Producers, EnqLock(p) PROVE LockInv'
    BY <1>3 DEF EnqLock, Acquire
  <1>4. ASSUME NEW p \in Producers, EnqPush(p) PROVE LockInv'
    BY <1>4 DEF EnqPush
  <1>5. ASSUME NEW p \in Producers, EnqPost(p) PROVE LockInv'
    BY <1>5 DEF EnqPost
  <1>6. ASSUME NEW p \in Producers, EnqUnlock(p) PROVE LockInv'
    BY <1>6 DEF EnqUnlock, Release
  <1>7. ASSUME NEW c \in Consumers, DeqCall(c) PROVE LockInv'
    BY <1>7 DEF DeqCall
  <1>8. ASSUME NEW c \in Consumers, DeqClaim(c) PROVE LockInv'
    BY <1>8 DEF DeqClaim
  <1>9. ASSUME NEW c \in Consumers, DeqTimeout(c) PROVE LockInv'
    BY <1>9 DEF DeqTimeout
  <1>10. ASSUME NEW c \in Consumers, DeqCheck(c) PROVE LockInv'
    BY <1>10 DEF DeqCheck
  <1>11. ASSUME NEW c \in Consumers, DeqLock(c) PROVE LockInv'
    BY <1>11 DEF DeqLock, Acquire
  <1>12. ASSUME NEW c \in Consumers, DeqPop(c) PROVE LockInv'
    <2>1. UNCHANGED m_lock /\ pc[c] = "pop" /\ pc' = [pc EXCEPT ![c] = "unlock"]
      BY <1>12 DEF DeqPop
    <2>2. QED
      BY <2>1
  <1>13. ASSUME NEW c \in Consumers, DeqUnlock(c) PROVE LockInv'
    BY <1>13 DEF DeqUnlock, Release
  <1>14. ASSUME NEW c \in Consumers, Deliver(c) PROVE LockInv'
    BY <1>14 DEF Deliver
  <1>15. QED
    BY <1>1, <1>2, <1>3, <1>4, <1>5, <1>6, <1>7, <1>8, <1>9, <1>10, <1>11,
       <1>12, <1>13, <1>14, NextCases

\* The mutex admits one thread at a time to push, post, pop.
THEOREM MutualExclusion == Spec => []LockInv
  BY LockInit, LockStep, TypeInit, TypeStep, PTL DEF Spec

-----------------------------------------------------------------------------
(* The semaphore counts the messages *)

LEMMA CountsFinite ==
    /\ IsFiniteSet(Claimed) /\ Cardinality(Claimed) \in Nat
    /\ IsFiniteSet(Unposted) /\ Cardinality(Unposted) \in Nat
  <1>1. Claimed \in SUBSET Consumers /\ Unposted \in SUBSET Producers
    BY DEF Claimed, Unposted
  <1>2. IsFiniteSet(Claimed) /\ IsFiniteSet(Unposted)
    BY <1>1, FS_Subset, QueueAssumption
  <1>3. QED
    BY <1>2, FS_CardinalityType

\* A consumer that holds a permit always finds a message.
LEMMA ClaimBacked ==
    ASSUME TypeOK, PermitsMatch, NEW c \in Claimed
    PROVE  m_messages # <<>>
  <1>1. Cardinality(Claimed) # 0
    BY CountsFinite, FS_EmptySet
  <1>2. Len(m_messages) > 0
    BY <1>1, CountsFinite DEF TypeOK, PermitsMatch
  <1>3. QED
    BY <1>2, EmptySeq

LEMMA PermitsInit == Init => PermitsMatch
  <1> SUFFICES ASSUME Init PROVE PermitsMatch
    OBVIOUS
  <1>1. Claimed = {} /\ Unposted = {}
    BY DEF Init, Claimed, Unposted, Thread
  <1>2. QED
    BY <1>1, FS_EmptySet, EmptySeq DEF Init, PermitsMatch

LEMMA PermitsStep == TypeOK /\ PermitsMatch /\ [Next]_vars => PermitsMatch'
  <1> SUFFICES ASSUME TypeOK, PermitsMatch, [Next]_vars PROVE PermitsMatch'
    OBVIOUS
  <1> USE QueueAssumption
  <1>a. /\ Len(m_messages) \in Nat /\ m_avail \in Nat
    BY LenProperties DEF TypeOK
  \* A step that leaves the deque, the semaphore and both sets alone.
  <1>b. ASSUME UNCHANGED <<m_avail, m_messages>>, Claimed' = Claimed, Unposted' = Unposted
        PROVE  PermitsMatch'
    BY <1>b DEF PermitsMatch
  <1>1. CASE UNCHANGED vars
    BY <1>1, <1>b DEF vars, Claimed, Unposted
  <1>2. ASSUME NEW p \in Producers, NEW m \in Message, EnqCall(p, m) PROVE PermitsMatch'
    BY <1>2, <1>b DEF EnqCall, Goto, Claimed, Unposted, TypeOK, Thread
  <1>3. ASSUME NEW p \in Producers, EnqLock(p) PROVE PermitsMatch'
    BY <1>3, <1>b DEF EnqLock, Acquire, Goto, Claimed, Unposted, TypeOK, Thread
  <1>4. ASSUME NEW p \in Producers, EnqPush(p) PROVE PermitsMatch'
    <2>1. Claimed' = Claimed /\ Unposted' = Unposted \cup {p} /\ p \notin Unposted
      BY <1>4 DEF EnqPush, Goto, Claimed, Unposted, TypeOK, Thread
    <2>2. Cardinality(Unposted') = Cardinality(Unposted) + 1
      BY <2>1, CountsFinite, FS_AddElement
    <2>3. Len(m_messages') = Len(m_messages) + 1 /\ UNCHANGED m_avail
      BY <1>4, AppendProperties DEF EnqPush, TypeOK
    <2>4. QED
      BY <1>a, <2>1, <2>2, <2>3, CountsFinite DEF PermitsMatch
  <1>5. ASSUME NEW p \in Producers, EnqPost(p) PROVE PermitsMatch'
    <2>1. Claimed' = Claimed /\ Unposted' = Unposted \ {p} /\ p \in Unposted
      BY <1>5 DEF EnqPost, Goto, Claimed, Unposted, TypeOK, Thread
    <2>2. Cardinality(Unposted') = Cardinality(Unposted) - 1
      BY <2>1, CountsFinite, FS_RemoveElement
    <2>3. UNCHANGED m_messages /\ m_avail' = m_avail + 1
      BY <1>5 DEF EnqPost
    <2>4. QED
      BY <1>a, <2>1, <2>2, <2>3, CountsFinite DEF PermitsMatch
  <1>6. ASSUME NEW p \in Producers, EnqUnlock(p) PROVE PermitsMatch'
    BY <1>6, <1>b DEF EnqUnlock, Release, Goto, Claimed, Unposted, TypeOK, Thread
  <1>7. ASSUME NEW c \in Consumers, DeqCall(c) PROVE PermitsMatch'
    BY <1>7, <1>b DEF DeqCall, Goto, Claimed, Unposted, TypeOK, Thread
  <1>8. ASSUME NEW c \in Consumers, DeqClaim(c) PROVE PermitsMatch'
    <2>1. Claimed' = Claimed \cup {c} /\ Unposted' = Unposted /\ c \notin Claimed
      BY <1>8 DEF DeqClaim, Goto, Claimed, Unposted, TypeOK, Thread
    <2>2. Cardinality(Claimed') = Cardinality(Claimed) + 1
      BY <2>1, CountsFinite, FS_AddElement
    <2>3. UNCHANGED m_messages /\ m_avail' = m_avail - 1
      BY <1>8 DEF DeqClaim
    <2>4. QED
      BY <1>a, <2>1, <2>2, <2>3, CountsFinite DEF PermitsMatch
  <1>9. ASSUME NEW c \in Consumers, DeqTimeout(c) PROVE PermitsMatch'
    BY <1>9, <1>b DEF DeqTimeout, Goto, Claimed, Unposted, TypeOK, Thread
  <1>10. ASSUME NEW c \in Consumers, DeqCheck(c) PROVE PermitsMatch'
    <2>1. m_messages # <<>>
      BY <1>10, ClaimBacked DEF DeqCheck, Claimed
    <2>2. QED
      BY <1>10, <2>1, <1>b DEF DeqCheck, Goto, Claimed, Unposted, TypeOK, Thread
  <1>11. ASSUME NEW c \in Consumers, DeqLock(c) PROVE PermitsMatch'
    BY <1>11, <1>b DEF DeqLock, Acquire, Goto, Claimed, Unposted, TypeOK, Thread
  <1>12. ASSUME NEW c \in Consumers, DeqPop(c) PROVE PermitsMatch'
    <2>1. pc[c] = "pop" /\ pc' = [pc EXCEPT ![c] = "unlock"]
      BY <1>12 DEF DeqPop, Goto
    <2>2. Claimed' = Claimed \ {c} /\ Unposted' = Unposted /\ c \in Claimed
      BY <2>1 DEF Claimed, Unposted, TypeOK, Thread
    <2>3. Cardinality(Claimed') = Cardinality(Claimed) - 1
      BY <2>2, CountsFinite, FS_RemoveElement
    <2>4. m_messages # <<>>
      BY <2>2, ClaimBacked
    <2>5. m_messages' = Tail(m_messages) /\ UNCHANGED m_avail
      BY <1>12, <2>4 DEF DeqPop
    <2>6. Len(m_messages') = Len(m_messages) - 1
      BY <2>4, <2>5, HeadTailProperties DEF TypeOK
    <2>7. QED
      BY <1>a, <2>2, <2>3, <2>5, <2>6, CountsFinite DEF PermitsMatch
  <1>13. ASSUME NEW c \in Consumers, DeqUnlock(c) PROVE PermitsMatch'
    BY <1>13, <1>b DEF DeqUnlock, Release, Goto, Claimed, Unposted, TypeOK, Thread
  <1>14. ASSUME NEW c \in Consumers, Deliver(c) PROVE PermitsMatch'
    BY <1>14, <1>b DEF Deliver, Goto, Claimed, Unposted, TypeOK, Thread
  <1>15. QED
    BY <1>1, <1>2, <1>3, <1>4, <1>5, <1>6, <1>7, <1>8, <1>9, <1>10, <1>11,
       <1>12, <1>13, <1>14, NextCases

\* The semaphore counts the messages of the deque (message_queue.h:26).
THEOREM PermitsCorrect == Spec => []PermitsMatch
  BY PermitsInit, PermitsStep, TypeInit, TypeStep, PTL DEF Spec

\* No dequeue pops an empty deque, and none drops a permit.
THEOREM PopsAreSafe == Spec => []NoEmptyPop
  <1>1. TypeOK /\ PermitsMatch => NoEmptyPop
    BY ClaimBacked DEF NoEmptyPop
  <1>2. QED
    BY <1>1, TypeCorrect, PermitsCorrect, PTL

-----------------------------------------------------------------------------
(* Every allocated message has one owner *)

LEMMA OwnershipInit == Init => Ownership
  BY EmptySeq DEF Init, Ownership, QueuedOnce, HeldOnce, HeldNotQueued,
     AllocatedIsOwned, Owned, Held, Thread

\* A held pointer is an address, never nullptr.
HeldIsAddr == \A c \in Consumers : Held(c) => msg[c] \in Addr

LEMMA HeldIsAddrInit == Init => HeldIsAddr
  BY DEF Init, HeldIsAddr, Held, Thread

LEMMA HeldIsAddrStep == TypeOK /\ HeldIsAddr /\ [Next]_vars => HeldIsAddr'
  <1> SUFFICES ASSUME TypeOK, HeldIsAddr, [Next]_vars PROVE HeldIsAddr'
    OBVIOUS
  <1> USE QueueAssumption DEF HeldIsAddr, Held
  <1>1. CASE UNCHANGED vars
    BY <1>1 DEF vars
  <1>2. ASSUME NEW p \in Producers,
               \/ \E m \in Message : EnqCall(p, m)
               \/ EnqLock(p) \/ EnqPush(p) \/ EnqPost(p) \/ EnqUnlock(p)
        PROVE  HeldIsAddr'
    <2>1. msg' = msg /\ \A c \in Consumers : pc'[c] = pc[c]
      BY <1>2 DEF EnqCall, EnqLock, EnqPush, EnqPost, EnqUnlock, Acquire, Release,
                  Goto, TypeOK, Thread
    <2>2. QED
      BY <2>1
  <1>3. ASSUME NEW c \in Consumers,
               \/ DeqCall(c) \/ DeqClaim(c) \/ DeqTimeout(c) \/ DeqCheck(c)
               \/ DeqLock(c) \/ DeqUnlock(c)
        PROVE  HeldIsAddr'
    <2>1. /\ msg' = msg
          /\ \A d \in Consumers \ {c} : pc'[d] = pc[d]
          /\ pc'[c] \in {"unlock", "got"} => pc[c] = "unlock"
      BY <1>3 DEF DeqCall, DeqClaim, DeqTimeout, DeqCheck, DeqLock, DeqUnlock, Acquire,
                  Release, Goto, TypeOK, Thread
    <2>2. QED
      BY <2>1
  <1>4. ASSUME NEW c \in Consumers, DeqPop(c) PROVE HeldIsAddr'
    <2>1. /\ msg'[c] \in Addr
          /\ \A d \in Consumers \ {c} : msg'[d] = msg[d] /\ pc'[d] = pc[d]
      <3>1. CASE m_messages # <<>>
        <4>1. Head(m_messages) \in Addr
          BY <3>1, HeadTailProperties DEF TypeOK
        <4>2. QED
          BY <1>4, <3>1, <4>1 DEF DeqPop, Goto, TypeOK, Thread
      <3>2. CASE m_messages = <<>>
        BY <1>4, <3>2 DEF DeqPop, Goto, TypeOK, Thread
      <3>3. QED
        BY <3>1, <3>2
    <2>2. QED
      BY <2>1
  <1>5. ASSUME NEW c \in Consumers, Deliver(c) PROVE HeldIsAddr'
    BY <1>5 DEF Deliver, Goto, TypeOK, Thread
  <1>6. QED
    BY <1>1, <1>2, <1>3, <1>4, <1>5, NextCases

LEMMA OwnershipStep ==
    TypeOK /\ PermitsMatch /\ HeldIsAddr /\ Ownership /\ [Next]_vars => Ownership'
  <1> SUFFICES ASSUME TypeOK, PermitsMatch, HeldIsAddr, Ownership, [Next]_vars
               PROVE  Ownership'
    OBVIOUS
  <1> USE QueueAssumption
  <1>a. Len(m_messages) \in Nat /\ DOMAIN m_messages = 1..Len(m_messages)
    BY LenProperties DEF TypeOK
  <1>b. \A i \in 1..Len(m_messages) : m_messages[i] \in Addr
    BY ElementOfSeq DEF TypeOK
  \* A step that moves no pointer.
  <1>c. ASSUME UNCHANGED <<m_messages, heap, msg>>,
               \A c \in Consumers : Held(c)' <=> Held(c)
        PROVE  Ownership'
    BY <1>c DEF Ownership, QueuedOnce, HeldOnce, HeldNotQueued, AllocatedIsOwned, Owned
  <1>1. CASE UNCHANGED vars
    BY <1>1, <1>c DEF vars, Held
  <1>2. ASSUME NEW p \in Producers,
               \/ \E m \in Message : EnqCall(p, m)
               \/ EnqLock(p) \/ EnqPost(p) \/ EnqUnlock(p)
        PROVE  Ownership'
    <2>1. UNCHANGED <<m_messages, heap, msg>> /\ \A c \in Consumers : pc'[c] = pc[c]
      BY <1>2 DEF EnqCall, EnqLock, EnqPost, EnqUnlock, Acquire, Release, Goto,
                  TypeOK, Thread
    <2>2. QED
      BY <2>1, <1>c DEF Held
  <1>3. ASSUME NEW p \in Producers, EnqPush(p) PROVE Ownership'
    <2>1. PICK a \in Addr : /\ heap[a] = Freed
                            /\ heap' = [heap EXCEPT ![a] = arg[p]]
                            /\ m_messages' = Append(m_messages, a)
      BY <1>3 DEF EnqPush
    <2>2. /\ DOMAIN m_messages' = 1..(Len(m_messages) + 1)
          /\ \A i \in 1..Len(m_messages) : m_messages'[i] = m_messages[i]
          /\ m_messages'[Len(m_messages) + 1] = a
      <3>1. m_messages' \in Seq(Addr) /\ Len(m_messages') = Len(m_messages) + 1
        BY <2>1, AppendProperties DEF TypeOK
      <3>2. QED
        BY <2>1, <3>1, LenProperties, AppendProperties DEF TypeOK
    <2>3. UNCHANGED msg /\ \A c \in Consumers : Held(c)' <=> Held(c)
      BY <1>3 DEF EnqPush, Goto, Held, TypeOK, Thread
    <2>4. ~Owned(a)
      BY <2>1 DEF Ownership, AllocatedIsOwned
    <2>5. QueuedOnce'
      BY <1>a, <2>2, <2>4 DEF Ownership, QueuedOnce, Owned
    <2>6. HeldOnce'
      BY <2>3 DEF Ownership, HeldOnce
    <2>7. HeldNotQueued'
      BY <1>a, <2>2, <2>3, <2>4 DEF Ownership, HeldNotQueued, Owned
    <2>8. arg[p] # Freed
      BY DEF TypeOK
    <2>9. \A b \in Addr : Owned(b)' <=> Owned(b) \/ b = a
      BY <1>a, <2>2, <2>3 DEF Owned
    <2>10. AllocatedIsOwned'
      BY <2>1, <2>8, <2>9 DEF Ownership, AllocatedIsOwned, TypeOK
    <2>11. QED
      BY <2>5, <2>6, <2>7, <2>10 DEF Ownership
  <1>4. ASSUME NEW c \in Consumers,
               \/ DeqCall(c) \/ DeqClaim(c) \/ DeqTimeout(c) \/ DeqCheck(c)
               \/ DeqLock(c) \/ DeqUnlock(c)
        PROVE  Ownership'
    <2>1. /\ UNCHANGED <<m_messages, heap, msg>>
          /\ \A d \in Consumers \ {c} : pc'[d] = pc[d]
          /\ pc'[c] \in {"unlock", "got"} <=> pc[c] \in {"unlock", "got"}
      BY <1>4 DEF DeqCall, DeqClaim, DeqTimeout, DeqCheck, DeqLock, DeqUnlock, Acquire,
                  Release, Goto, TypeOK, Thread
    <2>2. QED
      BY <2>1, <1>c DEF Held
  <1>5. ASSUME NEW c \in Consumers, DeqPop(c) PROVE Ownership'
    <2>1. m_messages # <<>>
      BY <1>5, ClaimBacked DEF DeqPop, Claimed
    <2>2. /\ msg' = [msg EXCEPT ![c] = Head(m_messages)]
          /\ m_messages' = Tail(m_messages)
          /\ heap' = heap
          /\ pc[c] = "pop" /\ pc' = [pc EXCEPT ![c] = "unlock"]
      BY <1>5, <2>1 DEF DeqPop, Goto
    <2>3. /\ Len(m_messages) > 0
          /\ DOMAIN m_messages' = 1..(Len(m_messages) - 1)
          /\ \A i \in 1..(Len(m_messages) - 1) : m_messages'[i] = m_messages[i + 1]
          /\ Head(m_messages) = m_messages[1]
      <3>1. m_messages' \in Seq(Addr) /\ Len(m_messages') = Len(m_messages) - 1
        BY <2>1, <2>2, HeadTailProperties DEF TypeOK
      <3>2. QED
        BY <2>1, <2>2, <3>1, LenProperties, HeadTailProperties, EmptySeq DEF TypeOK
    <2>4. /\ ~Held(c) /\ Held(c)' /\ msg'[c] = m_messages[1]
          /\ \A d \in Consumers \ {c} : (Held(d)' <=> Held(d)) /\ msg'[d] = msg[d]
      BY <2>2, <2>3 DEF Held, TypeOK, Thread
    <2>5. QueuedOnce'
      BY <1>a, <2>3 DEF Ownership, QueuedOnce
    <2>6. HeldOnce'
      BY <1>a, <2>3, <2>4 DEF Ownership, HeldOnce, HeldNotQueued
    <2>7. HeldNotQueued'
      BY <1>a, <2>3, <2>4 DEF Ownership, QueuedOnce, HeldNotQueued
    <2>8. ASSUME NEW b \in Addr PROVE Owned(b)' <=> Owned(b)
      <3>1. CASE b = m_messages[1]
        BY <3>1, <1>a, <2>3, <2>4 DEF Owned
      <3>2. CASE b # m_messages[1]
        <4>1. (\E i \in DOMAIN m_messages' : m_messages'[i] = b)
                <=> (\E i \in DOMAIN m_messages : m_messages[i] = b)
          <5>1. \A i \in 1..Len(m_messages) : i # 1 => i - 1 \in 1..(Len(m_messages) - 1)
            BY <1>a
          <5>2. ASSUME NEW i \in DOMAIN m_messages, m_messages[i] = b
                PROVE  \E j \in DOMAIN m_messages' : m_messages'[j] = b
            <6>1. i # 1 /\ i - 1 \in DOMAIN m_messages' /\ m_messages'[i - 1] = b
              BY <5>1, <5>2, <3>2, <1>a, <2>3
            <6>2. QED
              BY <6>1
          <5>3. ASSUME NEW j \in DOMAIN m_messages', m_messages'[j] = b
                PROVE  \E i \in DOMAIN m_messages : m_messages[i] = b
            <6>1. j + 1 \in DOMAIN m_messages /\ m_messages[j + 1] = b
              BY <5>3, <1>a, <2>3
            <6>2. QED
              BY <6>1
          <5>4. QED
            BY <5>2, <5>3
        <4>2. QED
          BY <3>2, <4>1, <2>4 DEF Owned
      <3>3. QED
        BY <3>1, <3>2
    <2>9. AllocatedIsOwned'
      BY <2>2, <2>8 DEF Ownership, AllocatedIsOwned
    <2>10. QED
      BY <2>5, <2>6, <2>7, <2>9 DEF Ownership
  <1>6. ASSUME NEW c \in Consumers, Deliver(c) PROVE Ownership'
    <2>1. /\ Held(c) /\ ~Held(c)'
          /\ \A d \in Consumers \ {c} : (Held(d)' <=> Held(d)) /\ msg'[d] = msg[d]
          /\ m_messages' = m_messages
          /\ heap' = [heap EXCEPT ![msg[c]] = Freed]
      BY <1>6 DEF Deliver, Goto, Held, TypeOK, Thread
    <2>2. msg[c] \in Addr
      BY <2>1 DEF HeldIsAddr
    <2>3. \A b \in Addr : Owned(b)' <=> Owned(b) /\ b # msg[c]
      BY <2>1 DEF Ownership, HeldOnce, HeldNotQueued, Owned
    <2>4. AllocatedIsOwned'
      BY <2>1, <2>2, <2>3 DEF Ownership, AllocatedIsOwned, TypeOK
    <2>5. QueuedOnce' /\ HeldOnce' /\ HeldNotQueued'
      BY <2>1 DEF Ownership, QueuedOnce, HeldOnce, HeldNotQueued
    <2>6. QED
      BY <2>4, <2>5 DEF Ownership
  <1>7. QED
    BY <1>1, <1>2, <1>3, <1>4, <1>5, <1>6, NextCases

\* No message is leaked, delivered twice or deleted while queued.
THEOREM OwnershipCorrect == Spec => []Ownership
  BY OwnershipInit, OwnershipStep, HeldIsAddrInit, HeldIsAddrStep, PermitsInit,
     PermitsStep, TypeInit, TypeStep, PTL DEF Spec

-----------------------------------------------------------------------------
(* MessageQueue implements MessageChannel: under the state functions        *)
(* chanQueue, chanPutting and chanTaking every step of a thread is a step   *)
(* of the channel or leaves the channel alone.                              *)

\* Between push_back and sem_post the last entry of the deque is the message
\* being enqueued.
PushedIsLast ==
    \A p \in Producers :
        pc[p] = "post" => /\ m_messages # <<>>
                          /\ heap[m_messages[Len(m_messages)]] = arg[p]

\* Everything the mapping of a step relies on.
RefInv ==
    /\ TypeOK /\ LockInv /\ PermitsMatch /\ HeldIsAddr /\ Ownership /\ PushedIsLast

LEMMA PushedInit == Init => PushedIsLast
  BY DEF Init, PushedIsLast, Thread

LEMMA SequenceFacts ==
    ASSUME TypeOK
    PROVE  /\ Len(m_messages) \in Nat
           /\ DOMAIN m_messages = 1..Len(m_messages)
           /\ \A i \in 1..Len(m_messages) : m_messages[i] \in Addr
           /\ m_messages # <<>> => Len(m_messages) > 0
  BY LenProperties, ElementOfSeq, EmptySeq DEF TypeOK

\* The deque and the heap after a push.
LEMMA PushFacts ==
    ASSUME TypeOK, Ownership, NEW p \in Producers, EnqPush(p)
    PROVE  \E a \in Addr :
             /\ heap[a] = Freed /\ ~Owned(a)
             /\ heap' = [heap EXCEPT ![a] = arg[p]]
             /\ m_messages' \in Seq(Addr)
             /\ Len(m_messages') = Len(m_messages) + 1
             /\ \A i \in 1..Len(m_messages) : m_messages'[i] = m_messages[i]
             /\ m_messages'[Len(m_messages) + 1] = a
  <1>1. PICK a \in Addr : /\ heap[a] = Freed
                          /\ heap' = [heap EXCEPT ![a] = arg[p]]
                          /\ m_messages' = Append(m_messages, a)
    BY DEF EnqPush
  <1>2. ~Owned(a)
    BY <1>1 DEF Ownership, AllocatedIsOwned
  <1>3. /\ Append(m_messages, a) \in Seq(Addr)
        /\ Len(Append(m_messages, a)) = Len(m_messages) + 1
        /\ \A i \in 1..Len(m_messages) : Append(m_messages, a)[i] = m_messages[i]
        /\ Append(m_messages, a)[Len(m_messages) + 1] = a
    BY AppendProperties DEF TypeOK
  <1>4. QED
    BY <1>1, <1>2, <1>3

LEMMA PushedStep == RefInv /\ [Next]_vars => PushedIsLast'
  <1> SUFFICES ASSUME RefInv, [Next]_vars PROVE PushedIsLast'
    OBVIOUS
  <1> USE QueueAssumption
  <1>t. TypeOK /\ PermitsMatch /\ HeldIsAddr /\ Ownership
    BY DEF RefInv
  <1>a. ASSUME UNCHANGED <<m_messages, heap, arg>>,
               \A p \in Producers : pc'[p] = "post" => pc[p] = "post"
        PROVE  PushedIsLast'
    BY <1>a DEF RefInv, PushedIsLast
  <1>1. CASE UNCHANGED vars
    BY <1>1, <1>a DEF vars
  <1>2. ASSUME NEW p \in Producers, NEW m \in Message, EnqCall(p, m) PROVE PushedIsLast'
    <2>1. /\ UNCHANGED <<m_messages, heap>> /\ pc'[p] # "post"
          /\ \A q \in Producers \ {p} : pc'[q] = pc[q] /\ arg'[q] = arg[q]
      BY <1>2, <1>t DEF EnqCall, Goto, TypeOK, Thread
    <2>2. QED
      BY <2>1 DEF RefInv, PushedIsLast
  <1>3. ASSUME NEW p \in Producers, EnqPush(p) PROVE PushedIsLast'
    <2>1. \A q \in Producers : pc'[q] = "post" => q = p
      BY <1>3 DEF EnqPush, Goto, RefInv, TypeOK, LockInv, InCS, Thread
    <2>2. UNCHANGED arg
      BY <1>3 DEF EnqPush
    <2>3. /\ heap'[m_messages'[Len(m_messages')]] = arg[p]
          /\ m_messages' # <<>>
      <3>1. PICK a \in Addr :
               /\ heap' = [heap EXCEPT ![a] = arg[p]]
               /\ m_messages' \in Seq(Addr)
               /\ Len(m_messages') = Len(m_messages) + 1
               /\ m_messages'[Len(m_messages) + 1] = a
        BY <1>3, <1>t, PushFacts
      <3>2. QED
        BY <3>1, <1>t, SequenceFacts, EmptySeq DEF TypeOK
    <2>4. QED
      BY <2>1, <2>2, <2>3 DEF PushedIsLast
  <1>4. ASSUME NEW p \in Producers, EnqLock(p) \/ EnqPost(p) \/ EnqUnlock(p)
        PROVE  PushedIsLast'
    BY <1>4, <1>a, <1>t DEF EnqLock, EnqPost, EnqUnlock, Acquire, Release, Goto, TypeOK, Thread
  <1>5. ASSUME NEW c \in Consumers,
               \/ DeqCall(c) \/ DeqClaim(c) \/ DeqTimeout(c) \/ DeqCheck(c)
               \/ DeqLock(c) \/ DeqUnlock(c)
        PROVE  PushedIsLast'
    BY <1>5, <1>a, <1>t DEF DeqCall, DeqClaim, DeqTimeout, DeqCheck, DeqLock, DeqUnlock,
                            Acquire, Release, Goto, TypeOK, Thread
  <1>6. ASSUME NEW c \in Consumers, DeqPop(c) PROVE PushedIsLast'
    <2>1. \A p \in Producers : pc'[p] # "post"
      <3>1. pc[c] = "pop" /\ pc' = [pc EXCEPT ![c] = "unlock"]
        BY <1>6 DEF DeqPop, Goto
      <3>2. QED
        BY <3>1 DEF RefInv, TypeOK, LockInv, InCS, Thread
    <2>2. QED
      BY <2>1 DEF PushedIsLast
  <1>7. ASSUME NEW c \in Consumers, Deliver(c) PROVE PushedIsLast'
    <2>1. /\ UNCHANGED <<m_messages, arg>> /\ \A p \in Producers : pc'[p] = pc[p]
          /\ heap' = [heap EXCEPT ![msg[c]] = Freed]
          /\ Held(c)
      BY <1>7, <1>t DEF Deliver, Goto, Held, TypeOK, Thread
    <2>2. \A i \in DOMAIN m_messages : heap'[m_messages[i]] = heap[m_messages[i]]
      BY <2>1, <1>t, SequenceFacts DEF Ownership, HeldNotQueued, TypeOK
    <2>3. m_messages # <<>> => Len(m_messages) \in DOMAIN m_messages
      BY <1>t, SequenceFacts
    <2>4. QED
      BY <2>1, <2>2, <2>3 DEF RefInv, PushedIsLast
  <1>8. QED
    BY <1>1, <1>2, <1>3, <1>4, <1>5, <1>6, <1>7, NextCases

\* The invariant the refinement rests on.
THEOREM RefInvCorrect == Spec => []RefInv
  <1>1. Init => RefInv
    BY TypeInit, LockInit, PermitsInit, HeldIsAddrInit, OwnershipInit, PushedInit DEF RefInv
  <1>2. RefInv /\ [Next]_vars => RefInv'
    BY TypeStep, LockStep, PermitsStep, HeldIsAddrStep, OwnershipStep, PushedStep DEF RefInv
  <1>3. QED
    BY <1>1, <1>2, PTL DEF Spec

-----------------------------------------------------------------------------
(* The mapped channel *)

\* Messages of the deque whose permit has been posted.
QLen == IF Unposted = {} THEN Len(m_messages) ELSE Len(m_messages) - 1

\* chanQueue, without SubSeq.
QueueShape == chanQueue = [i \in 1..QLen |-> heap[m_messages[i]]]

LEMMA QueueHasShape == TypeOK /\ PushedIsLast => QueueShape
  <1> SUFFICES ASSUME TypeOK, PushedIsLast PROVE QueueShape
    OBVIOUS
  <1>1. CASE Unposted = {}
    BY <1>1 DEF QueueShape, chanQueue, Posted, QLen
  <1>2. CASE Unposted # {}
    <2>1. Len(m_messages) \in Nat /\ Len(m_messages) > 0
      BY <1>2, SequenceFacts DEF PushedIsLast, Unposted
    <2>2. \A i \in 1..(Len(m_messages) - 1) : m_messages[i] \in Addr
      BY <2>1, SequenceFacts
    <2>3. /\ Len(Posted) = Len(m_messages) - 1
          /\ \A i \in 1..(Len(m_messages) - 1) : Posted[i] = m_messages[i]
      <3> DEFINE n == Len(m_messages) - 1
      <3>1. n \in Nat /\ \A i \in 1..n : m_messages[i] \in Addr
        BY <2>1, <2>2
      <3> HIDE DEF n
      <3>2. /\ Len(SubSeq(m_messages, 1, n)) = IF 1 <= n THEN n - 1 + 1 ELSE 0
            /\ \A i \in 1..(n - 1 + 1) : SubSeq(m_messages, 1, n)[i] = m_messages[1 + i - 1]
        BY <3>1, SubSeqProperties
      <3>3. /\ Len(SubSeq(m_messages, 1, n)) = n
            /\ \A i \in 1..n : SubSeq(m_messages, 1, n)[i] = m_messages[i]
        BY <3>1, <3>2
      <3>4. QED
        BY <1>2, <3>3 DEF Posted, n
    <2>4. QED
      BY <1>2, <2>3 DEF QueueShape, chanQueue, QLen
  <1>3. QED
    BY <1>1, <1>2

LEMMA QueueHasShapeNext == (TypeOK /\ PushedIsLast => QueueShape)'
  BY QueueHasShape, PTL

\* The mapped queue is a sequence of messages.
LEMMA QueueIsSeq ==
    ASSUME RefInv
    PROVE  /\ chanQueue \in Seq(Message)
           /\ Len(chanQueue) = QLen /\ QLen \in Nat
           /\ \A i \in 1..QLen : chanQueue[i] = heap[m_messages[i]]
  <1>1. TypeOK /\ PushedIsLast /\ Ownership
    BY DEF RefInv
  <1>2. Len(m_messages) \in Nat /\ QLen \in Nat /\ QLen <= Len(m_messages)
    BY <1>1, SequenceFacts DEF QLen, Unposted, PushedIsLast
  <1>3. \A i \in 1..QLen : heap[m_messages[i]] \in Message
    BY <1>1, <1>2, SequenceFacts DEF TypeOK, Ownership, AllocatedIsOwned, Owned
  <1>4. chanQueue = [i \in 1..QLen |-> heap[m_messages[i]]]
    BY <1>1, QueueHasShape DEF QueueShape
  <1>5. chanQueue \in [1..QLen -> Message]
    BY <1>3, <1>4
  <1>6. chanQueue \in Seq(Message) /\ Len(chanQueue) = QLen
    BY <1>2, <1>5
  <1>7. QED
    BY <1>2, <1>4, <1>6

LEMMA QueueIsSeqNext ==
    ASSUME RefInv'
    PROVE  /\ chanQueue' \in Seq(Message)
           /\ Len(chanQueue') = QLen'
           /\ \A i \in 1..QLen' : chanQueue'[i] = heap'[m_messages'[i]]
  <1>1. (RefInv => /\ chanQueue \in Seq(Message) /\ Len(chanQueue) = QLen
                   /\ \A i \in 1..QLen : chanQueue[i] = heap[m_messages[i]])'
    BY QueueIsSeq, PTL
  <1>2. QED
    BY <1>1

\* While a thread other than a poster is in its critical section, nobody is
\* between push_back and sem_post.
LEMMA OnePoster ==
    ASSUME RefInv, NEW t \in Thread, InCS(t)
    PROVE  \A p \in Unposted : p = t
  BY DEF RefInv, LockInv, InCS, Unposted, Thread

-----------------------------------------------------------------------------
(* Every step is a step of the channel or a stutter *)

LEMMA ChannelInit == Init => Channel!Init
  <1> SUFFICES ASSUME Init PROVE Channel!Init
    OBVIOUS
  <1>1. RefInv
    BY TypeInit, LockInit, PermitsInit, HeldIsAddrInit, OwnershipInit, PushedInit DEF RefInv
  <1>2. Unposted = {} /\ Len(m_messages) = 0
    BY EmptySeq DEF Init, Unposted, Thread
  <1>3. chanQueue = <<>>
    BY <1>1, <1>2, QueueIsSeq, EmptySeq DEF QLen
  <1>4. /\ chanPutting = [p \in Producers |-> Idle]
        /\ chanTaking = [c \in Consumers |-> Idle]
    BY DEF Init, chanPutting, chanTaking, Thread
  <1>5. QED
    BY <1>3, <1>4 DEF Channel!Init

\* A step that leaves the deque, the heap and the set of posters alone leaves
\* the mapped queue alone.
LEMMA QueueSame ==
    ASSUME UNCHANGED <<m_messages, heap>>, Unposted' = Unposted
    PROVE  chanQueue' = chanQueue
  BY DEF chanQueue, Posted

\* The steps of a producer other than the call, push_back and sem_post.
LEMMA ProducerStutters ==
    ASSUME RefInv, NEW p \in Producers, EnqLock(p) \/ EnqUnlock(p)
    PROVE  UNCHANGED Channel!chanVars
  <1> USE QueueAssumption DEF Acquire, Release, Goto
  <1>1. TypeOK
    BY DEF RefInv
  <1>2. Unposted' = Unposted /\ UNCHANGED <<m_messages, heap, arg, msg>>
    BY <1>1 DEF EnqLock, EnqUnlock, Unposted, TypeOK, Thread
  <1>3. chanPutting' = chanPutting
    BY <1>1, <1>2 DEF EnqLock, EnqUnlock, chanPutting, TypeOK, Thread
  <1>4. \A c \in Consumers : pc'[c] = pc[c]
    BY <1>1 DEF EnqLock, EnqUnlock, TypeOK, Thread
  <1>5. chanTaking' = chanTaking
    BY <1>2, <1>4 DEF chanTaking, Held
  <1>6. QED
    BY <1>2, <1>3, <1>5, QueueSame DEF Channel!chanVars

\* A consumer's step does not move the producers.
LEMMA ConsumersDoNotPut ==
    ASSUME TypeOK, NEW c \in Consumers, DeqStep(c)
    PROVE  /\ Unposted' = Unposted /\ chanPutting' = chanPutting
           /\ \A d \in Consumers \ {c} : pc'[d] = pc[d] /\ msg'[d] = msg[d]
  <1>1. /\ \A p \in Producers : pc'[p] = pc[p] /\ arg'[p] = arg[p]
        /\ \A d \in Consumers \ {c} : pc'[d] = pc[d] /\ msg'[d] = msg[d]
    <2>1. CASE DeqCall(c) \/ DeqClaim(c) \/ DeqTimeout(c) \/ DeqCheck(c)
      BY <2>1, QueueAssumption
      DEF DeqCall, DeqClaim, DeqTimeout, DeqCheck, Goto, TypeOK, Thread
    <2>2. CASE DeqLock(c) \/ DeqUnlock(c)
      BY <2>2, QueueAssumption DEF DeqLock, DeqUnlock, Acquire, Release, Goto, TypeOK, Thread
    <2>3. CASE DeqPop(c)
      BY <2>3, QueueAssumption DEF DeqPop, Goto, TypeOK, Thread
    <2>4. CASE Deliver(c)
      BY <2>4, QueueAssumption DEF Deliver, Goto, TypeOK, Thread
    <2>5. QED
      BY <2>1, <2>2, <2>3, <2>4 DEF DeqStep
  <1>2. QED
    BY <1>1 DEF Unposted, chanPutting

LEMMA ConsumerStutters ==
    ASSUME RefInv, NEW c \in Consumers,
           DeqClaim(c) \/ DeqCheck(c) \/ DeqLock(c) \/ DeqUnlock(c)
    PROVE  UNCHANGED Channel!chanVars
  <1>1. TypeOK /\ PermitsMatch
    BY DEF RefInv
  <1>2. Unposted' = Unposted /\ chanPutting' = chanPutting
    BY <1>1, ConsumersDoNotPut DEF DeqStep
  <1>3. UNCHANGED <<m_messages, heap, msg>>
    BY DEF DeqClaim, DeqCheck, DeqLock, DeqUnlock, Acquire, Release
  <1>4. pc[c] = "check" => m_messages # <<>>
    BY <1>1, ClaimBacked DEF Claimed
  <1>5. /\ \A d \in Consumers \ {c} : pc'[d] = pc[d]
        /\ \/ pc[c] \in {"wait", "check", "lock"} /\ pc'[c] \in {"check", "lock", "pop"}
           \/ pc[c] = "unlock" /\ pc'[c] = "got"
    BY <1>1, <1>4 DEF DeqClaim, DeqCheck, DeqLock, DeqUnlock, Acquire, Release, Goto,
                      TypeOK, Thread
  <1>6. chanTaking' = chanTaking
    BY <1>3, <1>5 DEF chanTaking, Held
  <1>7. QED
    BY <1>2, <1>3, <1>6, QueueSame DEF Channel!chanVars

LEMMA CallIsPutCall ==
    ASSUME RefInv, NEW p \in Producers, NEW m \in Message, EnqCall(p, m)
    PROVE  Channel!PutCall(p, m)
  <1>1. TypeOK
    BY DEF RefInv
  <1>2. /\ UNCHANGED <<m_messages, heap, msg>>
        /\ pc[p] = "idle" /\ pc' = [pc EXCEPT ![p] = "lock"]
        /\ arg' = [arg EXCEPT ![p] = m]
    BY DEF EnqCall, Goto
  <1>3. Unposted' = Unposted /\ \A c \in Consumers : pc'[c] = pc[c]
    BY <1>1, <1>2, QueueAssumption DEF Unposted, TypeOK, Thread
  <1>4. chanPutting[p] = Idle /\ chanPutting' = [chanPutting EXCEPT ![p] = m]
    BY <1>1, <1>2 DEF chanPutting, TypeOK, Thread
  <1>5. chanTaking' = chanTaking
    BY <1>2, <1>3 DEF chanTaking, Held
  <1>6. QED
    BY <1>2, <1>3, <1>4, <1>5, QueueSame DEF Channel!PutCall

\* push_back: the message is in the deque but its permit is not posted, so
\* the channel does not see it yet.
LEMMA PushStutters ==
    ASSUME RefInv, RefInv', NEW p \in Producers, EnqPush(p)
    PROVE  UNCHANGED Channel!chanVars
  <1>1. TypeOK /\ Ownership /\ HeldIsAddr
    BY DEF RefInv
  <1>2. /\ UNCHANGED <<arg, msg>>
        /\ pc[p] = "push" /\ pc' = [pc EXCEPT ![p] = "post"]
    BY DEF EnqPush, Goto
  <1>3. PICK a \in Addr : /\ heap[a] = Freed /\ ~Owned(a)
                          /\ heap' = [heap EXCEPT ![a] = arg[p]]
                          /\ m_messages' \in Seq(Addr)
                          /\ Len(m_messages') = Len(m_messages) + 1
                          /\ \A i \in 1..Len(m_messages) : m_messages'[i] = m_messages[i]
    BY <1>1, PushFacts
  <1>4. Unposted = {}
    BY <1>2, OnePoster DEF InCS, Thread, Unposted
  <1>5. Unposted' # {}
    BY <1>1, <1>2 DEF Unposted, TypeOK, Thread
  <1>a. Len(m_messages) \in Nat
    BY <1>1, SequenceFacts
  <1>b. QLen = Len(m_messages) /\ QLen' = Len(m_messages') - 1
    BY <1>4, <1>5 DEF QLen
  <1>6. Len(m_messages) \in Nat /\ QLen = Len(m_messages) /\ QLen' = QLen
    BY <1>3, <1>a, <1>b
  <1>7. \A i \in 1..QLen : heap'[m_messages'[i]] = heap[m_messages[i]]
    BY <1>1, <1>3, <1>6, SequenceFacts DEF Owned, TypeOK
  <1>8. chanQueue' = chanQueue
    BY <1>6, <1>7, QueueIsSeq, QueueIsSeqNext, SeqEqual
  <1>9. chanPutting' = chanPutting /\ \A c \in Consumers : pc'[c] = pc[c]
    BY <1>1, <1>2, QueueAssumption DEF chanPutting, TypeOK, Thread
  <1>10. \A c \in Consumers : Held(c) => heap'[msg'[c]] = heap[msg[c]]
    BY <1>1, <1>2, <1>3 DEF HeldIsAddr, Owned, TypeOK
  <1>11. chanTaking' = chanTaking
    BY <1>9, <1>10 DEF chanTaking, Held
  <1>12. QED
    BY <1>8, <1>9, <1>11 DEF Channel!chanVars

\* sem_post: the channel receives the message.
LEMMA PostIsPut ==
    ASSUME RefInv, RefInv', NEW p \in Producers, EnqPost(p)
    PROVE  Channel!Put(p)
  <1>1. TypeOK /\ PushedIsLast
    BY DEF RefInv
  <1>2. /\ UNCHANGED <<m_messages, heap, arg, msg>>
        /\ pc[p] = "post" /\ pc' = [pc EXCEPT ![p] = "unlock"]
    BY DEF EnqPost, Goto
  <1>3. Unposted = {p} /\ Unposted' = {}
    BY <1>1, <1>2, OnePoster DEF InCS, Thread, Unposted, TypeOK
  <1>a. Len(m_messages) \in Nat /\ heap[m_messages[Len(m_messages)]] = arg[p]
    BY <1>1, <1>2, SequenceFacts DEF PushedIsLast
  <1>b. QLen = Len(m_messages) - 1 /\ QLen' = Len(m_messages')
    BY <1>3 DEF QLen
  <1>4. /\ Len(m_messages) \in Nat
        /\ QLen = Len(m_messages) - 1 /\ QLen' = QLen + 1
        /\ heap[m_messages[QLen + 1]] = arg[p]
    BY <1>2, <1>a, <1>b
  <1>5. chanPutting[p] = arg[p] /\ arg[p] \in Message
    BY <1>1, <1>2 DEF chanPutting, TypeOK
  <1>6. /\ Append(chanQueue, arg[p]) \in Seq(Message)
        /\ Len(Append(chanQueue, arg[p])) = QLen + 1
        /\ \A i \in 1..QLen : Append(chanQueue, arg[p])[i] = chanQueue[i]
        /\ Append(chanQueue, arg[p])[QLen + 1] = arg[p]
    BY <1>5, QueueIsSeq, AppendProperties
  <1>7. \A i \in 1..(QLen + 1) : chanQueue'[i] = Append(chanQueue, arg[p])[i]
    BY <1>2, <1>4, <1>6, QueueIsSeq, QueueIsSeqNext
  <1>8. chanQueue' = Append(chanQueue, arg[p])
    BY <1>4, <1>6, <1>7, QueueIsSeq, QueueIsSeqNext, SeqEqual
  <1>9. /\ chanPutting' = [chanPutting EXCEPT ![p] = Idle]
        /\ \A c \in Consumers : pc'[c] = pc[c]
    BY <1>1, <1>2, QueueAssumption DEF chanPutting, TypeOK, Thread
  <1>10. chanTaking' = chanTaking
    BY <1>2, <1>9 DEF chanTaking, Held
  <1>11. QED
    BY <1>5, <1>8, <1>9, <1>10, QueueAssumption DEF Channel!Put

LEMMA CallIsTakeCall ==
    ASSUME RefInv, NEW c \in Consumers, DeqCall(c)
    PROVE  Channel!TakeCall(c)
  <1>1. TypeOK
    BY DEF RefInv
  <1>2. Unposted' = Unposted /\ chanPutting' = chanPutting
    BY <1>1, ConsumersDoNotPut DEF DeqStep
  <1>3. /\ UNCHANGED <<m_messages, heap, msg>>
        /\ pc[c] = "idle" /\ pc' = [pc EXCEPT ![c] = "wait"]
    BY DEF DeqCall, Goto
  <1>4. chanTaking[c] = Idle /\ chanTaking' = [chanTaking EXCEPT ![c] = Waiting]
    BY <1>1, <1>3 DEF chanTaking, Held, TypeOK, Thread
  <1>5. QED
    BY <1>2, <1>3, <1>4, QueueSame DEF Channel!TakeCall

\* A dequeue times out only when every message the channel holds is claimed
\* by another dequeue.
LEMMA TimeoutIsTakeNothing ==
    ASSUME RefInv, NEW c \in Consumers, DeqTimeout(c)
    PROVE  Channel!TakeNothing(c)
  <1>1. TypeOK /\ PermitsMatch /\ LockInv /\ PushedIsLast
    BY DEF RefInv
  <1>2. Unposted' = Unposted /\ chanPutting' = chanPutting
    BY <1>1, ConsumersDoNotPut DEF DeqStep
  <1>3. /\ UNCHANGED <<m_messages, heap, msg>> /\ m_avail = 0
        /\ pc[c] = "wait" /\ pc' = [pc EXCEPT ![c] = "idle"]
    BY DEF DeqTimeout, Goto
  <1>4. chanTaking[c] = Waiting /\ chanTaking' = [chanTaking EXCEPT ![c] = Idle]
    BY <1>1, <1>3 DEF chanTaking, Held, TypeOK, Thread
  <1>5. Len(m_messages) = Cardinality(Claimed) + Cardinality(Unposted)
    BY <1>1, <1>3, CountsFinite DEF PermitsMatch
  <1>6. Len(chanQueue) <= Cardinality(Claimed)
    <2>1. CASE Unposted = {}
      BY <2>1, <1>5, QueueIsSeq, FS_EmptySet, CountsFinite DEF QLen
    <2>2. CASE Unposted # {}
      <3>1. PICK p \in Unposted : TRUE
        BY <2>2
      <3>2. Unposted = {p}
        BY <3>1, OnePoster DEF Unposted, InCS, Thread
      <3>3. Cardinality(Unposted) = 1
        BY <3>2, FS_Singleton
      <3>4. Len(chanQueue) = Len(m_messages) - 1
        BY <2>2, QueueIsSeq DEF QLen
      <3>5. QED
        BY <3>3, <3>4, <1>5, CountsFinite
    <2>3. QED
      BY <2>1, <2>2
  <1>7. Claimed \subseteq {d \in Consumers \ {c} : chanTaking[d] = Waiting}
    BY <1>3 DEF Claimed, chanTaking, Held
  <1>8. Cardinality(Claimed) <= Cardinality({d \in Consumers \ {c} : chanTaking[d] = Waiting})
    <2>1. IsFiniteSet({d \in Consumers \ {c} : chanTaking[d] = Waiting})
      BY QueueAssumption, FS_Subset
    <2>2. QED
      BY <2>1, <1>7, FS_Subset
  <1>9. Len(chanQueue) <= Cardinality({d \in Consumers \ {c} : chanTaking[d] = Waiting})
    <2>1. IsFiniteSet({d \in Consumers \ {c} : chanTaking[d] = Waiting})
      BY QueueAssumption, FS_Subset
    <2>2. /\ Cardinality({d \in Consumers \ {c} : chanTaking[d] = Waiting}) \in Nat
          /\ Len(chanQueue) \in Nat
      BY <2>1, FS_CardinalityType, QueueIsSeq, LenProperties
    <2>3. QED
      BY <1>6, <1>8, <2>2, CountsFinite
  <1>10. UNCHANGED <<chanQueue, chanPutting>>
    BY <1>2, <1>3, QueueSame
  <1>11. QED
    BY <1>4, <1>9, <1>10, Zenon DEF Channel!TakeNothing, Cardinality, Channel!Cardinality

\* pop_front: the channel hands over its oldest message.
LEMMA PopIsTake ==
    ASSUME RefInv, RefInv', NEW c \in Consumers, DeqPop(c)
    PROVE  Channel!Take(c)
  <1>1. TypeOK /\ PermitsMatch
    BY DEF RefInv
  <1>2. Unposted' = Unposted /\ chanPutting' = chanPutting
    BY <1>1, ConsumersDoNotPut DEF DeqStep
  <1>3. /\ UNCHANGED heap
        /\ pc[c] = "pop" /\ pc' = [pc EXCEPT ![c] = "unlock"]
    BY DEF DeqPop, Goto
  <1>4. Unposted = {}
    BY <1>3, QueueAssumption, OnePoster DEF InCS, Thread, Unposted
  <1>5. m_messages # <<>>
    BY <1>1, <1>3, ClaimBacked DEF Claimed
  <1>6. /\ m_messages' = Tail(m_messages)
        /\ msg' = [msg EXCEPT ![c] = Head(m_messages)]
    BY <1>5 DEF DeqPop
  <1>7. /\ Len(m_messages) \in Nat /\ Len(m_messages) > 0
        /\ Len(m_messages') = Len(m_messages) - 1
        /\ \A i \in 1..(Len(m_messages) - 1) : m_messages'[i] = m_messages[i + 1]
        /\ Head(m_messages) = m_messages[1]
    BY <1>1, <1>5, <1>6, SequenceFacts, HeadTailProperties DEF TypeOK
  <1>8. QLen = Len(m_messages) /\ QLen' = Len(m_messages')
    BY <1>2, <1>4 DEF QLen
  <1>9. chanQueue # <<>> /\ Head(chanQueue) = heap[Head(m_messages)]
    BY <1>7, <1>8, QueueIsSeq, EmptySeq
  <1>10. chanQueue' = Tail(chanQueue)
    <2>1. /\ Tail(chanQueue) \in Seq(Message)
          /\ Len(Tail(chanQueue)) = QLen - 1
          /\ \A i \in 1..(QLen - 1) : Tail(chanQueue)[i] = chanQueue[i + 1]
      BY <1>9, QueueIsSeq, HeadTailProperties
    <2>2. \A i \in 1..(QLen - 1) : chanQueue'[i] = chanQueue[i + 1]
      <3>1. QLen \in Nat /\ \A i \in 1..QLen : chanQueue[i] = heap[m_messages[i]]
        BY QueueIsSeq
      <3>2. /\ QLen' = QLen - 1 /\ heap' = heap
            /\ \A i \in 1..QLen' : chanQueue'[i] = heap'[m_messages'[i]]
        BY <1>3, <1>7, <1>8, QueueIsSeqNext
      <3>3. \A i \in 1..(QLen - 1) : i + 1 \in 1..QLen
        BY <3>1
      <3>4. \A i \in 1..(QLen - 1) : m_messages'[i] = m_messages[i + 1]
        BY <1>7, <1>8
      <3>5. QED
        BY <3>1, <3>2, <3>3, <3>4
    <2>3. QED
      BY <2>1, <2>2, <1>7, <1>8, QueueIsSeq, QueueIsSeqNext, SeqEqual
  <1>11. /\ chanTaking[c] = Waiting
         /\ chanTaking' = [chanTaking EXCEPT ![c] = heap[Head(m_messages)]]
    BY <1>1, <1>3, <1>6 DEF chanTaking, Held, TypeOK, Thread
  <1>12. QED
    BY <1>2, <1>9, <1>10, <1>11 DEF Channel!Take

\* The consumer sends and deletes what it was handed.
LEMMA DeliverIsFinish ==
    ASSUME RefInv, RefInv', NEW c \in Consumers, Deliver(c)
    PROVE  Channel!Finish(c)
  <1>1. TypeOK /\ Ownership /\ HeldIsAddr
    BY DEF RefInv
  <1>2. Unposted' = Unposted /\ chanPutting' = chanPutting
    BY <1>1, ConsumersDoNotPut DEF DeqStep
  <1>3. /\ UNCHANGED m_messages
        /\ pc[c] = "got" /\ pc' = [pc EXCEPT ![c] = "idle"]
        /\ heap' = [heap EXCEPT ![msg[c]] = Freed]
        /\ msg' = [msg EXCEPT ![c] = NullPtr]
    BY DEF Deliver, Goto
  <1>4. QLen' = QLen
    BY <1>2, <1>3 DEF QLen
  <1>a. Len(m_messages) \in Nat
    BY <1>1, SequenceFacts
  <1>b. QLen \in Nat
    BY QueueIsSeq
  <1>5. QLen <= Len(m_messages) /\ Len(m_messages) \in Nat /\ QLen \in Nat
    BY <1>a, <1>b DEF QLen
  <1>6. \A i \in 1..QLen : heap'[m_messages[i]] = heap[m_messages[i]]
    BY <1>1, <1>3, <1>5, SequenceFacts DEF Ownership, HeldNotQueued, Held, TypeOK
  <1>7. chanQueue' = chanQueue
    BY <1>3, <1>4, <1>6, QueueIsSeq, QueueIsSeqNext, SeqEqual
  <1>8. \A d \in Consumers \ {c} : Held(d) => heap'[msg'[d]] = heap[msg[d]]
    BY <1>1, <1>3 DEF Ownership, HeldOnce, Held, HeldIsAddr, TypeOK
  <1>9. chanTaking[c] = heap[msg[c]] /\ heap[msg[c]] \in Message
    BY <1>1, <1>3 DEF chanTaking, Held, HeldIsAddr, Ownership, AllocatedIsOwned, Owned, TypeOK
  <1>10. chanTaking' = [chanTaking EXCEPT ![c] = Idle]
    BY <1>1, <1>3, <1>8 DEF chanTaking, Held, TypeOK, Thread
  <1>11. QED
    BY <1>2, <1>7, <1>9, <1>10 DEF Channel!Finish

LEMMA StepRefines ==
    ASSUME RefInv, RefInv', [Next]_vars
    PROVE  [Channel!Next]_(Channel!chanVars)
  <1>1. CASE UNCHANGED vars
    BY <1>1 DEF vars, Channel!chanVars, chanQueue, Posted, Unposted, chanPutting,
                chanTaking, Held
  <1>2. ASSUME NEW p \in Producers, NEW m \in Message, EnqCall(p, m) PROVE Channel!Next
    BY <1>2, CallIsPutCall DEF Channel!Next
  <1>3. ASSUME NEW p \in Producers, EnqLock(p) \/ EnqPush(p) \/ EnqUnlock(p)
        PROVE  UNCHANGED Channel!chanVars
    BY <1>3, ProducerStutters, PushStutters
  <1>4. ASSUME NEW p \in Producers, EnqPost(p) PROVE Channel!Next
    BY <1>4, PostIsPut DEF Channel!Next
  <1>5. ASSUME NEW c \in Consumers,
               DeqClaim(c) \/ DeqCheck(c) \/ DeqLock(c) \/ DeqUnlock(c)
        PROVE  UNCHANGED Channel!chanVars
    BY <1>5, ConsumerStutters
  <1>6. ASSUME NEW c \in Consumers,
               DeqCall(c) \/ DeqTimeout(c) \/ DeqPop(c) \/ Deliver(c)
        PROVE  Channel!Next
    BY <1>6, CallIsTakeCall, TimeoutIsTakeNothing, PopIsTake, DeliverIsFinish
    DEF Channel!Next
  <1>7. QED
    BY <1>1, <1>2, <1>3, <1>4, <1>5, <1>6, NextCases

\* The queue is a FIFO channel: for any number of broadcasting and delivering
\* threads, the mutex, the semaphore and the pointers of message_queue.cpp lose,
\* duplicate, alter and reorder nothing.
THEOREM QueueImplementsChannel == Spec => ImplementsChannel
  <1>1. RefInv /\ RefInv' /\ [Next]_vars => [Channel!Next]_(Channel!chanVars)
    BY StepRefines
  <1>2. QED
    BY <1>1, ChannelInit, RefInvCorrect, PTL DEF Spec, ImplementsChannel, Channel!Spec
=============================================================================
