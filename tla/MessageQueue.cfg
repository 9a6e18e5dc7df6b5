\* Three broadcasters with a call each, and two delivering threads; the server
\* has one per queue.  An address for each message, so that `new` never fails.
SPECIFICATION FairSpec
CONSTANTS
    Producers = {p1, p2, p3}
    Consumers = {c1, c2}
    Message = {m1, m2}
    Addr = {a1, a2, a3}
    MaxCalls = 1
    NoThread = NoThread
    NullPtr = NullPtr
    Freed = Freed
    Idle = Idle
    Waiting = Waiting
INVARIANTS
    TypeOK
    PermitsMatch
    NoEmptyPop
    Ownership
PROPERTIES
    ImplementsChannel
    MessageDelivered
    EnqueueReturns
