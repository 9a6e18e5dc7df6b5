\* Two clients, blocks that may be reused or not, three descriptors.
SPECIFICATION FairSpec
CONSTANTS
    MaxClients = 2
    MaxAddrs = 2
    Fd <- MCFd
    DataAddr = {d1, d2}
    ConnAddr = {c1, c2}
    NullPtr = NullPtr
    Closed = Closed
    Listening = Listening
INVARIANTS TypeOK NothingKept CloseNeverFails 
PROPERTY ShutdownEnds
CHECK_DEADLOCK FALSE
