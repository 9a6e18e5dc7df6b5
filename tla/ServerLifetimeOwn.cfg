\* Whom a worker talks to when the memory of its client is reused.
SPECIFICATION Spec
CONSTANTS
    MaxClients = 2
    MaxAddrs = 2
    Fd <- MCFd
    DataAddr = {d1, d2}
    ConnAddr = {c1, c2}
    NullPtr = NullPtr
    Closed = Closed
    Listening = Listening
INVARIANT WorkerServesItsClient
CHECK_DEADLOCK FALSE
