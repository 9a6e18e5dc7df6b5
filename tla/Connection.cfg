\* Three messages, of less than one line and of more; lines end in the middle of
\* a buffer and cross its end.
SPECIFICATION FairSpec
CONSTANTS
    Message <- MCMessage
    MAXLINE = 6
    RIO_BUFSIZE = 4
    MaxSends = 3
INVARIANTS
    TypeOK
    BytesConserved
    MessagesIntact
PROPERTIES
    MessageArrives
    EndNoticed
CHECK_DEADLOCK FALSE
