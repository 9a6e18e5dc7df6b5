\* A sender and a receiver, and their sessions.
SPECIFICATION FairSystem
CONSTANTS
    s1 = s1
    s2 = s2
    Session = {s1, s2}
    Line <- MCLine
    MaxLines = 2
    Started <- MCPair
    RoomArg <- MCRoomArg
    username <- MCName
    UserName <- MCUserName
    RoomName <- MCRoomName
    RoomAddr = {a1}
    NoThread = NoThread
    NullPtr = NullPtr
INVARIANTS SystemTypeOK OneBehind PrintedAsTyped
PROPERTIES CommandAnswered LineAnswered QuitEndsSession EverythingPrinted
CHECK_DEADLOCK FALSE
