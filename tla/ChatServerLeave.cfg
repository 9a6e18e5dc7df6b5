\* What a sender can do after leave.
SPECIFICATION Spec
CONSTANTS
    s1 = s1
    s2 = s2
    s3 = s3
    alice = alice
    bob = bob
    Session = {s1, s2}
    UserName = {alice, bob}
    username <- MCTwoNames
    RoomName = {r1, r2}
    RoomAddr = {a1, a2}
    MaxLines = 3
    NoThread = NoThread
    NullPtr = NullPtr
INVARIANT LeftRoomIsSilent
CHECK_DEADLOCK FALSE
