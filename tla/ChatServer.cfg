\* Three sessions, two rooms, two commands per sender.
SPECIFICATION Spec
CONSTANTS
    s1 = s1
    s2 = s2
    s3 = s3
    alice = alice
    bob = bob
    Session = {s1, s2, s3}
    UserName = {alice, bob}
    username <- MCNames
    RoomName = {r1, r2}
    RoomAddr = {a1, a2}
    MaxLines = 2
    NoThread = NoThread
    NullPtr = NullPtr
SYMMETRY Symmetry
INVARIANTS TypeOK UniqueRoom Membership ExactDelivery SafeUntilSessionEnds
CHECK_DEADLOCK FALSE
