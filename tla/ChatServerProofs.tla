-------------------------- MODULE ChatServerProofs --------------------------
(***************************************************************************)
(* Machine-checked proofs about ChatServer, for any sets of sessions, room *)
(* names and addresses and any number of lines.                            *)
(***************************************************************************)
EXTENDS ChatServer, SequenceTheorems, Recursion, TLAPS

\* What a session has at hand where it needs it.
Places ==
    \A s \in Session :
        /\ pc[s] \in {"remove", "find", "create"} => data[s] \in RoomName
        /\ pc[s] \in {"remove", "leave", "add", "bcast", "enqueue"} => room[s] # NullPtr
        /\ pc[s] \in {"bcast", "enqueue"} => lines[s] \in Text
        /\ pc[s] \in {"login", "rjoin"} => room[s] = NullPtr

\* m_rooms and the rooms that were ever created name each other.
Rooms ==
    /\ \A n \in RoomName : m_rooms[n] # NullPtr =>
          heap[m_rooms[n]] # "unused" /\ room_name[m_rooms[n]] = n
    /\ \A a \in RoomAddr : heap[a] # "unused" =>
          room_name[a] \in RoomName /\ m_rooms[room_name[a]] = a
    /\ \A s \in Session : room[s] # NullPtr => heap[room[s]] # "unused"

\* Whoever creates a room holds m_lock, and its name is still free.
Creating == \A s \in Session : pc[s] = "create" => m_lock = s /\ m_rooms[data[s]] = NullPtr

IInv == TypeOK /\ Places /\ Rooms /\ Creating

\* No session has ended: then nothing was deleted and nothing undefined was done.
Unended == \A s \in Session : pc[s] \notin {"cleanup", "delete", "done"}
Safe ==
    Unended => /\ ~ub
               /\ \A a \in RoomAddr : heap[a] # "freed"
               /\ \A u \in Session : user[u] # "freed"

\* What is so of session s: it is a member of no room but the one it is in, and
\* of none while it moves; its next room is the one it asked for; what its client
\* was last told is so.
Settled(s) ==
    /\ \A a \in RoomAddr : s \in members[a] => room[s] = a
    /\ pc[s] \in {"find", "create", "add"} => \A a \in RoomAddr : s \notin members[a]
    /\ pc[s] = "add" => room_name[room[s]] = data[s]
    /\ pc[s] \in {"recv", "loop"} =>
          /\ reply[s] = "joined room" => /\ room[s] # NullPtr
                                         /\ s \in members[room[s]]
                                         /\ room_name[room[s]] = data[s]
          /\ reply[s] = "left room" => \A a \in RoomAddr : s \notin members[a]

Members == \A s \in Session : Settled(s)

-----------------------------------------------------------------------------

LEMMA NextCases ==
    ASSUME Next
    PROVE  \E s \in Session :
              \/ LoginSender(s) \/ LoginReceiver(s) \/ LoginOther(s) \/ LoginErr(s)
              \/ SenderJoin(s) \/ SenderLeave(s) \/ SenderSay(s) \/ SenderQuit(s) \/ SenderFails(s)
              \/ ReceiverJoin(s) \/ ReceiverRefused(s)
              \/ LeaveOldRoom(s) \/ LeaveRoom(s) \/ FindRoom(s) \/ MissRoom(s) \/ CreateRoom(s)
              \/ AddMember(s) \/ BroadcastBegin(s) \/ BroadcastTo(s) \/ BroadcastEnd(s)
              \/ ReceiverDeliver(s) \/ CopyRooms(s) \/ DeleteRoom(s) \/ EndSession(s)
              \/ UseAfterFree(s) \/ MapRace(s)
  BY DEF Next, ClientStep, WorkerStep

LEMMA LinesType ==
    ASSUME lines \in [Session -> 0..MaxLines], NEW s \in Session, lines[s] < MaxLines
    PROVE  lines[s] + 1 \in Text /\ lines[s] + 1 \in 0..MaxLines
  BY ServerAssumption DEF Text

\* The message of a broadcast is one.
LEMMA SaidType ==
    ASSUME IInv, NEW s \in Session, pc[s] \in {"bcast", "enqueue"}
    PROVE  Said(s) \in BroadcastMessage
  <1>1. room[s] \in RoomAddr /\ lines[s] \in Text
    BY DEF IInv, TypeOK, Places
  <1>2. heap[room[s]] # "unused"
    BY <1>1, ServerAssumption DEF IInv, Rooms
  <1>3. QED
    BY <1>1, <1>2 DEF IInv, Rooms, Said, BroadcastMessage

LEMMA InvInit == Init => IInv
  <1> SUFFICES ASSUME Init PROVE IInv
    OBVIOUS
  <1> USE ServerAssumption DEF Init
  <1>1. TypeOK
    <2>1. 0 \in 0..MaxLines /\ 0 \in Nat /\ <<>> \in Seq(BroadcastMessage)
      OBVIOUS
    <2>2. QED
      BY <2>1 DEF TypeOK, PC, Reply
  <1>2. Places /\ Rooms /\ Creating
    BY DEF Places, Rooms, Creating
  <1>3. QED
    BY <1>1, <1>2 DEF IInv

LEMMA TypeStep ==
    ASSUME IInv, Next
    PROVE  TypeOK'
  <1> USE ServerAssumption DEF IInv, TypeOK, PC, Reply, At, Goto, Answer, lockVars,
     roomVars, userVars, localVars, historyVars, dataVars
  <1>1. ASSUME NEW s \in Session, LoginSender(s) PROVE TypeOK'
    BY <1>1 DEF LoginSender
  <1>2. ASSUME NEW s \in Session, LoginReceiver(s) PROVE TypeOK'
    BY <1>2 DEF LoginReceiver
  <1>3. ASSUME NEW s \in Session, LoginOther(s) PROVE TypeOK'
    BY <1>3 DEF LoginOther, Finish
  <1>4. ASSUME NEW s \in Session, LoginErr(s) PROVE TypeOK'
    BY <1>4 DEF LoginErr
  <1>5. ASSUME NEW s \in Session, SenderJoin(s) PROVE TypeOK'
    <2>1. lines' \in [Session -> 0..MaxLines]
      BY <1>5, LinesType DEF SenderJoin, ReceiveLine
    <2>2. data' \in [Session -> RoomName \cup {NullPtr}]
      BY <1>5 DEF SenderJoin
    <2>3. pc' \in [Session -> PC]
      BY <1>5 DEF SenderJoin
    <2>4. UNCHANGED <<lockVars, roomVars, userVars, room, pending, doomed, historyVars,
       reply, ub>>
      BY <1>5 DEF SenderJoin
    <2>5. QED
      BY <2>1, <2>2, <2>3, <2>4
  <1>6. ASSUME NEW s \in Session, SenderLeave(s) PROVE TypeOK'
    <2>1. lines' \in [Session -> 0..MaxLines]
      BY <1>6, LinesType DEF SenderLeave, ReceiveLine
    <2>2. QED
      BY <1>6, <2>1 DEF SenderLeave, ReceiveLine
  <1>7. ASSUME NEW s \in Session, SenderSay(s) PROVE TypeOK'
    <2>1. lines' \in [Session -> 0..MaxLines]
      BY <1>7, LinesType DEF SenderSay, ReceiveLine
    <2>2. QED
      BY <1>7, <2>1 DEF SenderSay, ReceiveLine
  <1>8. ASSUME NEW s \in Session, SenderQuit(s) PROVE TypeOK'
    BY <1>8 DEF SenderQuit, Finish
  <1>9. ASSUME NEW s \in Session, SenderFails(s) PROVE TypeOK'
    BY <1>9 DEF SenderFails, Finish
  <1>10. ASSUME NEW s \in Session, ReceiverJoin(s) PROVE TypeOK'
    <2>1. PICK n \in RoomName : data' = [data EXCEPT ![s] = n]
      BY <1>10 DEF ReceiverJoin
    <2>2. QED
      BY <1>10, <2>1 DEF ReceiverJoin
  <1>11. ASSUME NEW s \in Session, ReceiverRefused(s) PROVE TypeOK'
    BY <1>11 DEF ReceiverRefused, Finish
  <1>12. ASSUME NEW s \in Session, LeaveOldRoom(s) PROVE TypeOK'
    BY <1>12 DEF LeaveOldRoom, RemoveMember
  <1>13. ASSUME NEW s \in Session, LeaveRoom(s) PROVE TypeOK'
    BY <1>13 DEF LeaveRoom, RemoveMember
  <1>14. ASSUME NEW s \in Session, FindRoom(s) PROVE TypeOK'
    <2>1. m_rooms[data[s]] \in RoomAddr \cup {NullPtr}
      BY <1>14 DEF FindRoom, Places
    <2>2. QED
      BY <1>14, <2>1 DEF FindRoom
  <1>15. ASSUME NEW s \in Session, MissRoom(s) PROVE TypeOK'
    BY <1>15 DEF MissRoom
  <1>16. ASSUME NEW s \in Session, CreateRoom(s) PROVE TypeOK'
    <2>1. PICK a \in RoomAddr :
            /\ heap' = [heap EXCEPT ![a] = "live"]
            /\ room_name' = [room_name EXCEPT ![a] = data[s]]
            /\ m_rooms' = [m_rooms EXCEPT ![data[s]] = a]
            /\ room' = [room EXCEPT ![s] = a]
      BY <1>16 DEF CreateRoom
    <2>2. data[s] \in RoomName
      BY <1>16 DEF CreateRoom, Places
    <2>3. QED
      BY <1>16, <2>1, <2>2 DEF CreateRoom
  <1>17. ASSUME NEW s \in Session, AddMember(s) PROVE TypeOK'
    <2>1. room[s] \in RoomAddr
      BY <1>17 DEF AddMember, Places
    <2>2. Len(log[room[s]]) \in Nat
      BY <2>1, LenProperties
    <2>3. QED
      BY <1>17, <2>1, <2>2 DEF AddMember
  <1>18. ASSUME NEW s \in Session, BroadcastBegin(s) PROVE TypeOK'
    <2>1. room[s] \in RoomAddr /\ Said(s) \in BroadcastMessage
      BY <1>18, SaidType DEF BroadcastBegin, Places
    <2>2. log' \in [RoomAddr -> Seq(BroadcastMessage)]
      BY <1>18, <2>1, AppendProperties DEF BroadcastBegin
    <2>3. QED
      BY <1>18, <2>1, <2>2 DEF BroadcastBegin
  <1>19. ASSUME NEW s \in Session, BroadcastTo(s) PROVE TypeOK'
    <2>1. Said(s) \in BroadcastMessage
      BY <1>19, SaidType DEF BroadcastTo
    <2>2. PICK u \in Session :
            /\ mqueue' = [mqueue EXCEPT ![u] = Append(@, Said(s))]
            /\ pending' = [pending EXCEPT ![s] = @ \ {u}]
      BY <1>19 DEF BroadcastTo
    <2>3. mqueue' \in [Session -> Seq(BroadcastMessage)]
      BY <2>1, <2>2, AppendProperties
    <2>4. QED
      BY <1>19, <2>2, <2>3 DEF BroadcastTo
  <1>20. ASSUME NEW s \in Session, BroadcastEnd(s) PROVE TypeOK'
    BY <1>20 DEF BroadcastEnd
  <1>21. ASSUME NEW s \in Session, ReceiverDeliver(s) PROVE TypeOK'
    <2>1. Head(mqueue[s]) \in BroadcastMessage /\ Tail(mqueue[s]) \in Seq(BroadcastMessage)
      BY <1>21, HeadTailProperties DEF ReceiverDeliver
    <2>2. /\ mqueue' \in [Session -> Seq(BroadcastMessage)]
          /\ delivered' \in [Session -> Seq(BroadcastMessage)]
      BY <1>21, <2>1, AppendProperties DEF ReceiverDeliver
    <2>3. QED
      BY <1>21, <2>2 DEF ReceiverDeliver
  <1>22. ASSUME NEW s \in Session, CopyRooms(s) PROVE TypeOK'
    <2>1. {m_rooms[n] : n \in RoomName} \ {NullPtr} \subseteq RoomAddr
      <3>1. \A n \in RoomName : m_rooms[n] \in RoomAddr \cup {NullPtr}
        OBVIOUS
      <3> HIDE DEF IInv, TypeOK
      <3>2. QED
        BY <3>1
    <2>2. QED
      BY <1>22, <2>1 DEF CopyRooms
  <1>23. ASSUME NEW s \in Session, DeleteRoom(s) PROVE TypeOK'
    <2>1. PICK a \in RoomAddr :
            /\ heap' = [heap EXCEPT ![a] = "freed"]
            /\ user' = [u \in Session |-> IF u \in members[a] THEN "freed" ELSE user[u]]
            /\ doomed' = [doomed EXCEPT ![s] = @ \ {a}]
      BY <1>23 DEF DeleteRoom
    <2>2. QED
      BY <1>23, <2>1 DEF DeleteRoom
  <1>24. ASSUME NEW s \in Session, EndSession(s) PROVE TypeOK'
    BY <1>24 DEF EndSession
  <1>25. ASSUME NEW s \in Session, UseAfterFree(s) PROVE TypeOK'
    BY <1>25 DEF UseAfterFree, Undefined
  <1>26. ASSUME NEW s \in Session, MapRace(s) PROVE TypeOK'
    BY <1>26 DEF MapRace, Undefined
  <1>27. QED
    BY NextCases, <1>1, <1>2, <1>3, <1>4, <1>5, <1>6, <1>7, <1>8, <1>9, <1>10, <1>11,
       <1>12, <1>13, <1>14, <1>15, <1>16, <1>17, <1>18, <1>19, <1>20, <1>21, <1>22,
       <1>23, <1>24, <1>25, <1>26

LEMMA PlacesStep ==
    ASSUME IInv, Next
    PROVE  Places'
  <1> USE ServerAssumption DEF IInv, TypeOK, Places, PC, At, Goto, lockVars, roomVars,
     userVars, localVars, historyVars, dataVars
  <1>1. ASSUME NEW s \in Session, LoginSender(s) PROVE Places'
    BY <1>1 DEF LoginSender
  <1>2. ASSUME NEW s \in Session, LoginReceiver(s) PROVE Places'
    BY <1>2 DEF LoginReceiver
  <1>3. ASSUME NEW s \in Session, LoginOther(s) PROVE Places'
    BY <1>3 DEF LoginOther, Finish
  <1>4. ASSUME NEW s \in Session, LoginErr(s) PROVE Places'
    BY <1>4 DEF LoginErr
  <1>5. ASSUME NEW s \in Session, SenderJoin(s) PROVE Places'
    <2>1. /\ \A t \in Session \ {s} :
                pc'[t] = pc[t] /\ data'[t] = data[t] /\ lines'[t] = lines[t]
          /\ room' = room /\ data'[s] \in RoomName
          /\ pc'[s] \in {"remove", "find"} /\ (pc'[s] = "remove" => room[s] # NullPtr)
      BY <1>5 DEF SenderJoin, ReceiveLine
    <2> HIDE DEF TypeOK
    <2>2. QED
      BY <2>1
  <1>6. ASSUME NEW s \in Session, SenderLeave(s) PROVE Places'
    <2>1. /\ \A t \in Session \ {s} :
                pc'[t] = pc[t] /\ data'[t] = data[t] /\ lines'[t] = lines[t]
          /\ room' = room
          /\ pc'[s] \in {"recv", "leave"} /\ (pc'[s] = "leave" => room[s] # NullPtr)
      BY <1>6 DEF SenderLeave, ReceiveLine
    <2> HIDE DEF TypeOK
    <2>2. QED
      BY <2>1
  <1>7. ASSUME NEW s \in Session, SenderSay(s) PROVE Places'
    <2>1. lines[s] + 1 \in Text
      BY <1>7, LinesType DEF SenderSay, ReceiveLine
    <2>2. QED
      BY <1>7, <2>1 DEF SenderSay, ReceiveLine
  <1>8. ASSUME NEW s \in Session, SenderQuit(s) PROVE Places'
    BY <1>8 DEF SenderQuit, Finish
  <1>9. ASSUME NEW s \in Session, SenderFails(s) PROVE Places'
    BY <1>9 DEF SenderFails, Finish
  <1>10. ASSUME NEW s \in Session, ReceiverJoin(s) PROVE Places'
    BY <1>10 DEF ReceiverJoin
  <1>11. ASSUME NEW s \in Session, ReceiverRefused(s) PROVE Places'
    BY <1>11 DEF ReceiverRefused, Finish
  <1>12. ASSUME NEW s \in Session, LeaveOldRoom(s) PROVE Places'
    BY <1>12 DEF LeaveOldRoom, RemoveMember
  <1>13. ASSUME NEW s \in Session, LeaveRoom(s) PROVE Places'
    BY <1>13 DEF LeaveRoom, RemoveMember
  <1>14. ASSUME NEW s \in Session, FindRoom(s) PROVE Places'
    BY <1>14 DEF FindRoom
  <1>15. ASSUME NEW s \in Session, MissRoom(s) PROVE Places'
    BY <1>15 DEF MissRoom
  <1>16. ASSUME NEW s \in Session, CreateRoom(s) PROVE Places'
    BY <1>16 DEF CreateRoom
  <1>17. ASSUME NEW s \in Session, AddMember(s) PROVE Places'
    BY <1>17 DEF AddMember
  <1>18. ASSUME NEW s \in Session, BroadcastBegin(s) PROVE Places'
    BY <1>18 DEF BroadcastBegin
  <1>19. ASSUME NEW s \in Session, BroadcastTo(s) PROVE Places'
    BY <1>19 DEF BroadcastTo
  <1>20. ASSUME NEW s \in Session, BroadcastEnd(s) PROVE Places'
    BY <1>20 DEF BroadcastEnd
  <1>21. ASSUME NEW s \in Session, ReceiverDeliver(s) PROVE Places'
    BY <1>21 DEF ReceiverDeliver
  <1>22. ASSUME NEW s \in Session, CopyRooms(s) PROVE Places'
    BY <1>22 DEF CopyRooms
  <1>23. ASSUME NEW s \in Session, DeleteRoom(s) PROVE Places'
    BY <1>23 DEF DeleteRoom
  <1>24. ASSUME NEW s \in Session, EndSession(s) PROVE Places'
    BY <1>24 DEF EndSession
  <1>25. ASSUME NEW s \in Session, UseAfterFree(s) PROVE Places'
    BY <1>25 DEF UseAfterFree, Undefined
  <1>26. ASSUME NEW s \in Session, MapRace(s) PROVE Places'
    BY <1>26 DEF MapRace, Undefined
  <1>27. QED
    BY NextCases, <1>1, <1>2, <1>3, <1>4, <1>5, <1>6, <1>7, <1>8, <1>9, <1>10, <1>11,
       <1>12, <1>13, <1>14, <1>15, <1>16, <1>17, <1>18, <1>19, <1>20, <1>21, <1>22,
       <1>23, <1>24, <1>25, <1>26

\* A step of s that leaves the rooms, their map and its lock alone and does not
\* take s to the creation of a room.
LEMMA RoomsUntouched ==
    ASSUME IInv, NEW s \in Session, UNCHANGED <<m_lock, m_rooms, heap, room_name, room>>,
           pc'[s] # "create",
           \A t \in Session : t # s => pc'[t] = pc[t] /\ data'[t] = data[t]
    PROVE  Rooms' /\ Creating'
  <1>1. Rooms'
    BY DEF IInv, Rooms
  <1>2. Creating'
    BY DEF IInv, Creating
  <1>3. QED
    BY <1>1, <1>2

LEMMA RoomsStep ==
    ASSUME IInv, Next
    PROVE  Rooms' /\ Creating'
  <1> USE DEF At, Goto, lockVars, roomVars, userVars, localVars, historyVars, dataVars
  <1>0. pc \in [Session -> PC] /\ data \in [Session -> RoomName \cup {NullPtr}]
    BY DEF IInv, TypeOK
  <1>1. ASSUME NEW s \in Session, LoginSender(s) PROVE Rooms' /\ Creating'
    BY <1>0, <1>1, RoomsUntouched DEF LoginSender
  <1>2. ASSUME NEW s \in Session, LoginReceiver(s) PROVE Rooms' /\ Creating'
    BY <1>0, <1>2, RoomsUntouched DEF LoginReceiver
  <1>3. ASSUME NEW s \in Session, LoginOther(s) PROVE Rooms' /\ Creating'
    BY <1>0, <1>3, RoomsUntouched DEF LoginOther, Finish
  <1>4. ASSUME NEW s \in Session, LoginErr(s) PROVE Rooms' /\ Creating'
    BY <1>0, <1>4, RoomsUntouched DEF LoginErr
  <1>5. ASSUME NEW s \in Session, SenderJoin(s) PROVE Rooms' /\ Creating'
    BY <1>0, <1>5, RoomsUntouched DEF SenderJoin, ReceiveLine
  <1>6. ASSUME NEW s \in Session, SenderLeave(s) PROVE Rooms' /\ Creating'
    BY <1>0, <1>6, RoomsUntouched DEF SenderLeave, ReceiveLine
  <1>7. ASSUME NEW s \in Session, SenderSay(s) PROVE Rooms' /\ Creating'
    BY <1>0, <1>7, RoomsUntouched DEF SenderSay, ReceiveLine
  <1>8. ASSUME NEW s \in Session, SenderQuit(s) PROVE Rooms' /\ Creating'
    BY <1>0, <1>8, RoomsUntouched DEF SenderQuit, Finish
  <1>9. ASSUME NEW s \in Session, SenderFails(s) PROVE Rooms' /\ Creating'
    BY <1>0, <1>9, RoomsUntouched DEF SenderFails, Finish
  <1>10. ASSUME NEW s \in Session, ReceiverJoin(s) PROVE Rooms' /\ Creating'
    BY <1>0, <1>10, RoomsUntouched DEF ReceiverJoin
  <1>11. ASSUME NEW s \in Session, ReceiverRefused(s) PROVE Rooms' /\ Creating'
    BY <1>0, <1>11, RoomsUntouched DEF ReceiverRefused, Finish
  <1>12. ASSUME NEW s \in Session, LeaveOldRoom(s) PROVE Rooms' /\ Creating'
    BY <1>0, <1>12, RoomsUntouched DEF LeaveOldRoom, RemoveMember
  <1>13. ASSUME NEW s \in Session, LeaveRoom(s) PROVE Rooms' /\ Creating'
    BY <1>0, <1>13, RoomsUntouched DEF LeaveRoom, RemoveMember
  <1>14. ASSUME NEW s \in Session, FindRoom(s) PROVE Rooms' /\ Creating'
    BY <1>14, ServerAssumption DEF FindRoom, IInv, TypeOK, Places, Rooms, Creating
  <1>15. ASSUME NEW s \in Session, MissRoom(s) PROVE Rooms' /\ Creating'
    BY <1>15, ServerAssumption DEF MissRoom, IInv, TypeOK, Places, Rooms, Creating
  <1>16. ASSUME NEW s \in Session, CreateRoom(s) PROVE Rooms' /\ Creating'
    BY <1>16, ServerAssumption DEF CreateRoom, IInv, TypeOK, Places, Rooms, Creating
  <1>17. ASSUME NEW s \in Session, AddMember(s) PROVE Rooms' /\ Creating'
    BY <1>0, <1>17, RoomsUntouched DEF AddMember
  <1>18. ASSUME NEW s \in Session, BroadcastBegin(s) PROVE Rooms' /\ Creating'
    BY <1>0, <1>18, RoomsUntouched DEF BroadcastBegin
  <1>19. ASSUME NEW s \in Session, BroadcastTo(s) PROVE Rooms' /\ Creating'
    BY <1>0, <1>19, RoomsUntouched DEF BroadcastTo
  <1>20. ASSUME NEW s \in Session, BroadcastEnd(s) PROVE Rooms' /\ Creating'
    BY <1>0, <1>20, RoomsUntouched DEF BroadcastEnd
  <1>21. ASSUME NEW s \in Session, ReceiverDeliver(s) PROVE Rooms' /\ Creating'
    BY <1>0, <1>21, RoomsUntouched DEF ReceiverDeliver
  <1>22. ASSUME NEW s \in Session, CopyRooms(s) PROVE Rooms' /\ Creating'
    BY <1>0, <1>22, RoomsUntouched DEF CopyRooms
  <1>23. ASSUME NEW s \in Session, DeleteRoom(s) PROVE Rooms' /\ Creating'
    BY <1>23, ServerAssumption DEF DeleteRoom, IInv, TypeOK, Places, Rooms, Creating
  <1>24. ASSUME NEW s \in Session, EndSession(s) PROVE Rooms' /\ Creating'
    BY <1>0, <1>24, RoomsUntouched DEF EndSession
  <1>25. ASSUME NEW s \in Session, UseAfterFree(s) PROVE Rooms' /\ Creating'
    BY <1>25 DEF UseAfterFree, Undefined, IInv, Rooms, Creating
  <1>26. ASSUME NEW s \in Session, MapRace(s) PROVE Rooms' /\ Creating'
    BY <1>26 DEF MapRace, Undefined, IInv, Rooms, Creating
  <1>27. QED
    BY NextCases, <1>1, <1>2, <1>3, <1>4, <1>5, <1>6, <1>7, <1>8, <1>9, <1>10, <1>11,
       <1>12, <1>13, <1>14, <1>15, <1>16, <1>17, <1>18, <1>19, <1>20, <1>21, <1>22,
       <1>23, <1>24, <1>25, <1>26

\* A step that changes nothing keeps every part of the invariant.
LEMMA InvStutter ==
    ASSUME IInv, UNCHANGED vars
    PROVE  IInv'
  <1> USE DEF IInv, vars, dataVars, lockVars, roomVars, userVars, localVars, historyVars
  <1>1. TypeOK'
    BY DEF TypeOK
  <1>2. Places' /\ Rooms' /\ Creating'
    BY DEF Places, Rooms, Creating
  <1>3. QED
    BY <1>1, <1>2

LEMMA InvStep == IInv /\ [Next]_vars => IInv'
  <1>1. CASE Next
    BY <1>1, TypeStep, PlacesStep, RoomsStep DEF IInv
  <1>2. CASE UNCHANGED vars
    BY <1>2, InvStutter
  <1>3. QED
    BY <1>1, <1>2

LEMMA InvCorrect == Spec => []IInv
  <1>1. QED
    BY InvInit, InvStep, PTL DEF Spec

\* Every variable keeps its type through everything the workers do to the
\* rooms; in particular a receiver's queue only ever holds broadcast messages.
THEOREM TypeCorrect == Spec => []TypeOK
  <1>1. IInv => TypeOK
    BY DEF IInv
  <1>2. QED
    BY <1>1, InvCorrect, PTL

\* find_or_create_room never makes two rooms of one name: the map names every
\* room that was ever created.
THEOREM RoomsAreUnique == Spec => []UniqueRoom
  <1>1. IInv => UniqueRoom
    BY DEF IInv, Rooms, UniqueRoom
  <1>2. QED
    BY <1>1, InvCorrect, PTL

-----------------------------------------------------------------------------
(* No undefined behaviour before the first session ends *)

\* m_lock keeps two threads from creating a room at once.
LEMMA NoMapRace ==
    ASSUME IInv, Unended, NEW s \in Session, MapRace(s)
    PROVE  FALSE
  <1>1. PICK t \in Session \ {s} : pc[t] = "create"
    BY DEF MapRace
  <1>2. m_lock = t /\ t # NoThread
    BY <1>1, ServerAssumption DEF IInv, Creating
  <1>3. pc[s] \in {"find", "create"}
    BY DEF MapRace, Unended
  <1>4. QED
    BY <1>1, <1>2, <1>3 DEF MapRace, IInv, Creating

\* Nothing that is used was freed.
LEMMA NoUseAfterFree ==
    ASSUME IInv, Safe, Unended, NEW s \in Session, UseAfterFree(s)
    PROVE  FALSE
  <1>1. \A a \in UsesRooms(s) : a \in RoomAddr
    BY DEF IInv, TypeOK, Places, UsesRooms
  <1>2. \A u \in UsesUsers(s) : u \in Session
    BY DEF IInv, TypeOK, UsesUsers
  <1>3. QED
    BY <1>1, <1>2 DEF UseAfterFree, Safe

LEMMA SafeInit == Init => Safe
  BY DEF Init, Safe

LEMMA SafeStep ==
    ASSUME IInv, Safe, Next
    PROVE  Safe'
  <1> SUFFICES ASSUME Unended'
               PROVE  /\ ~ub'
                      /\ \A a \in RoomAddr : heap'[a] # "freed"
                      /\ \A u \in Session : user'[u] # "freed"
    BY DEF Safe
  <1>0. /\ pc \in [Session -> PC]
        /\ heap \in [RoomAddr -> {"unused", "live", "freed"}]
        /\ user \in [Session -> {"none", "live", "freed"}]
    BY DEF IInv, TypeOK
  <1> USE <1>0 DEF Unended, PC, At, Goto
  <1> DEFINE Calm == /\ ~ub'
                     /\ \A a \in RoomAddr : heap'[a] # "freed"
                     /\ \A u \in Session : user'[u] # "freed"
  <1>2. ASSUME NEW s \in Session, LoginSender(s) PROVE Calm
    BY <1>2 DEF LoginSender, Safe, roomVars, userVars, dataVars
  <1>3. ASSUME NEW s \in Session, LoginReceiver(s) PROVE Calm
    BY <1>3 DEF LoginReceiver, Safe, roomVars, userVars, dataVars
  <1>4. ASSUME NEW s \in Session, LoginOther(s) PROVE FALSE
    BY <1>4 DEF LoginOther, Finish
  <1>5. ASSUME NEW s \in Session, LoginErr(s) PROVE Calm
    BY <1>5 DEF LoginErr, Safe, roomVars, userVars, dataVars
  <1>6. ASSUME NEW s \in Session, SenderJoin(s) PROVE Calm
    BY <1>6 DEF SenderJoin, ReceiveLine, Safe, roomVars, userVars, dataVars
  <1>7. ASSUME NEW s \in Session, SenderLeave(s) PROVE Calm
    BY <1>7 DEF SenderLeave, ReceiveLine, Safe, roomVars, userVars, dataVars
  <1>8. ASSUME NEW s \in Session, SenderSay(s) PROVE Calm
    BY <1>8 DEF SenderSay, ReceiveLine, Safe, roomVars, userVars, dataVars
  <1>9. ASSUME NEW s \in Session, SenderQuit(s) PROVE FALSE
    BY <1>9 DEF SenderQuit, Finish
  <1>10. ASSUME NEW s \in Session, SenderFails(s) PROVE FALSE
    BY <1>10 DEF SenderFails, Finish
  <1>11. ASSUME NEW s \in Session, ReceiverJoin(s) PROVE Calm
    BY <1>11 DEF ReceiverJoin, Safe, roomVars, userVars, dataVars
  <1>12. ASSUME NEW s \in Session, ReceiverRefused(s) PROVE FALSE
    BY <1>12 DEF ReceiverRefused, Finish
  <1>13. ASSUME NEW s \in Session, LeaveOldRoom(s) PROVE Calm
    BY <1>13 DEF LeaveOldRoom, RemoveMember, Safe, roomVars, userVars, dataVars
  <1>14. ASSUME NEW s \in Session, LeaveRoom(s) PROVE Calm
    BY <1>14 DEF LeaveRoom, RemoveMember, Safe, roomVars, userVars, dataVars
  <1>15. ASSUME NEW s \in Session, FindRoom(s) PROVE Calm
    BY <1>15 DEF FindRoom, Safe, roomVars, userVars, dataVars
  <1>16. ASSUME NEW s \in Session, MissRoom(s) PROVE Calm
    BY <1>16 DEF MissRoom, Safe, roomVars, userVars, dataVars
  <1>17. ASSUME NEW s \in Session, CreateRoom(s) PROVE Calm
    BY <1>17 DEF CreateRoom, Safe, roomVars, userVars, dataVars
  <1>18. ASSUME NEW s \in Session, AddMember(s) PROVE Calm
    BY <1>18 DEF AddMember, Safe, roomVars, userVars, dataVars
  <1>19. ASSUME NEW s \in Session, BroadcastBegin(s) PROVE Calm
    BY <1>19 DEF BroadcastBegin, Safe, roomVars, userVars, dataVars
  <1>20. ASSUME NEW s \in Session, BroadcastTo(s) PROVE Calm
    BY <1>20 DEF BroadcastTo, Safe, roomVars, userVars, dataVars
  <1>21. ASSUME NEW s \in Session, BroadcastEnd(s) PROVE Calm
    BY <1>21 DEF BroadcastEnd, Safe, roomVars, userVars, dataVars
  <1>22. ASSUME NEW s \in Session, ReceiverDeliver(s) PROVE Calm
    BY <1>22 DEF ReceiverDeliver, Safe, roomVars, userVars, dataVars
  <1>23. ASSUME NEW s \in Session, CopyRooms(s) PROVE FALSE
    BY <1>23 DEF CopyRooms
  <1>24. ASSUME NEW s \in Session, DeleteRoom(s) PROVE FALSE
    BY <1>24 DEF DeleteRoom
  <1>25. ASSUME NEW s \in Session, EndSession(s) PROVE FALSE
    BY <1>25 DEF EndSession
  <1>26. ASSUME NEW s \in Session, UseAfterFree(s) \/ MapRace(s)
        PROVE  FALSE
    <2>1. Unended
      BY <1>26 DEF UseAfterFree, MapRace, Undefined
    <2>2. QED
      BY <1>26, <2>1, NoUseAfterFree, NoMapRace
  <1>27. QED
    BY NextCases, <1>2, <1>3, <1>4, <1>5, <1>6, <1>7, <1>8, <1>9, <1>10, <1>11, <1>12,
       <1>13, <1>14, <1>15, <1>16, <1>17, <1>18, <1>19, <1>20, <1>21, <1>22, <1>23,
       <1>24, <1>25, <1>26

\* As long as no session has ended, the guards of Server, Room and User are
\* enough: no worker touches a freed room or user, or reads m_rooms while
\* another inserts into it.
THEOREM SafeUntilEndCorrect == Spec => []SafeUntilSessionEnds
  <1>1. Safe /\ UNCHANGED vars => Safe'
    BY DEF Safe, Unended, vars, dataVars, roomVars, userVars
  <1>2. IInv /\ Safe /\ [Next]_vars => Safe'
    BY <1>1, SafeStep
  <1>3. Safe => SafeUntilSessionEnds
    BY DEF Safe, Unended, SafeUntilSessionEnds
  <1>4. QED
    BY SafeInit, InvCorrect, <1>2, <1>3, PTL DEF Spec

-----------------------------------------------------------------------------
(* Who is a member of what *)

LEMMA MembersInit == Init => Members
  BY DEF Init, Members, Settled

\* Session t takes no part in a step: nothing that is so of it changes.
Bystander(t) ==
    /\ pc'[t] = pc[t] /\ reply'[t] = reply[t] /\ room'[t] = room[t] /\ data'[t] = data[t]
    /\ \A a \in RoomAddr : t \in members'[a] <=> t \in members[a]
    /\ room[t] # NullPtr => room_name'[room[t]] = room_name[room[t]]

LEMMA BystanderSettled ==
    ASSUME IInv, NEW t \in Session, Settled(t), Bystander(t)
    PROVE  Settled(t)'
  <1>1. room[t] # NullPtr => room[t] \in RoomAddr
    BY DEF IInv, TypeOK
  <1>2. pc[t] = "add" => room[t] # NullPtr
    BY DEF IInv, Places
  <1>3. QED
    BY <1>1, <1>2 DEF Settled, Bystander

\* A room keeps its name: only an unused address gets one.
LEMMA MembersStep ==
    ASSUME IInv, Members, Next
    PROVE  Members'
  <1>0. /\ pc \in [Session -> PC]
        /\ room_name \in [RoomAddr -> RoomName \cup {NullPtr}]
        /\ members \in [RoomAddr -> SUBSET Session]
        /\ room \in [Session -> RoomAddr \cup {NullPtr}]
        /\ data \in [Session -> RoomName \cup {NullPtr}]
        /\ reply \in [Session -> Reply]
    BY DEF IInv, TypeOK
  <1>P. Places /\ Rooms
    BY DEF IInv
  \* It is enough to look at the session that takes the step.
  <1>Q. ASSUME NEW s \in Session, \A t \in Session \ {s} : Bystander(t), Settled(s)'
        PROVE  Members'
    BY <1>Q, BystanderSettled DEF Members
  <1> USE <1>0 DEF At, Goto, Answer
  <1>1. ASSUME NEW s \in Session, LoginSender(s) PROVE Members'
    <2> Settled(s)
      BY DEF Members
    <2>1. \A t \in Session \ {s} : Bystander(t)
      BY <1>1 DEF LoginSender, Bystander, dataVars, roomVars, localVars
    <2>2. Settled(s)'
      BY <1>1, <1>P DEF LoginSender, Settled, Places, Rooms, dataVars, roomVars, localVars
    <2>3. QED
      BY <1>Q, <2>1, <2>2
  <1>2. ASSUME NEW s \in Session, LoginReceiver(s) PROVE Members'
    <2> Settled(s)
      BY DEF Members
    <2>1. \A t \in Session \ {s} : Bystander(t)
      BY <1>2 DEF LoginReceiver, Bystander, dataVars, roomVars, localVars
    <2>2. Settled(s)'
      BY <1>2, <1>P DEF LoginReceiver, Settled, Places, Rooms, dataVars, roomVars, localVars
    <2>3. QED
      BY <1>Q, <2>1, <2>2
  <1>3. ASSUME NEW s \in Session, LoginOther(s) PROVE Members'
    <2> Settled(s)
      BY DEF Members
    <2>1. \A t \in Session \ {s} : Bystander(t)
      BY <1>3 DEF LoginOther, Finish, Bystander, dataVars, roomVars, localVars
    <2>2. Settled(s)'
      BY <1>3, <1>P DEF LoginOther, Finish, Settled, Places, Rooms, dataVars, roomVars,
         localVars
    <2>3. QED
      BY <1>Q, <2>1, <2>2
  <1>4. ASSUME NEW s \in Session, LoginErr(s) PROVE Members'
    <2> Settled(s)
      BY DEF Members
    <2>1. \A t \in Session \ {s} : Bystander(t)
      BY <1>4 DEF LoginErr, Bystander, dataVars, roomVars, localVars
    <2>2. Settled(s)'
      BY <1>4, <1>P DEF LoginErr, Settled, Places, Rooms, dataVars, roomVars, localVars
    <2>3. QED
      BY <1>Q, <2>1, <2>2
  <1>5. ASSUME NEW s \in Session, SenderJoin(s) PROVE Members'
    <2> Settled(s)
      BY DEF Members
    <2>1. \A t \in Session \ {s} : Bystander(t)
      BY <1>5 DEF SenderJoin, ReceiveLine, Bystander, dataVars, roomVars, localVars
    <2>2. Settled(s)'
      <3>1. /\ UNCHANGED <<members, room>>
            /\ pc'[s] = IF room[s] # NullPtr THEN "remove" ELSE "find"
        BY <1>5 DEF SenderJoin, ReceiveLine, roomVars
      <3>2. CASE room[s] # NullPtr
        BY <3>1, <3>2 DEF Settled
      <3>3. CASE room[s] = NullPtr
        BY <3>1, <3>3, ServerAssumption DEF Settled
      <3>4. QED
        BY <3>2, <3>3
    <2>3. QED
      BY <1>Q, <2>1, <2>2
  <1>6. ASSUME NEW s \in Session, SenderLeave(s) PROVE Members'
    <2> Settled(s)
      BY DEF Members
    <2>1. \A t \in Session \ {s} : Bystander(t)
      BY <1>6 DEF SenderLeave, ReceiveLine, Bystander, dataVars, roomVars, localVars
    <2>2. Settled(s)'
      <3>1. /\ UNCHANGED <<members, room, room_name, data>>
            /\ \/ pc'[s] = "leave"
               \/ pc'[s] = "recv" /\ reply'[s] = "not in a room"
        BY <1>6 DEF SenderLeave, ReceiveLine, roomVars
      <3>2. QED
        BY <3>1 DEF Settled
    <2>3. QED
      BY <1>Q, <2>1, <2>2
  <1>7. ASSUME NEW s \in Session, SenderSay(s) PROVE Members'
    <2> Settled(s)
      BY DEF Members
    <2>1. \A t \in Session \ {s} : Bystander(t)
      BY <1>7 DEF SenderSay, ReceiveLine, Bystander, dataVars, roomVars, localVars
    <2>2. Settled(s)'
      <3>1. /\ UNCHANGED <<members, room, room_name, data>>
            /\ \/ pc'[s] = "bcast"
               \/ pc'[s] = "recv" /\ reply'[s] = "not in a room"
        BY <1>7 DEF SenderSay, ReceiveLine, roomVars
      <3>2. QED
        BY <3>1 DEF Settled
    <2>3. QED
      BY <1>Q, <2>1, <2>2
  <1>8. ASSUME NEW s \in Session, SenderQuit(s) PROVE Members'
    <2> Settled(s)
      BY DEF Members
    <2>1. \A t \in Session \ {s} : Bystander(t)
      BY <1>8 DEF SenderQuit, Finish, Bystander, dataVars, roomVars, localVars
    <2>2. Settled(s)'
      BY <1>8, <1>P DEF SenderQuit, Finish, Settled, Places, Rooms, dataVars, roomVars,
         localVars
    <2>3. QED
      BY <1>Q, <2>1, <2>2
  <1>9. ASSUME NEW s \in Session, SenderFails(s) PROVE Members'
    <2> Settled(s)
      BY DEF Members
    <2>1. \A t \in Session \ {s} : Bystander(t)
      BY <1>9 DEF SenderFails, Finish, Bystander, dataVars, roomVars, localVars
    <2>2. Settled(s)'
      BY <1>9, <1>P DEF SenderFails, Finish, Settled, Places, Rooms, dataVars, roomVars,
         localVars
    <2>3. QED
      BY <1>Q, <2>1, <2>2
  <1>10. ASSUME NEW s \in Session, ReceiverJoin(s) PROVE Members'
    <2> Settled(s)
      BY DEF Members
    <2>1. \A t \in Session \ {s} : Bystander(t)
      BY <1>10 DEF ReceiverJoin, Bystander, dataVars, roomVars, localVars
    <2>2. Settled(s)'
      BY <1>10, <1>P, ServerAssumption DEF ReceiverJoin, Settled, Places, Rooms,
         dataVars, roomVars, localVars
    <2>3. QED
      BY <1>Q, <2>1, <2>2
  <1>11. ASSUME NEW s \in Session, ReceiverRefused(s) PROVE Members'
    <2> Settled(s)
      BY DEF Members
    <2>1. \A t \in Session \ {s} : Bystander(t)
      BY <1>11 DEF ReceiverRefused, Finish, Bystander, dataVars, roomVars, localVars
    <2>2. Settled(s)'
      BY <1>11, <1>P DEF ReceiverRefused, Finish, Settled, Places, Rooms, dataVars,
         roomVars, localVars
    <2>3. QED
      BY <1>Q, <2>1, <2>2
  <1>12. ASSUME NEW s \in Session, LeaveOldRoom(s) PROVE Members'
    <2> Settled(s)
      BY DEF Members
    <2>1. room[s] \in RoomAddr
      BY <1>12, <1>P DEF LeaveOldRoom, Places
    <2>2. \A t \in Session \ {s} : Bystander(t)
      BY <1>12, <2>1 DEF LeaveOldRoom, RemoveMember, Bystander, dataVars, roomVars,
         localVars
    <2>3. Settled(s)'
      BY <1>12, <1>P, <2>1 DEF LeaveOldRoom, RemoveMember, Settled, Places, Rooms,
         dataVars, roomVars, localVars
    <2>4. QED
      BY <1>Q, <2>2, <2>3
  <1>13. ASSUME NEW s \in Session, LeaveRoom(s) PROVE Members'
    <2> Settled(s)
      BY DEF Members
    <2>1. room[s] \in RoomAddr
      BY <1>13, <1>P DEF LeaveRoom, Places
    <2>2. \A t \in Session \ {s} : Bystander(t)
      BY <1>13, <2>1 DEF LeaveRoom, RemoveMember, Bystander, dataVars, roomVars, localVars
    <2>3. Settled(s)'
      BY <1>13, <1>P, <2>1 DEF LeaveRoom, RemoveMember, Settled, Places, Rooms,
         dataVars, roomVars, localVars
    <2>4. QED
      BY <1>Q, <2>2, <2>3
  <1>14. ASSUME NEW s \in Session, FindRoom(s) PROVE Members'
    <2> Settled(s)
      BY DEF Members
    <2>1. data[s] \in RoomName
      BY <1>14, <1>P DEF FindRoom, Places
    <2>2. \A t \in Session \ {s} : Bystander(t)
      BY <1>14, <2>1 DEF FindRoom, Bystander, dataVars, roomVars, localVars
    <2>3. Settled(s)'
      BY <1>14, <1>P, <2>1 DEF FindRoom, Settled, Places, Rooms, dataVars, roomVars,
         localVars
    <2>4. QED
      BY <1>Q, <2>2, <2>3
  <1>15. ASSUME NEW s \in Session, MissRoom(s) PROVE Members'
    <2> Settled(s)
      BY DEF Members
    <2>1. \A t \in Session \ {s} : Bystander(t)
      BY <1>15 DEF MissRoom, Bystander, dataVars, roomVars, localVars
    <2>2. Settled(s)'
      BY <1>15, <1>P DEF MissRoom, Settled, Places, Rooms, dataVars, roomVars, localVars
    <2>3. QED
      BY <1>Q, <2>1, <2>2
  <1>16. ASSUME NEW s \in Session, CreateRoom(s) PROVE Members'
    <2> Settled(s)
      BY DEF Members
    <2>1. PICK a \in RoomAddr :
            /\ heap[a] = "unused"
            /\ room_name' = [room_name EXCEPT ![a] = data[s]]
            /\ room' = [room EXCEPT ![s] = a]
      BY <1>16 DEF CreateRoom
    <2>2. \A t \in Session : room[t] # NullPtr => room[t] # a
      BY <1>P, <2>1 DEF Rooms
    <2>3. \A t \in Session \ {s} : Bystander(t)
      BY <1>16, <2>1, <2>2 DEF CreateRoom, Bystander, dataVars, roomVars, localVars
    <2>4. Settled(s)'
      BY <1>16, <1>P, <2>1, <2>2 DEF CreateRoom, Settled, Places, Rooms, dataVars,
         roomVars, localVars
    <2>5. QED
      BY <1>Q, <2>3, <2>4
  <1>17. ASSUME NEW s \in Session, AddMember(s) PROVE Members'
    <2> Settled(s)
      BY DEF Members
    <2>1. room[s] \in RoomAddr
      BY <1>17, <1>P DEF AddMember, Places
    <2>2. \A t \in Session \ {s} : Bystander(t)
      BY <1>17, <2>1 DEF AddMember, Bystander, dataVars, roomVars, localVars
    <2>3. Settled(s)'
      BY <1>17, <1>P, <2>1 DEF AddMember, Settled, Places, Rooms, dataVars, roomVars,
         localVars
    <2>4. QED
      BY <1>Q, <2>2, <2>3
  <1>18. ASSUME NEW s \in Session, BroadcastBegin(s) PROVE Members'
    <2> Settled(s)
      BY DEF Members
    <2>1. \A t \in Session \ {s} : Bystander(t)
      BY <1>18 DEF BroadcastBegin, Bystander, dataVars, roomVars, localVars
    <2>2. Settled(s)'
      BY <1>18, <1>P DEF BroadcastBegin, Settled, Places, Rooms, dataVars, roomVars,
         localVars
    <2>3. QED
      BY <1>Q, <2>1, <2>2
  <1>19. ASSUME NEW s \in Session, BroadcastTo(s) PROVE Members'
    <2> Settled(s)
      BY DEF Members
    <2>1. \A t \in Session \ {s} : Bystander(t)
      BY <1>19 DEF BroadcastTo, Bystander, dataVars, roomVars, localVars
    <2>2. Settled(s)'
      BY <1>19, <1>P DEF BroadcastTo, Settled, Places, Rooms, dataVars, roomVars, localVars
    <2>3. QED
      BY <1>Q, <2>1, <2>2
  <1>20. ASSUME NEW s \in Session, BroadcastEnd(s) PROVE Members'
    <2> Settled(s)
      BY DEF Members
    <2>1. \A t \in Session \ {s} : Bystander(t)
      BY <1>20 DEF BroadcastEnd, Bystander, dataVars, roomVars, localVars
    <2>2. Settled(s)'
      BY <1>20, <1>P DEF BroadcastEnd, Settled, Places, Rooms, dataVars, roomVars, localVars
    <2>3. QED
      BY <1>Q, <2>1, <2>2
  <1>21. ASSUME NEW s \in Session, ReceiverDeliver(s) PROVE Members'
    <2> Settled(s)
      BY DEF Members
    <2>1. \A t \in Session \ {s} : Bystander(t)
      BY <1>21 DEF ReceiverDeliver, Bystander, dataVars, roomVars, localVars
    <2>2. Settled(s)'
      BY <1>21, <1>P DEF ReceiverDeliver, Settled, Places, Rooms, dataVars, roomVars,
         localVars
    <2>3. QED
      BY <1>Q, <2>1, <2>2
  <1>22. ASSUME NEW s \in Session, CopyRooms(s) PROVE Members'
    <2> Settled(s)
      BY DEF Members
    <2>1. \A t \in Session \ {s} : Bystander(t)
      BY <1>22 DEF CopyRooms, Bystander, dataVars, roomVars, localVars
    <2>2. Settled(s)'
      BY <1>22, <1>P DEF CopyRooms, Settled, Places, Rooms, dataVars, roomVars, localVars
    <2>3. QED
      BY <1>Q, <2>1, <2>2
  <1>23. ASSUME NEW s \in Session, DeleteRoom(s) PROVE Members'
    <2> Settled(s)
      BY DEF Members
    <2>1. \A t \in Session \ {s} : Bystander(t)
      BY <1>23 DEF DeleteRoom, Bystander, dataVars, roomVars, localVars
    <2>2. Settled(s)'
      BY <1>23, <1>P DEF DeleteRoom, Settled, Places, Rooms, dataVars, roomVars, localVars
    <2>3. QED
      BY <1>Q, <2>1, <2>2
  <1>24. ASSUME NEW s \in Session, EndSession(s) PROVE Members'
    <2> Settled(s)
      BY DEF Members
    <2>1. \A t \in Session \ {s} : Bystander(t)
      BY <1>24 DEF EndSession, Bystander, dataVars, roomVars, localVars
    <2>2. Settled(s)'
      BY <1>24, <1>P DEF EndSession, Settled, Places, Rooms, dataVars, roomVars, localVars
    <2>3. QED
      BY <1>Q, <2>1, <2>2
  <1>25. ASSUME NEW s \in Session, UseAfterFree(s) PROVE Members'
    <2> Settled(s)
      BY DEF Members
    <2>1. \A t \in Session \ {s} : Bystander(t)
      BY <1>25 DEF UseAfterFree, Undefined, Bystander, dataVars, roomVars, localVars
    <2>2. Settled(s)'
      BY <1>25, <1>P DEF UseAfterFree, Undefined, Settled, Places, Rooms, dataVars,
         roomVars, localVars
    <2>3. QED
      BY <1>Q, <2>1, <2>2
  <1>26. ASSUME NEW s \in Session, MapRace(s) PROVE Members'
    <2> Settled(s)
      BY DEF Members
    <2>1. \A t \in Session \ {s} : Bystander(t)
      BY <1>26 DEF MapRace, Undefined, Bystander, dataVars, roomVars, localVars
    <2>2. Settled(s)'
      BY <1>26, <1>P DEF MapRace, Undefined, Settled, Places, Rooms, dataVars, roomVars,
         localVars
    <2>3. QED
      BY <1>Q, <2>1, <2>2
  <1>27. QED
    BY NextCases, <1>1, <1>2, <1>3, <1>4, <1>5, <1>6, <1>7, <1>8, <1>9, <1>10, <1>11,
       <1>12, <1>13, <1>14, <1>15, <1>16, <1>17, <1>18, <1>19, <1>20, <1>21, <1>22,
       <1>23, <1>24, <1>25, <1>26

LEMMA MembersStutter ==
    ASSUME IInv, Members, UNCHANGED vars
    PROVE  Members'
  BY BystanderSettled DEF Members, Bystander, vars, dataVars, roomVars, localVars

\* A user is a member of no room but its session's, and what its client was
\* last told about joining or leaving is what Room::members says.
THEOREM MembershipCorrect == Spec => []Membership
  <1>1. IInv /\ Members /\ [Next]_vars => Members'
    BY MembersStep, MembersStutter
  <1>2. Members => Membership
    BY DEF Members, Settled, Membership, OneRoom, ReplyIsTrue
  <1>3. QED
    BY MembersInit, InvCorrect, <1>1, <1>2, PTL DEF Spec

-----------------------------------------------------------------------------
(* What a receiver is to hear of a sequence of messages *)

\* How the k-th message of l adds to what r has heard before it.
Hearing(r, l) ==
    [k \in Nat |-> [v \in Seq(BroadcastMessage) |->
        IF k \notin 1..Len(l) \/ username[l[k].from] = username[r] THEN v
        ELSE Append(v, l[k])]]

LEMMA HearingType ==
    ASSUME NEW r, NEW l \in Seq(BroadcastMessage)
    PROVE  Hearing(r, l) \in [Nat -> [Seq(BroadcastMessage) -> Seq(BroadcastMessage)]]
  <1>1. ASSUME NEW k \in Nat, NEW v \in Seq(BroadcastMessage),
               k \in 1..Len(l), username[l[k].from] # username[r]
        PROVE  Append(v, l[k]) \in Seq(BroadcastMessage)
    BY <1>1, ElementOfSeq, AppendProperties
  <1>2. QED
    BY <1>1 DEF Hearing

\* The recursion of HeardBy is well defined: HeardBy is the last value of a
\* function that starts with nothing and follows Hearing.
LEMMA HeardByUnfolds ==
    ASSUME NEW r, NEW l \in Seq(BroadcastMessage), NEW j \in 0..Len(l)
    PROVE  \E g \in [j..Len(l) -> Seq(BroadcastMessage)] :
              /\ Unfolds(g, <<>>, Hearing(r, l), j, Len(l))
              /\ HeardBy(r, l, j) = g[Len(l)]
  <1> DEFINE S == Seq(BroadcastMessage)
             Step(g) == [k \in j..Len(l) |->
                            IF k = j THEN <<>>
                            ELSE IF username[l[k].from] = username[r] THEN g[k - 1]
                            ELSE Append(g[k - 1], l[k])]
             h == CHOOSE g : g = Step(g)
  <1>0. Len(l) \in Nat /\ j \in Nat /\ j <= Len(l) /\ <<>> \in S
    BY LenProperties
  <1>1. Hearing(r, l) \in [Nat -> [S -> S]]
    BY HearingType
  <1>2. PICK f \in [j..Len(l) -> S] : Unfolds(f, <<>>, Hearing(r, l), j, Len(l))
    <2> HIDE DEF S
    <2> QED
      BY <1>0, <1>1, RecursionExists
  <1>3. f = Step(f)
    <2>1. ASSUME NEW k \in j..Len(l) PROVE f[k] = Step(f)[k]
      <3>1. CASE k = j
        BY <1>2, <3>1 DEF Unfolds
      <3>2. CASE k # j
        <4>1. k \in (j + 1)..Len(l) /\ k \in Nat /\ k \in 1..Len(l) /\ f[k - 1] \in S
          BY <1>0, <3>2
        <4>2. f[k] = Hearing(r, l)[k][f[k - 1]]
          BY <1>2, <4>1 DEF Unfolds
        <4>3. QED
          BY <3>2, <4>1, <4>2 DEF Hearing
      <3>3. QED
        BY <3>1, <3>2
    <2>2. QED
      BY <2>1
  <1>4. h = Step(h)
    <2> HIDE DEF Step
    <2> QED
      BY <1>3
  <1>5. f = h
    <2> DEFINE Differ == {k \in j..Len(l) : f[k] # h[k]}
    <2>1. Differ \subseteq Nat
      BY <1>0
    <2>2. SUFFICES ASSUME Differ # {} PROVE FALSE
      <3>1. h = [k \in j..Len(l) |-> h[k]] /\ f = [k \in j..Len(l) |-> f[k]]
        BY <1>3, <1>4
      <3> HIDE DEF h
      <3>2. QED
        BY <3>1
    <2>3. PICK k \in Differ : \A i \in Differ : k <= i
      <3> HIDE DEF Differ
      <3> QED
        BY <2>1, <2>2, Least
    <2> HIDE DEF h
    <2>4. k # j
      BY <1>3, <1>4
    <2>5. k - 1 \in j..Len(l) /\ k - 1 \notin Differ
      BY <1>0, <2>3, <2>4
    <2>6. f[k - 1] = h[k - 1]
      BY <2>5
    <2>7. f[k] = h[k]
      <3>1. k \in j..Len(l)
        OBVIOUS
      <3>2. Step(f)[k] = Step(h)[k]
        BY <2>4, <2>6, <3>1
      <3> HIDE DEF Step
      <3>3. f[k] = Step(f)[k] /\ h[k] = Step(h)[k]
        BY <1>3, <1>4
      <3>4. QED
        BY <3>2, <3>3
    <2>8. QED
      BY <2>7
  <1>6. HeardBy(r, l, j) = h[Len(l)]
    BY DEF HeardBy
  <1>7. QED
    <2> HIDE DEF h
    <2> QED
      BY <1>2, <1>5, <1>6

\* Nothing was broadcast since r has joined.
LEMMA HeardNothing ==
    ASSUME NEW r, NEW l \in Seq(BroadcastMessage)
    PROVE  HeardBy(r, l, Len(l)) = <<>>
  <1>1. Len(l) \in 0..Len(l)
    BY LenProperties
  <1>2. PICK g \in [Len(l)..Len(l) -> Seq(BroadcastMessage)] :
          /\ Unfolds(g, <<>>, Hearing(r, l), Len(l), Len(l))
          /\ HeardBy(r, l, Len(l)) = g[Len(l)]
    BY <1>1, HeardByUnfolds
  <1>3. QED
    BY <1>2 DEF Unfolds

LEMMA HeardType ==
    ASSUME NEW r, NEW l \in Seq(BroadcastMessage), NEW j \in 0..Len(l)
    PROVE  HeardBy(r, l, j) \in Seq(BroadcastMessage)
  <1>1. Len(l) \in j..Len(l)
    BY LenProperties
  <1>2. PICK g \in [j..Len(l) -> Seq(BroadcastMessage)] :
          /\ Unfolds(g, <<>>, Hearing(r, l), j, Len(l))
          /\ HeardBy(r, l, j) = g[Len(l)]
    BY HeardByUnfolds
  <1>3. QED
    BY <1>1, <1>2

\* One more message is heard at the end, but by users of its sender's name.
LEMMA HeardMore ==
    ASSUME NEW r, NEW l \in Seq(BroadcastMessage), NEW j \in 0..Len(l),
           NEW m \in BroadcastMessage
    PROVE  HeardBy(r, Append(l, m), j) =
              IF username[m.from] = username[r] THEN HeardBy(r, l, j)
              ELSE Append(HeardBy(r, l, j), m)
  <1> DEFINE n == Len(l)
             ll == Append(l, m)
             S == Seq(BroadcastMessage)
  <1>1. /\ n \in Nat /\ j \in Nat /\ j <= n /\ Len(ll) = n + 1
        /\ ll \in S
        /\ \A k \in 1..n : ll[k] = l[k]
        /\ ll[n + 1] = m
    BY LenProperties, AppendProperties
  <1>2. PICK f \in [j..n -> S] :
          Unfolds(f, <<>>, Hearing(r, l), j, n) /\ HeardBy(r, l, j) = f[n]
    BY HeardByUnfolds
  <1> HIDE DEF n, ll
  <1>3. PICK g \in [j..(n + 1) -> S] :
          Unfolds(g, <<>>, Hearing(r, ll), j, n + 1) /\ HeardBy(r, ll, j) = g[n + 1]
    <2>1. j \in 0..Len(ll)
      BY <1>1
    <2>2. QED
      BY <1>1, <2>1, HeardByUnfolds DEF S
  <1>4. Unfolds(g, <<>>, Hearing(r, l), j, n)
    <2>1. g[j] = <<>>
      BY <1>3 DEF Unfolds
    <2>2. ASSUME NEW k \in (j + 1)..n PROVE g[k] = Hearing(r, l)[k][g[k - 1]]
      <3>1. k \in (j + 1)..(n + 1) /\ k \in 1..n /\ k \in Nat /\ g[k - 1] \in S
        BY <1>1, <1>3
      <3>2. g[k] = Hearing(r, ll)[k][g[k - 1]]
        BY <1>3, <3>1 DEF Unfolds
      <3>3. k \in 1..Len(l) /\ k \in 1..Len(ll) /\ ll[k] = l[k]
        BY <1>1, <3>1 DEF n
      <3>4. QED
        BY <3>1, <3>2, <3>3 DEF Hearing, S
    <2>3. QED
      BY <2>1, <2>2 DEF Unfolds
  <1>5. g[n] = f[n]
    <2>1. n \in j..n
      BY <1>1
    <2>2. QED
      BY <1>1, <1>2, <1>4, <2>1, RecursionUnique
  <1>6. g[n + 1] = Hearing(r, ll)[n + 1][g[n]]
    <2>1. n + 1 \in (j + 1)..(n + 1) /\ (n + 1) - 1 = n
      BY <1>1
    <2>2. QED
      BY <1>3, <2>1 DEF Unfolds
  <1>7. n + 1 \in 1..Len(ll) /\ n + 1 \in Nat /\ g[n] \in S
    BY <1>1, <1>3
  <1>8. QED
    BY <1>1, <1>2, <1>3, <1>5, <1>6, <1>7 DEF Hearing, S, ll

-----------------------------------------------------------------------------
(* Every message reaches every receiver *)

LastSaid(a) == log[a][Len(log[a])]

\* A broadcast in progress holds the lock of its room and still has to reach
\* some of its members, all of whom have joined before it began; the message is
\* the last of the room.
Broadcasts(s) ==
    IF pc[s] = "enqueue"
    THEN /\ lock[room[s]] = s
         /\ log[room[s]] # <<>> /\ LastSaid(room[s]) = Said(s)
         /\ \A u \in pending[s] : /\ u \in members[room[s]] /\ username[u] # username[s]
                                  /\ joinedAt[u] < Len(log[room[s]])
    ELSE pending[s] = {}

\* A member joined at some point of what its room has broadcast.
Joined(a) == \A u \in members[a] : joinedAt[u] <= Len(log[a])

\* Where a sender and a receiver can be; a receiver gets nothing before it joins.
Role(r) ==
    /\ pc[r] \in {"rjoin", "loop"} => isReciever[r]
    /\ pc[r] \in {"login", "recv", "remove", "leave", "bcast", "enqueue"} => ~isReciever[r]
    /\ pc[r] = "login" \/ (isReciever[r] /\ pc[r] \in {"rjoin", "find", "create", "add"})
          => delivered[r] = <<>> /\ mqueue[r] = <<>>

Awaits(r) == \E s \in Session : r \in pending[s]

\* What the client of a receiver in its loop got, or has queued.
Gets(r) ==
    pc[r] = "loop" =>
       /\ room[r] # NullPtr /\ r \in members[room[r]]
       /\ delivered[r] \o mqueue[r] =
             IF Awaits(r) THEN SubSeq(Expected(r), 1, Len(Expected(r)) - 1)
             ELSE Expected(r)

Delivery ==
    /\ \A s \in Session : Broadcasts(s) /\ Role(s) /\ Gets(s)
    /\ \A a \in RoomAddr : Joined(a)

LEMMA DeliveryInit == Init => Delivery
  BY ServerAssumption DEF Init, Delivery, Broadcasts, Role, Gets, Joined

\* A step of s outside of a broadcast and of its loop that leaves what is queued
\* and broadcast alone, and the members of a locked room.
Untouched(s) ==
    /\ UNCHANGED <<lock, pending, mqueue, delivered, log, joinedAt>>
    /\ pc[s] \notin {"enqueue", "loop"} /\ pc'[s] \notin {"enqueue", "loop"}
    /\ \A t \in Session \ {s} :
          /\ pc'[t] = pc[t] /\ room'[t] = room[t]
          /\ lines'[t] = lines[t] /\ isReciever'[t] = isReciever[t]
          /\ \A a \in RoomAddr : t \in members'[a] <=> t \in members[a]
    /\ \A a \in RoomAddr :
          /\ heap[a] # "unused" => room_name'[a] = room_name[a]
          /\ members'[a] \subseteq members[a]
          /\ lock[a] # NoThread => members'[a] = members[a]

LEMMA DeliveryUntouched ==
    ASSUME IInv, Delivery, NEW s \in Session, Untouched(s), Role(s)'
    PROVE  Delivery'
  <1> USE DEF Untouched
  <1>1. ASSUME NEW t \in Session PROVE Broadcasts(t)'
    <2>1. CASE pc[t] = "enqueue"
      <3>1. t # s /\ room[t] \in RoomAddr /\ heap[room[t]] # "unused"
        BY <2>1, ServerAssumption DEF IInv, TypeOK, Places, Rooms
      <3>2. lock[room[t]] # NoThread
        BY <2>1, ServerAssumption DEF Delivery, Broadcasts
      <3>3. Said(t)' = Said(t)
        BY <3>1 DEF Said
      <3>4. QED
        BY <2>1, <3>1, <3>2, <3>3 DEF Delivery, Broadcasts, LastSaid
    <2>2. CASE pc[t] # "enqueue"
      BY <2>2 DEF Delivery, Broadcasts
    <2>3. QED
      BY <2>1, <2>2
  <1>2. ASSUME NEW t \in Session PROVE Role(t)'
    BY DEF Delivery, Role
  <1>3. ASSUME NEW t \in Session PROVE Gets(t)'
    <2>1. CASE pc[t] = "loop"
      <3>1. t # s /\ room[t] \in RoomAddr
        BY <2>1 DEF IInv, TypeOK, Delivery, Gets
      <3>2. /\ pc'[t] = pc[t] /\ room'[t] = room[t]
            /\ t \in members'[room[t]] <=> t \in members[room[t]]
        BY <3>1
      <3>3. Expected(t)' = Expected(t)
        BY <3>2 DEF Expected
      <3>4. Awaits(t)' <=> Awaits(t)
        BY DEF Awaits
      <3>5. Gets(t)
        BY DEF Delivery
      <3>6. QED
        BY <3>2, <3>3, <3>4, <3>5 DEF Gets
    <2>2. CASE pc[t] # "loop"
      BY <2>2 DEF Gets
    <2>3. QED
      BY <2>1, <2>2
  <1>4. ASSUME NEW a \in RoomAddr PROVE Joined(a)'
    BY DEF Delivery, Joined
  <1>5. QED
    BY <1>1, <1>2, <1>3, <1>4 DEF Delivery

\* Nobody is a member while it has not joined, and only members are pending.
LEMMA NotYetMember ==
    ASSUME IInv, Members, Delivery, NEW r \in Session,
           pc[r] \in {"login", "rjoin", "find", "create", "add"}
    PROVE  /\ \A a \in RoomAddr : r \notin members[a]
           /\ ~Awaits(r)
  <1>1. \A a \in RoomAddr : r \notin members[a]
    BY ServerAssumption DEF IInv, Places, Members, Settled
  <1>2. ASSUME NEW s \in Session, r \in pending[s] PROVE FALSE
    <2>1. pc[s] = "enqueue" /\ r \in members[room[s]]
      BY <1>2 DEF Delivery, Broadcasts
    <2>2. room[s] \in RoomAddr
      BY <2>1 DEF IInv, TypeOK, Places
    <2>3. QED
      BY <1>1, <2>1, <2>2
  <1>3. QED
    BY <1>1, <1>2 DEF Awaits

\* What is expected is a sequence of messages.
LEMMA ExpectedType ==
    ASSUME IInv, Members, Delivery, NEW r \in Session, pc[r] = "loop"
    PROVE  /\ room[r] \in RoomAddr /\ joinedAt[r] \in 0..Len(log[room[r]])
           /\ log[room[r]] \in Seq(BroadcastMessage)
           /\ Expected(r) \in Seq(BroadcastMessage)
  <1>1. room[r] \in RoomAddr /\ r \in members[room[r]]
    BY DEF IInv, TypeOK, Delivery, Gets
  <1>2. log[room[r]] \in Seq(BroadcastMessage) /\ joinedAt[r] \in Nat
    BY <1>1 DEF IInv, TypeOK
  <1>3. joinedAt[r] <= Len(log[room[r]])
    BY <1>1 DEF Delivery, Joined
  <1>4. Len(log[room[r]]) \in Nat
    BY <1>2, LenProperties
  <1>5. QED
    BY <1>1, <1>2, <1>3, <1>4, HeardType DEF Expected

LEMMA DeliveryAddMember ==
    ASSUME IInv, Members, Delivery, NEW s \in Session, AddMember(s)
    PROVE  Delivery'
  <1> DEFINE a == room[s]
  <1>0. /\ a \in RoomAddr /\ lock[a] = NoThread /\ pc[s] = "add"
        /\ members' = [members EXCEPT ![a] = @ \cup {s}]
        /\ joinedAt' = [joinedAt EXCEPT ![s] = Len(log[a])]
        /\ pc' = [pc EXCEPT ![s] = IF isReciever[s] THEN "loop" ELSE "recv"]
        /\ UNCHANGED <<lock, room, room_name, lines, pending, isReciever, mqueue, delivered, log>>
    BY DEF AddMember, At, Goto, IInv, TypeOK, Places, lockVars, userVars, localVars
  <1>T. /\ pc \in [Session -> PC] /\ joinedAt \in [Session -> Nat]
        /\ members \in [RoomAddr -> SUBSET Session] /\ isReciever \in [Session -> BOOLEAN]
        /\ log \in [RoomAddr -> Seq(BroadcastMessage)] /\ pending \in [Session -> SUBSET Session]
    BY DEF IInv, TypeOK
  <1>1. ~Awaits(s) /\ \A b \in RoomAddr : s \notin members[b]
    BY <1>0, NotYetMember
  <1> HIDE DEF a
  <1>2. ASSUME NEW t \in Session PROVE Broadcasts(t)'
    <2>1. CASE pc[t] = "enqueue"
      <3>1. t # s /\ room[t] \in RoomAddr /\ room[t] # a
        BY <1>0, <2>1, ServerAssumption DEF IInv, TypeOK, Places, Delivery, Broadcasts
      <3>2. \A u \in pending[t] : u \in Session /\ u # s
        BY <1>1, <1>T DEF Awaits
      <3>3. \A u \in pending[t] : joinedAt'[u] = joinedAt[u]
        BY <1>0, <1>T, <3>2
      <3>4. Said(t)' = Said(t)
        BY <1>0 DEF Said
      <3>5. members'[room[t]] = members[room[t]] /\ pc'[t] = "enqueue"
        BY <1>0, <1>T, <2>1, <3>1
      <3>6. QED
        BY <1>0, <2>1, <3>3, <3>4, <3>5 DEF Delivery, Broadcasts, LastSaid
    <2>2. CASE pc[t] # "enqueue"
      <3>1. pc'[t] # "enqueue"
        BY <1>0, <1>T, <2>2
      <3>2. QED
        BY <1>0, <2>2, <3>1 DEF Delivery, Broadcasts
    <2>3. QED
      BY <2>1, <2>2
  <1>3. ASSUME NEW t \in Session PROVE Role(t)'
    BY <1>0, <1>T DEF Delivery, Role
  <1>4. ASSUME NEW t \in Session PROVE Gets(t)'
    <2>1. CASE t = s /\ isReciever[s]
      <3>1. log[a] \in Seq(BroadcastMessage)
        BY <1>0, <1>T
      <3>2. Expected(s)' = HeardBy(s, log[a], Len(log[a]))
        BY <1>0, <1>T DEF Expected, a
      <3>3. Expected(s)' = <<>>
        BY <3>1, <3>2, HeardNothing
      <3>4. delivered[s] = <<>> /\ mqueue[s] = <<>>
        BY <1>0, <2>1 DEF Delivery, Role
      <3>5. s \in members'[a] /\ room'[s] = a /\ a # NullPtr
        BY <1>0, <1>T, ServerAssumption DEF a
      <3>6. ~Awaits(s)'
        BY <1>0, <1>1 DEF Awaits
      <3>7. <<>> \o <<>> = <<>>
        BY ConcatEmptySeq, EmptySeq
      <3>8. QED
        BY <1>0, <2>1, <3>3, <3>4, <3>5, <3>6, <3>7 DEF Gets
    <2>2. CASE t = s /\ ~isReciever[s]
      BY <1>0, <1>T, <2>2 DEF Gets
    <2>3. CASE t # s
      <3>1. pc'[t] = pc[t] /\ joinedAt'[t] = joinedAt[t]
        BY <1>0, <1>T, <2>3
      <3>2. CASE pc[t] = "loop"
        <4>1. room[t] \in RoomAddr
          BY <3>2 DEF IInv, TypeOK, Delivery, Gets
        <4>2. members[room[t]] \subseteq members'[room[t]]
          BY <1>0, <1>T, <4>1
        <4>3. QED
          BY <1>0, <3>1, <3>2, <4>2 DEF Delivery, Gets, Awaits, Expected
      <3>3. QED
        BY <3>1, <3>2 DEF Gets
    <2>4. QED
      BY <2>1, <2>2, <2>3
  <1>5. ASSUME NEW b \in RoomAddr PROVE Joined(b)'
    <2>1. Len(log[b]) \in Nat
      BY <1>T, LenProperties
    <2>2. ASSUME NEW u \in members'[b] PROVE joinedAt'[u] <= Len(log[b])
      <3>1. CASE u = s
        <4>1. b = a
          BY <1>0, <1>1, <1>T, <3>1
        <4>2. QED
          BY <1>0, <1>T, <2>1, <3>1, <4>1
      <3>2. CASE u # s
        <4>1. u \in members[b] /\ u \in Session
          BY <1>0, <1>T, <3>2
        <4>2. QED
          BY <1>0, <1>T, <3>2, <4>1 DEF Delivery, Joined
      <3>3. QED
        BY <3>1, <3>2
    <2>3. QED
      BY <1>0, <2>2 DEF Joined
  <1>6. QED
    BY <1>2, <1>3, <1>4, <1>5 DEF Delivery

LEMMA DeliveryBroadcastBegin ==
    ASSUME IInv, Members, Delivery, NEW s \in Session, BroadcastBegin(s)
    PROVE  Delivery'
  <1> DEFINE a == room[s]
             m == Said(s)
  <1>0. /\ a \in RoomAddr /\ lock[a] = NoThread /\ pc[s] = "bcast"
        /\ lock' = [lock EXCEPT ![a] = s]
        /\ pending' = [pending EXCEPT ![s] = {u \in members[a] : username[u] # username[s]}]
        /\ log' = [log EXCEPT ![a] = Append(@, m)]
        /\ pc' = [pc EXCEPT ![s] = "enqueue"]
        /\ UNCHANGED <<members, room, room_name, lines, isReciever, mqueue, delivered, joinedAt>>
    BY DEF BroadcastBegin, At, Goto, IInv, TypeOK, Places, roomVars, userVars
  <1>T. /\ pc \in [Session -> PC] /\ joinedAt \in [Session -> Nat]
        /\ members \in [RoomAddr -> SUBSET Session] /\ lock \in [RoomAddr -> Session \cup {NoThread}]
        /\ log \in [RoomAddr -> Seq(BroadcastMessage)] /\ pending \in [Session -> SUBSET Session]
    BY DEF IInv, TypeOK
  <1>M. m \in BroadcastMessage /\ m.from = s /\ Said(s)' = m
    BY <1>0, SaidType DEF Said
  <1>L. /\ Len(log[a]) \in Nat /\ log'[a] = Append(log[a], m)
        /\ Len(log'[a]) = Len(log[a]) + 1 /\ log'[a] # <<>>
        /\ log'[a][Len(log'[a])] = m
    <2>1. log[a] \in Seq(BroadcastMessage) /\ log'[a] = Append(log[a], m)
      BY <1>0, <1>T
    <2> HIDE DEF a, m
    <2>2. QED
      BY <1>M, <2>1, AppendProperties, LenProperties
  <1>H. room[s] = a /\ m = Said(s)
    OBVIOUS
  <1> HIDE DEF a, m
  <1>2. ASSUME NEW t \in Session PROVE Broadcasts(t)'
    <2>1. CASE t = s
      <3>1. ASSUME NEW u \in members[a] PROVE joinedAt[u] < Len(log'[a])
        BY <1>0, <1>T, <1>L DEF Delivery, Joined
      <3>2. pending'[s] = {u \in members[a] : username[u] # username[s]}
        BY <1>0, <1>T
      <3>3. lock'[a] = s /\ pc'[s] = "enqueue"
        BY <1>0, <1>T
      <3>4. QED
        BY <1>0, <1>M, <1>H, <1>L, <2>1, <3>1, <3>2, <3>3 DEF Broadcasts, LastSaid
    <2>2. CASE t # s /\ pc[t] = "enqueue"
      <3>1. room[t] \in RoomAddr /\ room[t] # a
        BY <1>0, <2>2, ServerAssumption DEF IInv, TypeOK, Places, Delivery, Broadcasts
      <3>2. /\ log'[room[t]] = log[room[t]] /\ lock'[room[t]] = lock[room[t]]
            /\ pc'[t] = "enqueue" /\ pending'[t] = pending[t]
        BY <1>0, <1>T, <2>2, <3>1
      <3>3. Said(t)' = Said(t)
        BY <1>0 DEF Said
      <3>4. Broadcasts(t)
        BY DEF Delivery
      <3>5. room'[t] = room[t] /\ members' = members /\ joinedAt' = joinedAt
        BY <1>0
      <3>6. QED
        BY <2>2, <3>2, <3>3, <3>4, <3>5 DEF Broadcasts, LastSaid
    <2>3. CASE t # s /\ pc[t] # "enqueue"
      <3>1. pc'[t] # "enqueue" /\ pending'[t] = pending[t]
        BY <1>0, <1>T, <2>3
      <3>2. QED
        BY <2>3, <3>1 DEF Delivery, Broadcasts
    <2>4. QED
      BY <2>1, <2>2, <2>3
  <1>3. ASSUME NEW t \in Session PROVE Role(t)'
    BY <1>0, <1>T DEF Delivery, Role
  <1>4. ASSUME NEW t \in Session PROVE Gets(t)'
    <2>1. SUFFICES ASSUME pc'[t] = "loop" PROVE Gets(t)'
      BY DEF Gets
    <2>2. /\ pc[t] = "loop" /\ t # s
          /\ room[t] \in RoomAddr /\ joinedAt[t] \in 0..Len(log[room[t]])
          /\ log[room[t]] \in Seq(BroadcastMessage) /\ Expected(t) \in Seq(BroadcastMessage)
      BY <1>0, <1>T, <2>1, ExpectedType
    <2>3. room[t] # NullPtr /\ t \in members[room[t]]
      BY <2>2 DEF Delivery, Gets
    <2>4. Expected(t)' = HeardBy(t, log'[room[t]], joinedAt[t])
      BY <1>0 DEF Expected
    <2>5. pending[s] = {}
      BY <1>0 DEF Delivery, Broadcasts
    <2>6. CASE room[t] # a
      <3>1. log'[room[t]] = log[room[t]]
        BY <1>0, <1>T, <2>2, <2>6
      <3>2. Expected(t)' = Expected(t)
        BY <2>4, <3>1 DEF Expected
      <3>3. t \notin members[a]
        BY <1>0, <2>6 DEF Members, Settled
      <3>4. \A v \in Session : t \in pending'[v] <=> t \in pending[v]
        BY <1>0, <1>T, <2>5, <3>3
      <3>5. Awaits(t)' = Awaits(t)
        BY <3>4 DEF Awaits
      <3>6. QED
        BY <1>0, <2>2, <2>3, <3>2, <3>5 DEF Delivery, Gets
    <2>7. CASE room[t] = a
      <3>1. Expected(t)' = IF username[s] = username[t] THEN Expected(t)
                           ELSE Append(Expected(t), m)
        <4> DEFINE l == log[room[t]]
                   j == joinedAt[t]
        <4>1. l \in Seq(BroadcastMessage) /\ j \in 0..Len(l)
          BY <2>2
        <4>2. Expected(t) = HeardBy(t, l, j) /\ Expected(t)' = HeardBy(t, Append(l, m), j)
          BY <1>L, <2>4, <2>7 DEF Expected
        <4> HIDE DEF l, j
        <4>3. HeardBy(t, Append(l, m), j) =
                 IF username[m.from] = username[t] THEN HeardBy(t, l, j)
                 ELSE Append(HeardBy(t, l, j), m)
          BY <1>M, <4>1, HeardMore
        <4>4. QED
          BY <1>M, <4>2, <4>3
      <3>2. ~Awaits(t)
        <4>1. ASSUME NEW v \in Session, t \in pending[v] PROVE FALSE
          <5>1. pc[v] = "enqueue" /\ t \in members[room[v]] /\ lock[room[v]] = v
            BY <4>1 DEF Delivery, Broadcasts
          <5>2. room[v] \in RoomAddr
            BY <5>1 DEF IInv, TypeOK, Places
          <5>3. room[v] = a
            BY <2>7, <5>1, <5>2 DEF Members, Settled
          <5>4. QED
            BY <1>0, <5>1, <5>3, ServerAssumption
        <4>2. QED
          BY <4>1 DEF Awaits
      <3>3. delivered[t] \o mqueue[t] = Expected(t)
        BY <2>2, <3>2 DEF Delivery, Gets
      <3>4. Awaits(t)' <=> username[s] # username[t]
        <4>1. t \in pending'[s] <=> username[s] # username[t]
          BY <1>0, <1>T, <2>3, <2>7
        <4>2. \A v \in Session \ {s} : t \notin pending'[v]
          BY <1>0, <1>T, <3>2 DEF Awaits
        <4>3. QED
          BY <4>1, <4>2 DEF Awaits
      <3>5. SubSeq(Append(Expected(t), m), 1, Len(Append(Expected(t), m)) - 1) = Expected(t)
        <4> DEFINE e == Expected(t)
        <4>1. e \in Seq(BroadcastMessage)
          BY <2>2
        <4> HIDE DEF e
        <4>2. QED
          BY <1>M, <4>1 DEF e
      <3>6. QED
        BY <1>0, <2>3, <3>1, <3>3, <3>4, <3>5 DEF Gets
    <2>8. QED
      BY <2>6, <2>7
  <1>5. ASSUME NEW b \in RoomAddr PROVE Joined(b)'
    <2>1. Len(log[b]) \in Nat /\ Len(log'[b]) \in Nat /\ Len(log[b]) <= Len(log'[b])
      <3>1. CASE b = a
        BY <1>L, <3>1
      <3>2. CASE b # a
        BY <1>0, <1>T, <3>2, LenProperties
      <3>3. QED
        BY <3>1, <3>2
    <2>2. ASSUME NEW u \in members[b] PROVE joinedAt[u] <= Len(log'[b])
      <3>1. joinedAt[u] \in Nat /\ joinedAt[u] <= Len(log[b])
        BY <1>T DEF Delivery, Joined
      <3>2. QED
        BY <2>1, <3>1
    <2>3. QED
      BY <1>0, <2>2 DEF Joined
  <1>6. QED
    BY <1>2, <1>3, <1>4, <1>5 DEF Delivery

\* A user is pending in no more than one broadcast: that of its room.
LEMMA OneBroadcast ==
    ASSUME IInv, Members, Delivery, NEW s \in Session, NEW t \in Session, NEW u,
           u \in pending[s], u \in pending[t]
    PROVE  s = t
  <1>1. u \in Session
    BY DEF IInv, TypeOK
  <1>2. /\ pc[s] = "enqueue" /\ u \in members[room[s]] /\ lock[room[s]] = s
        /\ pc[t] = "enqueue" /\ u \in members[room[t]] /\ lock[room[t]] = t
    BY DEF Delivery, Broadcasts
  <1>3. room[s] \in RoomAddr /\ room[t] \in RoomAddr
    BY <1>2 DEF IInv, TypeOK, Places
  <1>4. room[u] = room[s] /\ room[u] = room[t]
    BY <1>1, <1>2, <1>3 DEF Members, Settled
  <1>5. QED
    BY <1>2, <1>4

LEMMA DeliveryBroadcastTo ==
    ASSUME IInv, Members, Delivery, NEW s \in Session, BroadcastTo(s)
    PROVE  Delivery'
  <1>1. PICK u \in pending[s] :
          /\ mqueue' = [mqueue EXCEPT ![u] = Append(@, Said(s))]
          /\ pending' = [pending EXCEPT ![s] = @ \ {u}]
    BY DEF BroadcastTo
  <1>0. /\ pc[s] = "enqueue"
        /\ UNCHANGED <<lock, members, room, room_name, lines, isReciever, delivered, log,
                       joinedAt, pc>>
    BY DEF BroadcastTo, At, lockVars, roomVars, historyVars
  <1>T. /\ mqueue \in [Session -> Seq(BroadcastMessage)]
        /\ delivered \in [Session -> Seq(BroadcastMessage)]
        /\ log \in [RoomAddr -> Seq(BroadcastMessage)]
        /\ pending \in [Session -> SUBSET Session] /\ u \in Session
    BY DEF IInv, TypeOK
  <1>M. Said(s) \in BroadcastMessage /\ Said(s).from = s
    BY <1>0, SaidType DEF Said
  <1>2. /\ u \in members[room[s]] /\ username[u] # username[s]
        /\ joinedAt[u] < Len(log[room[s]]) /\ LastSaid(room[s]) = Said(s)
        /\ room[s] \in RoomAddr
    BY <1>0 DEF Delivery, Broadcasts, IInv, TypeOK, Places
  <1>3. room[u] = room[s]
    BY <1>2, <1>T DEF Members, Settled
  <1>4. ASSUME NEW t \in Session PROVE Broadcasts(t)'
    <2>1. Said(t)' = Said(t) /\ pending'[t] \subseteq pending[t]
      BY <1>0, <1>1, <1>T DEF Said
    <2>2. CASE pc[t] = "enqueue"
      BY <1>0, <2>1, <2>2 DEF Delivery, Broadcasts, LastSaid
    <2>3. CASE pc[t] # "enqueue"
      BY <1>0, <2>1, <2>3 DEF Delivery, Broadcasts
    <2>4. QED
      BY <2>2, <2>3
  \* A user that has not joined is not pending.
  <1>5. ASSUME NEW t \in Session PROVE Role(t)'
    <2>1. CASE t = u
      <3>1. pc[t] \notin {"login", "rjoin", "find", "create", "add"}
        BY <2>1, NotYetMember DEF Awaits
      <3>2. QED
        BY <1>0, <3>1 DEF Delivery, Role
    <2>2. CASE t # u
      <3>1. mqueue'[t] = mqueue[t]
        BY <1>1, <1>T, <2>2
      <3>2. QED
        BY <1>0, <3>1 DEF Delivery, Role
    <2>3. QED
      BY <2>1, <2>2
  <1>6. ASSUME NEW t \in Session PROVE Gets(t)'
    <2>1. SUFFICES ASSUME pc[t] = "loop" PROVE Gets(t)'
      BY <1>0 DEF Gets
    <2>2. room[t] # NullPtr /\ t \in members[room[t]]
      BY <2>1 DEF Delivery, Gets
    <2>3. Expected(t)' = Expected(t)
      BY <1>0 DEF Expected
    <2>4. CASE t # u
      <3>1. mqueue'[t] = mqueue[t]
        BY <1>1, <1>T, <2>4
      <3>2. \A v \in Session : t \in pending'[v] <=> t \in pending[v]
        BY <1>1, <1>T, <2>4
      <3>3. Awaits(t)' = Awaits(t)
        BY <3>2 DEF Awaits
      <3>4. QED
        BY <1>0, <2>1, <2>3, <3>1, <3>3 DEF Delivery, Gets
    <2>5. CASE t = u
      <3>1. Awaits(t)
        BY <1>1, <2>5 DEF Awaits
      <3>2. ~Awaits(t)'
        <4>1. ASSUME NEW v \in Session, t \in pending'[v] PROVE FALSE
          <5>1. t \in pending[v] /\ (v = s => t # u)
            BY <1>1, <1>T, <4>1
          <5>2. v = s
            BY <1>1, <2>5, <5>1, OneBroadcast
          <5>3. QED
            BY <2>5, <5>1, <5>2
        <4>2. QED
          BY <4>1 DEF Awaits
      <3> DEFINE l == log[room[t]]
                 j == joinedAt[t]
                 n == Len(l)
                 f == SubSeq(l, 1, n - 1)
                 m == Said(s)
      <3>3. l \in Seq(BroadcastMessage) /\ j \in 0..n /\ Expected(t) = HeardBy(t, l, j)
        BY <2>1, ExpectedType DEF Expected
      <3>4. j < n /\ l[n] = m
        BY <1>2, <1>3, <2>5 DEF LastSaid
      <3> HIDE DEF j, n, l, m
      <3>5. n = Len(l) /\ n \in Nat /\ \A i \in 1..n : l[i] \in BroadcastMessage
        BY <3>3, LenProperties, ElementOfSeq DEF n
      <3>6. /\ f \in Seq(BroadcastMessage) /\ Len(f) = n - 1
            /\ \A i \in 1..(n - 1) : f[i] = l[i]
        BY <3>3, <3>4, <3>5, SubSeqProperties
      <3>7. l = Append(f, m)
        <4>1. m \in BroadcastMessage
          BY <1>M DEF m
        <4> HIDE DEF f
        <4>2. /\ Append(f, m) \in Seq(BroadcastMessage) /\ Len(Append(f, m)) = n
              /\ \A i \in 1..n : Append(f, m)[i] = l[i]
          BY <3>4, <3>5, <3>6, <4>1, AppendProperties
        <4>3. QED
          BY <3>3, <3>5, <4>2, SeqEqual
      <3> HIDE DEF f
      <3>8. j \in 0..Len(f) /\ m \in BroadcastMessage /\ m.from = s
        BY <1>M, <3>3, <3>4, <3>5, <3>6 DEF m
      <3>9. /\ HeardBy(t, f, j) \in Seq(BroadcastMessage)
            /\ Expected(t) = Append(HeardBy(t, f, j), m)
        <4>1. HeardBy(t, f, j) \in Seq(BroadcastMessage)
          BY <3>6, <3>8, HeardType
        <4>2. HeardBy(t, Append(f, m), j) =
                 IF username[m.from] = username[t] THEN HeardBy(t, f, j)
                 ELSE Append(HeardBy(t, f, j), m)
          BY <3>6, <3>8, HeardMore
        <4>3. QED
          BY <1>2, <2>5, <3>3, <3>7, <3>8, <4>1, <4>2
      <3> DEFINE e == HeardBy(t, f, j)
      <3> HIDE DEF e
      <3>10. SubSeq(Append(e, m), 1, Len(Append(e, m)) - 1) = e
        BY <3>8, <3>9 DEF e
      <3>11. delivered[t] \o mqueue[t] = e
        BY <2>1, <3>1, <3>9, <3>10 DEF Delivery, Gets, e
      <3>12. mqueue'[t] = Append(mqueue[t], m)
        BY <1>1, <1>T, <2>5 DEF m
      <3>13. delivered[t] \o Append(mqueue[t], m) = Append(delivered[t] \o mqueue[t], m)
        <4> DEFINE d == delivered[t]
                   q == mqueue[t]
        <4>1. d \in Seq(BroadcastMessage) /\ q \in Seq(BroadcastMessage)
          BY <1>T
        <4> HIDE DEF d, q
        <4>2. d \o Append(q, m) = Append(d \o q, m)
          BY <3>8, <4>1
        <4>3. QED
          BY <4>2 DEF d, q
      <3>14. QED
        BY <1>0, <2>2, <2>3, <3>2, <3>9, <3>11, <3>12, <3>13 DEF Gets, e
    <2>6. QED
      BY <2>4, <2>5
  <1>7. \A a \in RoomAddr : Joined(a)'
    BY <1>0 DEF Delivery, Joined
  <1>8. QED
    BY <1>4, <1>5, <1>6, <1>7 DEF Delivery

LEMMA DeliveryBroadcastEnd ==
    ASSUME IInv, Members, Delivery, NEW s \in Session, BroadcastEnd(s)
    PROVE  Delivery'
  <1>0. /\ pc[s] = "enqueue" /\ pending[s] = {} /\ room[s] \in RoomAddr
        /\ lock' = [lock EXCEPT ![room[s]] = NoThread]
        /\ pc' = [pc EXCEPT ![s] = "recv"]
        /\ UNCHANGED <<members, room, room_name, lines, isReciever, delivered, mqueue, log,
                       joinedAt, pending>>
    BY DEF BroadcastEnd, At, Goto, IInv, TypeOK, Places, roomVars, userVars, localVars,
       historyVars
  <1>T. pc \in [Session -> PC] /\ lock \in [RoomAddr -> Session \cup {NoThread}]
    BY DEF IInv, TypeOK
  <1>1. ASSUME NEW t \in Session PROVE Broadcasts(t)'
    <2>1. CASE t # s /\ pc[t] = "enqueue"
      <3>1. room[t] \in RoomAddr /\ lock[room[t]] = t /\ lock[room[s]] = s
        BY <1>0, <2>1 DEF IInv, TypeOK, Places, Delivery, Broadcasts
      <3>2. lock'[room[t]] = t /\ pc'[t] = "enqueue"
        BY <1>0, <1>T, <2>1, <3>1
      <3>3. Said(t)' = Said(t)
        BY <1>0 DEF Said
      <3>4. QED
        BY <1>0, <2>1, <3>2, <3>3 DEF Delivery, Broadcasts, LastSaid
    <2>2. CASE t = s \/ pc[t] # "enqueue"
      BY <1>0, <1>T, <2>2 DEF Delivery, Broadcasts
    <2>3. QED
      BY <2>1, <2>2
  <1>2. ASSUME NEW t \in Session PROVE Role(t)'
    BY <1>0, <1>T DEF Delivery, Role
  <1>3. ASSUME NEW t \in Session PROVE Gets(t)'
    <2>1. Expected(t)' = Expected(t) /\ Awaits(t)' = Awaits(t)
      BY <1>0 DEF Expected, Awaits
    <2>2. pc'[t] = "loop" => pc[t] = "loop"
      BY <1>0, <1>T
    <2>3. QED
      BY <1>0, <2>1, <2>2 DEF Delivery, Gets
  <1>4. \A a \in RoomAddr : Joined(a)'
    BY <1>0 DEF Delivery, Joined
  <1>5. QED
    BY <1>1, <1>2, <1>3, <1>4 DEF Delivery

LEMMA DeliveryReceiverDeliver ==
    ASSUME IInv, Members, Delivery, NEW s \in Session, ReceiverDeliver(s)
    PROVE  Delivery'
  <1>0. /\ pc[s] = "loop" /\ mqueue[s] # <<>>
        /\ delivered' = [delivered EXCEPT ![s] = Append(@, Head(mqueue[s]))]
        /\ mqueue' = [mqueue EXCEPT ![s] = Tail(@)]
        /\ UNCHANGED <<lock, members, room, room_name, lines, isReciever, log, joinedAt,
                       pending, pc>>
    BY DEF ReceiverDeliver, At, lockVars, roomVars, localVars
  <1>T. /\ mqueue \in [Session -> Seq(BroadcastMessage)]
        /\ delivered \in [Session -> Seq(BroadcastMessage)]
    BY DEF IInv, TypeOK
  <1>1. ASSUME NEW t \in Session PROVE Broadcasts(t)'
    <2>1. Said(t)' = Said(t)
      BY <1>0 DEF Said
    <2>2. CASE pc[t] = "enqueue"
      BY <1>0, <2>1, <2>2 DEF Delivery, Broadcasts, LastSaid
    <2>3. CASE pc[t] # "enqueue"
      BY <1>0, <2>3 DEF Delivery, Broadcasts
    <2>4. QED
      BY <2>2, <2>3
  <1>2. ASSUME NEW t \in Session PROVE Role(t)'
    BY <1>0, <1>T DEF Delivery, Role
  <1>3. delivered'[s] \o mqueue'[s] = delivered[s] \o mqueue[s]
    <2> DEFINE d == delivered[s]
               q == mqueue[s]
    <2>1. d \in Seq(BroadcastMessage) /\ q \in Seq(BroadcastMessage) /\ q # <<>>
      BY <1>0, <1>T
    <2>2. delivered'[s] = Append(d, Head(q)) /\ mqueue'[s] = Tail(q)
      BY <1>0, <1>T
    <2> HIDE DEF d, q
    <2>3. Append(d, Head(q)) \o Tail(q) = d \o q
      BY <2>1
    <2>4. QED
      BY <2>2, <2>3 DEF d, q
  <1>4. ASSUME NEW t \in Session PROVE Gets(t)'
    <2>1. Expected(t)' = Expected(t) /\ Awaits(t)' = Awaits(t)
      BY <1>0 DEF Expected, Awaits
    <2>2. delivered'[t] \o mqueue'[t] = delivered[t] \o mqueue[t]
      BY <1>0, <1>T, <1>3
    <2>3. QED
      BY <1>0, <2>1, <2>2 DEF Delivery, Gets
  <1>5. \A a \in RoomAddr : Joined(a)'
    BY <1>0 DEF Delivery, Joined
  <1>6. QED
    BY <1>1, <1>2, <1>4, <1>5 DEF Delivery

LEMMA DeliveryStutter ==
    ASSUME Delivery, UNCHANGED <<lockVars, roomVars, userVars, localVars, historyVars, pc>>
    PROVE  Delivery'
  <1>1. /\ UNCHANGED <<lock, members, room, room_name, lines, pending, isReciever, mqueue,
                       delivered, log, joinedAt, pc>>
    BY DEF lockVars, roomVars, userVars, localVars, historyVars
  <1>2. ASSUME NEW s \in Session PROVE Broadcasts(s)' /\ Role(s)' /\ Gets(s)'
    <2>1. Said(s)' = Said(s) /\ Expected(s)' = Expected(s) /\ Awaits(s)' = Awaits(s)
      BY <1>1 DEF Said, Expected, Awaits
    <2>2. QED
      BY <1>1, <2>1 DEF Delivery, Broadcasts, LastSaid, Role, Gets
  <1>3. \A a \in RoomAddr : Joined(a)'
    BY <1>1 DEF Delivery, Joined
  <1>4. QED
    BY <1>2, <1>3 DEF Delivery

LEMMA DeliveryStep ==
    ASSUME IInv, Members, Delivery, Next
    PROVE  Delivery'
  <1>0. /\ pc \in [Session -> PC] /\ room \in [Session -> RoomAddr \cup {NullPtr}]
        /\ lines \in [Session -> 0..MaxLines] /\ isReciever \in [Session -> BOOLEAN]
        /\ members \in [RoomAddr -> SUBSET Session]
        /\ room_name \in [RoomAddr -> RoomName \cup {NullPtr}]
    BY DEF IInv, TypeOK
  <1> USE <1>0 DEF At, Goto
  <1>R. \A s \in Session : Role(s)
    BY DEF Delivery
  <1>1. ASSUME NEW s \in Session, LoginSender(s) PROVE Delivery'
    <2>1. Untouched(s) /\ Role(s)'
      BY <1>R, <1>1 DEF LoginSender, Untouched, Role, dataVars, lockVars, roomVars,
         userVars, localVars, historyVars
    <2>2. QED
      BY <2>1, DeliveryUntouched
  <1>2. ASSUME NEW s \in Session, LoginReceiver(s) PROVE Delivery'
    <2>1. Untouched(s) /\ Role(s)'
      BY <1>R, <1>2 DEF LoginReceiver, Untouched, Role, dataVars, lockVars, roomVars,
         userVars, localVars, historyVars
    <2>2. QED
      BY <2>1, DeliveryUntouched
  <1>3. ASSUME NEW s \in Session, LoginOther(s) PROVE Delivery'
    <2>1. Untouched(s) /\ Role(s)'
      BY <1>R, <1>3 DEF LoginOther, Finish, Untouched, Role, dataVars, lockVars,
         roomVars, userVars, localVars, historyVars
    <2>2. QED
      BY <2>1, DeliveryUntouched
  <1>4. ASSUME NEW s \in Session, LoginErr(s) PROVE Delivery'
    <2>1. Untouched(s) /\ Role(s)'
      BY <1>R, <1>4 DEF LoginErr, Untouched, Role, dataVars, lockVars, roomVars,
         userVars, localVars, historyVars
    <2>2. QED
      BY <2>1, DeliveryUntouched
  <1>5. ASSUME NEW s \in Session, SenderJoin(s) PROVE Delivery'
    <2>1. Untouched(s) /\ Role(s)'
      BY <1>R, <1>5 DEF SenderJoin, ReceiveLine, Untouched, Role, dataVars, lockVars,
         roomVars, userVars, localVars, historyVars
    <2>2. QED
      BY <2>1, DeliveryUntouched
  <1>6. ASSUME NEW s \in Session, SenderLeave(s) PROVE Delivery'
    <2>1. Untouched(s) /\ Role(s)'
      BY <1>R, <1>6 DEF SenderLeave, ReceiveLine, Untouched, Role, dataVars, lockVars,
         roomVars, userVars, localVars, historyVars
    <2>2. QED
      BY <2>1, DeliveryUntouched
  <1>7. ASSUME NEW s \in Session, SenderSay(s) PROVE Delivery'
    <2>1. Untouched(s) /\ Role(s)'
      BY <1>R, <1>7 DEF SenderSay, ReceiveLine, Untouched, Role, dataVars, lockVars,
         roomVars, userVars, localVars, historyVars
    <2>2. QED
      BY <2>1, DeliveryUntouched
  <1>8. ASSUME NEW s \in Session, SenderQuit(s) PROVE Delivery'
    <2>1. Untouched(s) /\ Role(s)'
      BY <1>R, <1>8 DEF SenderQuit, Finish, Untouched, Role, dataVars, lockVars,
         roomVars, userVars, localVars, historyVars
    <2>2. QED
      BY <2>1, DeliveryUntouched
  <1>9. ASSUME NEW s \in Session, SenderFails(s) PROVE Delivery'
    <2>1. Untouched(s) /\ Role(s)'
      BY <1>R, <1>9 DEF SenderFails, Finish, Untouched, Role, dataVars, lockVars,
         roomVars, userVars, localVars, historyVars
    <2>2. QED
      BY <2>1, DeliveryUntouched
  <1>10. ASSUME NEW s \in Session, ReceiverJoin(s) PROVE Delivery'
    <2>1. Untouched(s) /\ Role(s)'
      BY <1>R, <1>10 DEF ReceiverJoin, Untouched, Role, dataVars, lockVars, roomVars,
         userVars, localVars, historyVars
    <2>2. QED
      BY <2>1, DeliveryUntouched
  <1>11. ASSUME NEW s \in Session, ReceiverRefused(s) PROVE Delivery'
    <2>1. Untouched(s) /\ Role(s)'
      BY <1>R, <1>11 DEF ReceiverRefused, Finish, Untouched, Role, dataVars, lockVars,
         roomVars, userVars, localVars, historyVars
    <2>2. QED
      BY <2>1, DeliveryUntouched
  <1>12. ASSUME NEW s \in Session, LeaveOldRoom(s) PROVE Delivery'
    <2>1. Untouched(s) /\ Role(s)'
      BY <1>R, <1>12 DEF LeaveOldRoom, RemoveMember, Untouched, Role, dataVars,
         lockVars, roomVars, userVars, localVars, historyVars
    <2>2. QED
      BY <2>1, DeliveryUntouched
  <1>13. ASSUME NEW s \in Session, LeaveRoom(s) PROVE Delivery'
    <2>1. Untouched(s) /\ Role(s)'
      BY <1>R, <1>13 DEF LeaveRoom, RemoveMember, Untouched, Role, dataVars, lockVars,
         roomVars, userVars, localVars, historyVars
    <2>2. QED
      BY <2>1, DeliveryUntouched
  <1>14. ASSUME NEW s \in Session, FindRoom(s) PROVE Delivery'
    <2>1. Untouched(s) /\ Role(s)'
      BY <1>R, <1>14 DEF FindRoom, Untouched, Role, dataVars, lockVars, roomVars,
         userVars, localVars, historyVars
    <2>2. QED
      BY <2>1, DeliveryUntouched
  <1>15. ASSUME NEW s \in Session, MissRoom(s) PROVE Delivery'
    <2>1. Untouched(s) /\ Role(s)'
      BY <1>R, <1>15 DEF MissRoom, Untouched, Role, dataVars, lockVars, roomVars,
         userVars, localVars, historyVars
    <2>2. QED
      BY <2>1, DeliveryUntouched
  <1>16. ASSUME NEW s \in Session, CreateRoom(s) PROVE Delivery'
    <2>1. Untouched(s) /\ Role(s)'
      BY <1>R, <1>16 DEF CreateRoom, Untouched, Role, dataVars, lockVars, roomVars,
         userVars, localVars, historyVars
    <2>2. QED
      BY <2>1, DeliveryUntouched
  <1>17. ASSUME NEW s \in Session, AddMember(s) PROVE Delivery'
    BY <1>17, DeliveryAddMember
  <1>18. ASSUME NEW s \in Session, BroadcastBegin(s) PROVE Delivery'
    BY <1>18, DeliveryBroadcastBegin
  <1>19. ASSUME NEW s \in Session, BroadcastTo(s) PROVE Delivery'
    BY <1>19, DeliveryBroadcastTo
  <1>20. ASSUME NEW s \in Session, BroadcastEnd(s) PROVE Delivery'
    BY <1>20, DeliveryBroadcastEnd
  <1>21. ASSUME NEW s \in Session, ReceiverDeliver(s) PROVE Delivery'
    BY <1>21, DeliveryReceiverDeliver
  <1>22. ASSUME NEW s \in Session, CopyRooms(s) PROVE Delivery'
    <2>1. Untouched(s) /\ Role(s)'
      BY <1>R, <1>22 DEF CopyRooms, Untouched, Role, dataVars, lockVars, roomVars,
         userVars, localVars, historyVars
    <2>2. QED
      BY <2>1, DeliveryUntouched
  <1>23. ASSUME NEW s \in Session, DeleteRoom(s) PROVE Delivery'
    <2>1. Untouched(s) /\ Role(s)'
      BY <1>R, <1>23 DEF DeleteRoom, Untouched, Role, dataVars, lockVars, roomVars,
         userVars, localVars, historyVars
    <2>2. QED
      BY <2>1, DeliveryUntouched
  <1>24. ASSUME NEW s \in Session, EndSession(s) PROVE Delivery'
    <2>1. Untouched(s) /\ Role(s)'
      BY <1>R, <1>24 DEF EndSession, Untouched, Role, dataVars, lockVars, roomVars,
         userVars, localVars, historyVars
    <2>2. QED
      BY <2>1, DeliveryUntouched
  <1>25. ASSUME NEW s \in Session, UseAfterFree(s) PROVE Delivery'
    BY <1>25, DeliveryStutter DEF UseAfterFree, Undefined
  <1>26. ASSUME NEW s \in Session, MapRace(s) PROVE Delivery'
    BY <1>26, DeliveryStutter DEF MapRace, Undefined
  <1>27. QED
    BY NextCases, <1>1, <1>2, <1>3, <1>4, <1>5, <1>6, <1>7, <1>8, <1>9, <1>10, <1>11,
       <1>12, <1>13, <1>14, <1>15, <1>16, <1>17, <1>18, <1>19, <1>20, <1>21, <1>22,
       <1>23, <1>24, <1>25, <1>26

\* Each receiver's client gets, or has queued for it, exactly what its room has
\* broadcast since it joined, but for users of its own name: every message once,
\* in the order of the broadcasts, and only the last of them still to come.
THEOREM DeliveryCorrect == Spec => []ExactDelivery
  <1>1. IInv /\ Members /\ [Next]_vars => Members'
    BY MembersStep, MembersStutter
  <1>2. IInv /\ Members /\ Delivery /\ [Next]_vars => Delivery'
    BY DeliveryStep, DeliveryStutter DEF vars, dataVars
  <1>3. Delivery => ExactDelivery
    BY DEF Delivery, Gets, Awaits, ExactDelivery
  <1>4. QED
    BY MembersInit, DeliveryInit, InvCorrect, <1>1, <1>2, <1>3, PTL DEF Spec
=============================================================================
