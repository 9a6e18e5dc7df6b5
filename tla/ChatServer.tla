----------------------------- MODULE ChatServer -----------------------------
(***************************************************************************)
(* hw5/csf_assign05/server.cpp and room.cpp: the worker threads of the     *)
(* chat server, each serving one client as a sender (chat_with_sender) or  *)
(* a receiver (chat_with_reciever), the rooms they share, and what a       *)
(* worker does to the rooms when its session ends.                         *)
(*                                                                         *)
(* One action is what a worker does between two points where another       *)
(* worker can intervene: everything under one lock is one step unless the  *)
(* lock protects something others can see half-done (a lookup followed by  *)
(* an insertion, a broadcast over several queues).  A MessageQueue is a    *)
(* FIFO channel, which is what module MessageQueueProofs proves it to be.  *)
(* The client is the environment: it sends any line, or its connection     *)
(* fails.  What `new`/`delete` do to rooms and users is modelled; a step   *)
(* that uses freed memory, or races on m_rooms, sets ub and nothing runs   *)
(* after it, so every other property speaks of the executions up to the    *)
(* first undefined behaviour.  The life of ClientData and Connection, which *)
(* a worker also needs, is the subject of module ServerLifetime.           *)
(***************************************************************************)
EXTENDS Integers, Sequences, FiniteSets

CONSTANTS Session,     \* worker threads; each owns one User
          RoomName,    \* names clients may ask for
          RoomAddr,    \* addresses `new Room` can return
          UserName,    \* login names
          username,    \* the name each session logs in with
          MaxLines,    \* bound: commands one sender sends
          NoThread,    \* the owner of a free mutex
          NullPtr      \* nullptr, and the absence of a map entry

ASSUME ServerAssumption ==
    /\ username \in [Session -> UserName]
    /\ NoThread \notin Session
    /\ NullPtr \notin RoomAddr
    /\ MaxLines \in Nat

VARIABLES m_lock,      \* the session that holds Server::m_lock, or NoThread
          m_rooms,     \* Server::m_rooms: the room of every name, or NullPtr
          heap,        \* of every room address: "unused", "live" or "freed"
          room_name,   \* Room::room_name
          lock,        \* Room::lock: its holder, or NoThread
          members,     \* Room::members
          user,        \* the User of each session: "none", "live" or "freed"
          isReciever,  \* User::isReciever
          mqueue,      \* User::mqueue
          pc,          \* where each worker is
          room,        \* the local variable room
          data,        \* the room name last asked for
          pending,     \* members a broadcast has yet to reach
          doomed,      \* rooms a finished session has yet to delete
          lines,       \* commands each sender has sent
          reply,       \* the last response sent to the client
          delivered,   \* history: messages sent to each receiver's client
          log,         \* history: messages broadcast in each room
          joinedAt,    \* history: Len(log) when the receiver joined
          ub           \* whether behaviour has become undefined

lockVars    == <<m_lock, lock>>
roomVars    == <<m_rooms, heap, room_name, members>>
userVars    == <<user, isReciever, mqueue>>
localVars   == <<room, data, pending, doomed, lines>>
historyVars == <<delivered, log, joinedAt>>
\* All but the program counter and the responses.
dataVars == <<lockVars, roomVars, userVars, localVars, historyVars, ub>>
vars == <<dataVars, pc, reply>>

PC == {"login", "recv", "rjoin", "leave", "remove", "find", "create", "add",
       "bcast", "enqueue", "loop", "cleanup", "delete", "done", "refused"}

Reply == {"none", "logged in", "joined room", "left room", "not in a room",
          "message sent", "bye", "error"}

Text == 1..MaxLines

BroadcastMessage == [room : RoomName, from : Session, text : Text]

Init ==
    /\ m_lock = NoThread
    /\ m_rooms = [n \in RoomName |-> NullPtr]
    /\ heap = [a \in RoomAddr |-> "unused"]
    /\ room_name = [a \in RoomAddr |-> NullPtr]
    /\ lock = [a \in RoomAddr |-> NoThread]
    /\ members = [a \in RoomAddr |-> {}]
    /\ user = [s \in Session |-> "none"]
    /\ isReciever = [s \in Session |-> FALSE]
    /\ mqueue = [s \in Session |-> <<>>]
    /\ pc = [s \in Session |-> "login"]
    /\ room = [s \in Session |-> NullPtr]
    /\ data = [s \in Session |-> NullPtr]
    /\ pending = [s \in Session |-> {}]
    /\ doomed = [s \in Session |-> {}]
    /\ lines = [s \in Session |-> 0]
    /\ reply = [s \in Session |-> "none"]
    /\ delivered = [s \in Session |-> <<>>]
    /\ log = [a \in RoomAddr |-> <<>>]
    /\ joinedAt = [s \in Session |-> 0]
    /\ ub = FALSE

\* s is about to run the code at label, and no behaviour was undefined so far.
At(s, label) == ~ub /\ pc[s] = label

Goto(s, label) == pc' = [pc EXCEPT ![s] = label]
Answer(s, r) == reply' = [reply EXCEPT ![s] = r]

\* The worker answers and leaves its chat function.
Finish(s, label, r) ==
    /\ At(s, label)
    /\ Goto(s, "cleanup") /\ Answer(s, r)
    /\ UNCHANGED dataVars

-----------------------------------------------------------------------------
(* worker: the login line *)

LoginSender(s) ==
    /\ At(s, "login")
    /\ user' = [user EXCEPT ![s] = "live"]
    /\ Goto(s, "recv") /\ Answer(s, "logged in")
    /\ UNCHANGED <<lockVars, roomVars, isReciever, mqueue, localVars, historyVars, ub>>

LoginReceiver(s) ==
    /\ At(s, "login")
    /\ user' = [user EXCEPT ![s] = "live"]
    /\ isReciever' = [isReciever EXCEPT ![s] = TRUE]
    /\ Goto(s, "rjoin") /\ Answer(s, "logged in")
    /\ UNCHANGED <<lockVars, roomVars, mqueue, localVars, historyVars, ub>>

\* Another tag, or a failed read, which leaves an empty tag.
LoginOther(s) == Finish(s, "login", "error")

\* Tag err: the worker returns at once, and cleans nothing up.
LoginErr(s) ==
    /\ At(s, "login")
    /\ Goto(s, "refused")
    /\ UNCHANGED <<dataVars, reply>>

-----------------------------------------------------------------------------
(* chat_with_sender: what the next line asks for *)

ReceiveLine(s) ==
    /\ At(s, "recv")
    /\ lines[s] < MaxLines
    /\ lines' = [lines EXCEPT ![s] = @ + 1]

SenderJoin(s) ==
    /\ ReceiveLine(s)
    /\ \E n \in RoomName : data' = [data EXCEPT ![s] = n]
    /\ Goto(s, IF room[s] # NullPtr THEN "remove" ELSE "find")
    /\ UNCHANGED <<lockVars, roomVars, userVars, room, pending, doomed, historyVars, reply, ub>>

SenderLeave(s) ==
    /\ ReceiveLine(s)
    /\ \/ /\ room[s] # NullPtr
          /\ Goto(s, "leave") /\ UNCHANGED reply
       \/ /\ room[s] = NullPtr
          /\ Answer(s, "not in a room") /\ UNCHANGED pc
    /\ UNCHANGED <<lockVars, roomVars, userVars, room, data, pending, doomed, historyVars, ub>>

\* Any tag but err, join, leave and quit, with a text; lines numbers the texts
\* of a session, so that no two of them are alike.
SenderSay(s) ==
    /\ ReceiveLine(s)
    /\ \/ /\ room[s] # NullPtr
          /\ Goto(s, "bcast") /\ UNCHANGED reply
       \/ /\ room[s] = NullPtr
          /\ Answer(s, "not in a room") /\ UNCHANGED pc
    /\ UNCHANGED <<lockVars, roomVars, userVars, room, data, pending, doomed, historyVars, ub>>

\* Seeded fault: quit is answered and the loop goes on.
SenderQuitStays(s) == At(s, "recv") /\ Answer(s, "bye") /\ UNCHANGED <<dataVars, pc>>

SenderQuit(s) == Finish(s, "recv", "bye")

\* receive failed, or the tag is err.
SenderFails(s) == Finish(s, "recv", "error")

-----------------------------------------------------------------------------
(* Joining and leaving a room *)

\* Room::remove_member(user) on the room the session is in.
RemoveMember(s, next) ==
    /\ heap[room[s]] = "live"
    /\ lock[room[s]] = NoThread
    /\ members' = [members EXCEPT ![room[s]] = @ \ {s}]
    /\ Goto(s, next)
    /\ UNCHANGED <<lockVars, m_rooms, heap, room_name, userVars, localVars, historyVars, ub>>

\* Seeded fault: the old room keeps its member.
ForgetOldRoom(s) ==
    /\ At(s, "remove")
    /\ Goto(s, "find")
    /\ UNCHANGED <<dataVars, reply>>

\* join from inside a room: first out of the old one.
LeaveOldRoom(s) ==
    /\ At(s, "remove")
    /\ RemoveMember(s, "find")
    /\ UNCHANGED reply

\* leave: room is not set back to nullptr.
LeaveRoom(s) ==
    /\ At(s, "leave")
    /\ RemoveMember(s, "recv")
    /\ Answer(s, "left room")

\* find_or_create_room, when the name is in the map.
FindRoom(s) ==
    /\ At(s, "find")
    /\ m_lock = NoThread
    /\ m_rooms[data[s]] # NullPtr
    /\ room' = [room EXCEPT ![s] = m_rooms[data[s]]]
    /\ Goto(s, "add")
    /\ UNCHANGED <<lockVars, roomVars, userVars, data, pending, doomed, lines, historyVars, reply, ub>>

\* Seeded fault: no Guard in find_or_create_room.
MissUnguarded(s) ==
    /\ At(s, "find")
    /\ m_rooms[data[s]] = NullPtr
    /\ Goto(s, "create")
    /\ UNCHANGED <<dataVars, reply>>

\* find_or_create_room, when it is not: m_lock is kept ...
MissRoom(s) ==
    /\ At(s, "find")
    /\ m_lock = NoThread
    /\ m_rooms[data[s]] = NullPtr
    /\ m_lock' = s
    /\ Goto(s, "create")
    /\ UNCHANGED <<lock, roomVars, userVars, localVars, historyVars, reply, ub>>

\* Seeded fault: the Guard outlives find_or_create_room.
CreateRoomLocked(s) ==
    /\ At(s, "create")
    /\ \E a \in RoomAddr :
          /\ heap[a] = "unused"
          /\ heap' = [heap EXCEPT ![a] = "live"]
          /\ room_name' = [room_name EXCEPT ![a] = data[s]]
          /\ m_rooms' = [m_rooms EXCEPT ![data[s]] = a]
          /\ room' = [room EXCEPT ![s] = a]
    /\ Goto(s, "add")
    /\ UNCHANGED <<lockVars, members, userVars, data, pending, doomed, lines, historyVars,
                   reply, ub>>

\* ... while the room is created and entered in the map.
CreateRoom(s) ==
    /\ At(s, "create")
    /\ \E a \in RoomAddr :
          /\ heap[a] = "unused"
          /\ heap' = [heap EXCEPT ![a] = "live"]
          /\ room_name' = [room_name EXCEPT ![a] = data[s]]
          /\ m_rooms' = [m_rooms EXCEPT ![data[s]] = a]
          /\ room' = [room EXCEPT ![s] = a]
    /\ m_lock' = NoThread
    /\ Goto(s, "add")
    /\ UNCHANGED <<lock, members, userVars, data, pending, doomed, lines, historyVars, reply, ub>>

\* Room::add_member(user); the client is told.
AddMember(s) ==
    /\ At(s, "add")
    /\ heap[room[s]] = "live"
    /\ lock[room[s]] = NoThread
    /\ members' = [members EXCEPT ![room[s]] = @ \cup {s}]
    /\ joinedAt' = [joinedAt EXCEPT ![s] = Len(log[room[s]])]
    /\ Goto(s, IF isReciever[s] THEN "loop" ELSE "recv")
    /\ Answer(s, "joined room")
    /\ UNCHANGED <<lockVars, m_rooms, heap, room_name, userVars, localVars, delivered, log, ub>>

-----------------------------------------------------------------------------
(* Room::broadcast_message *)

Said(s) == [room |-> room_name[room[s]], from |-> s, text |-> lines[s]]

\* Seeded fault: no Guard in broadcast_message.
BroadcastUnguarded(s) ==
    /\ At(s, "bcast")
    /\ heap[room[s]] = "live" /\ user[s] = "live"
    /\ pending' = [pending EXCEPT ![s] = {u \in members[room[s]] : username[u] # username[s]}]
    /\ log' = [log EXCEPT ![room[s]] = Append(@, Said(s))]
    /\ Goto(s, "enqueue")
    /\ UNCHANGED <<lockVars, roomVars, userVars, room, data, doomed, lines, delivered,
                   joinedAt, reply, ub>>

\* The Guard: the set of members cannot change during the loop.
BroadcastBegin(s) ==
    /\ At(s, "bcast")
    /\ heap[room[s]] = "live" /\ user[s] = "live"
    /\ lock[room[s]] = NoThread
    /\ lock' = [lock EXCEPT ![room[s]] = s]
    /\ pending' = [pending EXCEPT ![s] = {u \in members[room[s]] : username[u] # username[s]}]
    /\ log' = [log EXCEPT ![room[s]] = Append(@, Said(s))]
    /\ Goto(s, "enqueue")
    /\ UNCHANGED <<m_lock, roomVars, userVars, room, data, doomed, lines, delivered,
                   joinedAt, reply, ub>>

\* Seeded fault: the test of isReciever is the wrong way round.
BroadcastToSenders(s) ==
    /\ At(s, "enqueue")
    /\ \E u \in pending[s] :
          /\ mqueue' = IF isReciever[u] THEN mqueue
                       ELSE [mqueue EXCEPT ![u] = Append(@, Said(s))]
          /\ pending' = [pending EXCEPT ![s] = @ \ {u}]
    /\ UNCHANGED <<lockVars, roomVars, user, isReciever, room, data, doomed, lines,
                   historyVars, pc, reply, ub>>

\* mqueue.enqueue of one member; std::set orders them by address.
BroadcastTo(s) ==
    /\ At(s, "enqueue")
    /\ \E u \in pending[s] :
          /\ mqueue' = [mqueue EXCEPT ![u] = Append(@, Said(s))]
          /\ pending' = [pending EXCEPT ![s] = @ \ {u}]
    /\ UNCHANGED <<lockVars, roomVars, user, isReciever, room, data, doomed, lines,
                   historyVars, pc, reply, ub>>

\* Seeded fault: the lock is not given back.
BroadcastEndLocked(s) ==
    /\ At(s, "enqueue")
    /\ pending[s] = {}
    /\ Goto(s, "recv") /\ Answer(s, "message sent")
    /\ UNCHANGED dataVars

BroadcastEnd(s) ==
    /\ At(s, "enqueue")
    /\ pending[s] = {}
    /\ lock' = [lock EXCEPT ![room[s]] = NoThread]
    /\ Goto(s, "recv") /\ Answer(s, "message sent")
    /\ UNCHANGED <<m_lock, roomVars, userVars, localVars, historyVars, ub>>

-----------------------------------------------------------------------------
(* chat_with_reciever *)

ReceiverJoin(s) ==
    /\ At(s, "rjoin")
    /\ \E n \in RoomName : data' = [data EXCEPT ![s] = n]
    /\ Goto(s, "find")
    /\ UNCHANGED <<lockVars, roomVars, userVars, room, pending, doomed, lines, historyVars, reply, ub>>

\* Any other tag; a failed receive is not looked at and leaves an empty tag.
ReceiverRefused(s) == Finish(s, "rjoin", "error")

\* Seeded fault: the result of dequeue is not compared with nullptr.
DeliverNull(s) ==
    /\ At(s, "loop")
    /\ mqueue[s] = <<>>
    /\ delivered' = [delivered EXCEPT ![s] = Append(@, NullPtr)]
    /\ UNCHANGED <<lockVars, roomVars, userVars, localVars, log, joinedAt, pc, reply, ub>>

\* One round of while (1): dequeue, send, delete.  The result of send is
\* ignored.  A round in which dequeue times out changes nothing and is a
\* stuttering step.
ReceiverDeliver(s) ==
    /\ At(s, "loop")
    /\ user[s] = "live"
    /\ mqueue[s] # <<>>
    /\ delivered' = [delivered EXCEPT ![s] = Append(@, Head(mqueue[s]))]
    /\ mqueue' = [mqueue EXCEPT ![s] = Tail(@)]
    /\ UNCHANGED <<lockVars, roomVars, user, isReciever, localVars, log, joinedAt, pc, reply, ub>>

-----------------------------------------------------------------------------
(* worker: the end of a session *)

\* for (auto i : return_RooMap()): a copy of the map, taken without m_lock.
CopyRooms(s) ==
    /\ At(s, "cleanup")
    /\ doomed' = [doomed EXCEPT ![s] = {m_rooms[n] : n \in RoomName} \ {NullPtr}]
    /\ Goto(s, "delete")
    /\ UNCHANGED <<lockVars, roomVars, userVars, room, data, pending, lines, historyVars, reply, ub>>

\* delete i.second: Room::~Room deletes every member; the map keeps the pointer.
DeleteRoom(s) ==
    /\ At(s, "delete")
    /\ \E a \in doomed[s] :
          /\ heap[a] = "live"
          /\ lock[a] = NoThread
          /\ heap' = [heap EXCEPT ![a] = "freed"]
          /\ user' = [u \in Session |-> IF u \in members[a] THEN "freed" ELSE user[u]]
          /\ doomed' = [doomed EXCEPT ![s] = @ \ {a}]
    /\ UNCHANGED <<lockVars, m_rooms, room_name, members, isReciever, mqueue, room, data,
                   pending, lines, historyVars, pc, reply, ub>>

EndSession(s) ==
    /\ At(s, "delete")
    /\ doomed[s] = {}
    /\ Goto(s, "done")
    /\ UNCHANGED <<dataVars, reply>>

-----------------------------------------------------------------------------
(* Undefined behaviour *)

\* The rooms, and the users, the next step of s dereferences.
UsesRooms(s) ==
    IF pc[s] \in {"remove", "leave", "add", "bcast"} THEN {room[s]}
    ELSE IF pc[s] = "delete" THEN doomed[s]
    ELSE {}

UsesUsers(s) ==
    IF pc[s] \in {"bcast", "loop"} THEN {s}
    ELSE IF pc[s] = "enqueue" THEN pending[s]
    ELSE {}

Undefined ==
    /\ ub' = TRUE
    /\ UNCHANGED <<lockVars, roomVars, userVars, localVars, historyVars, pc, reply>>

\* Room or User: freed by another session.
UseAfterFree(s) ==
    /\ ~ub
    /\ \/ \E a \in UsesRooms(s) : heap[a] = "freed"
       \/ \E u \in UsesUsers(s) : user[u] = "freed"
    /\ Undefined

\* m_rooms is read, or written, while another thread inserts into it.
MapRace(s) ==
    /\ ~ub
    /\ pc[s] \in {"find", "create", "cleanup"}
    /\ pc[s] = "find" => m_lock = NoThread
    /\ \E t \in Session \ {s} : pc[t] = "create"
    /\ Undefined

-----------------------------------------------------------------------------

\* What the client decides ...
ClientStep(s) ==
    \/ LoginSender(s) \/ LoginReceiver(s) \/ LoginOther(s) \/ LoginErr(s)
    \/ SenderJoin(s) \/ SenderLeave(s) \/ SenderSay(s) \/ SenderQuit(s) \/ SenderFails(s)
    \/ ReceiverJoin(s) \/ ReceiverRefused(s)

\* ... and what the worker then does on its own.
WorkerStep(s) ==
    \/ LeaveOldRoom(s) \/ LeaveRoom(s) \/ FindRoom(s) \/ MissRoom(s) \/ CreateRoom(s)
    \/ AddMember(s) \/ BroadcastBegin(s) \/ BroadcastTo(s) \/ BroadcastEnd(s)
    \/ ReceiverDeliver(s) \/ CopyRooms(s) \/ DeleteRoom(s) \/ EndSession(s)
    \/ UseAfterFree(s) \/ MapRace(s)

Next == \E s \in Session : ClientStep(s) \/ WorkerStep(s)

Spec == Init /\ [][Next]_vars

\* A worker that has something to do keeps running; no client has to send
\* anything.  A mutex need not be fair: MaxLines bounds how often others take
\* it, so a worker that keeps asking gets it.
FairSpec == Spec /\ \A s \in Session : WF_vars(WorkerStep(s))

-----------------------------------------------------------------------------
(* Properties *)

\* Every variable holds a value of its type; what a receiver is given is always
\* a broadcast message.
TypeOK ==
    /\ m_lock \in Session \cup {NoThread}
    /\ m_rooms \in [RoomName -> RoomAddr \cup {NullPtr}]
    /\ heap \in [RoomAddr -> {"unused", "live", "freed"}]
    /\ room_name \in [RoomAddr -> RoomName \cup {NullPtr}]
    /\ lock \in [RoomAddr -> Session \cup {NoThread}]
    /\ members \in [RoomAddr -> SUBSET Session]
    /\ user \in [Session -> {"none", "live", "freed"}]
    /\ isReciever \in [Session -> BOOLEAN]
    /\ mqueue \in [Session -> Seq(BroadcastMessage)]
    /\ pc \in [Session -> PC]
    /\ room \in [Session -> RoomAddr \cup {NullPtr}]
    /\ data \in [Session -> RoomName \cup {NullPtr}]
    /\ pending \in [Session -> SUBSET Session]
    /\ doomed \in [Session -> SUBSET RoomAddr]
    /\ lines \in [Session -> 0..MaxLines]
    /\ reply \in [Session -> Reply]
    /\ delivered \in [Session -> Seq(BroadcastMessage)]
    /\ log \in [RoomAddr -> Seq(BroadcastMessage)]
    /\ joinedAt \in [Session -> Nat]
    /\ ub \in BOOLEAN

\* "two rooms with the same name could be created" (README.txt:5): never; the
\* map names every room that was ever created.
UniqueRoom ==
    \A a \in RoomAddr : heap[a] # "unused" => m_rooms[room_name[a]] = a

\* A user is a member of no room but the one its session is in.
OneRoom == \A s \in Session, a \in RoomAddr : s \in members[a] => room[s] = a

\* What a client was last told about its room is what the server's rooms say.
ReplyIsTrue ==
    \A s \in Session :
        pc[s] \in {"recv", "loop"} =>
            /\ reply[s] = "joined room" => /\ s \in members[room[s]]
                                           /\ room_name[room[s]] = data[s]
            /\ reply[s] = "left room" => \A a \in RoomAddr : s \notin members[a]

Membership == OneRoom /\ ReplyIsTrue

\* The messages of l after the first j that a user of another name than r's sent.
HeardBy(r, l, j) ==
    LET heard[k \in j..Len(l)] ==
            IF k = j THEN <<>>
            ELSE IF username[l[k].from] = username[r] THEN heard[k - 1]
            ELSE Append(heard[k - 1], l[k])
    IN  heard[Len(l)]

\* What receiver r's client gets: everything broadcast in its room since it joined,
\* but what users of its own name said.  room.cpp:51 skips every receiver that has
\* the sender's name, not only the sender: of the two users named bob, neither ever
\* hears the other.  The comments say it is sent "to every (receiver) User in the
\* room" (room.cpp:46), "to all users in chat room" (message.h:60).
Expected(r) == HeardBy(r, log[room[r]], joinedAt[r])

\* Each receiver's client gets, or has queued for it, exactly the messages that
\* users of other names sent to its room (Expected), once each and in the one order
\* in which the room broadcast them; at most the last one is still on its way.
ExactDelivery ==
    \A r \in Session :
        pc[r] = "loop" =>
            delivered[r] \o mqueue[r] =
                IF \E s \in Session : r \in pending[s]
                THEN SubSeq(Expected(r), 1, Len(Expected(r)) - 1)
                ELSE Expected(r)

\* As long as no session has ended, no freed room or user is touched and the
\* map is never read while it changes: the guards are enough.
SafeUntilSessionEnds ==
    ub => \E s \in Session : pc[s] \in {"cleanup", "delete", "done"}

\* "return a pointer to the unique Room object representing the named chat
\* room, creating a new one if necessary" (server.cpp:275): the room that
\* find_or_create_room returned exists.
FoundRoomExists == [][\A s \in Session : pc[s] = "find" /\ pc'[s] = "add"
                                            => heap'[room'[s]] = "live"]_vars

\* "leave a chat room" (message.h:59): a client that was told it left its room
\* does not send to that room.
LeftRoomIsSilent == \A s \in Session : pc[s] = "enqueue" => s \in members[room[s]]
=============================================================================
