--------------------------- MODULE ServerLifetime ---------------------------
(***************************************************************************)
(* hw5/csf_assign05: the life of the server process.  The main thread      *)
(* opens the listening socket (open_listenfd in csapp.c), accepts clients, *)
(* makes a ClientData and a Connection for each, starts a worker with the  *)
(* pointer, and at once deletes both again (handle_client_requests); when  *)
(* accept fails main returns and ~Server deletes the rooms (server.cpp,    *)
(* server_main.cpp, connection.cpp, room.cpp).  The workers are reduced to *)
(* what they do with that pointer, with m_lock and with one room; what     *)
(* they say to their clients is ChatServer's.                              *)
(*                                                                         *)
(* Memory is a set of addresses that `new` hands out again after `delete`: *)
(* a pointer kept too long finds a freed block, which sets ub and ends the *)
(* behaviour, or the block of a later client, which goes unnoticed.        *)
(* Descriptors are reused as the kernel does, the lowest free one first.   *)
(***************************************************************************)
EXTENDS Integers, FiniteSets, FiniteSetsExt

CONSTANTS MaxClients,  \* bound: clients that connect
          MaxAddrs,    \* bound: addresses getaddrinfo returns
          Fd,          \* descriptors the process may have, from 3 on
          DataAddr,    \* addresses of a ClientData
          ConnAddr,    \* addresses of a Connection
          NullPtr,     \* no address
          Closed,      \* what a descriptor that is not in use is open on
          Listening    \* ... and the listening socket's

ASSUME LifetimeAssumption ==
    /\ MaxClients \in Nat /\ MaxAddrs \in Nat \ {0}
    /\ Fd \subseteq Nat /\ IsFiniteSet(Fd) /\ Cardinality(Fd) >= 2
    /\ NullPtr \notin DataAddr \cup ConnAddr
    /\ Closed # Listening /\ {Closed, Listening} \cap (1..MaxClients) = {}

Client == 1..MaxClients         \* in the order in which they are accepted

VARIABLES main,      \* where the main thread is
          addrs,     \* listp: addresses left to try
          m_ssock,   \* the listening descriptor, or -1
          fds,       \* what each descriptor is open on
          connfd,    \* local of handle_client_requests
          clientdata,\* local of handle_client_requests
          data,      \* ClientData blocks
          conn,      \* Connection blocks
          accepted,  \* clients accepted
          worker,    \* where the worker of each client is
          arg,       \* its pointer to a ClientData
          this,      \* the Connection on which it is in receive
          reading,   \* what it is reading from
          talkedTo,  \* history: clients it has read from or written to
          m_lock,    \* who holds Server::m_lock: a worker's client, main or nobody
          room_lock, \* who holds the room's lock: a worker's client or nobody
          room,      \* the room in m_rooms: "none", "live" or "freed"
          status,    \* how the process has ended, or "running"
          ub         \* what has made behaviour undefined, or "nothing"

memVars     == <<data, conn>>
openVars    == <<addrs, m_ssock>>
acceptVars  == <<connfd, clientdata, accepted>>
sessionVars == <<worker, arg, this, reading, talkedTo>>
sharedVars  == <<m_lock, room_lock, room>>
endVars     == <<status, ub>>
vars == <<main, fds, memVars, openVars, acceptVars, sessionVars, sharedVars, endVars>>

NoBlock   == [state |-> "unused"]
Nobody    == 0
MainHolds == -1

Init ==
    /\ main = "getaddrinfo"
    /\ addrs = 0 /\ m_ssock = -1
    /\ fds = [f \in Fd |-> Closed]
    /\ connfd = -1 /\ clientdata = NullPtr /\ accepted = 0
    /\ data = [a \in DataAddr |-> NoBlock] /\ conn = [a \in ConnAddr |-> NoBlock]
    /\ worker = [n \in Client |-> "none"] /\ arg = [n \in Client |-> NullPtr]
    /\ this = [n \in Client |-> NullPtr] /\ reading = [n \in Client |-> Closed]
    /\ talkedTo = [n \in Client |-> {}]
    /\ m_lock = Nobody /\ room_lock = Nobody /\ room = "none"
    /\ status = "running" /\ ub = "nothing"

Runs == status = "running" /\ ub = "nothing"

FreeFds == {f \in Fd : fds[f] = Closed}

Open(file) == fds' = [fds EXCEPT ![Min(FreeFds)] = file]
Close(f)   == fds' = [fds EXCEPT ![f] = Closed]

-----------------------------------------------------------------------------
(* main: Server::listen *)

Main(label, next) == Runs /\ main = label /\ main' = next

\* At least one address, or an error.
GetAddrInfo ==
    /\ \/ Main("getaddrinfo", "socket") /\ addrs' \in 1..MaxAddrs
       \/ Main("getaddrinfo", "refused") /\ UNCHANGED addrs
    /\ UNCHANGED <<m_ssock, fds, memVars, acceptVars, sessionVars, sharedVars, endVars>>

\* An address for which socket fails is passed over.
Socket ==
    /\ addrs > 0
    /\ \/ /\ FreeFds # {}
          /\ Main("socket", "bind")
          /\ m_ssock' = Min(FreeFds) /\ Open(Listening)
          /\ UNCHANGED addrs
       \/ Main("socket", "socket") /\ addrs' = addrs - 1 /\ UNCHANGED <<m_ssock, fds>>
    /\ UNCHANGED <<memVars, acceptVars, sessionVars, sharedVars, endVars>>

NoAddressWorked ==
    /\ addrs = 0
    /\ Main("socket", "refused")
    /\ UNCHANGED <<openVars, fds, memVars, acceptVars, sessionVars, sharedVars, endVars>>

Bind ==
    /\ Main("bind", "listen")
    /\ addrs' = 0                                \* freeaddrinfo
    /\ UNCHANGED <<m_ssock, fds, memVars, acceptVars, sessionVars, sharedVars, endVars>>

\* Seeded fault: the next address is tried without a close.
BindFailsOpen ==
    /\ Main("bind", "socket")
    /\ addrs' = addrs - 1 /\ m_ssock' = -1
    /\ UNCHANGED <<fds, memVars, acceptVars, sessionVars, sharedVars, endVars>>

\* The descriptor is closed and the next address tried; if close reports an
\* error, which releases the descriptor all the same, open_listenfd gives up.
BindFails ==
    /\ Main("bind", "socket") \/ Main("bind", "refused")
    /\ addrs' = addrs - 1 /\ m_ssock' = -1
    /\ Close(m_ssock)
    /\ UNCHANGED <<memVars, acceptVars, sessionVars, sharedVars, endVars>>

Listen ==
    /\ \/ Main("listen", "accept") /\ UNCHANGED <<m_ssock, fds>>
       \/ Main("listen", "refused") /\ m_ssock' = -1 /\ Close(m_ssock)
    /\ UNCHANGED <<addrs, memVars, acceptVars, sessionVars, sharedVars, endVars>>

-----------------------------------------------------------------------------
(* main: Server::handle_client_requests *)

Accept ==
    /\ Main("accept", "new")
    /\ accepted < MaxClients /\ FreeFds # {}
    /\ accepted' = accepted + 1
    /\ connfd' = Min(FreeFds) /\ Open(accepted + 1)
    /\ UNCHANGED <<clientdata, memVars, openVars, sessionVars, sharedVars, endVars>>

\* accept fails, at the limit of descriptors or for another reason.
AcceptFails ==
    /\ Main("accept", "destroy")
    /\ UNCHANGED <<fds, memVars, openVars, acceptVars, sessionVars, sharedVars, endVars>>

NewClientData ==
    /\ Main("new", "create")
    /\ \E d \in DataAddr, c \in ConnAddr :
          /\ data[d].state # "live" /\ conn[c].state # "live"
          /\ data' = [data EXCEPT ![d] = [state |-> "live", sock_fd |-> connfd, connection |-> c]]
          /\ conn' = [conn EXCEPT ![c] = [state |-> "live", m_fd |-> connfd]]
          /\ clientdata' = d
    /\ UNCHANGED <<connfd, accepted, fds, openVars, sessionVars, sharedVars, endVars>>

\* Seeded fault: a failure of pthread_create leaves both objects behind.
CreateThreadLeaks ==
    /\ \/ /\ Main("create", "delete connection")
          /\ worker' = [worker EXCEPT ![accepted] = "login"]
          /\ arg' = [arg EXCEPT ![accepted] = clientdata]
       \/ Main("create", "accept") /\ UNCHANGED <<worker, arg>>
    /\ UNCHANGED <<this, reading, talkedTo, fds, memVars, openVars, acceptVars, sharedVars, endVars>>

\* Seeded fault: the worker is started without its argument.
CreateThreadNoArg ==
    /\ Main("create", "delete connection")
    /\ worker' = [worker EXCEPT ![accepted] = "login"]
    /\ UNCHANGED <<arg, this, reading, talkedTo, fds, memVars, openVars, acceptVars, sharedVars,
                   endVars>>

\* pthread_create fails with a positive number, which is not looked for; what
\* follows is the same.
CreateThread ==
    /\ Main("create", "delete connection")
    /\ \/ /\ worker' = [worker EXCEPT ![accepted] = "login"]
          /\ arg' = [arg EXCEPT ![accepted] = clientdata]
       \/ UNCHANGED <<worker, arg>>
    /\ UNCHANGED <<this, reading, talkedTo, fds, memVars, openVars, acceptVars, sharedVars, endVars>>

\* delete clientdata->connection: ~Connection calls Close, and Close ends the
\* process when there is nothing to close.
DeleteConnection ==
    LET c == data[clientdata].connection
    IN  /\ Main("delete connection", "delete clientdata")
        /\ data[clientdata].state = "live" /\ conn[c].state = "live"
        /\ conn' = [conn EXCEPT ![c].state = "freed"]
        /\ IF fds[conn[c].m_fd] = Closed
           THEN status' = "unix_error" /\ UNCHANGED fds
           ELSE Close(conn[c].m_fd) /\ UNCHANGED status
        /\ UNCHANGED <<data, openVars, acceptVars, sessionVars, sharedVars, ub>>

DeleteClientData ==
    /\ Main("delete clientdata", "accept")
    /\ data[clientdata].state = "live"
    /\ data' = [data EXCEPT ![clientdata].state = "freed"]
    /\ UNCHANGED <<conn, fds, openVars, acceptVars, sessionVars, sharedVars, endVars>>

-----------------------------------------------------------------------------
(* main: the end *)

\* listen has returned false: there are no rooms yet.
Refuse ==
    /\ Main("refused", "end")
    /\ status' = "refused"
    /\ UNCHANGED <<fds, memVars, openVars, acceptVars, sessionVars, sharedVars, ub>>

\* ~Server: m_lock is locked ...
LockServer ==
    /\ m_lock = Nobody
    /\ Main("destroy", "destroy rooms")
    /\ m_lock' = MainHolds
    /\ UNCHANGED <<room_lock, room, fds, memVars, openVars, acceptVars, sessionVars, endVars>>

\* Seeded fault: ~Room does not lock the room.
DeleteServerRoomsUnlocked ==
    /\ Main("destroy rooms", "unlocked")
    /\ room # "freed"
    /\ room' = IF room = "live" THEN "freed" ELSE room
    /\ m_lock' = Nobody
    /\ UNCHANGED <<room_lock, fds, memVars, openVars, acceptVars, sessionVars, endVars>>

\* ... the rooms are deleted, each when ~Room has got its lock, and m_lock is
\* unlocked ...
DeleteServerRooms ==
    /\ Main("destroy rooms", "unlocked")
    /\ room # "freed" /\ room_lock = Nobody
    /\ room' = IF room = "live" THEN "freed" ELSE room
    /\ m_lock' = Nobody
    /\ UNCHANGED <<room_lock, fds, memVars, openVars, acceptVars, sessionVars, endVars>>

\* ... then m_lock and m_rooms are destroyed, whoever uses them ...
DestroyServer ==
    /\ Main("unlocked", "return")
    /\ UNCHANGED <<fds, memVars, openVars, acceptVars, sessionVars, sharedVars, endVars>>

\* ... and main returns, which ends every thread.
MainReturns ==
    /\ Main("return", "end")
    /\ status' = "accept failed"
    /\ UNCHANGED <<fds, memVars, openVars, acceptVars, sessionVars, sharedVars, ub>>

MainUndefined(what) ==
    /\ Runs /\ ub' = what
    /\ UNCHANGED <<main, fds, memVars, openVars, acceptVars, sessionVars, sharedVars, status>>

\* A worker has deleted the ClientData, or the rooms, before main does.
MainUsesFreed ==
    \/ /\ main \in {"delete connection", "delete clientdata"}
       /\ data[clientdata].state = "freed"
       /\ MainUndefined("ClientData")
    \/ /\ main = "destroy rooms" /\ room = "freed"
       /\ MainUndefined("Room")

-----------------------------------------------------------------------------
(* worker *)

Worker(n, label, next) ==
    /\ Runs /\ worker[n] = label
    /\ worker' = [worker EXCEPT ![n] = next]

\* clientdata->connection, as worker n finds it.
Its(n) == data[arg[n]].connection

\* Both blocks are allocated, if perhaps to another client.
Reachable(n) == data[arg[n]].state = "live" /\ conn[Its(n)].state = "live"

Talks(n, file) ==
    talkedTo' = [talkedTo EXCEPT ![n] = IF file \in Client THEN @ \cup {file} ELSE @]

\* clientdata->connection->receive: the read is on what the descriptor is open
\* on now, whatever is closed while it waits.
ReceiveCall(n) ==
    /\ Worker(n, "login", "reading login") \/ Worker(n, "chat", "reading line")
    /\ Reachable(n)
    /\ this' = [this EXCEPT ![n] = Its(n)]
    /\ reading' = [reading EXCEPT ![n] = fds[conn[Its(n)].m_fd]]
    /\ UNCHANGED <<arg, talkedTo, main, fds, memVars, openVars, acceptVars, sharedVars, endVars>>

\* It returns through the Connection.  A login with tag err ends the worker;
\* a line asks for a room, is about the room, or is only answered.
ReceiveReturn(n) ==
    /\ \/ \E next \in {"greet", "refused"} : Worker(n, "reading login", next)
       \/ \E next \in {"find", "use", "answer"} : Worker(n, "reading line", next)
    /\ worker'[n] = "use" => room # "none"
    /\ conn[this[n]].state = "live"
    /\ Talks(n, reading[n])
    /\ this' = [this EXCEPT ![n] = NullPtr] /\ reading' = [reading EXCEPT ![n] = Closed]
    /\ UNCHANGED <<arg, main, fds, memVars, openVars, acceptVars, sharedVars, endVars>>

\* find_or_create_room ...
FindRoom(n) ==
    /\ main # "return" /\ m_lock = Nobody
    /\ Worker(n, "find", "found")
    /\ m_lock' = n
    /\ room' = IF room = "none" THEN "live" ELSE room
    /\ UNCHANGED <<room_lock, arg, this, reading, talkedTo, main, fds, memVars, openVars,
                   acceptVars, endVars>>

\* Seeded fault: its Guard is never destroyed.
RoomFoundLocked(n) ==
    /\ Worker(n, "found", "use")
    /\ UNCHANGED <<arg, this, reading, talkedTo, main, fds, memVars, openVars, acceptVars,
                   sharedVars, endVars>>

\* ... returns.
RoomFound(n) ==
    /\ main # "return"
    /\ Worker(n, "found", "use")
    /\ m_lock' = Nobody
    /\ UNCHANGED <<room_lock, room, arg, this, reading, talkedTo, main, fds, memVars, openVars, acceptVars,
                   endVars>>

\* add_member, remove_member or broadcast_message: its Guard locks the room ...
EnterRoom(n) ==
    /\ Worker(n, "use", "in room")
    /\ room = "live" /\ room_lock = Nobody
    /\ room_lock' = n
    /\ UNCHANGED <<m_lock, room, arg, this, reading, talkedTo, main, fds, memVars, openVars,
                   acceptVars, endVars>>

\* ... and unlocks it.
LeaveRoom(n) ==
    /\ Worker(n, "in room", "answer")
    /\ room = "live"
    /\ room_lock' = Nobody
    /\ UNCHANGED <<m_lock, room, arg, this, reading, talkedTo, main, fds, memVars, openVars,
                   acceptVars, endVars>>

\* clientdata->connection->send: a response, or a receiver's next delivery,
\* whose loop goes on sending; its result is not looked at.
Send(n) ==
    /\ \E label \in {"greet", "answer"}, next \in {"chat", "answer"} : Worker(n, label, next)
    /\ Reachable(n)
    /\ Talks(n, fds[conn[Its(n)].m_fd])
    /\ UNCHANGED <<arg, this, reading, main, fds, memVars, openVars, acceptVars, sharedVars, endVars>>

\* Seeded fault: the close of sock_fd is reached.
EndChatCloses(n) ==
    /\ Worker(n, "answer", "cleanup")
    /\ Reachable(n)
    /\ Talks(n, fds[conn[Its(n)].m_fd])
    /\ Close(data[arg[n]].sock_fd)
    /\ UNCHANGED <<arg, this, reading, main, memVars, openVars, acceptVars, sharedVars, endVars>>

\* The last response, to quit or to what could not be read.  sock_fd is closed
\* only behind the receiver's endless loop, so never.
EndChat(n) ==
    /\ Worker(n, "answer", "cleanup")
    /\ Reachable(n)
    /\ Talks(n, fds[conn[Its(n)].m_fd])
    /\ UNCHANGED <<arg, this, reading, main, fds, memVars, openVars, acceptVars, sharedVars, endVars>>

\* Seeded fault: ~Room does not lock the room.
DeleteRoomsUnlocked(n) ==
    /\ main # "return"
    /\ Worker(n, "cleanup", "delete")
    /\ data[arg[n]].state = "live"
    /\ room # "freed"
    /\ room' = IF room = "live" THEN "freed" ELSE room
    /\ UNCHANGED <<m_lock, room_lock, arg, this, reading, talkedTo, main, fds, memVars,
                   openVars, acceptVars, endVars>>

\* clientdata->serv->return_RooMap(), and every room in it is deleted, without
\* m_lock; ~Room waits for who is in the room.
DeleteRooms(n) ==
    /\ main # "return"
    /\ Worker(n, "cleanup", "delete")
    /\ data[arg[n]].state = "live"
    /\ room # "freed" /\ room_lock = Nobody
    /\ room' = IF room = "live" THEN "freed" ELSE room
    /\ UNCHANGED <<m_lock, room_lock, arg, this, reading, talkedTo, main, fds, memVars,
                   openVars, acceptVars, endVars>>

\* delete clientdata
DeleteArg(n) ==
    /\ Worker(n, "delete", "done")
    /\ data[arg[n]].state = "live"
    /\ data' = [data EXCEPT ![arg[n]].state = "freed"]
    /\ UNCHANGED <<arg, this, reading, talkedTo, main, fds, conn, openVars, acceptVars,
                   sharedVars, endVars>>

\* What the next step of worker n uses has been deleted.
WorkerUsesFreed(n) ==
    /\ Runs
    /\ \/ /\ \/ worker[n] \in {"login", "chat", "greet", "answer"} /\ ~Reachable(n)
             \/ worker[n] \in {"cleanup", "delete"} /\ data[arg[n]].state = "freed"
             \/ worker[n] \in {"reading login", "reading line"} /\ conn[this[n]].state = "freed"
          /\ ub' = "ClientData"
       \/ /\ worker[n] \in {"use", "in room", "cleanup"} /\ room = "freed"
          /\ ub' = "Room"
       \/ /\ worker[n] \in {"find", "found", "cleanup"} /\ main = "return"
          /\ ub' = "Server"
    /\ UNCHANGED <<main, fds, memVars, openVars, acceptVars, sessionVars, sharedVars, status>>

-----------------------------------------------------------------------------

Opening == GetAddrInfo \/ Socket \/ NoAddressWorked \/ Bind \/ BindFails \/ Listen

Serving == Accept \/ AcceptFails \/ NewClientData \/ CreateThread \/ DeleteConnection
             \/ DeleteClientData

Ending == Refuse \/ LockServer \/ DeleteServerRooms \/ DestroyServer \/ MainReturns
            \/ MainUsesFreed

Session(n) ==
    \/ ReceiveCall(n) \/ ReceiveReturn(n) \/ FindRoom(n) \/ RoomFound(n) \/ EnterRoom(n)
    \/ LeaveRoom(n) \/ Send(n) \/ EndChat(n) \/ DeleteRooms(n) \/ DeleteArg(n)
    \/ WorkerUsesFreed(n)

Next == Opening \/ Serving \/ Ending \/ \E n \in Client : Session(n)

Spec == Init /\ [][Next]_vars

\* main goes on once accept has returned with an error, and a worker leaves the
\* critical section it is in; no client has to connect or to send.
FairSpec ==
    /\ Spec /\ WF_vars(Ending)
    /\ \A n \in Client : WF_vars(RoomFound(n)) /\ WF_vars(LeaveRoom(n))

-----------------------------------------------------------------------------
(* Properties *)

MainPC == {"getaddrinfo", "socket", "bind", "listen", "refused", "accept", "new", "create",
           "delete connection", "delete clientdata", "destroy", "destroy rooms", "unlocked",
           "return", "end"}

WorkerPC == {"none", "login", "reading login", "refused", "greet", "chat", "reading line",
             "find", "found", "use", "in room", "answer", "cleanup", "delete", "done"}

DataBlock == [state : {"live", "freed"}, sock_fd : Fd, connection : ConnAddr]
ConnBlock == [state : {"live", "freed"}, m_fd : Fd]

\* Every variable holds a value of its type, and a running worker has a pointer.
TypeOK ==
    /\ main \in MainPC
    /\ addrs \in 0..MaxAddrs /\ accepted \in 0..MaxClients
    /\ m_ssock \in Fd \cup {-1} /\ connfd \in Fd \cup {-1}
    /\ fds \in [Fd -> Client \cup {Closed, Listening}]
    /\ clientdata \in DataAddr \cup {NullPtr}
    /\ data \in [DataAddr -> DataBlock \cup {NoBlock}]
    /\ conn \in [ConnAddr -> ConnBlock \cup {NoBlock}]
    /\ worker \in [Client -> WorkerPC]
    /\ arg \in [Client -> DataAddr \cup {NullPtr}]
    /\ this \in [Client -> ConnAddr \cup {NullPtr}]
    /\ reading \in [Client -> Client \cup {Closed, Listening}]
    /\ talkedTo \in [Client -> SUBSET Client]
    /\ \A n \in Client :
          /\ worker[n] # "none" => arg[n] \in DataAddr /\ n <= accepted
          /\ worker[n] \in {"reading login", "reading line"} <=> this[n] \in ConnAddr
    /\ m_lock \in Client \cup {Nobody, MainHolds} /\ room_lock \in Client \cup {Nobody}
    /\ room \in {"none", "live", "freed"}
    /\ status \in {"running", "refused", "accept failed", "unix_error"}
    /\ ub \in {"nothing", "ClientData", "Room", "Server"}

\* Nothing leaks, on whatever path main came, and nothing is left to the workers:
\* when main waits in accept, or has left it, only the listening socket is open
\* -- so accept never fails for want of a descriptor -- and every ClientData and
\* Connection is deleted, those that workers still use too.  When the server
\* could not listen, whichever step failed on whichever address, no descriptor
\* stays open.
NothingKept ==
    /\ main \in {"accept", "destroy", "destroy rooms", "unlocked", "return"} =>
          /\ \A f \in Fd : fds[f] = (IF f = m_ssock THEN Listening ELSE Closed)
          /\ \A d \in DataAddr : data[d].state # "live"
          /\ \A c \in ConnAddr : conn[c].state # "live"
    /\ status = "refused" => FreeFds = Fd

\* Close of csapp.c ends the process when close fails: it never does, since only
\* main closes clients' descriptors.
CloseNeverFails == status # "unix_error"

\* Who has entered a room -- to join, to leave or to broadcast -- is in it alone
\* and finds it there until it has left it, although sessions that end (without
\* m_lock) and ~Server delete the rooms under it: ~Room waits for the room's lock.
\* Only who finds, or enters, the room later is too late.
RoomHeldIsLive ==
    \A n \in Client : worker[n] = "in room" =>
        /\ room = "live"
        /\ \A k \in Client : worker[k] = "in room" => k = n

\* Once accept has failed the process ends: ~Server gets m_lock, and ~Room the
\* lock of the room, since no worker that is still there keeps either.
ShutdownEnds == main = "destroy" ~> (status = "accept failed" \/ ub # "nothing")

\* "starting a new pthread for each connected client" (server.cpp:239-240), with
\* "the object(s) needed to communicate with a client" (server.cpp:153-154): the
\* worker communicates with that client and no other.
WorkerServesItsClient == \A n \in Client : talkedTo[n] \subseteq {n}
=============================================================================
