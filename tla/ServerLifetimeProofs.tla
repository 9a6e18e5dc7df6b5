------------------------ MODULE ServerLifetimeProofs ------------------------
(***************************************************************************)
(* Machine-checked proofs about ServerLifetime, for any number of clients, *)
(* addresses, descriptors and blocks of memory.                            *)
(***************************************************************************)
EXTENDS ServerLifetime, WellFoundedInduction, TLAPS

-----------------------------------------------------------------------------
(* The inductive invariant: which descriptors are open, and which blocks   *)
(* allocated, wherever main is.                                            *)

OpenAre(S) == /\ m_ssock \in S \cap Fd /\ fds[m_ssock] = Listening
              /\ \A f \in Fd : fds[f] # Closed => f \in S

NoneLive == /\ \A d \in DataAddr : data[d].state # "live"
            /\ \A c \in ConnAddr : conn[c].state # "live"

Opened ==
    /\ main = "bind" => addrs > 0
    /\ main \in {"getaddrinfo", "socket", "refused"} => FreeFds = Fd
    /\ main \in {"bind", "listen", "accept", "destroy", "destroy rooms", "unlocked", "return",
                 "delete clientdata"}
          => OpenAre({m_ssock})
    /\ main \in {"new", "create", "delete connection"} =>
          /\ OpenAre({m_ssock, connfd})
          /\ connfd \in Fd \ {m_ssock} /\ accepted \in Client /\ fds[connfd] = accepted
    /\ main = "end" <=> status # "running"
    /\ status \in {"running", "refused", "accept failed"}
    /\ status = "refused" => FreeFds = Fd

Allocated ==
    /\ main \in {"create", "delete connection"} =>
          /\ clientdata \in DataAddr /\ data[clientdata] \in DataBlock
          /\ \A c \in ConnAddr : conn[c].state = "live" <=> c = data[clientdata].connection
          /\ conn[data[clientdata].connection].m_fd = connfd
          /\ \A d \in DataAddr : data[d].state = "live" => d = clientdata
    /\ main = "delete clientdata" =>
          /\ clientdata \in DataAddr /\ data[clientdata] \in DataBlock
          /\ \A c \in ConnAddr : conn[c].state # "live"
          /\ \A d \in DataAddr : data[d].state = "live" => d = clientdata
    /\ main \notin {"create", "delete connection", "delete clientdata"} => NoneLive

\* The worker of the client accepted last has not been started yet.
NotStarted == main \in {"new", "create"} => worker[accepted] = "none"

IInv == TypeOK /\ Opened /\ Allocated /\ NotStarted

-----------------------------------------------------------------------------

\* The kernel finds a lowest free descriptor if there is a free one.
LEMMA LowestFree ==
    ASSUME FreeFds # {}
    PROVE  Min(FreeFds) \in FreeFds
  <1>1. FreeFds \subseteq Nat
    BY LifetimeAssumption DEF FreeFds
  <1>2. PICK x \in FreeFds : \A y \in FreeFds : <<y, x>> \notin OpToRel(<, Nat)
    <2>1. FreeFds # {}
      OBVIOUS
    <2> HIDE DEF OpToRel
    <2> QED
      BY <1>1, <2>1, NatLessThanWellFounded, WFMin
  <1>3. \A y \in FreeFds : x <= y
    <2>1. ASSUME NEW y \in FreeFds, y < x PROVE FALSE
      <3>1. <<y, x>> \in Nat \X Nat /\ <<y, x>>[1] = y /\ <<y, x>>[2] = x
        BY <1>1
      <3>2. <<y, x>>[1] < <<y, x>>[2]
        BY <2>1, <3>1
      <3>3. <<y, x>> \in OpToRel(<, Nat)
        BY ONLY <3>1, <3>2, Zenon DEF OpToRel
      <3>4. QED
        BY <1>2, <3>3
    <2>2. QED
      BY <1>1, <2>1
  <1>4. QED
    BY <1>3 DEF Min
-----------------------------------------------------------------------------
(* IInv is inductive *)

LEMMA InvInit == Init => IInv
  BY LifetimeAssumption DEF Init, IInv, TypeOK, Opened, Allocated, NotStarted, NoneLive, FreeFds, NoBlock,
     MainPC, WorkerPC, Client

\* Only the blocks matter to Allocated, and only main tells where they should be.
LEMMA ConstantTypes ==
    /\ MaxClients \in Nat /\ MaxAddrs \in Nat
    /\ -1 \notin Fd /\ NullPtr \notin ConnAddr
    /\ Closed \notin Client /\ Listening \notin Client /\ Closed # Listening
  BY LifetimeAssumption DEF Client

LEMMA AddrsType ==
    ASSUME addrs \in 0..MaxAddrs, GetAddrInfo \/ Socket \/ Bind \/ (BindFails /\ addrs > 0)
    PROVE  addrs' \in 0..MaxAddrs
  BY ConstantTypes DEF GetAddrInfo, Socket, Bind, BindFails

LEMMA AcceptedType ==
    ASSUME accepted \in 0..MaxClients, Accept
    PROVE  accepted' \in 0..MaxClients /\ accepted' \in Client /\ accepted' = accepted + 1
           /\ \A n \in Client : n <= accepted => n <= accepted' /\ n # accepted'
  BY ConstantTypes DEF Accept, Client

LEMMA AcceptedReflexive ==
    ASSUME accepted \in 0..MaxClients
    PROVE  accepted <= accepted
  BY ConstantTypes

LEMMA OpeningStep ==
    ASSUME IInv, Opening
    PROVE  IInv'
  <1> USE ConstantTypes DEF IInv, TypeOK, MainPC, Main, Runs, memVars, openVars, acceptVars,
          sessionVars, sharedVars, endVars
  <1>1. Allocated' /\ NotStarted'
    BY DEF Opening, GetAddrInfo, Socket, NoAddressWorked, Bind, BindFails, Listen, Allocated,
       NoneLive, NotStarted
  <1>2. CASE GetAddrInfo
    <2>1. TypeOK'
      BY <1>2, AddrsType DEF GetAddrInfo
    <2>2. Opened'
      BY <1>2 DEF GetAddrInfo, Opened, OpenAre, FreeFds
    <2>3. QED
      BY <1>1, <2>1, <2>2
  <1>3. CASE Socket
    <2>1. CASE main' = "bind"
      <3>1. PICK f \in Fd : f = Min(FreeFds) /\ fds[f] = Closed
        BY <1>3, <2>1, LowestFree DEF Socket, FreeFds
      <3>2. m_ssock' = f /\ fds' = [fds EXCEPT ![f] = Listening]
        BY <1>3, <2>1, <3>1 DEF Socket, Open
      <3>3. main = "socket" /\ addrs > 0 /\ \A g \in Fd : fds[g] = Closed
        BY <1>3 DEF Socket, Opened, FreeFds
      <3>4. Opened'
        BY <1>3, <2>1, <3>1, <3>2, <3>3 DEF Socket, Opened, OpenAre
      <3>5. TypeOK'
        BY <1>3, <2>1, <3>1, <3>2, AddrsType DEF Socket
      <3>6. QED
        BY <1>1, <3>4, <3>5
    <2>2. CASE main' # "bind"
      <3>1. TypeOK'
        BY <1>3, <2>2, AddrsType DEF Socket
      <3>2. Opened'
        BY <1>3, <2>2 DEF Socket, Opened, OpenAre, FreeFds
      <3>3. QED
        BY <1>1, <3>1, <3>2
    <2>3. QED
      BY <2>1, <2>2
  <1>4. CASE NoAddressWorked
    BY <1>1, <1>4 DEF NoAddressWorked, Opened, OpenAre, FreeFds
  <1>5. CASE Bind
    <2>1. TypeOK'
      BY <1>5, AddrsType DEF Bind
    <2>2. Opened'
      BY <1>5 DEF Bind, Opened, OpenAre, FreeFds
    <2>3. QED
      BY <1>1, <2>1, <2>2
  <1>6. CASE BindFails
    <2>1. TypeOK'
      BY <1>6, AddrsType DEF BindFails, Opened, Close
    <2>2. Opened'
      BY <1>6 DEF BindFails, Opened, OpenAre, FreeFds, Close
    <2>3. QED
      BY <1>1, <2>1, <2>2
  <1>7. CASE Listen
    BY <1>1, <1>7 DEF Listen, Opened, OpenAre, FreeFds, Close
  <1>8. QED
    BY <1>2, <1>3, <1>4, <1>5, <1>6, <1>7 DEF Opening

LEMMA ServingStep ==
    ASSUME IInv, Serving
    PROVE  IInv'
  <1> USE ConstantTypes DEF IInv, TypeOK, MainPC, Main, Runs, memVars, openVars, acceptVars,
          sessionVars, sharedVars, endVars
  <1>1. CASE Accept
    <2>1. PICK f \in Fd : f = Min(FreeFds) /\ fds[f] = Closed
      BY <1>1, LowestFree DEF Accept, FreeFds
    <2>2. connfd' = f /\ fds' = [fds EXCEPT ![f] = accepted'] /\ accepted' = accepted + 1 /\ accepted' \in Client
      BY <1>1, <2>1, AcceptedType DEF Accept, Open
    <2>3. TypeOK'
      BY <1>1, <2>1, <2>2, AcceptedType DEF Accept
    <2>4. Opened'
      <3>1. f # m_ssock /\ OpenAre({m_ssock})
        BY <1>1, <2>1 DEF Accept, Opened, OpenAre
      <3>2. QED
        BY <1>1, <2>1, <2>2, <3>1 DEF Accept, Opened, OpenAre
    <2>5. Allocated'
      BY <1>1 DEF Accept, Allocated, NoneLive
    <2>6. NotStarted'
      BY <1>1, <2>2, AcceptedType DEF Accept, NotStarted
    <2>7. QED
      BY <2>3, <2>4, <2>5, <2>6
  <1>2. CASE AcceptFails
    BY <1>2 DEF AcceptFails, Opened, OpenAre, Allocated, NoneLive, NotStarted
  <1>3. CASE NewClientData
    <2>1. PICK d \in DataAddr, c \in ConnAddr :
            /\ data' = [data EXCEPT ![d] = [state |-> "live", sock_fd |-> connfd, connection |-> c]]
            /\ conn' = [conn EXCEPT ![c] = [state |-> "live", m_fd |-> connfd]]
            /\ clientdata' = d
      BY <1>3 DEF NewClientData
    <2>2. /\ main = "new" /\ main' = "create" /\ connfd \in Fd
          /\ UNCHANGED <<connfd, accepted, fds, openVars, sessionVars, sharedVars, endVars>>
      BY <1>3 DEF NewClientData, Opened
    <2>3. TypeOK'
      BY <2>1, <2>2 DEF DataBlock, ConnBlock
    <2>4. Opened'
      BY <2>2 DEF Opened, OpenAre
    <2>5. Allocated'
      BY <2>1, <2>2 DEF Allocated, NoneLive, DataBlock, ConnBlock
    <2>6. NotStarted'
      BY <2>2 DEF NotStarted
    <2>7. QED
      BY <2>3, <2>4, <2>5, <2>6
  <1>4. CASE CreateThread
    <2>1. Opened' /\ Allocated' /\ NotStarted'
      BY <1>4 DEF CreateThread, Opened, OpenAre, Allocated, NoneLive, NotStarted
    <2>2. accepted \in Client /\ clientdata \in DataAddr
      BY <1>4 DEF CreateThread, Opened, Allocated
    <2>3. CASE UNCHANGED <<worker, arg>>
      BY <1>4, <2>1, <2>3 DEF CreateThread
    <2>4. CASE /\ worker' = [worker EXCEPT ![accepted] = "login"]
               /\ arg' = [arg EXCEPT ![accepted] = clientdata]
      <3>1. /\ main' \in MainPC /\ accepted <= accepted
            /\ UNCHANGED <<accepted, this>>
        BY <1>4, AcceptedReflexive DEF CreateThread
      <3>2. /\ worker' \in [Client -> WorkerPC]
            /\ arg' \in [Client -> DataAddr \cup {NullPtr}]
        BY <2>2, <2>4 DEF WorkerPC
      <3>3. ASSUME NEW n \in Client
            PROVE  /\ worker'[n] # "none" => arg'[n] \in DataAddr /\ n <= accepted'
                   /\ worker'[n] \in {"reading login", "reading line"} <=> this'[n] \in ConnAddr
        <4>1. CASE n = accepted
          <5>1. worker[n] = "none"
            BY <1>4, <4>1 DEF CreateThread, NotStarted
          <5>2. QED
            BY <2>2, <2>4, <3>1, <4>1, <5>1
        <4>2. CASE n # accepted
          BY <2>4, <3>1, <4>2
        <4>3. QED
          BY <4>1, <4>2
      <3>4. TypeOK'
        BY <1>4, <3>1, <3>2, <3>3 DEF CreateThread
      <3>5. QED
        BY <2>1, <3>4
    <2>5. QED
      BY <1>4, <2>3, <2>4 DEF CreateThread
  <1>5. CASE DeleteConnection
    <2> DEFINE c == data[clientdata].connection
    <2>0. main = "delete connection" /\ main' = "delete clientdata"
      BY <1>5 DEF DeleteConnection
    <2>1. /\ c \in ConnAddr /\ conn[c] \in ConnBlock /\ conn[c].m_fd = connfd
          /\ connfd \in Fd \ {m_ssock} /\ fds[connfd] \in Client
          /\ main = "delete connection" /\ main' = "delete clientdata"
      <3>1. c \in ConnAddr
        BY <2>0 DEF Allocated, DataBlock
      <3>2. conn[c].state = "live" /\ conn[c].m_fd = connfd
        BY <2>0, <3>1 DEF Allocated
      <3>3. conn[c] \in ConnBlock
        <4>1. conn[c] \in ConnBlock \cup {NoBlock}
          BY <3>1
        <4>2. NoBlock.state # "live"
          BY DEF NoBlock
        <4>3. QED
          BY ONLY <3>2, <4>1, <4>2
      <3>4. connfd \in Fd \ {m_ssock} /\ fds[connfd] \in Client
        BY <2>0 DEF Opened
      <3>5. QED
        BY <2>0, <3>1, <3>2, <3>3, <3>4
    <2>2. fds[connfd] # Closed
      BY <2>1 DEF Client
    <2>3. /\ conn' = [conn EXCEPT ![c].state = "freed"]
          /\ fds' = [fds EXCEPT ![connfd] = Closed]
          /\ UNCHANGED <<status, data, openVars, acceptVars, sessionVars, sharedVars, ub>>
      BY <1>5, <2>1, <2>2 DEF DeleteConnection, Close
    <2> HIDE DEF c
    <2>4. conn' \in [ConnAddr -> ConnBlock \cup {NoBlock}] /\ conn'[c].state = "freed"
      BY <2>1, <2>3 DEF ConnBlock
    <2>5. TypeOK'
      BY <2>1, <2>3, <2>4, ZenonT(60)
    <2>6. Opened'
      BY <2>1, <2>3 DEF Opened, OpenAre
    <2>7. Allocated'
      BY <2>1, <2>3, <2>4 DEF Allocated, c
    <2>8. QED
      BY <2>0, <2>5, <2>6, <2>7 DEF NotStarted
  <1>6. CASE DeleteClientData
    BY <1>6 DEF DeleteClientData, Opened, OpenAre, Allocated, NoneLive, NotStarted, DataBlock
  <1>7. QED
    BY <1>1, <1>2, <1>3, <1>4, <1>5, <1>6 DEF Serving

LEMMA EndingStep ==
    ASSUME IInv, Ending
    PROVE  IInv'
  <1> USE ConstantTypes DEF IInv, TypeOK, MainPC, Main, Runs, memVars, openVars, acceptVars,
                            sessionVars, sharedVars, endVars
  <1>1. CASE Refuse
    BY <1>1 DEF Refuse, Opened, OpenAre, FreeFds, Allocated, NoneLive, NotStarted
  <1>2. CASE LockServer \/ DeleteServerRooms \/ DestroyServer
    <2>1. main \in {"destroy", "destroy rooms", "unlocked"}
          /\ main' \in {"destroy rooms", "unlocked", "return"}
          /\ UNCHANGED <<fds, memVars, openVars, acceptVars, sessionVars, room_lock, endVars>>
          /\ m_lock' \in {m_lock, Nobody, MainHolds} /\ room' \in {room, "freed"}
      BY <1>2 DEF LockServer, DeleteServerRooms, DestroyServer
    <2>2. Opened' /\ Allocated' /\ NotStarted'
      BY <2>1 DEF Opened, OpenAre, Allocated, NoneLive, NotStarted
    <2>3. TypeOK'
      <3>1. /\ fds' = fds /\ data' = data /\ conn' = conn /\ addrs' = addrs
            /\ m_ssock' = m_ssock /\ connfd' = connfd /\ clientdata' = clientdata
            /\ accepted' = accepted /\ worker' = worker /\ arg' = arg /\ this' = this
            /\ reading' = reading /\ talkedTo' = talkedTo /\ room_lock' = room_lock
            /\ status' = status /\ ub' = ub
        BY <2>1
      <3>2. /\ main' \in MainPC /\ m_lock' \in Client \cup {Nobody, MainHolds}
            /\ room' \in {"none", "live", "freed"}
        BY <2>1
      <3> HIDE <2>1, ConstantTypes
      <3> HIDE DEF MainPC, Main, Runs, memVars, openVars, acceptVars, sessionVars, sharedVars,
                   endVars
      <3>3. QED
        BY <3>1, <3>2
    <2>4. QED
      BY <2>2, <2>3
  <1>3. CASE MainReturns
    BY <1>3 DEF MainReturns, Opened, OpenAre, Allocated, NoneLive, NotStarted
  <1>4. CASE MainUsesFreed
    <2>1. /\ ub' \in {"nothing", "ClientData", "Room", "Server"}
          /\ UNCHANGED <<main, fds, memVars, openVars, acceptVars, sessionVars, sharedVars, status>>
      BY <1>4 DEF MainUsesFreed, MainUndefined
    <2>2. TypeOK'
      <3>1. /\ main' = main /\ fds' = fds /\ data' = data /\ conn' = conn /\ addrs' = addrs
            /\ m_ssock' = m_ssock /\ connfd' = connfd /\ clientdata' = clientdata
            /\ accepted' = accepted /\ worker' = worker /\ arg' = arg /\ this' = this
            /\ reading' = reading /\ talkedTo' = talkedTo /\ m_lock' = m_lock
            /\ room_lock' = room_lock /\ room' = room /\ status' = status
        BY <2>1
      <3> HIDE <2>1, ConstantTypes
      <3> HIDE DEF MainPC, Main, Runs, memVars, openVars, acceptVars, sessionVars, sharedVars,
                   endVars
      <3>2. ub' \in {"nothing", "ClientData", "Room", "Server"}
        BY <2>1
      <3>3. QED
        BY <3>1, <3>2
    <2>3. Opened' /\ Allocated' /\ NotStarted'
      BY <2>1 DEF Opened, OpenAre, FreeFds, Allocated, NoneLive, NotStarted
    <2>4. QED
      BY <2>2, <2>3
  <1>5. QED
    BY <1>1, <1>2, <1>3, <1>4 DEF Ending

\* What a step of a worker leaves alone: descriptors, Connections and whatever
\* main keeps track of.  Of the ClientData it can only free one.
LEMMA SessionFrame ==
    ASSUME IInv, NEW n \in Client, Session(n)
    PROVE  /\ UNCHANGED <<main, fds, conn, openVars, acceptVars, status>>
           /\ \/ UNCHANGED data
              \/ \E d \in DataAddr : /\ data[d].state = "live"
                                     /\ data' = [data EXCEPT ![d].state = "freed"]
           /\ \A m \in Client : worker[m] = "none" => worker'[m] = "none"
  <1> USE DEF IInv, TypeOK, Worker, Runs, memVars, openVars, acceptVars, sessionVars, sharedVars, endVars
  <1>1. CASE DeleteArg(n)
    BY <1>1 DEF DeleteArg
  <1>2. CASE ReceiveCall(n) \/ ReceiveReturn(n)
    BY <1>2 DEF ReceiveCall, ReceiveReturn
  <1>3. CASE FindRoom(n) \/ RoomFound(n) \/ EnterRoom(n) \/ LeaveRoom(n)
    BY <1>3 DEF FindRoom, RoomFound, EnterRoom, LeaveRoom
  <1>4. CASE Send(n) \/ EndChat(n)
    BY <1>4 DEF Send, EndChat
  <1>5. CASE DeleteRooms(n) \/ WorkerUsesFreed(n)
    BY <1>5 DEF DeleteRooms, WorkerUsesFreed
  <1>6. QED
    BY <1>1, <1>2, <1>3, <1>4, <1>5 DEF Session

\* What worker n can still reach through its pointer has the right types.
LEMMA ReachableTypes ==
    ASSUME TypeOK, NEW n \in Client, worker[n] # "none", Reachable(n)
    PROVE  /\ Its(n) \in ConnAddr /\ conn[Its(n)].m_fd \in Fd
           /\ fds[conn[Its(n)].m_fd] \in Client \cup {Closed, Listening}
  <1>1. arg[n] \in DataAddr /\ data[arg[n]].state = "live" /\ conn[Its(n)].state = "live"
    BY DEF TypeOK, Reachable
  <1>2. NoBlock.state # "live"
    BY DEF NoBlock
  <1>3. data[arg[n]] \in DataBlock
    BY <1>1, <1>2 DEF TypeOK
  <1>4. Its(n) \in ConnAddr
    BY <1>3 DEF Its, DataBlock
  <1>5. conn[Its(n)] \in ConnBlock
    BY <1>1, <1>2, <1>4 DEF TypeOK
  <1>6. conn[Its(n)].m_fd \in Fd
    BY <1>5 DEF ConnBlock
  <1>7. QED
    BY <1>4, <1>6 DEF TypeOK

LEMMA SessionType ==
    ASSUME IInv, NEW n \in Client, Session(n)
    PROVE  TypeOK'
  <1> USE ConstantTypes DEF IInv, TypeOK, WorkerPC, Worker, Runs, memVars, openVars, acceptVars, sessionVars, sharedVars, endVars
  <1>1. CASE ReceiveCall(n)
    <2>1. worker[n] \in {"login", "chat"}
      BY <1>1 DEF ReceiveCall
    <2>2. Its(n) \in ConnAddr /\ fds[conn[Its(n)].m_fd] \in Client \cup {Closed, Listening}
      BY <1>1, <2>1, ReachableTypes DEF ReceiveCall
    <2>3. /\ this' \in [Client -> ConnAddr \cup {NullPtr}] /\ this'[n] \in ConnAddr
          /\ reading' \in [Client -> Client \cup {Closed, Listening}]
          /\ \A k \in Client \ {n} : this'[k] = this[k]
      BY <1>1, <2>2 DEF ReceiveCall
    <2>4. /\ worker' \in [Client -> WorkerPC]
          /\ worker'[n] \in {"reading login", "reading line"}
          /\ \A k \in Client \ {n} : worker'[k] = worker[k]
      BY <1>1, <2>1 DEF ReceiveCall
    <2>5. UNCHANGED <<arg, talkedTo, main, fds, memVars, openVars, acceptVars, sharedVars,
                      endVars>>
      BY <1>1 DEF ReceiveCall
    <2>6. \A k \in Client : worker'[k] = "none" <=> worker[k] = "none"
      BY <2>1, <2>4
    <2>7. QED
      BY <2>3, <2>4, <2>5, <2>6, ZenonT(60)
  <1>2. CASE ReceiveReturn(n)
    <2>1. PICK next \in WorkerPC \ {"none", "reading login", "reading line"} :
            worker' = [worker EXCEPT ![n] = next]
      BY <1>2 DEF ReceiveReturn
    <2>2. worker[n] # "none"
      BY <1>2 DEF ReceiveReturn
    <2>3. talkedTo' \in [Client -> SUBSET Client]
      BY <1>2 DEF ReceiveReturn, Talks
    <2>4. this' = [this EXCEPT ![n] = NullPtr] /\ reading' = [reading EXCEPT ![n] = Closed]
      BY <1>2 DEF ReceiveReturn
    <2>5. UNCHANGED <<arg, main, fds, memVars, openVars, acceptVars, sharedVars, endVars>>
      BY <1>2 DEF ReceiveReturn
    <2>6. \A k \in Client : worker'[k] = "none" <=> worker[k] = "none"
      BY <2>1, <2>2
    <2>7. \A k \in Client :
             worker'[k] \in {"reading login", "reading line"} <=> this'[k] \in ConnAddr
      BY <2>1, <2>4
    <2>8. worker' \in [Client -> WorkerPC]
      BY <2>1
    <2>9. QED
      BY <2>3, <2>4, <2>5, <2>6, <2>7, <2>8, ZenonT(60)
  <1>3. CASE FindRoom(n)
    BY <1>3 DEF FindRoom
  <1>4. CASE RoomFound(n)
    BY <1>4 DEF RoomFound
  <1>5. CASE EnterRoom(n) \/ LeaveRoom(n)
    <2>1. PICK next \in {"in room", "answer"} : worker' = [worker EXCEPT ![n] = next]
      BY <1>5 DEF EnterRoom, LeaveRoom
    <2>2. worker[n] \in {"use", "in room"} /\ room_lock' \in Client \cup {Nobody}
      BY <1>5 DEF EnterRoom, LeaveRoom
    <2>3. UNCHANGED <<m_lock, room, arg, this, reading, talkedTo, main, fds, memVars, openVars,
                      acceptVars, endVars>>
      BY <1>5 DEF EnterRoom, LeaveRoom
    <2>4. /\ worker' \in [Client -> WorkerPC]
          /\ \A m \in Client : worker'[m] # "none" => worker[m] # "none"
          /\ \A m \in Client : worker'[m] \in {"reading login", "reading line"}
                                 <=> worker[m] \in {"reading login", "reading line"}
      BY <2>1, <2>2
    <2>5. QED
      BY <2>2, <2>3, <2>4, ZenonT(60)
  <1>6. CASE Send(n)
    <2>1. PICK next \in {"chat", "answer"} : worker' = [worker EXCEPT ![n] = next]
      BY <1>6 DEF Send
    <2>2. worker[n] \in {"greet", "answer"}
      BY <1>6 DEF Send
    <2>3. talkedTo' \in [Client -> SUBSET Client]
      BY <1>6 DEF Send, Talks
    <2>4. UNCHANGED <<arg, this, reading, main, fds, memVars, openVars, acceptVars, sharedVars,
                      endVars>>
      BY <1>6 DEF Send
    <2>5. /\ worker' \in [Client -> WorkerPC]
          /\ \A m \in Client : worker'[m] # "none" => worker[m] # "none"
          /\ \A m \in Client : worker'[m] \in {"reading login", "reading line"}
                                 <=> worker[m] \in {"reading login", "reading line"}
      BY <2>1, <2>2
    <2>6. /\ main' = main /\ fds' = fds /\ data' = data /\ conn' = conn /\ addrs' = addrs
          /\ m_ssock' = m_ssock /\ connfd' = connfd /\ clientdata' = clientdata
          /\ accepted' = accepted /\ arg' = arg /\ this' = this /\ reading' = reading
          /\ m_lock' = m_lock /\ room_lock' = room_lock /\ room' = room
          /\ status' = status /\ ub' = ub
      BY <2>4
    <2> HIDE ConstantTypes
    <2> HIDE DEF WorkerPC, Worker, Runs, memVars, openVars, acceptVars, sessionVars, sharedVars,
                 endVars
    <2>7. QED
      BY <2>3, <2>5, <2>6, ZenonT(60)
  <1>7. CASE EndChat(n)
    BY <1>7 DEF EndChat, Talks
  <1>8. CASE DeleteRooms(n)
    BY <1>8 DEF DeleteRooms
  <1>9. CASE DeleteArg(n)
    <2>1. arg[n] \in DataAddr /\ data[arg[n]].state = "live"
      BY <1>9 DEF DeleteArg
    <2>2. data[arg[n]] \in DataBlock
      <3>1. NoBlock.state # "live"
        BY DEF NoBlock
      <3>2. QED
        BY <2>1, <3>1
    <2>3. data' \in [DataAddr -> DataBlock \cup {NoBlock}]
      BY <1>9, <2>1, <2>2 DEF DeleteArg, DataBlock
    <2>4. QED
      BY <1>9, <2>3 DEF DeleteArg
  <1>10. CASE WorkerUsesFreed(n)
    BY <1>10 DEF WorkerUsesFreed
  <1>11. QED
    BY <1>1, <1>2, <1>3, <1>4, <1>5, <1>6, <1>7, <1>8, <1>9, <1>10 DEF Session

LEMMA SessionStep ==
    ASSUME IInv, NEW n \in Client, Session(n)
    PROVE  IInv'
  <1> USE SessionFrame DEF memVars, openVars, acceptVars, sessionVars, sharedVars, endVars
  <1>1. TypeOK'
    BY SessionType
  <1>2. Opened'
    BY DEF IInv, Opened, OpenAre, FreeFds
  <1>3. Allocated'
    <2>1. CASE UNCHANGED data
      BY <2>1 DEF IInv, Allocated, NoneLive
    <2>2. ASSUME NEW d \in DataAddr, data[d].state = "live",
                 data' = [data EXCEPT ![d].state = "freed"]
          PROVE  Allocated'
      <3>1. data \in [DataAddr -> DataBlock \cup {NoBlock}]
        BY DEF IInv, TypeOK
      <3>2. data[d] \in DataBlock
        <4>1. NoBlock.state # "live"
          BY DEF NoBlock
        <4>2. QED
          BY <2>2, <3>1, <4>1
      <3>3. /\ \A a \in DataAddr : data'[a].state = "live" => data[a].state = "live"
            /\ \A a \in DataAddr : data[a] \in DataBlock =>
                  data'[a] \in DataBlock /\ data'[a].connection = data[a].connection
        BY <2>2, <3>1, <3>2 DEF DataBlock
      <3>4. data[clientdata] \in DataBlock /\ clientdata \in DataAddr =>
               data'[clientdata].connection = data[clientdata].connection
        BY <3>3
      <3>5. Allocated
        BY DEF IInv
      <3>6. UNCHANGED <<main, clientdata, conn, connfd>>
        OBVIOUS
      <3>7. NoneLive => NoneLive'
        BY <3>3, <3>6 DEF NoneLive
      <3>8. QED
        BY <3>3, <3>4, <3>5, <3>6, <3>7 DEF Allocated
    <2>3. QED
      BY <2>1, <2>2
  <1>4. NotStarted'
    BY DEF IInv, NotStarted, Opened
  <1>5. QED
    BY <1>1, <1>2, <1>3, <1>4 DEF IInv

LEMMA InvStep == IInv /\ [Next]_vars => IInv'
  <1> SUFFICES ASSUME IInv, [Next]_vars PROVE IInv'
    OBVIOUS
  <1>1. CASE UNCHANGED vars
    <2> USE <1>1 DEF vars, memVars, openVars, acceptVars, sessionVars, sharedVars, endVars, IInv
    <2>1. TypeOK'
      BY ZenonT(60) DEF TypeOK
    <2>2. Opened'
      BY DEF Opened, OpenAre, FreeFds
    <2>3. Allocated' /\ NotStarted'
      BY DEF Allocated, NoneLive, NotStarted
    <2>4. QED
      BY <2>1, <2>2, <2>3
  <1>2. CASE Next
    BY <1>2, OpeningStep, ServingStep, EndingStep, SessionStep DEF Next
  <1>3. QED
    BY <1>1, <1>2

THEOREM InvCorrect == Spec => []IInv
  BY InvInit, InvStep, PTL DEF Spec

-----------------------------------------------------------------------------

\* Every variable of the server process always holds a value of its type, and a
\* started worker a pointer (handle_client_requests passes clientdata).
THEOREM TypeCorrect == Spec => []TypeOK
  <1>1. IInv => TypeOK
    BY DEF IInv
  <1>2. QED
    BY <1>1, InvCorrect, PTL

\* However many clients come and whatever fails, main returns to accept with no
\* descriptor and no memory of them, and a server that cannot listen leaves no
\* descriptor open (open_listenfd, handle_client_requests).
THEOREM NothingIsKept == Spec => []NothingKept
  <1>1. IInv => NothingKept
    <2> SUFFICES ASSUME IInv PROVE NothingKept
      OBVIOUS
    <2>1. status = "refused" => FreeFds = Fd
      BY DEF IInv, Opened
    <2>2. ASSUME main \in {"accept", "destroy", "destroy rooms", "unlocked", "return"}
          PROVE  OpenAre({m_ssock}) /\ NoneLive
      BY <2>2 DEF IInv, Opened, Allocated
    <2>3. QED
      BY <2>1, <2>2 DEF NothingKept, OpenAre, NoneLive
  <1>2. QED
    BY <1>1, InvCorrect, PTL

\* The Close of ~Connection never ends the process: the descriptor is open,
\* since no worker closes one (csapp.c:367, connection.cpp:33).
THEOREM CloseSucceeds == Spec => []CloseNeverFails
  <1>1. IInv => CloseNeverFails
    BY DEF IInv, Opened, CloseNeverFails
  <1>2. QED
    BY <1>1, InvCorrect, PTL

-----------------------------------------------------------------------------
(* Who is in the room *)

\* The room's lock is held by who is in the room, and only while the room is there.
RoomInv ==
    /\ \A n \in Client : worker[n] = "in room" <=> room_lock = n
    /\ room_lock # Nobody => room = "live"

\* A step that brings nobody into the room or out of it, and deletes the room only
\* when its lock is free.
OutsideRoom ==
    /\ room_lock' = room_lock
    /\ \A n \in Client : worker'[n] = "in room" <=> worker[n] = "in room"
    /\ room' = room \/ room_lock = Nobody

LEMMA NobodyIsNoClient == Nobody \notin Client
  BY LifetimeAssumption DEF Client, Nobody

LEMMA MainOutsideRoom ==
    ASSUME IInv, Opening \/ Serving \/ Ending
    PROVE  OutsideRoom
  <1> USE DEF OutsideRoom, sessionVars, sharedVars
  <1>1. CASE Opening
    BY <1>1 DEF Opening, GetAddrInfo, Socket, NoAddressWorked, Bind, BindFails, Listen
  <1>2. CASE CreateThread
    <2>1. worker \in [Client -> WorkerPC] /\ worker[accepted] = "none"
      BY <1>2 DEF CreateThread, Main, IInv, TypeOK, NotStarted
    <2>2. UNCHANGED worker \/ worker' = [worker EXCEPT ![accepted] = "login"]
      BY <1>2 DEF CreateThread
    <2>3. \A n \in Client : worker'[n] = "in room" <=> worker[n] = "in room"
      BY <2>1, <2>2
    <2>4. QED
      BY <1>2, <2>3 DEF CreateThread
  <1>3. CASE Accept \/ AcceptFails \/ NewClientData \/ DeleteConnection \/ DeleteClientData
    BY <1>3 DEF Accept, AcceptFails, NewClientData, DeleteConnection, DeleteClientData
  <1>4. CASE Ending
    BY <1>4 DEF Ending, Refuse, LockServer, DeleteServerRooms, DestroyServer, MainReturns,
                MainUsesFreed, MainUndefined
  <1>5. QED
    BY <1>1, <1>2, <1>3, <1>4 DEF Serving

\* Worker n moves on to `next`, neither from nor to the inside of the room.
LEMMA WorkerOutsideRoom ==
    ASSUME TypeOK, NEW n \in Client, NEW label, NEW next, Worker(n, label, next),
           label # "in room", next # "in room"
    PROVE  \A k \in Client : worker'[k] = "in room" <=> worker[k] = "in room"
  BY DEF TypeOK, Worker

LEMMA SessionRoom ==
    ASSUME IInv, RoomInv, NEW n \in Client, Session(n)
    PROVE  RoomInv'
  <1>1. TypeOK /\ worker \in [Client -> WorkerPC] /\ n # Nobody
    BY NobodyIsNoClient DEF IInv, TypeOK
  <1>2. OutsideRoom => RoomInv'
    BY DEF OutsideRoom, RoomInv
  <1>3. CASE EnterRoom(n)
    <2>1. /\ worker' = [worker EXCEPT ![n] = "in room"] /\ room_lock' = n /\ room' = "live"
          /\ room_lock = Nobody
      BY <1>3 DEF EnterRoom, Worker
    <2>2. \A k \in Client : worker[k] # "in room"
      BY <2>1, NobodyIsNoClient DEF RoomInv
    <2>3. \A k \in Client : worker'[k] = "in room" <=> room_lock' = k
      <3>1. CASE room_lock' = n
        BY <1>1, <2>1, <2>2
      <3>2. QED
        BY <2>1, <3>1
    <2>4. QED
      BY <2>1, <2>3 DEF RoomInv
  <1>4. CASE LeaveRoom(n)
    <2>1. /\ worker' = [worker EXCEPT ![n] = "answer"] /\ room_lock' = Nobody
          /\ worker[n] = "in room"
      BY <1>4 DEF LeaveRoom, Worker
    <2>2. \A k \in Client \ {n} : worker[k] # "in room"
      BY <2>1 DEF RoomInv
    <2>3. QED
      BY <1>1, <2>1, <2>2, NobodyIsNoClient DEF RoomInv
  <1>5. CASE ReceiveCall(n) \/ ReceiveReturn(n) \/ Send(n) \/ EndChat(n) \/ DeleteArg(n)
    <2>1. \A k \in Client : worker'[k] = "in room" <=> worker[k] = "in room"
      BY <1>1, <1>5, WorkerOutsideRoom
         DEF ReceiveCall, ReceiveReturn, Send, EndChat, DeleteArg
    <2>2. UNCHANGED sharedVars
      BY <1>5 DEF ReceiveCall, ReceiveReturn, Send, EndChat, DeleteArg
    <2>3. QED
      BY <1>2, <2>1, <2>2 DEF OutsideRoom, sharedVars
  <1>6. CASE FindRoom(n) \/ RoomFound(n) \/ DeleteRooms(n)
    <2>1. \A k \in Client : worker'[k] = "in room" <=> worker[k] = "in room"
      BY <1>1, <1>6, WorkerOutsideRoom DEF FindRoom, RoomFound, DeleteRooms
    <2>2. room_lock' = room_lock /\ (room' = room \/ room_lock = Nobody)
      BY <1>6 DEF FindRoom, RoomFound, DeleteRooms, RoomInv
    <2>3. QED
      BY <1>2, <2>1, <2>2 DEF OutsideRoom
  <1>7. CASE WorkerUsesFreed(n)
    BY <1>2, <1>7 DEF WorkerUsesFreed, OutsideRoom, sessionVars, sharedVars
  <1>8. QED
    BY <1>3, <1>4, <1>5, <1>6, <1>7 DEF Session

LEMMA RoomStep == IInv /\ RoomInv /\ [Next]_vars => RoomInv'
  <1> SUFFICES ASSUME IInv, RoomInv, [Next]_vars PROVE RoomInv'
    OBVIOUS
  <1>1. CASE UNCHANGED vars
    BY <1>1 DEF vars, sessionVars, sharedVars, RoomInv
  <1>2. CASE Opening \/ Serving \/ Ending
    <2>1. OutsideRoom
      BY <1>2, MainOutsideRoom
    <2>2. QED
      BY <2>1 DEF OutsideRoom, RoomInv
  <1>3. CASE \E n \in Client : Session(n)
    BY <1>3, SessionRoom
  <1>4. QED
    BY <1>1, <1>2, <1>3 DEF Next

\* However many clients there are and whenever their sessions end or the server
\* shuts down: who is in a room is there alone, and no ~Room deletes the room
\* before it has left it (room.cpp:22-31; server.cpp:184-186, 213-217).
THEOREM RoomHeldCorrect == Spec => []RoomHeldIsLive
  <1>1. Init => RoomInv
    BY NobodyIsNoClient DEF Init, RoomInv
  <1>2. RoomInv => RoomHeldIsLive
    BY NobodyIsNoClient DEF RoomInv, RoomHeldIsLive
  <1>3. QED
    BY <1>1, <1>2, RoomStep, InvCorrect, PTL DEF Spec
=============================================================================
