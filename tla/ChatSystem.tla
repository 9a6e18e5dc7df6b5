----------------------------- MODULE ChatSystem -----------------------------
(***************************************************************************)
(* hw5/csf_assign05: clients and server together.  Session s of ChatServer *)
(* serves client s of ChatClient: a message that has arrived is handled by *)
(* the action of ChatServer that its tag selects, the response of the      *)
(* worker goes back, and so does what it dequeues for a receiver.  Clients *)
(* may disappear and the server may end at any point.                      *)
(*                                                                         *)
(* ChatServer numbers the texts a session says: text k of session s is the *)
(* one of the k-th line that client s has typed.                           *)
(***************************************************************************)
EXTENDS ChatServer, SequencesExt

CONSTANTS Line, RoomArg, Started        \* of ChatClient

VARIABLES program, at, up, down, listening, typed, heard, printed

Client == INSTANCE ChatClient WITH NameOf <- username

\* Clients can ask for these rooms only; lines and names are texts.
ASSUME SystemAssumption ==
    /\ Client!ClientParameters
    /\ RoomName = {RoomArg[s] : s \in Session} \cup
         {Client!Command(l).data : l \in {k \in Line : Client!Command(k).tag = "join"}}
    /\ \A t \in Line \cup RoomName \cup UserName : t \in Seq(ToSet(t))

systemVars == <<Client!clientVars, vars>>

SystemInit == Client!ClientInit /\ Init

-----------------------------------------------------------------------------
(* Messages from the client *)

Arrived(s, label, tag) ==
    /\ up[s] # <<>> /\ Head(up[s]).tag = tag
    /\ pc[s] = label

\* What the worker does with the first message that has arrived.
Handle(s) ==
    \/ Arrived(s, "login", "slogin") /\ LoginSender(s)
    \/ Arrived(s, "login", "rlogin") /\ LoginReceiver(s)
    \/ Arrived(s, "rjoin", "join") /\ ReceiverJoin(s) /\ data'[s] = Head(up[s]).data
    \/ Arrived(s, "recv", "join") /\ SenderJoin(s) /\ data'[s] = Head(up[s]).data
    \/ Arrived(s, "recv", "leave") /\ SenderLeave(s)
    \/ Arrived(s, "recv", "sendall") /\ SenderSay(s)
    \/ Arrived(s, "recv", "quit") /\ SenderQuit(s)

\* receive fails: the client has gone, and what it sent last has been handled,
\* or was lost because it had not read all that was sent to it.
HandleEnd(s) ==
    /\ at[s] \in Client!Gone
    /\ up[s] = <<>> \/ down[s] # <<>>
    /\ LoginOther(s) \/ ReceiverRefused(s) \/ SenderFails(s)

-----------------------------------------------------------------------------
(* Messages to the client *)

\* room:name:text, as broadcast_message writes it.
BroadcastText(m) ==
    m.room \o <<Client!Colon>> \o username[m.from] \o <<Client!Colon>> \o typed[m.from][m.text]

\* A response, and the line it is the response to; 0 is the login, and quit is
\* a line that ChatServer does not count.
Response(s) ==
    [tag |-> IF reply'[s] \in {"not in a room", "error"} THEN "err" ELSE "ok",
     to  |-> lines'[s] + (IF pc'[s] = "cleanup" THEN 1 ELSE 0)]

\* The step of the worker ends in a send.
Answers(s) == ~ub' /\ pc[s] # "loop" /\ pc'[s] \in {"recv", "rjoin", "loop", "cleanup"}
Delivers(s) == delivered'[s] # delivered[s]

\* Connection::send of the worker; its result is not looked at.
Respond(s) ==
    down' = IF at[s] \in Client!Gone \/ ~(Answers(s) \/ Delivers(s)) THEN down
            ELSE [down EXCEPT ![s] = Append(@,
                    IF Delivers(s)
                    THEN [tag |-> "delivery", data |-> BroadcastText(Head(mqueue[s]))]
                    ELSE Response(s))]

-----------------------------------------------------------------------------

\* The worker of a connected client takes a message, or goes on by itself.
Receive(s) ==
    /\ listening /\ at[s] # "connect"
    /\ \/ Handle(s) /\ up' = [up EXCEPT ![s] = Tail(@)]
       \/ HandleEnd(s) /\ up' = [up EXCEPT ![s] = <<>>]
    /\ Respond(s)
    /\ UNCHANGED <<program, at, listening, typed, heard, printed>>

Work(s) ==
    /\ listening
    /\ WorkerStep(s)
    /\ Respond(s)
    /\ UNCHANGED <<program, at, up, listening, typed, heard, printed>>

\* The server process ends, killed or by what undefined behaviour does.
ServerEnds ==
    /\ listening
    /\ listening' = FALSE
    /\ up' = [s \in Session |-> <<>>]
    /\ UNCHANGED <<program, at, down, typed, heard, printed, vars>>

ClientMoves(s) == (Client!ProgramStep(s) \/ Client!UserStep(s)) /\ UNCHANGED vars

SystemNext == ServerEnds \/ \E s \in Session : Receive(s) \/ Work(s) \/ ClientMoves(s)

SystemSpec == SystemInit /\ [][SystemNext]_systemVars

\* Workers that have something to do, and client programs, keep running.
\* Nobody has to type, and nothing has to fail.
FairSystem ==
    /\ SystemSpec
    /\ \A s \in Session : /\ WF_systemVars(Receive(s) \/ Work(s))
                            /\ WF_systemVars(Client!ProgramStep(s) /\ UNCHANGED vars)

-----------------------------------------------------------------------------
(* Properties *)

\* Every variable of the clients and the connections holds a value of its type.
SystemTypeOK ==
    /\ program \in Started
    /\ at \in [Session -> Client!Running \cup Client!Gone]
    /\ listening \in BOOLEAN
    /\ \A s \in Session :
          /\ \A i \in DOMAIN up[s] : up[s][i].tag \in {"slogin", "rlogin", "join", "leave",
                                                       "sendall", "quit"}
          /\ \A i \in DOMAIN down[s] : down[s][i].tag \in {"ok", "err", "delivery"}
          /\ typed[s] \in Seq(Line) /\ Len(typed[s]) <= MaxLines
          /\ program[s] = "receiver" => typed[s] = <<>> /\ heard[s] = <<>>
          /\ program[s] = "sender" => printed[s] = <<>>

\* A sender never reads the response to its login (sender.cpp:29-31): the one it
\* takes for the response to a line is that to the line before.
OneBehind == \A s \in Session : \A h \in ToSet(heard[s]) : h.response.to = h.line - 1

SessionOver(s) == pc[s] \in {"cleanup", "delete", "done", "refused"}

\* Every command that a worker has read is answered, whatever the other sessions
\* do: nobody keeps m_lock or the lock of a room, and each broadcast ends.
CommandAnswered ==
    \A s \in Session :
        pc[s] \notin {"login", "recv", "rjoin", "loop", "done", "refused"}
            ~> (pc[s] \in {"recv", "loop", "done"} \/ ub \/ ~listening)

\* A sender that waits for a response gets one, whatever the other clients do
\* and whoever of them disappears; only the end of its own session, or an
\* undefined step, can leave it waiting.
LineAnswered ==
    \A s \in Session : at[s] \in {"response", "quit"}
        ~> (at[s] \notin {"response", "quit"} \/ SessionOver(s) \/ ub)

\* The session of a sender whose user has typed /quit ends, also when the
\* client itself takes an older error for the answer and goes on.
QuitEndsSession ==
    \A s \in Session : at[s] = "quit" ~> (SessionOver(s) \/ ub \/ ~listening)

\* What room broadcasts to receiver r is printed by r's client or, once that
\* has gone, still drained from its queue by a session that never ends.
AllPrinted(r) ==
    /\ pc[r] = "loop"
    /\ delivered[r] = Expected(r)
    /\ at[r] \in Client!Gone \/ Len(printed[r]) = Len(delivered[r])

EverythingPrinted ==
    \A r \in Session : pc[r] = "loop" ~> (AllPrinted(r) \/ ub \/ ~listening)

\* What a receiver prints: the messages delivered to it, in their order, each
\* with the text that was typed and the name of who typed it -- when there is
\* no colon in room, name and text.  A text with colons loses its beginning,
\* never its end.
NoColon(s) == ~Contains(s, Client!Colon)

PrintedAsTyped ==
    \A r \in Session : \A i \in DOMAIN printed[r] :
        LET m == delivered[r][i]
            text == typed[m.from][m.text]
        IN  /\ NoColon(m.room) /\ NoColon(username[m.from]) =>
                  /\ IsSuffix(printed[r][i].data, text)
                  /\ IsPrefix(username[m.from], printed[r][i].tag)
            /\ NoColon(m.room) /\ NoColon(username[m.from]) /\ NoColon(text) =>
                  printed[r][i] = [tag |-> username[m.from], data |-> text]
=============================================================================
