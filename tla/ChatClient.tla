----------------------------- MODULE ChatClient -----------------------------
(***************************************************************************)
(* hw5/csf_assign05/sender.cpp and receiver.cpp: the two client programs.  *)
(* Client c is connected to the worker that serves session c by a FIFO     *)
(* channel of messages in each direction, which is what module Connection  *)
(* shows of send and receive.  The user types lines, or kills the program; *)
(* what the server answers is left to the module that composes the two.    *)
(*                                                                         *)
(* Texts are sequences of words in which a blank and a colon are words of  *)
(* their own; what the clients cut up at them is cut up here the same way. *)
(***************************************************************************)
EXTENDS Integers, Sequences, SequencesExt

CONSTANTS Session,     \* a client, and the session that serves it
          Line,        \* the lines a user may type
          MaxLines,    \* bound: lines one user types
          RoomArg,     \* the room each receiver is started with
          NameOf,      \* the user name each client is started with
          Started      \* which program each client may be, [Session -> Program]

Program == {"sender", "receiver"}

\* What a module that instantiates this one has to assume of them.
ClientParameters ==
    /\ Started \subseteq [Session -> Program]
    /\ Session \subseteq DOMAIN RoomArg /\ Session \subseteq DOMAIN NameOf
    /\ MaxLines \in Nat

VARIABLES program,  \* which of the two programs each client is
          at,       \* where each client is
          up,       \* messages on their way to the worker
          down,     \* messages on their way to the client
          listening,\* whether the server's end of the connections is open
          typed,    \* history: the lines the user has typed
          heard,    \* history: what a sender took for the response to which line
          printed   \* history: what a receiver has printed

clientVars == <<program, at, up, down, listening, typed, heard, printed>>

Running == {"connect", "login", "join", "type", "response", "quit", "print"}
Gone    == {"exit0", "killed"}

ClientInit ==
    /\ program \in Started
    /\ at = [c \in Session |-> "connect"]
    /\ up = [c \in Session |-> <<>>]
    /\ down = [c \in Session |-> <<>>]
    /\ listening = TRUE
    /\ typed = [c \in Session |-> <<>>]
    /\ heard = [c \in Session |-> <<>>]
    /\ printed = [c \in Session |-> <<>>]

-----------------------------------------------------------------------------
(* Pure parts: find and substr on texts *)

Blank == " "
Colon == ":"

\* s.find(w) in what is left of s behind place p: the place of the w found, or p
\* itself, because npos + 1 is 0 and substr then cuts nothing off.
Find(s, w, p) ==
    LET later == {i \in (p + 1)..Len(s) : s[i] = w}
    IN  IF later = {} THEN p ELSE Min(later)

\* s.substr(s.find(w) + 1)
After(s, w) == SubSeq(s, Find(s, w, 0) + 1, Len(s))

\* Seeded fault: the first word is the tag.
CommandFirstWord(l) ==
    IF l = <<"/quit">> THEN [tag |-> "quit", data |-> <<"bye">>]
    ELSE IF l = <<>>   THEN [tag |-> "sendall", data |-> l]
    ELSE [tag |-> l[1], data |-> After(l, Blank)]

\* What a sender makes of a line: "/join" and "/leave" count anywhere in it.
Command(l) ==
    IF Contains(l, "/join")       THEN [tag |-> "join", data |-> After(l, Blank)]
    ELSE IF Contains(l, "/leave") THEN [tag |-> "leave", data |-> <<>>]
    ELSE IF l = <<"/quit">>       THEN [tag |-> "quit", data |-> <<"bye">>]
    ELSE                               [tag |-> "sendall", data |-> l]

\* Seeded fault: the room is taken for the name.
ShownRoom(d) ==
    LET first  == Find(d, Colon, 0)
        second == Find(d, Colon, first)
    IN  [tag |-> SubSeq(d, 1, first - 1), data |-> SubSeq(d, second + 1, Len(d))]

\* What a receiver prints of the delivery room:name:text.  It goes on cutting
\* after the text has begun: up to two more parts that end in a colon are
\* dropped, and a third is put behind the name.
Shown(d) ==
    LET first  == Find(d, Colon, 0)
        second == Find(d, Colon, first)
        fourth == Find(d, Colon, Find(d, Colon, second))
        fifth  == Find(d, Colon, fourth)
    IN  [tag  |-> SubSeq(d, first + 1, second - 1) \o SubSeq(d, fourth + 1, fifth),
         data |-> SubSeq(d, fifth + 1, Len(d))]

-----------------------------------------------------------------------------
(* Both programs *)

Goto(c, label) == at' = [at EXCEPT ![c] = label]

\* Connection::send.  Once the server's end is closed what is written is lost;
\* the signal it may bring is Kill.
Send(c, m) == up' = [up EXCEPT ![c] = IF listening THEN Append(@, m) ELSE @]

Connect(c) ==
    /\ at[c] = "connect" /\ listening
    /\ Goto(c, "login")
    /\ UNCHANGED <<program, up, down, listening, typed, heard, printed>>

\* No address of the server answers, and m_fd is negative.  Nothing is sent,
\* a sender's loop is not entered and its close exits with 0; a receiver's
\* first receive fails.
ConnectFails(c) ==
    /\ at[c] = "connect"
    /\ Goto(c, "exit0")
    /\ UNCHANGED <<program, up, down, listening, typed, heard, printed>>

\* The user, or SIGPIPE, which the clients do not ignore.
Kill(c) ==
    /\ at[c] \in Running \ {"connect"}
    /\ Goto(c, "killed")
    /\ UNCHANGED <<program, up, down, listening, typed, heard, printed>>

-----------------------------------------------------------------------------
(* sender.cpp *)

\* Seeded fault, and what would pair responses with lines: the response to the
\* login is read before the first line.
SenderLoginWaits(c) ==
    /\ at[c] = "login" /\ program[c] = "sender"
    /\ Send(c, [tag |-> "slogin", data |-> NameOf[c]])
    /\ Goto(c, "response")
    /\ UNCHANGED <<program, down, listening, typed, heard, printed>>

SenderLogin(c) ==
    /\ at[c] = "login" /\ program[c] = "sender"
    /\ Send(c, [tag |-> "slogin", data |-> NameOf[c]])
    /\ Goto(c, "type")
    /\ UNCHANGED <<program, down, listening, typed, heard, printed>>

\* getline, and the command it makes.  At the end of the input getline leaves
\* an empty line, every time: <<>> is one of the lines.
SenderType(c) ==
    /\ at[c] = "type"
    /\ Len(typed[c]) < MaxLines
    /\ \E l \in Line :
          /\ typed' = [typed EXCEPT ![c] = Append(@, l)]
          /\ Send(c, Command(l))
          /\ Goto(c, IF Command(l).tag = "quit" THEN "quit" ELSE "response")
    /\ UNCHANGED <<program, down, listening, heard, printed>>

Take(c) ==
    /\ down[c] # <<>>
    /\ down' = [down EXCEPT ![c] = Tail(@)]

Heard(c) ==
    heard' = [heard EXCEPT ![c] = Append(@, [line |-> Len(typed[c]), response |-> Head(down[c])])]

\* The response to a line, an error or not: the next line is read.
SenderHear(c) ==
    /\ at[c] = "response"
    /\ Take(c)
    /\ Heard(c)
    /\ Goto(c, "type")
    /\ UNCHANGED <<program, up, listening, typed, printed>>

\* The response to quit: after an error the loop goes on.
SenderHearQuit(c) ==
    /\ at[c] = "quit"
    /\ Take(c)
    /\ Heard(c)
    /\ Goto(c, IF Head(down[c]).tag = "err" THEN "type" ELSE "exit0")
    /\ UNCHANGED <<program, up, listening, typed, printed>>

\* receive fails and is not looked at; the response stays empty, no error.
SenderHearNothing(c) ==
    /\ ~listening
    /\ \/ at[c] = "response" /\ Goto(c, "type")
       \/ at[c] = "quit" /\ Goto(c, "exit0")
    /\ down' = [down EXCEPT ![c] = <<>>]
    /\ UNCHANGED <<program, up, listening, typed, heard, printed>>

-----------------------------------------------------------------------------
(* receiver.cpp *)

ReceiverLogin(c) ==
    /\ at[c] = "login" /\ program[c] = "receiver"
    /\ Send(c, [tag |-> "rlogin", data |-> NameOf[c]])
    /\ Goto(c, "join")
    /\ UNCHANGED <<program, down, listening, typed, heard, printed>>

ReceiverJoin(c) ==
    /\ at[c] = "join"
    /\ Send(c, [tag |-> "join", data |-> RoomArg[c]])
    /\ Goto(c, "print")
    /\ UNCHANGED <<program, down, listening, typed, heard, printed>>

\* A delivery is printed; what else comes, the responses, is skipped.
ReceiverPrint(c) ==
    /\ at[c] = "print"
    /\ Take(c)
    /\ printed' = IF Head(down[c]).tag = "delivery"
                  THEN [printed EXCEPT ![c] = Append(@, Shown(Head(down[c]).data))]
                  ELSE printed
    /\ UNCHANGED <<program, at, up, listening, typed, heard>>

\* receive fails: the program ends.  close(client_fd) closes descriptor 0.
ReceiverEnds(c) ==
    /\ at[c] = "print" /\ ~listening
    /\ Goto(c, "exit0")
    /\ down' = [down EXCEPT ![c] = <<>>]
    /\ UNCHANGED <<program, up, listening, typed, heard, printed>>

\* What the programs do on their own; typing and killing is the user's.
ProgramStep(c) ==
    \/ Connect(c) \/ SenderLogin(c) \/ SenderHear(c) \/ SenderHearQuit(c)
    \/ SenderHearNothing(c) \/ ReceiverLogin(c) \/ ReceiverJoin(c)
    \/ ReceiverPrint(c) \/ ReceiverEnds(c)

UserStep(c) == ConnectFails(c) \/ SenderType(c) \/ Kill(c)
=============================================================================
