----------------------------- MODULE Connection -----------------------------
(***************************************************************************)
(* hw5/csf_assign05: one direction of a connection.  Connection::send      *)
(* writes a message as one line with rio_writen; Connection::receive reads *)
(* a line with rio_readlineb, through the buffer that rio_read refills,    *)
(* and splits it at the first colon (connection.cpp, message.h, the rio    *)
(* functions of csapp.c).  In between is a TCP stream: write takes and     *)
(* read returns any part of what is asked for, EINTR only repeats a call,  *)
(* and a connection that breaks loses what its writer had not written yet. *)
(*                                                                         *)
(* Framing is what the module is about, so bytes are kept, of three kinds: *)
(* the colon, the newline, and the others.                                 *)
(***************************************************************************)
EXTENDS Integers, Sequences, FiniteSets, SequencesExt

CONSTANTS Message,     \* the messages sent, [tag, data] records of byte sequences
          MAXLINE,     \* sizeof(buf): a line is read up to MAXLINE - 1 bytes
          RIO_BUFSIZE, \* bytes one read() can return
          MaxSends     \* bound: messages sent

Colon   == ":"
Newline == "\n"

\* Connection::send: tag + ":" + data + "\n".
Encode(m) == m.tag \o <<Colon>> \o m.data \o <<Newline>>

Has(s, b) == \E i \in DOMAIN s : s[i] = b

\* Messages as the program makes them: two texts, no newline inside, and a tag that
\* has no colon and fits a line.  Nothing enforces MAX_LEN (message.h:11) on the data.
ASSUME ConnectionAssumption ==
    /\ MAXLINE \in Nat \ {0, 1} /\ RIO_BUFSIZE \in Nat \ {0} /\ MaxSends \in Nat
    /\ \A m \in Message : /\ m.tag \in Seq(ToSet(m.tag)) /\ m.data \in Seq(ToSet(m.data))
                          /\ ~Has(m.tag, Colon) /\ ~Has(m.tag, Newline)
                          /\ ~Has(m.data, Newline)
                          /\ Len(m.tag) + 1 < MAXLINE

VARIABLES writer,        \* "idle", "writing", "closed" or "broken"
          out,           \* bufp .. of rio_writen: what is left to write
          stream,        \* bytes written and not read yet
          reader,        \* "idle", "reading" or "stopped"
          rio_buf,       \* rio_bufptr[0 .. rio_cnt-1]
          line,          \* usrbuf[0 .. n-2] of rio_readlineb
          m_last_result, \* of the receiving Connection
          sent,          \* history: messages given to send
          lines,         \* history: lines read by rio_readlineb
          received       \* history: messages returned by receive

vars == <<writer, out, stream, reader, rio_buf, line, m_last_result, sent, lines, received>>
writerVars == <<writer, out, sent>>
readerVars == <<reader, rio_buf, line, m_last_result, lines, received>>

Init ==
    /\ writer = "idle" /\ out = <<>> /\ sent = <<>>
    /\ stream = <<>>
    /\ reader = "idle" /\ rio_buf = <<>> /\ line = <<>>
    /\ m_last_result = "SUCCESS"
    /\ lines = <<>> /\ received = <<>>

-----------------------------------------------------------------------------
(* The sending side *)

Send(m) ==
    /\ writer = "idle"
    /\ Len(sent) < MaxSends
    /\ writer' = "writing"
    /\ out' = Encode(m)
    /\ sent' = Append(sent, m)
    /\ UNCHANGED <<stream, readerVars>>

\* Seeded fault: a short count is taken for the whole.
WriteOnce(n) ==
    /\ writer = "writing"
    /\ stream' = stream \o SubSeq(out, 1, n)
    /\ out' = <<>>
    /\ writer' = "idle"
    /\ UNCHANGED <<sent, readerVars>>

\* One write() of the loop in rio_writen takes n bytes.
Write(n) ==
    /\ writer = "writing"
    /\ stream' = stream \o SubSeq(out, 1, n)
    /\ out' = SubSeq(out, n + 1, Len(out))
    /\ writer' = IF n = Len(out) THEN "idle" ELSE "writing"
    /\ UNCHANGED <<sent, readerVars>>

\* write() fails, or the writing process ends: the rest of the line is lost.
Break ==
    /\ writer = "writing"
    /\ writer' = "broken"
    /\ out' = <<>>
    /\ UNCHANGED <<sent, stream, readerVars>>

\* close, or the end of the process, between two messages.
CloseWriter ==
    /\ writer = "idle"
    /\ writer' = "closed"
    /\ UNCHANGED <<out, sent, stream, readerVars>>

-----------------------------------------------------------------------------
(* The receiving side *)

Receive ==
    /\ reader = "idle"
    /\ reader' = "reading"
    /\ line' = <<>>
    /\ UNCHANGED <<rio_buf, m_last_result, lines, received, stream, writerVars>>

\* rio_readlineb goes on: no newline yet, and room in the buffer.
WantsByte ==
    /\ reader = "reading"
    /\ ~Has(line, Newline)
    /\ Len(line) < MAXLINE - 1

\* Seeded fault: rio_read does not look at what it has already buffered.
RefillAlways(n) ==
    /\ WantsByte
    /\ stream # <<>>
    /\ rio_buf' = SubSeq(stream, 1, n)
    /\ stream' = SubSeq(stream, n + 1, Len(stream))
    /\ UNCHANGED <<reader, line, m_last_result, lines, received, writerVars>>

\* rio_read: the buffer is empty and read() returns n bytes.
Refill(n) ==
    /\ WantsByte
    /\ rio_buf = <<>>
    /\ stream # <<>>
    /\ rio_buf' = SubSeq(stream, 1, n)
    /\ stream' = SubSeq(stream, n + 1, Len(stream))
    /\ UNCHANGED <<reader, line, m_last_result, lines, received, writerVars>>

\* rio_read hands over the next byte.
TakeByte ==
    /\ WantsByte
    /\ rio_buf # <<>>
    /\ line' = Append(line, Head(rio_buf))
    /\ rio_buf' = Tail(rio_buf)
    /\ UNCHANGED <<reader, m_last_result, lines, received, stream, writerVars>>

\* Seeded fault: the split is at the last colon.
bufferToMessageLast(s) ==
    LET colons == {i \in DOMAIN s : s[i] = Colon}
        at == CHOOSE i \in colons : \A j \in colons : j <= i
    IN  IF colons = {}
        THEN [tag |-> s, data |-> SubSeq(s, 1, Len(s) - 1)]
        ELSE [tag |-> SubSeq(s, 1, at - 1), data |-> SubSeq(s, at + 1, Len(s))]

\* find(':'), substr(0, pos) and substr(pos + 1, length - 1).  Without a colon
\* pos is npos, the tag is the whole line, and pos + 1 is 0.
bufferToMessage(s) ==
    LET colons == {i \in DOMAIN s : s[i] = Colon}
        at == CHOOSE i \in colons : \A j \in colons : i <= j
    IN  IF colons = {}
        THEN [tag |-> s, data |-> SubSeq(s, 1, Len(s) - 1)]
        ELSE [tag |-> SubSeq(s, 1, at - 1), data |-> SubSeq(s, at + 1, Len(s))]

\* read() returns 0, or fails: nothing more will come.
AtEnd == WantsByte /\ rio_buf = <<>> /\ stream = <<>> /\ writer \in {"closed", "broken"}

\* rio_readlineb returns a line: it is complete, the buffer is full, or the
\* input ends after some bytes.  receive returns true.
LineRead ==
    /\ reader = "reading"
    /\ ~WantsByte \/ (AtEnd /\ line # <<>>)
    /\ lines' = Append(lines, line)
    /\ received' = Append(received, bufferToMessage(line))
    /\ reader' = "idle"
    /\ UNCHANGED <<rio_buf, line, m_last_result, stream, writerVars>>

\* Seeded fault: the end of the input is read again.
EndUnseen ==
    /\ AtEnd /\ line = <<>>
    /\ reader' = "idle"
    /\ UNCHANGED <<rio_buf, line, m_last_result, lines, received, stream, writerVars>>

\* Seeded fault: m_last_result is not set.
EndSilent ==
    /\ AtEnd /\ line = <<>>
    /\ reader' = "stopped"
    /\ UNCHANGED <<rio_buf, line, m_last_result, lines, received, stream, writerVars>>

\* rio_readlineb returns 0: receive returns false, and its callers stop.
EndSeen ==
    /\ AtEnd /\ line = <<>>
    /\ m_last_result' = "EOF_OR_ERROR"
    /\ reader' = "stopped"
    /\ UNCHANGED <<rio_buf, line, lines, received, stream, writerVars>>

\* read() fails, which only a broken connection makes it do; the bytes that
\* were on their way are lost.
ReadFails ==
    /\ WantsByte
    /\ rio_buf = <<>>
    /\ writer = "broken"
    /\ m_last_result' = "EOF_OR_ERROR"
    /\ reader' = "stopped"
    /\ UNCHANGED <<rio_buf, line, lines, received, stream, writerVars>>

-----------------------------------------------------------------------------

Smaller(a, b) == IF a < b THEN a ELSE b

WriterStep == \E n \in 1..Len(out) : Write(n)

ReaderStep ==
    \/ Receive \/ TakeByte \/ LineRead \/ EndSeen \/ ReadFails
    \/ \E n \in 1..Smaller(RIO_BUFSIZE, Len(stream)) : Refill(n)

Next == WriterStep \/ ReaderStep \/ Break \/ CloseWriter \/ \E m \in Message : Send(m)

Spec == Init /\ [][Next]_vars

\* A send in progress and a loop of receives keep running; nobody has to send
\* or to close.
FairSpec == Spec /\ WF_vars(WriterStep) /\ WF_vars(ReaderStep)

-----------------------------------------------------------------------------
(* Properties *)

Byte == {Colon, Newline} \cup UNION {ToSet(Encode(m)) : m \in Message}

\* Every variable holds a value of its type, buffers do not overflow, and a
\* caller of receive stops just when it is told to.
TypeOK ==
    /\ writer \in {"idle", "writing", "closed", "broken"}
    /\ writer = "writing" <=> out # <<>>
    /\ reader \in {"idle", "reading", "stopped"}
    /\ m_last_result \in {"SUCCESS", "EOF_OR_ERROR"}
    /\ reader = "stopped" <=> m_last_result = "EOF_OR_ERROR"
    /\ out \in Seq(Byte) /\ stream \in Seq(Byte) /\ line \in Seq(Byte)
    /\ rio_buf \in Seq(Byte) /\ Len(rio_buf) <= RIO_BUFSIZE /\ Len(line) < MAXLINE
    /\ sent \in Seq(Message)
    /\ lines \in Seq(Seq(Byte)) /\ Len(received) = Len(lines)

\* What was sent, and where its bytes are: in lines already read, in the line
\* being read, in the read buffer, in the stream, not written yet.
BytesSent   == FlattenSeq([i \in DOMAIN sent |-> Encode(sent[i])])
BytesPlaced == FlattenSeq(lines) \o (IF reader = "idle" THEN <<>> ELSE line)
                 \o rio_buf \o stream \o out

\* Whatever parts write and read take, no byte is lost, duplicated or moved,
\* but for the unwritten end of the last message of a broken connection.
BytesConserved ==
    IF writer = "broken" THEN IsPrefix(BytesPlaced, BytesSent) ELSE BytesPlaced = BytesSent

\* A line of MAXLINE - 1 bytes is all that one receive can return: a longer one
\* comes in pieces, and only its first piece is recognized as a message.
Pieces(s) ==
    [j \in 1..((Len(s) + MAXLINE - 2) \div (MAXLINE - 1)) |->
        SubSeq(s, (j - 1) * (MAXLINE - 1) + 1, Smaller(j * (MAXLINE - 1), Len(s)))]

\* What should be received for m: its tag, and its data followed by the newline,
\* which receive leaves in place; of a long one as much as fits, and then pieces
\* that are taken for messages of their own.
Arrivals(m) ==
    LET whole == Append(m.data, Newline)
        fits  == MAXLINE - 2 - Len(m.tag)
    IN  <<[tag |-> m.tag, data |-> SubSeq(whole, 1, Smaller(fits, Len(whole)))]>>
          \o [j \in 1..(Len(Pieces(Encode(m))) - 1) |->
                 bufferToMessage(Pieces(Encode(m))[j + 1])]

Expected == FlattenSeq([i \in DOMAIN sent |-> Arrivals(sent[i])])

\* Messages arrive in order, each that fits as one message, with its tag and its
\* data; one that does not fit is cut up and leaves the others as they are.  Only
\* the last thing received over a broken connection can be something else.
\*
\* The pieces, which have no colon or a wrong one, and the line that the end of a
\* connection cuts off are returned as messages like the others, with SUCCESS.
\* connection.h:14 and 37-40 say otherwise: m_last_result should indicate that the
\* format of a received message was invalid (INVALID_MSG), or that the end was
\* reached.  receive never sets INVALID_MSG (connection.cpp:60-71).
MessagesIntact ==
    \/ IsPrefix(received, Expected)
    \/ /\ writer = "broken" /\ received # <<>>
       /\ IsPrefix(Front(received), Expected) /\ Len(received) <= Len(Expected)

\* A message that was sent is received, to its end, however its bytes are split.
Ends == SelectSeq(lines, LAMBDA l : Has(l, Newline))

MessageArrives ==
    \A k \in 1..MaxSends : Len(sent) >= k ~> (Len(Ends) >= k \/ writer = "broken")

\* Once the other side has closed or is gone, receive returns EOF_OR_ERROR.
EndNoticed == writer \in {"closed", "broken"} ~> m_last_result = "EOF_OR_ERROR"
=============================================================================
