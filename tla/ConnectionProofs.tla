-------------------------- MODULE ConnectionProofs --------------------------
(***************************************************************************)
(* Proofs about one direction of a connection: whatever parts of a line    *)
(* write takes and read returns, for messages, buffers and lines of every  *)
(* size, the buffers hold what they can hold and no byte is lost, repeated *)
(* or moved.  The invariant IInv adds to the two properties that every     *)
(* line read has become the message that receive returned.  From it and    *)
(* Intact, which compares the lines read with those the bytes sent are cut *)
(* up into, follows that messages arrive as they were sent.                *)
(***************************************************************************)
EXTENDS Connection, SequenceTheorems, Recursion, TLAPS

-----------------------------------------------------------------------------
(* FlattenSeq: one sequence after another *)

LEMMA FlattenNone == FlattenSeq(<<>>) = <<>>
  BY DEF FlattenSeq

\* FlattenSeq is the last value of a function that puts one sequence after another.
LEMMA FlattenUnfolds ==
    ASSUME NEW S, NEW seqs \in Seq(Seq(S)), Len(seqs) >= 1
    PROVE  \E g \in [1..Len(seqs) -> Seq(S)] :
              /\ g[1] = seqs[1]
              /\ \A i \in 2..Len(seqs) : g[i] = g[i - 1] \o seqs[i]
              /\ FlattenSeq(seqs) = g[Len(seqs)]
  <1> DEFINE n == Len(seqs)
             Q == Seq(S)
             next == [i \in Nat |-> [v \in Q |-> IF i \in 1..n THEN v \o seqs[i] ELSE v]]
             Step(g) == [i \in 1..n |-> IF i = 1 THEN seqs[i] ELSE g[i - 1] \o seqs[i]]
             h == CHOOSE g : g = Step(g)
  <1>0. n \in Nat /\ n >= 1 /\ \A i \in 1..n : seqs[i] \in Q
    BY LenProperties, ElementOfSeq
  <1>1. next \in [Nat -> [Q -> Q]]
    <2>1. \A v \in Q, i \in 1..n : v \o seqs[i] \in Q
      BY <1>0
    <2>2. QED
      BY <2>1
  <1>2. PICK f \in [1..n -> Q] : Unfolds(f, seqs[1], next, 1, n)
    <2>1. seqs[1] \in Q
      BY <1>0
    <2> HIDE DEF Q, next, n
    <2> QED
      BY <1>0, <1>1, <2>1, RecursionExists
  <1>3. f[1] = seqs[1] /\ \A i \in 2..n : f[i] = f[i - 1] \o seqs[i]
    <2>1. f[1] = seqs[1]
      BY <1>2 DEF Unfolds
    <2>2. ASSUME NEW i \in 2..n PROVE f[i] = f[i - 1] \o seqs[i]
      <3>0. i - 1 \in 1..n /\ i \in Nat /\ i \in 1..n /\ i \in (1 + 1)..n
        <4> HIDE DEF n
        <4> QED
          BY <1>0
      <3>1. f[i - 1] \in Q
        BY <3>0
      <3>2. f[i] = next[i][f[i - 1]]
        BY <1>2, <3>0 DEF Unfolds
      <3>3. QED
        BY <3>0, <3>1, <3>2
    <2>3. QED
      BY <2>1, <2>2
  <1>4. f = Step(f)
    <2>1. \A i \in 1..n : i # 1 => i \in 2..n
      BY <1>0
    <2>2. QED
      BY <1>3, <2>1
  <1>5. h = Step(h)
    <2> HIDE DEF Step
    <2> QED
      BY <1>4
  <1>6. f = h
    <2> DEFINE Differ == {i \in 1..n : f[i] # h[i]}
    <2>1. Differ \subseteq Nat
      <3> HIDE DEF h, n
      <3> QED
        BY <1>0
    <2>2. SUFFICES ASSUME Differ # {} PROVE FALSE
      <3>1. h = [i \in 1..n |-> h[i]] /\ f = [i \in 1..n |-> f[i]]
        BY <1>4, <1>5
      <3> HIDE DEF h
      <3>2. QED
        BY <3>1
    <2>3. PICK k \in Differ : \A i \in Differ : k <= i
      <3> HIDE DEF Differ
      <3> QED
        BY <2>1, <2>2, Least
    <2> HIDE DEF h
    <2>4. k \in 1..n /\ k # 1
      BY <1>4, <1>5
    <2>5. k - 1 \in 1..n /\ k - 1 \notin Differ
      BY <1>0, <2>3, <2>4
    <2>6. f[k - 1] = h[k - 1]
      BY <2>5
    <2>7. Step(f)[k] = Step(h)[k]
      BY <2>4, <2>6
    <2> HIDE DEF Step
    <2>8. f[k] = Step(f)[k] /\ h[k] = Step(h)[k]
      BY <1>4, <1>5
    <2>9. QED
      BY <2>7, <2>8
  <1>7. FlattenSeq(seqs) = h[n]
    BY <1>0 DEF FlattenSeq
  <1>8. QED
    <2>1. FlattenSeq(seqs) = f[n]
      BY <1>6, <1>7
    <2> HIDE DEF h, Step, next
    <2>2. f \in [1..Len(seqs) -> Seq(S)]
      BY <1>2
    <2>3. QED
      BY <1>3, <2>1, <2>2

LEMMA FlattenType ==
    ASSUME NEW S, NEW seqs \in Seq(Seq(S))
    PROVE  FlattenSeq(seqs) \in Seq(S)
  <1>1. CASE seqs = <<>>
    BY <1>1, FlattenNone, EmptySeq
  <1>2. CASE seqs # <<>>
    <2>1. Len(seqs) \in Nat /\ Len(seqs) >= 1
      BY <1>2, EmptySeq
    <2>2. PICK g \in [1..Len(seqs) -> Seq(S)] :
              /\ g[1] = seqs[1]
              /\ \A i \in 2..Len(seqs) : g[i] = g[i - 1] \o seqs[i]
              /\ FlattenSeq(seqs) = g[Len(seqs)]
      BY <2>1, FlattenUnfolds
    <2>3. Len(seqs) \in 1..Len(seqs)
      BY <2>1
    <2>4. QED
      BY <2>2, <2>3
  <1>3. QED
    BY <1>1, <1>2

\* One more sequence comes at the end.
LEMMA FlattenMore ==
    ASSUME NEW S, NEW seqs \in Seq(Seq(S)), NEW s \in Seq(S)
    PROVE  FlattenSeq(Append(seqs, s)) = FlattenSeq(seqs) \o s
  <1> DEFINE n == Len(seqs)
             more == Append(seqs, s)
  <1>1. /\ n \in Nat /\ Len(more) = n + 1 /\ more \in Seq(Seq(S))
        /\ \A i \in 1..n : more[i] = seqs[i]
        /\ more[n + 1] = s
    BY LenProperties, AppendProperties
  <1> HIDE DEF n, more
  <1>2. PICK g \in [1..Len(more) -> Seq(S)] :
              /\ g[1] = more[1]
              /\ \A i \in 2..Len(more) : g[i] = g[i - 1] \o more[i]
              /\ FlattenSeq(more) = g[Len(more)]
    <2>1. Len(more) >= 1
      BY <1>1
    <2>2. QED
      BY <1>1, <2>1, FlattenUnfolds
  <1>3. CASE n = 0
    <2>1. seqs = <<>> /\ FlattenSeq(seqs) = <<>>
      BY <1>3, EmptySeq, FlattenNone DEF n
    <2>2. <<>> \o s = s
      BY ConcatEmptySeq
    <2>3. QED
      BY <1>1, <1>2, <1>3, <2>1, <2>2 DEF more
  <1>4. CASE n # 0
    <2>1. n >= 1
      BY <1>1, <1>4
    <2>2. PICK f \in [1..n -> Seq(S)] :
              /\ f[1] = seqs[1]
              /\ \A i \in 2..n : f[i] = f[i - 1] \o seqs[i]
              /\ FlattenSeq(seqs) = f[n]
      BY <2>1, FlattenUnfolds DEF n
    <2> DEFINE Differ == {i \in 1..n : f[i] # g[i]}
    <2>A. g[n + 1] = g[n] \o s
      <3>1. n + 1 \in 2..Len(more) /\ (n + 1) - 1 = n
        BY <1>1, <2>1
      <3>2. g[n + 1] = g[(n + 1) - 1] \o more[n + 1]
        BY <1>2, <3>1
      <3>3. QED
        BY <1>1, <3>1, <3>2
    <2>3. ASSUME Differ # {} PROVE FALSE
      <3>1. PICK k \in Differ : \A i \in Differ : k <= i
        <4>1. Differ \subseteq Nat
          BY <1>1
        <4> HIDE DEF Differ
        <4>2. QED
          BY <2>3, <4>1, Least
      <3>2. k \in 1..n /\ k # 1
        BY <1>1, <1>2, <2>2, <2>1
      <3>3. k - 1 \in 1..n /\ k - 1 \notin Differ
        BY <1>1, <3>1, <3>2
      <3>4. f[k - 1] = g[k - 1]
        BY <3>3
      <3>5. k \in 2..n /\ k \in 2..Len(more) /\ more[k] = seqs[k]
        BY <1>1, <3>2
      <3>6. f[k] = f[k - 1] \o seqs[k] /\ g[k] = g[k - 1] \o more[k]
        BY <1>2, <2>2, <3>5
      <3>7. QED
        BY <3>4, <3>5, <3>6
    <2>4. n \in 1..n /\ n \notin Differ
      <3>1. n \in 1..n
        BY <1>1, <2>1
      <3> HIDE DEF Differ
      <3>2. QED
        BY <2>3, <3>1
    <2>5. f[n] = g[n]
      BY <2>4
    <2>6. QED
      BY <1>1, <1>2, <2>2, <2>A, <2>5 DEF more
  <1>5. QED
    BY <1>3, <1>4

-----------------------------------------------------------------------------
(* Bytes *)

\* The bytes of a message are bytes.
LEMMA EncodeType ==
    ASSUME NEW m \in Message
    PROVE  /\ Encode(m) \in Seq(Byte) /\ Encode(m) # <<>>
           /\ m.tag \in Seq(Byte) /\ m.data \in Seq(Byte)
  <1> DEFINE e == Encode(m)
             T == ToSet(m.tag) \cup ToSet(m.data) \cup {Colon, Newline}
  <1>1. m.tag \in Seq(ToSet(m.tag)) /\ m.data \in Seq(ToSet(m.data))
    BY ConnectionAssumption
  <1>2. /\ m.tag \in Seq(T) /\ m.data \in Seq(T)
        /\ <<Colon>> \in Seq(T) /\ <<Newline>> \in Seq(T)
    <2>1. /\ ToSet(m.tag) \subseteq T /\ ToSet(m.data) \subseteq T
          /\ Colon \in T /\ Newline \in T
      OBVIOUS
    <2> HIDE DEF T
    <2>2. m.tag \in Seq(T) /\ m.data \in Seq(T)
      BY <1>1, <2>1, SeqMonotonic
    <2>3. QED
      BY <2>1, <2>2
  <1> DEFINE t == m.tag
             d == m.data
  <1>3. e = ((t \o <<Colon>>) \o d) \o <<Newline>>
    BY DEF Encode
  <1>4. t \in Seq(T) /\ d \in Seq(T)
    BY <1>2
  <1> HIDE DEF t, d, T, e
  <1>5. /\ e \in Seq(T) /\ e # <<>>
        /\ Len(e) = Len(t) + Len(d) + 2 /\ Len(t) \in Nat /\ Len(d) \in Nat
        /\ \A i \in 1..Len(t) : e[i] = t[i]
        /\ \A i \in 1..Len(d) : e[Len(t) + 1 + i] = d[i]
    <2>1. t \o <<Colon>> \in Seq(T) /\ Len(t \o <<Colon>>) = Len(t) + 1
      BY <1>2, <1>4
    <2>2. /\ (t \o <<Colon>>) \o d \in Seq(T)
          /\ Len((t \o <<Colon>>) \o d) = Len(t) + 1 + Len(d)
      BY <1>2, <1>4, <2>1
    <2>3. QED
      BY <1>2, <1>3, <1>4, <2>1, <2>2
  <1>6. DOMAIN e = 1..Len(e) /\ DOMAIN t = 1..Len(t) /\ DOMAIN d = 1..Len(d)
    BY <1>4, <1>5
  <1>7. \A i \in DOMAIN e : e[i] \in Byte
    BY DEF Byte, ToSet, e
  <1>8. e \in Seq(Byte)
    BY <1>5, <1>6, <1>7
  <1>9. ASSUME NEW i \in 1..Len(t) PROVE t[i] \in Byte
    BY <1>5, <1>6, <1>7
  <1>10. ASSUME NEW i \in 1..Len(d) PROVE d[i] \in Byte
    <2>1. Len(t) + 1 + i \in DOMAIN e
      BY <1>5, <1>6
    <2>2. QED
      BY <1>5, <1>7, <2>1
  <1>11. t \in Seq(Byte) /\ d \in Seq(Byte)
    BY <1>4, <1>9, <1>10
  <1>12. QED
    BY <1>5, <1>8, <1>11 DEF e, t, d

\* Encodings of the messages sent so far.
Encoded == [i \in DOMAIN sent |-> Encode(sent[i])]

LEMMA EncodedType ==
    ASSUME sent \in Seq(Message)
    PROVE  Encoded \in Seq(Seq(Byte)) /\ Len(Encoded) = Len(sent)
  <1>1. DOMAIN sent = 1..Len(sent) /\ Len(sent) \in Nat
    BY LenProperties
  <1>2. \A i \in 1..Len(sent) : Encode(sent[i]) \in Seq(Byte)
    BY ElementOfSeq, EncodeType
  <1>3. Encoded \in [1..Len(sent) -> Seq(Byte)]
    BY <1>1, <1>2 DEF Encoded
  <1>4. QED
    BY <1>1, <1>3

LEMMA EncodedMore ==
    ASSUME sent \in Seq(Message), NEW m \in Message, sent' = Append(sent, m)
    PROVE  Encoded' = Append(Encoded, Encode(m))
  <1>1. /\ DOMAIN sent' = 1..(Len(sent) + 1) /\ Len(sent) \in Nat
        /\ DOMAIN sent = 1..Len(sent)
        /\ \A i \in 1..Len(sent) : sent'[i] = sent[i]
        /\ sent'[Len(sent) + 1] = m
    BY AppendProperties, LenProperties
  <1>2. /\ Encoded \in Seq(Seq(Byte)) /\ Len(Encoded) = Len(sent)
        /\ Encode(m) \in Seq(Byte)
    BY EncodedType, EncodeType
  <1> DEFINE e == Encode(m)
             k == Encoded
             k2 == Encoded'
  <1>3. k2 = [i \in 1..(Len(sent) + 1) |-> IF i = Len(sent) + 1 THEN e ELSE k[i]]
    <2>1. k2 = [i \in DOMAIN sent' |-> Encode(sent'[i])]
      BY DEF Encoded
    <2>2. \A i \in DOMAIN sent' :
             Encode(sent'[i]) = IF i = Len(sent) + 1 THEN e ELSE k[i]
      BY <1>1 DEF Encoded
    <2> HIDE DEF k, k2, e
    <2>3. QED
      BY <1>1, <2>1, <2>2
  <1> HIDE DEF e, k, k2
  <1>4. k \in Seq(Seq(Byte)) /\ Len(k) = Len(sent) /\ e \in Seq(Byte)
    BY <1>2 DEF e, k
  <1>5. k2 = Append(k, e)
    <2>1. k2 \in [1..(Len(sent) + 1) -> Seq(Byte)]
      BY <1>1, <1>3, <1>4
    <2>2. /\ Append(k, e) \in Seq(Seq(Byte)) /\ Len(Append(k, e)) = Len(sent) + 1
          /\ \A i \in 1..Len(sent) : Append(k, e)[i] = k[i]
          /\ Append(k, e)[Len(sent) + 1] = e
      BY <1>4, AppendProperties
    <2>3. Append(k, e) \in [1..(Len(sent) + 1) -> Seq(Byte)]
      BY <2>2, LenProperties
    <2>4. \A i \in 1..(Len(sent) + 1) : k2[i] = Append(k, e)[i]
      BY <1>1, <1>3, <2>2
    <2>5. QED
      BY <2>1, <2>3, <2>4
  <1>6. QED
    BY <1>5 DEF k, k2, e

LEMMA BytesSentMore ==
    ASSUME sent \in Seq(Message), NEW m \in Message, sent' = Append(sent, m)
    PROVE  BytesSent' = BytesSent \o Encode(m)
  <1>1. BytesSent = FlattenSeq(Encoded)
    BY DEF BytesSent, Encoded
  <1>2. BytesSent' = FlattenSeq(Encoded')
    BY DEF BytesSent, Encoded
  <1>3. Encoded' = Append(Encoded, Encode(m))
    BY EncodedMore
  <1>4. FlattenSeq(Append(Encoded, Encode(m))) = FlattenSeq(Encoded) \o Encode(m)
    BY EncodedType, EncodeType, FlattenMore
  <1>5. QED
    BY <1>1, <1>2, <1>3, <1>4

-----------------------------------------------------------------------------
(* Types *)

\* What a line is taken for.
Reading == {bufferToMessage(l) : l \in Seq(Byte)}

\* Every line read has become the message that was returned.
Parsed ==
    /\ received \in Seq(Reading) /\ Len(received) = Len(lines)
    /\ \A i \in 1..Len(lines) : received[i] = bufferToMessage(lines[i])

IInv == TypeOK /\ Parsed /\ BytesConserved

LEMMA NextCases ==
    ASSUME Next
    PROVE  \/ \E m \in Message : Send(m)
           \/ \E n \in 1..Len(out) : Write(n)
           \/ Break \/ CloseWriter
           \/ Receive \/ TakeByte \/ LineRead \/ EndSeen \/ ReadFails
           \/ \E n \in 1..Smaller(RIO_BUFSIZE, Len(stream)) : Refill(n)
  BY DEF Next, WriterStep, ReaderStep

\* Taking n bytes off the front of a sequence.
LEMMA Split ==
    ASSUME NEW S, NEW s \in Seq(S), NEW n \in 1..Len(s)
    PROVE  /\ SubSeq(s, 1, n) \in Seq(S) /\ Len(SubSeq(s, 1, n)) = n
           /\ SubSeq(s, n + 1, Len(s)) \in Seq(S)
           /\ Len(SubSeq(s, n + 1, Len(s))) = Len(s) - n
           /\ SubSeq(s, 1, n) \o SubSeq(s, n + 1, Len(s)) = s
  <1>1. Len(s) \in Nat /\ \A i \in 1..Len(s) : s[i] \in S
    BY LenProperties, ElementOfSeq
  <1>2. /\ SubSeq(s, 1, n) \in Seq(S) /\ Len(SubSeq(s, 1, n)) = n
    BY <1>1, SubSeqProperties
  <1>3. /\ SubSeq(s, n + 1, Len(s)) \in Seq(S)
        /\ Len(SubSeq(s, n + 1, Len(s))) = Len(s) - n
    BY <1>1, SubSeqProperties
  <1>4. SubSeq(s, 1, n) \o SubSeq(s, n + 1, Len(s)) = SubSeq(s, 1, Len(s))
    BY <1>1, ConcatAdjacentSubSeq
  <1>5. QED
    BY <1>2, <1>3, <1>4, SubSeqFull

LEMMA TypeInit == Init => TypeOK /\ Parsed
  <1> SUFFICES ASSUME Init PROVE TypeOK /\ Parsed
    OBVIOUS
  <1>1. /\ <<>> \in Seq(Byte) /\ <<>> \in Seq(Message) /\ <<>> \in Seq(Seq(Byte))
        /\ <<>> \in Seq(Reading) /\ Len(<<>>) = 0
    BY EmptySeq
  <1>2. QED
    BY <1>1, ConnectionAssumption DEF Init, TypeOK, Parsed

LEMMA TypeStep ==
    ASSUME TypeOK, Parsed, Next
    PROVE  TypeOK' /\ Parsed'
  <1> USE DEF writerVars, readerVars
  <1>P. ASSUME UNCHANGED <<lines, received>> PROVE Parsed'
    BY <1>P DEF Parsed
  <1>1. ASSUME NEW m \in Message, Send(m) PROVE TypeOK' /\ Parsed'
    <2>1. out' \in Seq(Byte) /\ out' # <<>>
      BY <1>1, EncodeType DEF Send
    <2>2. sent' \in Seq(Message)
      BY <1>1, AppendProperties DEF Send, TypeOK
    <2>3. QED
      BY <1>1, <1>P, <2>1, <2>2 DEF Send, TypeOK
  <1>2. ASSUME NEW n \in 1..Len(out), Write(n) PROVE TypeOK' /\ Parsed'
    <2>1. out \in Seq(Byte) /\ stream \in Seq(Byte)
      BY DEF TypeOK
    <2>2. /\ stream' \in Seq(Byte) /\ out' \in Seq(Byte)
          /\ Len(out') = Len(out) - n
      BY <1>2, <2>1, Split, ConcatProperties DEF Write
    <2>3. writer' = "writing" <=> out' # <<>>
      <3>1. out' # <<>> <=> n # Len(out)
        BY <2>1, <2>2, LenProperties, EmptySeq
      <3>2. QED
        BY <1>2, <3>1 DEF Write
    <2>4. writer' \in {"idle", "writing", "closed", "broken"}
      BY <1>2 DEF Write
    <2>5. QED
      BY <1>2, <1>P, <2>2, <2>3, <2>4 DEF Write, TypeOK
  <1>3. ASSUME Break PROVE TypeOK' /\ Parsed'
    BY <1>3, <1>P, EmptySeq DEF Break, TypeOK
  <1>4. ASSUME CloseWriter PROVE TypeOK' /\ Parsed'
    BY <1>4, <1>P DEF CloseWriter, TypeOK
  <1>5. ASSUME Receive PROVE TypeOK' /\ Parsed'
    BY <1>5, <1>P, EmptySeq, ConnectionAssumption DEF Receive, TypeOK
  <1>6. ASSUME TakeByte PROVE TypeOK' /\ Parsed'
    <2>1. rio_buf \in Seq(Byte) /\ line \in Seq(Byte) /\ rio_buf # <<>>
      BY <1>6 DEF TakeByte, TypeOK
    <2>2. /\ Head(rio_buf) \in Byte /\ rio_buf' \in Seq(Byte)
          /\ Len(rio_buf') = Len(rio_buf) - 1
      BY <1>6, <2>1, HeadTailProperties DEF TakeByte
    <2>3. line' \in Seq(Byte) /\ Len(line') = Len(line) + 1
      BY <1>6, <2>1, <2>2, AppendProperties DEF TakeByte
    <2>4. Len(line') < MAXLINE /\ Len(rio_buf') <= RIO_BUFSIZE
      <3>1. Len(line) \in Nat /\ Len(rio_buf) \in Nat
        BY <2>1, LenProperties
      <3>2. QED
        BY <1>6, <2>2, <2>3, <3>1, ConnectionAssumption DEF TakeByte, WantsByte, TypeOK
    <2>5. QED
      BY <1>6, <1>P, <2>2, <2>3, <2>4 DEF TakeByte, TypeOK
  <1>7. ASSUME LineRead PROVE TypeOK' /\ Parsed'
    <2>1. line \in Seq(Byte) /\ lines \in Seq(Seq(Byte)) /\ received \in Seq(Reading)
      BY DEF TypeOK, Parsed
    <2>2. bufferToMessage(line) \in Reading
      BY <2>1 DEF Reading
    <2>3. lines' = Append(lines, line) /\ received' = Append(received, bufferToMessage(line))
      BY <1>7 DEF LineRead
    <2>4. /\ lines' \in Seq(Seq(Byte)) /\ Len(lines') = Len(lines) + 1
          /\ \A i \in 1..Len(lines) : lines'[i] = lines[i]
          /\ lines'[Len(lines) + 1] = line
      BY <2>1, <2>3, AppendProperties
    <2>5. /\ received' \in Seq(Reading) /\ Len(received') = Len(received) + 1
          /\ \A i \in 1..Len(received) : received'[i] = received[i]
          /\ received'[Len(received) + 1] = bufferToMessage(line)
      BY <2>1, <2>2, <2>3, AppendProperties
    <2>6. Len(lines) \in Nat /\ Len(received) = Len(lines)
      BY <2>1, LenProperties DEF Parsed
    <2>7. Parsed'
      <3>1. ASSUME NEW i \in 1..(Len(lines) + 1)
            PROVE  received'[i] = bufferToMessage(lines'[i])
        <4>1. CASE i = Len(lines) + 1
          BY <2>4, <2>5, <2>6, <4>1
        <4>2. CASE i # Len(lines) + 1
          <5>1. i \in 1..Len(lines)
            BY <2>6, <4>2
          <5>2. QED
            BY <2>4, <2>5, <2>6, <5>1 DEF Parsed
        <4>3. QED
          BY <4>1, <4>2
      <3>2. QED
        BY <2>4, <2>5, <2>6, <3>1 DEF Parsed
    <2>8. TypeOK'
      BY <1>7, <2>4, <2>5, <2>6 DEF LineRead, TypeOK
    <2>9. QED
      BY <2>7, <2>8
  <1>8. ASSUME EndSeen PROVE TypeOK' /\ Parsed'
    BY <1>8, <1>P DEF EndSeen, TypeOK
  <1>9. ASSUME ReadFails PROVE TypeOK' /\ Parsed'
    BY <1>9, <1>P DEF ReadFails, TypeOK
  <1>10. ASSUME NEW n \in 1..Smaller(RIO_BUFSIZE, Len(stream)), Refill(n)
         PROVE  TypeOK' /\ Parsed'
    <2>1. stream \in Seq(Byte) /\ Len(stream) \in Nat
      BY LenProperties DEF TypeOK
    <2>2. n \in 1..Len(stream) /\ n <= RIO_BUFSIZE
      BY <2>1, ConnectionAssumption DEF Smaller
    <2>3. /\ rio_buf' \in Seq(Byte) /\ Len(rio_buf') = n
          /\ stream' \in Seq(Byte)
      BY <1>10, <2>1, <2>2, Split DEF Refill
    <2>4. QED
      BY <1>10, <1>P, <2>2, <2>3 DEF Refill, TypeOK
  <1>11. QED
    BY NextCases, <1>1, <1>2, <1>3, <1>4, <1>5, <1>6, <1>7, <1>8, <1>9, <1>10

-----------------------------------------------------------------------------
(* No byte is lost *)

\* The line being read.
Held == IF reader = "idle" THEN <<>> ELSE line

LEMMA PlacedType ==
    ASSUME TypeOK
    PROVE  /\ FlattenSeq(lines) \in Seq(Byte) /\ Held \in Seq(Byte)
           /\ rio_buf \in Seq(Byte) /\ stream \in Seq(Byte) /\ out \in Seq(Byte)
           /\ BytesPlaced \in Seq(Byte) /\ BytesSent \in Seq(Byte)
           /\ BytesPlaced = (((FlattenSeq(lines) \o Held) \o rio_buf) \o stream) \o out
  <1>1. /\ FlattenSeq(lines) \in Seq(Byte) /\ Held \in Seq(Byte)
        /\ rio_buf \in Seq(Byte) /\ stream \in Seq(Byte) /\ out \in Seq(Byte)
    BY FlattenType, EmptySeq DEF TypeOK, Held
  <1>2. BytesPlaced = (((FlattenSeq(lines) \o Held) \o rio_buf) \o stream) \o out
    BY DEF BytesPlaced, Held
  <1>3. BytesPlaced \in Seq(Byte)
    BY <1>1, <1>2, ConcatProperties
  <1>4. BytesSent \in Seq(Byte)
    <2>1. BytesSent = FlattenSeq(Encoded)
      BY DEF BytesSent, Encoded
    <2>2. QED
      BY <2>1, EncodedType, FlattenType DEF TypeOK
  <1>5. QED
    BY <1>1, <1>2, <1>3, <1>4

\* Where the parentheses are does not matter.
LEMMA Regroup ==
    ASSUME NEW a \in Seq(Byte), NEW b \in Seq(Byte), NEW c \in Seq(Byte)
    PROVE  (a \o b) \o c = a \o (b \o c)
  BY ConcatAssociative

LEMMA HeadMoved ==
    ASSUME NEW f \in Seq(Byte), NEW h \in Seq(Byte), NEW r \in Seq(Byte), r # <<>>
    PROVE  (f \o Append(h, Head(r))) \o Tail(r) = (f \o h) \o r
  <1>1. Head(r) \in Byte /\ Tail(r) \in Seq(Byte) /\ <<Head(r)>> \o Tail(r) = r
    OBVIOUS
  <1> DEFINE x == <<Head(r)>>
             y == Tail(r)
  <1>2. x \in Seq(Byte) /\ y \in Seq(Byte) /\ x \o y = r
    BY <1>1
  <1>3. Append(h, Head(r)) = h \o x
    BY <1>1, AppendIsConcat
  <1> HIDE DEF x
  <1>4. (f \o h) \o x = f \o (h \o x)
    BY <1>2, Regroup
  <1>5. ((f \o h) \o x) \o y = (f \o h) \o (x \o y)
    <2>1. f \o h \in Seq(Byte)
      OBVIOUS
    <2>2. QED
      BY <1>2, <2>1, Regroup
  <1>6. QED
    BY <1>2, <1>3, <1>4, <1>5

LEMMA FrontMoved ==
    ASSUME NEW a \in Seq(Byte), NEW s \in Seq(Byte), NEW o \in Seq(Byte),
           NEW n \in 1..Len(o)
    PROVE  (a \o (s \o SubSeq(o, 1, n))) \o SubSeq(o, n + 1, Len(o)) = (a \o s) \o o
  <1> DEFINE x == SubSeq(o, 1, n)
             y == SubSeq(o, n + 1, Len(o))
  <1>1. x \in Seq(Byte) /\ y \in Seq(Byte) /\ x \o y = o
    BY Split
  <1> HIDE DEF x, y
  <1>2. (a \o s) \o x = a \o (s \o x)
    <2>1. x \in Seq(Byte)
      BY <1>1
    <2>2. QED
      BY <2>1, Regroup
  <1>3. ((a \o s) \o x) \o y = (a \o s) \o (x \o y)
    <2>1. a \o s \in Seq(Byte)
      OBVIOUS
    <2>2. QED
      BY <1>1, <2>1, Regroup
  <1>4. (a \o (s \o x)) \o y = (a \o s) \o o
    BY <1>1, <1>2, <1>3
  <1>5. QED
    BY <1>4 DEF x, y

LEMMA PrefixOfConcat ==
    ASSUME NEW S, NEW a \in Seq(S), NEW b \in Seq(S)
    PROVE  IsPrefix(a, a \o b) /\ IsPrefix(a, a)
  <1>1. /\ a \o b \in Seq(S) /\ Len(a \o b) = Len(a) + Len(b)
        /\ Len(a) \in Nat /\ Len(b) \in Nat
        /\ \A i \in 1..Len(a) : (a \o b)[i] = a[i] /\ a[i] \in S
    BY ConcatProperties, LenProperties, ElementOfSeq
  <1>2. SubSeq(a, 1, Len(a)) = SubSeq(a \o b, 1, Len(a))
    <2> DEFINE c == a \o b
    <2>1. /\ \A i \in 1..Len(a) : c[i] \in S /\ c[i] = a[i]
          /\ Len(a) \in Nat
      BY <1>1
    <2> HIDE DEF c
    <2>2. /\ SubSeq(c, 1, Len(a)) \in Seq(S) /\ SubSeq(a, 1, Len(a)) \in Seq(S)
          /\ Len(SubSeq(c, 1, Len(a))) = Len(a) /\ Len(SubSeq(a, 1, Len(a))) = Len(a)
          /\ \A i \in 1..Len(a) : SubSeq(c, 1, Len(a))[i] = SubSeq(a, 1, Len(a))[i]
      BY <2>1, SubSeqProperties
    <2>3. SubSeq(a, 1, Len(a)) = SubSeq(c, 1, Len(a))
      BY <2>2, SeqEqual
    <2>4. QED
      BY <2>3 DEF c
  <1>3. QED
    BY <1>1, <1>2 DEF IsPrefix

\* Steps that only move bytes on.
LEMMA BytesMoved ==
    ASSUME BytesConserved, BytesPlaced' = BytesPlaced, UNCHANGED sent,
           writer' = "broken" <=> writer = "broken"
    PROVE  BytesConserved'
  <1>1. BytesSent' = BytesSent
    BY DEF BytesSent
  <1>2. QED
    BY <1>1 DEF BytesConserved

LEMMA ConservedInit == Init => BytesConserved
  <1> SUFFICES ASSUME Init PROVE BytesConserved
    OBVIOUS
  <1>1. Encoded = <<>>
    BY DEF Init, Encoded
  <1>2. BytesSent = <<>>
    BY <1>1, FlattenNone DEF BytesSent, Encoded
  <1>3. BytesPlaced = (((<<>> \o <<>>) \o <<>>) \o <<>>) \o <<>>
    BY FlattenNone DEF Init, BytesPlaced
  <1>4. <<>> \o <<>> = <<>>
    BY EmptySeq, ConcatEmptySeq
  <1>5. QED
    BY <1>2, <1>3, <1>4 DEF Init, BytesConserved

LEMMA ConservedStep ==
    ASSUME TypeOK, TypeOK', BytesConserved, Next
    PROVE  BytesConserved'
  <1> USE DEF writerVars, readerVars
  <1> DEFINE f == FlattenSeq(lines)
             h == Held
             r == rio_buf
             s == stream
             o == out
  <1>T. /\ f \in Seq(Byte) /\ h \in Seq(Byte) /\ r \in Seq(Byte) /\ s \in Seq(Byte)
        /\ o \in Seq(Byte)
        /\ BytesPlaced = (((f \o h) \o r) \o s) \o o
    BY PlacedType
  <1>S. /\ f \in Seq(Byte) /\ h \in Seq(Byte) /\ r \in Seq(Byte) /\ s \in Seq(Byte)
        /\ o \in Seq(Byte)
    BY <1>T
  <1>N. BytesPlaced' = (((FlattenSeq(lines') \o Held') \o rio_buf') \o stream') \o out'
    BY DEF BytesPlaced, Held
  <1>E. /\ <<>> \in Seq(Byte)
        /\ \A q \in Seq(Byte) : q \o <<>> = q /\ <<>> \o q = q
    BY EmptySeq, ConcatEmptySeq
  <1>H. UNCHANGED <<reader, line>> => Held' = h
    BY DEF Held
  <1>1. ASSUME NEW m \in Message, Send(m) PROVE BytesConserved'
    <2>1. writer # "broken" /\ writer' # "broken" /\ out = <<>>
      BY <1>1 DEF Send, TypeOK
    <2>2. /\ FlattenSeq(lines') = f /\ Held' = h /\ rio_buf' = r /\ stream' = s
          /\ out' = Encode(m)
      BY <1>1, <1>H DEF Send
    <2>3. BytesSent' = BytesSent \o Encode(m)
      BY <1>1, BytesSentMore DEF Send, TypeOK
    <2>4. BytesPlaced = ((f \o h) \o r) \o s
      <3> HIDE DEF f, h, r, s
      <3>1. ((f \o h) \o r) \o s \in Seq(Byte)
        BY <1>T
      <3>2. QED
        BY <1>T, <1>E, <2>1, <3>1
    <2>5. BytesPlaced' = BytesPlaced \o Encode(m)
      BY <1>N, <2>2, <2>4
    <2>6. QED
      BY <2>1, <2>3, <2>5 DEF BytesConserved
  <1>2. ASSUME NEW n \in 1..Len(out), Write(n) PROVE BytesConserved'
    <2>1. /\ FlattenSeq(lines') = f /\ Held' = h /\ rio_buf' = r
          /\ stream' = s \o SubSeq(out, 1, n) /\ out' = SubSeq(out, n + 1, Len(out))
      BY <1>2, <1>H DEF Write
    <2>2. (f \o h) \o r \in Seq(Byte)
      <3> HIDE DEF f, h, r
      <3> QED
        BY <1>S
    <2>3. BytesPlaced' = BytesPlaced
      <3>1. \A a \in Seq(Byte) :
              (a \o (s \o SubSeq(o, 1, n))) \o SubSeq(o, n + 1, Len(o)) = (a \o s) \o o
        <4>1. n \in 1..Len(o)
          OBVIOUS
        <4> HIDE DEF f, h, r, s, o
        <4>2. s \in Seq(Byte) /\ o \in Seq(Byte)
          BY <1>S
        <4>3. ASSUME NEW a \in Seq(Byte)
              PROVE  (a \o (s \o SubSeq(o, 1, n))) \o SubSeq(o, n + 1, Len(o)) = (a \o s) \o o
          <5> DEFINE u == s
                     w == o
          <5>1. u \in Seq(Byte) /\ w \in Seq(Byte) /\ n \in 1..Len(w)
            BY <4>1, <4>2
          <5> HIDE DEF u, w
          <5>2. (a \o (u \o SubSeq(w, 1, n))) \o SubSeq(w, n + 1, Len(w)) = (a \o u) \o w
            BY <4>3, <5>1, FrontMoved, ZenonT(30)
          <5> QED
            BY <5>2 DEF u, w
        <4> QED
          BY <4>3
      <3>2. BytesPlaced = (((f \o h) \o r) \o s) \o o
        BY <1>T
      <3>3. BytesPlaced' = (((f \o h) \o r) \o (s \o SubSeq(o, 1, n)))
                             \o SubSeq(o, n + 1, Len(o))
        BY <1>N, <2>1
      <3>4. QED
        BY <2>2, <3>1, <3>2, <3>3
    <2>4. QED
      BY <1>2, <2>3, BytesMoved DEF Write
  <1>3. ASSUME Break PROVE BytesConserved'
    <2>1. /\ FlattenSeq(lines') = f /\ Held' = h /\ rio_buf' = r /\ stream' = s
          /\ out' = <<>>
      BY <1>3, <1>H DEF Break
    <2>2. writer # "broken" /\ writer' = "broken" /\ sent' = sent
      BY <1>3 DEF Break
    <2> DEFINE a == ((f \o h) \o r) \o s
    <2>3. a \in Seq(Byte)
      <3> HIDE DEF f, h, r, s
      <3> QED
        BY <1>T
    <2>4. BytesPlaced' = a /\ BytesPlaced = a \o o
      <3>1. BytesPlaced' = a \o <<>>
        BY <1>N, <2>1
      <3> HIDE DEF a
      <3>2. a \o <<>> = a
        BY <1>E, <2>3
      <3>3. QED
        BY <1>T, <3>1, <3>2 DEF a
    <2> HIDE DEF a, o
    <2>5. IsPrefix(a, a \o o)
      BY <1>T, <2>3, PrefixOfConcat
    <2>6. BytesSent' = BytesSent /\ BytesSent = BytesPlaced
      BY <2>2 DEF BytesSent, BytesConserved
    <2>7. QED
      BY <2>2, <2>4, <2>5, <2>6 DEF BytesConserved
  <1>4. ASSUME CloseWriter PROVE BytesConserved'
    <2>1. BytesPlaced' = BytesPlaced
      BY <1>4 DEF CloseWriter, BytesPlaced
    <2>2. QED
      BY <1>4, <2>1, BytesMoved DEF CloseWriter
  <1>5. ASSUME Receive PROVE BytesConserved'
    <2>1. BytesPlaced' = BytesPlaced
      BY <1>5 DEF Receive, BytesPlaced
    <2>2. QED
      BY <1>5, <2>1, BytesMoved DEF Receive
  <1>6. ASSUME TakeByte PROVE BytesConserved'
    <2>1. r # <<>> /\ h = line /\ Held' = Append(h, Head(r)) /\ rio_buf' = Tail(r)
      BY <1>6 DEF TakeByte, WantsByte, Held
    <2>2. FlattenSeq(lines') = f /\ stream' = s /\ out' = o
      BY <1>6 DEF TakeByte
    <2> HIDE DEF f, h, r, s, o
    <2>3. (f \o Append(h, Head(r))) \o Tail(r) = (f \o h) \o r
      <3>1. /\ f \in Seq(Byte) /\ h \in Seq(Byte) /\ r \in Seq(Byte)
            /\ r # <<>>
        BY <1>S, <2>1
      <3>2. QED
        BY <3>1, HeadMoved
    <2>4. BytesPlaced' = BytesPlaced
      BY <1>N, <1>T, <2>1, <2>2, <2>3
    <2>5. QED
      BY <1>6, <2>4, BytesMoved DEF TakeByte
  <1>7. ASSUME LineRead PROVE BytesConserved'
    <2>1. h = line /\ Held' = <<>> /\ lines' = Append(lines, line)
      BY <1>7 DEF LineRead, Held
    <2>2. rio_buf' = r /\ stream' = s /\ out' = o
      BY <1>7 DEF LineRead
    <2>3. FlattenSeq(lines') = f \o h
      BY <2>1, FlattenMore DEF TypeOK
    <2> HIDE DEF f, h, r, s, o
    <2>4. (f \o h) \o <<>> = f \o h
      <3>1. f \o h \in Seq(Byte)
        BY <1>T
      <3>2. QED
        BY <1>E, <3>1
    <2>5. BytesPlaced' = BytesPlaced
      BY <1>N, <1>T, <2>1, <2>2, <2>3, <2>4
    <2>6. QED
      BY <1>7, <2>5, BytesMoved DEF LineRead
  <1>8. ASSUME EndSeen \/ ReadFails PROVE BytesConserved'
    <2>1. Held' = Held
      BY <1>8 DEF EndSeen, ReadFails, AtEnd, WantsByte, Held
    <2>2. BytesPlaced' = BytesPlaced
      BY <1>8, <2>1 DEF EndSeen, ReadFails, BytesPlaced, Held
    <2>3. QED
      BY <1>8, <2>2, BytesMoved DEF EndSeen, ReadFails
  <1>9. ASSUME NEW n \in 1..Smaller(RIO_BUFSIZE, Len(stream)), Refill(n)
        PROVE  BytesConserved'
    <2>1. n \in 1..Len(stream)
      <3>1. Len(stream) \in Nat
        BY LenProperties DEF TypeOK
      <3>2. QED
        BY <3>1, ConnectionAssumption DEF Smaller
    <2>2. /\ FlattenSeq(lines') = f /\ Held' = h /\ out' = o /\ r = <<>>
          /\ rio_buf' = SubSeq(stream, 1, n) /\ stream' = SubSeq(stream, n + 1, Len(stream))
      BY <1>9, <1>H DEF Refill
    <2> DEFINE a == f \o h
               x == SubSeq(stream, 1, n)
               y == SubSeq(stream, n + 1, Len(stream))
    <2>3. a \in Seq(Byte)
      <3> HIDE DEF f, h
      <3> QED
        BY <1>T
    <2>4. x \in Seq(Byte) /\ y \in Seq(Byte) /\ x \o y = s
      BY <1>T, <2>1, Split
    <2>5. BytesPlaced' = ((a \o x) \o y) \o o /\ BytesPlaced = ((a \o r) \o s) \o o
      BY <1>N, <1>T, <2>2
    <2> HIDE DEF a, x, y, r, s, o
    <2>6. a \o r = a
      BY <1>E, <2>2, <2>3
    <2>7. (a \o x) \o y = a \o s
      BY <2>3, <2>4, Regroup
    <2>8. BytesPlaced' = BytesPlaced
      BY <2>5, <2>6, <2>7
    <2>9. QED
      BY <1>9, <2>8, BytesMoved DEF Refill
  <1>10. QED
    BY NextCases, <1>1, <1>2, <1>3, <1>4, <1>5, <1>6, <1>7, <1>8, <1>9

LEMMA InvInit == Init => IInv
  BY TypeInit, ConservedInit DEF IInv

LEMMA InvStep == IInv /\ [Next]_vars => IInv'
  <1>1. CASE Next
    BY <1>1, TypeStep, ConservedStep DEF IInv
  <1>2. ASSUME IInv, UNCHANGED vars PROVE IInv'
    BY <1>2 DEF IInv, vars, TypeOK, Parsed, BytesConserved, BytesPlaced, BytesSent
  <1>3. QED
    BY <1>1, <1>2

LEMMA InvCorrect == Spec => []IInv
  <1>1. QED
    BY InvInit, InvStep, PTL DEF Spec

\* No buffer of the receiving side overflows, whatever write and read make of the
\* bytes, and receive says that it cannot go on just when its callers stop.
THEOREM TypeCorrect == Spec => []TypeOK
  <1>1. IInv => TypeOK
    BY DEF IInv
  <1>2. QED
    BY <1>1, InvCorrect, PTL

\* Short writes, short reads and lines that cross the end of the read buffer lose,
\* repeat and move no byte; only a broken connection loses some, at the end.
THEOREM BytesConservedCorrect == Spec => []BytesConserved
  <1>1. IInv => BytesConserved
    BY DEF IInv
  <1>2. QED
    BY <1>1, InvCorrect, PTL
-----------------------------------------------------------------------------
(* The lines a message is read in *)

\* The bytes a line has room for, and those of j full lines.
Room == MAXLINE - 1
Upto(j) == j * Room

LEMMA RoomIs == Room \in Nat \ {0}
  BY ConnectionAssumption DEF Room

LEMMA UptoIs ==
    /\ \A j \in Nat : Upto(j) \in Nat /\ Upto(j + 1) = Upto(j) + Room
    /\ Upto(0) = 0
  <1> DEFINE b == Room
  <1>1. b \in Nat
    BY RoomIs
  <1> HIDE DEF b
  <1>2. \A j \in Nat : j * b \in Nat /\ (j + 1) * b = j * b + b
    BY <1>1
  <1>3. 0 * b = 0
    BY <1>1
  <1>4. QED
    BY <1>2, <1>3 DEF Upto, b

LEMMA UptoGrows ==
    ASSUME NEW i \in Nat, NEW j \in Nat, i <= j
    PROVE  Upto(i) <= Upto(j)
  <1> DEFINE b == Room
  <1>1. b \in Nat
    BY RoomIs
  <1> HIDE DEF b
  <1>2. PICK d \in Nat : j = i + d
    <2>1. j - i \in Nat /\ j = i + (j - i)
      OBVIOUS
    <2>2. QED
      BY <2>1
  <1>3. (i + d) * b = i * b + d * b /\ d * b \in Nat /\ i * b \in Nat
    BY <1>1
  <1>4. QED
    BY <1>2, <1>3 DEF Upto, b

\* How many lines n bytes need.
LEMMA LinesNeeded ==
    ASSUME NEW n \in Nat \ {0}
    PROVE  \E k \in Nat \ {0} :
              /\ (n + MAXLINE - 2) \div (MAXLINE - 1) = k
              /\ Upto(k - 1) < n /\ n <= Upto(k)
  <1> DEFINE b == Room
             k == (n + (b - 1)) \div b
  <1>1. b \in Nat \ {0} /\ MAXLINE - 1 = b /\ n + MAXLINE - 2 = n + (b - 1)
    BY RoomIs, ConnectionAssumption DEF Room
  <1>2. k \in Nat /\ b * k <= n + (b - 1) /\ n + (b - 1) < b * k + b
    <2> DEFINE a == n + (b - 1)
    <2>1. a \in Nat
      BY <1>1
    <2> HIDE DEF b, a
    <2>2. a \div b \in Nat /\ a = b * (a \div b) + (a % b) /\ a % b \in 0..(b - 1)
      BY <1>1, <2>1
    <2>3. b * (a \div b) \in Nat
      BY <1>1, <2>2
    <2>4. QED
      BY <1>1, <2>2, <2>3 DEF a
  <1> HIDE DEF b, k
  <1>3. k # 0
    <2>1. b * 0 = 0
      BY <1>1
    <2>2. QED
      BY <1>1, <1>2, <2>1
  <1>4. k - 1 \in Nat /\ k * b = b * k /\ k * b = (k - 1) * b + b /\ (k - 1) * b \in Nat
    BY <1>1, <1>2, <1>3
  <1>5. (k - 1) * b < n /\ n <= k * b
    BY <1>1, <1>2, <1>4
  <1>6. QED
    BY <1>1, <1>2, <1>3, <1>5 DEF Upto, b, k

LEMMA PiecesAre ==
    ASSUME NEW e \in Seq(Byte), e # <<>>
    PROVE  \E k \in Nat \ {0} :
              /\ Pieces(e) \in Seq(Seq(Byte)) /\ Len(Pieces(e)) = k
              /\ Upto(k - 1) < Len(e) /\ Len(e) <= Upto(k)
              /\ \A j \in 1..k :
                    Pieces(e)[j] = SubSeq(e, Upto(j - 1) + 1, Smaller(Upto(j), Len(e)))
  <1>1. Len(e) \in Nat \ {0} /\ \A i \in 1..Len(e) : e[i] \in Byte
    BY EmptySeq, ElementOfSeq
  <1>2. PICK k \in Nat \ {0} :
              /\ (Len(e) + MAXLINE - 2) \div (MAXLINE - 1) = k
              /\ Upto(k - 1) < Len(e) /\ Len(e) <= Upto(k)
    BY <1>1, LinesNeeded
  <1> DEFINE piece(j) == SubSeq(e, Upto(j - 1) + 1, Smaller(Upto(j), Len(e)))
             p == [j \in 1..k |-> piece(j)]
  <1>3. Pieces(e) = p
    BY <1>2 DEF Pieces, Upto, Room
  <1>4. ASSUME NEW j \in 1..k PROVE piece(j) \in Seq(Byte)
    <2>1. Upto(j - 1) \in Nat /\ Upto(j) \in Nat
      <3>1. j - 1 \in Nat /\ j \in Nat
        OBVIOUS
      <3>2. QED
        BY <3>1, UptoIs
    <2>2. Smaller(Upto(j), Len(e)) \in Nat /\ Smaller(Upto(j), Len(e)) <= Len(e)
      BY <1>1, <2>1 DEF Smaller
    <2>3. \A i \in (Upto(j - 1) + 1)..Smaller(Upto(j), Len(e)) : e[i] \in Byte
      BY <1>1, <2>1, <2>2
    <2>4. QED
      BY <2>1, <2>2, <2>3, SubSeqProperties
  <1>5. p \in [1..k -> Seq(Byte)]
    BY <1>4
  <1>6. p \in Seq(Seq(Byte)) /\ Len(p) = k
    <2> HIDE DEF p
    <2> QED
      BY <1>5
  <1>7. QED
    BY <1>2, <1>3, <1>6

LEMMA PieceIs ==
    ASSUME NEW e \in Seq(Byte), e # <<>>, NEW j \in 1..Len(Pieces(e))
    PROVE  LET x == Pieces(e)[j]
               lo == Upto(j - 1)
           IN  /\ x \in Seq(Byte) /\ lo \in Nat /\ lo < Len(e)
               /\ Len(x) = Smaller(Room, Len(e) - lo) /\ Len(x) \in 1..Room
               /\ \A i \in 1..Len(x) : x[i] = e[lo + i]
  <1> DEFINE lo == Upto(j - 1)
             hi == Smaller(Upto(j), Len(e))
  <1>1. PICK k \in Nat \ {0} :
              /\ Pieces(e) \in Seq(Seq(Byte)) /\ Len(Pieces(e)) = k
              /\ Upto(k - 1) < Len(e) /\ Len(e) <= Upto(k)
              /\ \A i \in 1..k :
                    Pieces(e)[i] = SubSeq(e, Upto(i - 1) + 1, Smaller(Upto(i), Len(e)))
    BY PiecesAre
  <1>2. j \in 1..k /\ j - 1 \in Nat /\ j - 1 <= k - 1 /\ k - 1 \in Nat
    BY <1>1
  <1>3. Len(e) \in Nat /\ \A i \in 1..Len(e) : e[i] \in Byte
    BY LenProperties, ElementOfSeq
  <1>4. lo \in Nat /\ Upto(j) = lo + Room /\ Room \in Nat \ {0}
    <2>1. (j - 1) + 1 = j
      BY <1>2
    <2>2. Upto((j - 1) + 1) = Upto(j - 1) + Room /\ Upto(j - 1) \in Nat
      BY <1>2, UptoIs
    <2>3. QED
      BY <2>1, <2>2, RoomIs
  <1>5. lo < Len(e)
    <2>1. lo <= Upto(k - 1) /\ Upto(k - 1) \in Nat
      BY <1>2, UptoGrows, UptoIs
    <2>2. QED
      BY <1>1, <1>3, <1>4, <2>1
  <1>6. Pieces(e)[j] = SubSeq(e, lo + 1, hi)
    BY <1>1, <1>2
  <1> HIDE DEF lo
  <1>7. hi \in Nat /\ hi <= Len(e) /\ lo + 1 <= hi /\ hi - lo = Smaller(Room, Len(e) - lo)
        /\ hi - lo <= Room
    BY <1>3, <1>4, <1>5 DEF Smaller
  <1> HIDE DEF hi
  <1>8. /\ SubSeq(e, lo + 1, hi) \in Seq(Byte) /\ Len(SubSeq(e, lo + 1, hi)) = hi - lo
        /\ \A i \in 1..(hi - lo) : SubSeq(e, lo + 1, hi)[i] = e[lo + i]
    <2>1. /\ lo + 1 \in Int /\ hi \in Int /\ hi - (lo + 1) + 1 = hi - lo
          /\ \A i \in 1..(hi - lo) : (lo + 1) + i - 1 = lo + i
          /\ \A i \in (lo + 1)..hi : e[i] \in Byte
      BY <1>3, <1>4, <1>7
    <2>2. /\ SubSeq(e, lo + 1, hi) \in Seq(Byte)
          /\ Len(SubSeq(e, lo + 1, hi)) = IF lo + 1 <= hi THEN hi - (lo + 1) + 1 ELSE 0
          /\ \A i \in 1..(hi - (lo + 1) + 1) :
                SubSeq(e, lo + 1, hi)[i] = e[(lo + 1) + i - 1]
      BY <2>1, SubSeqProperties
    <2>3. QED
      BY <1>7, <2>1, <2>2
  <1> DEFINE x == Pieces(e)[j]
  <1>9. /\ x \in Seq(Byte) /\ Len(x) = hi - lo /\ \A i \in 1..(hi - lo) : x[i] = e[lo + i]
    BY <1>6, <1>8
  <1> HIDE DEF x
  <1>10. hi - lo \in 1..Room
    BY <1>4, <1>7
  <1>11. QED
    BY <1>4, <1>5, <1>7, <1>9, <1>10 DEF lo, x

\* The bytes of a message: the tag, the first colon, the data, the only newline.
LEMMA EncodeShape ==
    ASSUME NEW m \in Message
    PROVE  LET e == Encode(m)
               t == Len(m.tag)
               d == Len(m.data)
           IN  /\ e \in Seq(Byte) /\ e # <<>> /\ t \in Nat /\ d \in Nat /\ t + 1 <= Room
               /\ m.tag \in Seq(Byte) /\ m.data \in Seq(Byte)
               /\ Len(e) = t + d + 2
               /\ \A i \in 1..t : e[i] = m.tag[i] /\ e[i] # Colon
               /\ e[t + 1] = Colon
               /\ \A i \in 1..d : e[t + 1 + i] = m.data[i]
               /\ e[t + d + 2] = Newline
               /\ \A i \in 1..(t + d + 1) : e[i] # Newline
  <1> DEFINE e == Encode(m)
             g == m.tag
             a == m.data
             t == Len(g)
             d == Len(a)
             x == g \o <<Colon>>
             y == x \o a
  <1>1. e = y \o <<Newline>>
    BY DEF Encode
  <1>2. g \in Seq(Byte) /\ a \in Seq(Byte) /\ e \in Seq(Byte) /\ e # <<>>
    BY EncodeType
  <1>3. t \in Nat /\ d \in Nat /\ t + 1 <= Room
    <2>1. t \in Nat /\ d \in Nat
      BY <1>2, LenProperties
    <2>2. t + 1 < MAXLINE
      BY ConnectionAssumption
    <2>3. QED
      BY <2>1, <2>2, ConnectionAssumption DEF Room
  <1>4. /\ <<Colon>> \in Seq(Byte) /\ <<Newline>> \in Seq(Byte)
        /\ Len(<<Colon>>) = 1 /\ Len(<<Newline>>) = 1
        /\ <<Colon>>[1] = Colon /\ <<Newline>>[1] = Newline
    <2>1. Colon \in Byte /\ Newline \in Byte
      BY DEF Byte
    <2>2. QED
      BY <2>1
  <1>5. DOMAIN g = 1..t /\ DOMAIN a = 1..d
    BY <1>2, LenProperties
  <1>6. /\ \A i \in 1..t : g[i] # Colon /\ g[i] # Newline
        /\ \A i \in 1..d : a[i] # Newline
    BY <1>5, ConnectionAssumption DEF Has
  <1> HIDE DEF g, a, t, d
  <1> DEFINE c == <<Colon>>
             l == <<Newline>>
  <1> HIDE DEF c, l
  <1>7. /\ x \in Seq(Byte) /\ Len(x) = t + 1
        /\ \A i \in 1..t : x[i] = g[i]
        /\ x[t + 1] = Colon
    <2>1. /\ g \o c \in Seq(Byte) /\ Len(g \o c) = t + 1
          /\ \A i \in 1..(t + 1) : (g \o c)[i] = IF i <= t THEN g[i] ELSE c[i - t]
      BY <1>2, <1>3, <1>4, ConcatProperties DEF c, t
    <2>2. t + 1 \in 1..(t + 1) /\ (t + 1) - t = 1 /\ ~(t + 1 <= t)
      BY <1>3
    <2>3. c[1] = Colon
      BY <1>4 DEF c
    <2>4. x = g \o c
      BY DEF c
    <2> HIDE DEF x
    <2>5. QED
      BY <1>3, <2>1, <2>2, <2>3, <2>4
  <1> HIDE DEF x
  <1>8. /\ y \in Seq(Byte) /\ Len(y) = t + 1 + d
        /\ \A i \in 1..(t + 1) : y[i] = x[i]
        /\ \A i \in 1..d : y[t + 1 + i] = a[i]
    <2>1. /\ x \o a \in Seq(Byte) /\ Len(x \o a) = t + 1 + d
          /\ \A i \in 1..(t + 1 + d) :
                (x \o a)[i] = IF i <= t + 1 THEN x[i] ELSE a[i - (t + 1)]
      <3>1. x \in Seq(Byte) /\ a \in Seq(Byte) /\ Len(x) = t + 1 /\ Len(a) = d
        BY <1>2, <1>7 DEF d
      <3>2. /\ x \o a \in Seq(Byte) /\ Len(x \o a) = Len(x) + Len(a)
            /\ \A i \in 1..(Len(x) + Len(a)) :
                  (x \o a)[i] = IF i <= Len(x) THEN x[i] ELSE a[i - Len(x)]
        BY <3>1, ConcatProperties
      <3>3. QED
        BY <3>1, <3>2
    <2>2. /\ \A i \in 1..(t + 1) : i \in 1..(t + 1 + d) /\ i <= t + 1
          /\ \A i \in 1..d : /\ t + 1 + i \in 1..(t + 1 + d) /\ ~(t + 1 + i <= t + 1)
                             /\ (t + 1 + i) - (t + 1) = i
      BY <1>3
    <2> HIDE DEF y
    <2>3. y = x \o a
      BY DEF y
    <2>4. QED
      BY <2>1, <2>2, <2>3
  <1> HIDE DEF y
  <1>9. /\ Len(e) = t + d + 2
        /\ \A i \in 1..(t + 1 + d) : e[i] = y[i]
        /\ e[t + d + 2] = Newline
    <2>1. e = y \o l
      BY <1>1 DEF l
    <2>2. /\ Len(y \o l) = t + 1 + d + 1
          /\ \A i \in 1..(t + 1 + d + 1) :
                (y \o l)[i] = IF i <= t + 1 + d THEN y[i] ELSE l[i - (t + 1 + d)]
      <3>1. y \in Seq(Byte) /\ l \in Seq(Byte) /\ Len(y) = t + 1 + d /\ Len(l) = 1
        BY <1>4, <1>8 DEF l
      <3>2. /\ Len(y \o l) = Len(y) + Len(l)
            /\ \A i \in 1..(Len(y) + Len(l)) :
                  (y \o l)[i] = IF i <= Len(y) THEN y[i] ELSE l[i - Len(y)]
        BY <3>1, ConcatProperties
      <3>3. QED
        BY <3>1, <3>2
    <2>3. /\ t + 1 + d + 1 = t + d + 2 /\ t + d + 2 \in 1..(t + 1 + d + 1)
          /\ ~(t + d + 2 <= t + 1 + d) /\ (t + d + 2) - (t + 1 + d) = 1
          /\ \A i \in 1..(t + 1 + d) : i \in 1..(t + 1 + d + 1) /\ i <= t + 1 + d
      BY <1>3
    <2>4. l[1] = Newline
      BY <1>4 DEF l
    <2> HIDE DEF e
    <2>5. QED
      BY <2>1, <2>2, <2>3, <2>4
  <1> HIDE DEF e
  <1>10. \A i \in 1..t : e[i] = g[i] /\ e[i] # Colon /\ e[i] # Newline
    <2>1. \A i \in 1..t : i \in 1..(t + 1) /\ i \in 1..(t + 1 + d)
      BY <1>3
    <2>2. QED
      BY <1>6, <1>7, <1>8, <1>9, <2>1
  <1>11. e[t + 1] = Colon
    <2>1. t + 1 \in 1..(t + 1) /\ t + 1 \in 1..(t + 1 + d)
      BY <1>3
    <2>2. QED
      BY <1>7, <1>8, <1>9, <2>1
  <1>12. \A i \in 1..d : e[t + 1 + i] = a[i] /\ e[t + 1 + i] # Newline
    <2>1. \A i \in 1..d : t + 1 + i \in 1..(t + 1 + d)
      BY <1>3
    <2>2. QED
      BY <1>6, <1>8, <1>9, <2>1
  <1>13. \A i \in 1..(t + d + 1) : e[i] # Newline
    <2> SUFFICES ASSUME NEW i \in 1..(t + d + 1) PROVE e[i] # Newline
      OBVIOUS
    <2>1. CASE i \in 1..t
      BY <1>10, <2>1
    <2>2. CASE i = t + 1
      BY <1>11, <2>2 DEF Colon, Newline
    <2>3. CASE i - (t + 1) \in 1..d
      <3>1. i = t + 1 + (i - (t + 1))
        BY <1>3
      <3>2. QED
        BY <1>12, <2>3, <3>1
    <2>4. QED
      BY <1>3, <2>1, <2>2, <2>3
  <1>14. QED
    BY <1>2, <1>3, <1>9, <1>10, <1>11, <1>12, <1>13 DEF e, t, d, g, a

\* A line as rio_readlineb cuts it: at the newline, or when the buffer is full.
Cut(x) ==
    /\ Len(x) \in 1..Room
    /\ \A i \in 1..(Len(x) - 1) : x[i] # Newline
    /\ Len(x) = Room \/ x[Len(x)] = Newline

LEMMA PieceCut ==
    ASSUME NEW m \in Message, NEW j \in 1..Len(Pieces(Encode(m)))
    PROVE  Pieces(Encode(m))[j] \in Seq(Byte) /\ Cut(Pieces(Encode(m))[j])
  <1> DEFINE e == Encode(m)
             n == Len(e)
             x == Pieces(e)[j]
             lo == Upto(j - 1)
  <1>1. e \in Seq(Byte) /\ e # <<>>
    BY EncodeType
  <1>2. /\ n \in Nat \ {0} /\ e[n] = Newline
        /\ \A i \in 1..(n - 1) : e[i] # Newline
    <2>1. PICK t \in Nat, d \in Nat :
             /\ Len(e) = t + d + 2
             /\ e[t + d + 2] = Newline
             /\ \A i \in 1..(t + d + 1) : e[i] # Newline
      BY EncodeShape
    <2> HIDE DEF e
    <2>2. n = t + d + 2 /\ n - 1 = t + d + 1
      BY <2>1
    <2>3. QED
      BY <2>1, <2>2
  <1>3. /\ x \in Seq(Byte) /\ lo \in Nat /\ lo < n
        /\ Len(x) = Smaller(Room, n - lo) /\ Len(x) \in 1..Room
        /\ \A i \in 1..Len(x) : x[i] = e[lo + i]
    BY <1>1, PieceIs
  <1> HIDE DEF e, n, x, lo
  <1>4. Len(x) <= n - lo /\ (Len(x) = Room \/ Len(x) = n - lo)
    BY <1>2, <1>3, RoomIs DEF Smaller
  <1>5. ASSUME NEW i \in 1..(Len(x) - 1) PROVE x[i] # Newline
    <2>1. i \in 1..Len(x) /\ lo + i \in 1..(n - 1)
      BY <1>2, <1>3, <1>4, RoomIs
    <2>2. QED
      BY <1>2, <1>3, <2>1
  <1>6. Len(x) = Room \/ x[Len(x)] = Newline
    <2>1. CASE Len(x) = n - lo
      <3>1. lo + Len(x) = n /\ Len(x) \in 1..Len(x)
        BY <1>2, <1>3, <2>1, RoomIs
      <3>2. QED
        BY <1>2, <1>3, <3>1
    <2>2. QED
      BY <1>4, <2>1
  <1>7. QED
    BY <1>3, <1>5, <1>6 DEF Cut, x, e

-----------------------------------------------------------------------------
(* Parts of what FlattenSeq puts together *)

LEMMA SubSeqMore ==
    ASSUME NEW S, NEW s \in Seq(S), NEW k \in 0..(Len(s) - 1)
    PROVE  /\ SubSeq(s, 1, k) \in Seq(S) /\ s[k + 1] \in S
           /\ SubSeq(s, 1, k + 1) = Append(SubSeq(s, 1, k), s[k + 1])
  <1>1. /\ Len(s) \in Nat /\ k + 1 \in 1..Len(s) /\ k \in Nat /\ (k + 1) - 1 = k
        /\ 1 \in 1..Len(s) /\ k + 1 \in 1..Len(s)
    BY LenProperties
  <1>2. \A i \in 1..Len(s) : s[i] \in S
    BY ElementOfSeq
  <1>3. SubSeq(s, 1, k) \in Seq(S)
    <2>1. \A i \in 1..k : s[i] \in S
      BY <1>1, <1>2
    <2>2. QED
      BY <1>1, <2>1, SubSeqProperties
  <1>4. SubSeq(s, 1, k + 1) = SubSeq(s, 1, (k + 1) - 1) \o <<s[k + 1]>>
    BY <1>1, SubSeqRecursiveSecond
  <1>5. Append(SubSeq(s, 1, k), s[k + 1]) = SubSeq(s, 1, k) \o <<s[k + 1]>>
    BY <1>1, <1>2, <1>3, AppendIsConcat
  <1>6. QED
    BY <1>1, <1>2, <1>3, <1>4, <1>5

LEMMA Reassociated ==
    ASSUME NEW S, NEW u \in Seq(S), NEW v \in Seq(S), NEW w \in Seq(S)
    PROVE  (u \o v) \o w = u \o (v \o w)
  BY ConcatAssociative

\* The first n sequences are the beginning of all of them.
LEMMA FlattenPrefix ==
    ASSUME NEW S, NEW s \in Seq(Seq(S)), NEW n \in 0..Len(s)
    PROVE  \E z \in Seq(S) : FlattenSeq(s) = FlattenSeq(SubSeq(s, 1, n)) \o z
  <1> DEFINE F(k) == FlattenSeq(SubSeq(s, 1, k))
             Begins(k) == \E z \in Seq(S) : F(k) = F(n) \o z
             Fails == {k \in Nat : n <= k /\ k <= Len(s) /\ ~Begins(k)}
  <1>1. Len(s) \in Nat /\ n \in Nat /\ n <= Len(s)
    BY LenProperties
  <1>2. \A k \in 0..Len(s) : F(k) \in Seq(S)
    <2> SUFFICES ASSUME NEW k \in 0..Len(s) PROVE F(k) \in Seq(S)
      OBVIOUS
    <2>1. \A i \in 1..Len(s) : s[i] \in Seq(S)
      BY ElementOfSeq
    <2>2. \A i \in 1..k : s[i] \in Seq(S)
      BY <1>1, <2>1
    <2>3. SubSeq(s, 1, k) \in Seq(Seq(S))
      BY <1>1, <2>2, SubSeqProperties
    <2>4. QED
      BY <2>3, FlattenType
  <1>3. ASSUME NEW k \in 0..(Len(s) - 1), k >= n, Begins(k)
        PROVE  Begins(k + 1)
    <2>1. /\ SubSeq(s, 1, k) \in Seq(Seq(S)) /\ s[k + 1] \in Seq(S)
          /\ SubSeq(s, 1, k + 1) = Append(SubSeq(s, 1, k), s[k + 1])
      BY SubSeqMore
    <2>2. F(k + 1) = F(k) \o s[k + 1]
      BY <2>1, FlattenMore
    <2>3. PICK z \in Seq(S) : F(k) = F(n) \o z
      BY <1>3
    <2>4. F(n) \in Seq(S)
      BY <1>1, <1>2
    <2> HIDE DEF F
    <2>5. (F(n) \o z) \o s[k + 1] = F(n) \o (z \o s[k + 1])
      <3> DEFINE x == F(n)
                 y == s[k + 1]
      <3>1. x \in Seq(S) /\ y \in Seq(S) /\ z \in Seq(S)
        BY <2>1, <2>4
      <3> HIDE DEF x, y
      <3>2. (x \o z) \o y = x \o (z \o y)
        BY <3>1, Reassociated, SMTT(30)
      <3>3. QED
        BY <3>2 DEF x, y
    <2>6. z \o s[k + 1] \in Seq(S)
      BY <2>1, ConcatProperties
    <2>7. QED
      BY <2>2, <2>3, <2>5, <2>6
  <1>4. Begins(n)
    <2>1. F(n) \in Seq(S)
      BY <1>1, <1>2
    <2> HIDE DEF F
    <2>2. F(n) = F(n) \o <<>> /\ <<>> \in Seq(S)
      BY <2>1, ConcatEmptySeq, EmptySeq
    <2>3. QED
      BY <2>2
  <1> HIDE DEF Begins
  <1>5. ASSUME Fails # {} PROVE FALSE
    <2>1. PICK k \in Fails : \A i \in Fails : k <= i
      <3>1. Fails \subseteq Nat
        OBVIOUS
      <3> HIDE DEF Fails
      <3>2. QED
        BY <1>5, <3>1, Least
    <2>2. k # n
      BY <1>4
    <2>3. k - 1 \in 0..(Len(s) - 1) /\ k - 1 >= n /\ k - 1 \in Nat /\ k - 1 <= Len(s)
      BY <1>1, <2>2
    <2>4. k - 1 \notin Fails
      BY <2>1, <2>3
    <2>5. Begins(k - 1)
      BY <2>3, <2>4
    <2>6. Begins((k - 1) + 1)
      BY <1>3, <2>3, <2>5
    <2>7. (k - 1) + 1 = k
      BY <2>1
    <2>8. QED
      BY <2>1, <2>6, <2>7
  <1>6. Begins(Len(s))
    BY <1>1, <1>5
  <1>7. SubSeq(s, 1, Len(s)) = s
    BY SubSeqFull
  <1>8. QED
    BY <1>6, <1>7 DEF Begins

\* The lines of a message are its bytes.
LEMMA FlattenPieces ==
    ASSUME NEW f \in Seq(Seq(Byte)), NEW e \in Seq(Byte), e # <<>>
    PROVE  FlattenSeq(f \o Pieces(e)) = FlattenSeq(f) \o e
  <1> DEFINE p == Pieces(e)
             K == Len(p)
             n == Len(e)
             g == FlattenSeq(f)
             upto(k) == Smaller(Upto(k), n)
             Done(k) == FlattenSeq(f \o SubSeq(p, 1, k)) = g \o SubSeq(e, 1, upto(k))
             Fails == {k \in Nat : k <= K /\ ~Done(k)}
  <1>1. /\ p \in Seq(Seq(Byte)) /\ K \in Nat \ {0}
        /\ Upto(K - 1) < n /\ n <= Upto(K)
        /\ \A j \in 1..K : p[j] = SubSeq(e, Upto(j - 1) + 1, upto(j))
    <2>1. PICK k \in Nat \ {0} :
              /\ Pieces(e) \in Seq(Seq(Byte)) /\ Len(Pieces(e)) = k
              /\ Upto(k - 1) < Len(e) /\ Len(e) <= Upto(k)
              /\ \A j \in 1..k :
                    Pieces(e)[j] = SubSeq(e, Upto(j - 1) + 1, Smaller(Upto(j), Len(e)))
      BY PiecesAre
    <2>2. QED
      BY <2>1
  <1>2. n \in Nat \ {0} /\ g \in Seq(Byte) /\ \A i \in 1..n : e[i] \in Byte
    BY FlattenType, EmptySeq, ElementOfSeq
  <1> HIDE DEF p, n, g
  <1>3. \A k \in Nat : Upto(k) \in Nat /\ upto(k) \in 0..n
    <2> SUFFICES ASSUME NEW k \in Nat
                 PROVE  Upto(k) \in Nat /\ upto(k) \in 0..n
      OBVIOUS
    <2>1. Upto(k) \in Nat
      BY UptoIs
    <2>2. upto(k) = IF Upto(k) < n THEN Upto(k) ELSE n
      BY DEF Smaller
    <2> HIDE DEF upto
    <2>3. QED
      BY <1>2, <2>1, <2>2
  <1>4. ASSUME NEW k \in 0..(K - 1), Done(k)
        PROVE  Done(k + 1)
    <2> DEFINE q == SubSeq(p, 1, k)
               x == p[k + 1]
    <2>1. q \in Seq(Seq(Byte)) /\ x \in Seq(Byte) /\ SubSeq(p, 1, k + 1) = Append(q, x)
      BY <1>1, SubSeqMore
    <2> HIDE DEF q, x
    <2>2. f \o Append(q, x) = Append(f \o q, x) /\ f \o q \in Seq(Seq(Byte))
      BY <2>1
    <2>3. FlattenSeq(f \o SubSeq(p, 1, k + 1)) = FlattenSeq(f \o q) \o x
      BY <2>1, <2>2, FlattenMore
    <2>4. FlattenSeq(f \o q) = g \o SubSeq(e, 1, upto(k))
      BY <1>4 DEF q
    <2>5. k \in Nat /\ k + 1 \in 1..K /\ (k + 1) - 1 = k /\ k <= K - 1 /\ K - 1 \in Nat
      BY <1>1
    <2>6. Upto(k) < n
      <3>1. Upto(k) <= Upto(K - 1) /\ Upto(K - 1) \in Nat /\ Upto(k) \in Nat
        BY <1>3, <2>5, UptoGrows
      <3>2. QED
        BY <1>1, <1>2, <3>1
    <2>7. upto(k) = Upto(k) /\ Upto(k) \in Nat
      BY <1>2, <1>3, <2>5, <2>6 DEF Smaller
    <2>8. x = SubSeq(e, upto(k) + 1, upto(k + 1))
      <3>1. x = SubSeq(e, Upto((k + 1) - 1) + 1, upto(k + 1))
        BY <1>1, <2>5 DEF x
      <3>2. QED
        BY <2>5, <2>7, <3>1
    <2>9. upto(k) \in 0..n /\ upto(k + 1) \in upto(k)..n
      <3>1. Upto(k + 1) = Upto(k) + Room /\ Upto(k) \in Nat /\ k + 1 \in Nat
        <4>1. k \in Nat /\ k + 1 \in Nat
          BY <2>5
        <4>2. \A j \in Nat : Upto(j) \in Nat /\ Upto(j + 1) = Upto(j) + Room
          BY UptoIs
        <4>3. QED
          BY <4>1, <4>2
      <3>2. QED
        BY <1>2, <1>3, <2>5, <2>6, <2>7, <3>1, RoomIs DEF Smaller
    <2> DEFINE a == upto(k)
               b == upto(k + 1)
               u == SubSeq(e, 1, a)
               v == SubSeq(e, a + 1, b)
    <2> HIDE DEF a, b
    <2>10. a \in 0..n /\ b \in a..n
      BY <2>9 DEF a, b
    <2>11. u \o v = SubSeq(e, 1, b)
      <3>1. 1 \in 1..(n + 1) /\ a \in 0..n /\ 1 - 1 = 0
        BY <1>2, <2>10
      <3>2. QED
        BY <2>10, <3>1, ConcatAdjacentSubSeq DEF n
    <2>12. u \in Seq(Byte) /\ v \in Seq(Byte)
      <3>1. /\ \A i \in 1..a : e[i] \in Byte
            /\ \A i \in (a + 1)..b : e[i] \in Byte
            /\ a \in Int /\ b \in Int /\ a + 1 \in Int
        BY <1>2, <2>10
      <3>2. QED
        BY <3>1, SubSeqProperties
    <2> HIDE DEF u, v
    <2>13. (g \o u) \o v = g \o (u \o v)
      <3>1. g \in Seq(Byte) /\ u \in Seq(Byte) /\ v \in Seq(Byte)
        BY <1>2, <2>12
      <3>2. QED
        BY <3>1, Regroup, ZenonT(30)
    <2>14. FlattenSeq(f \o q) = g \o u /\ x = v
      BY <2>4, <2>8 DEF u, v, a, b
    <2>15. FlattenSeq(f \o SubSeq(p, 1, k + 1)) = g \o SubSeq(e, 1, b)
      BY <2>3, <2>11, <2>13, <2>14
    <2>16. QED
      BY <2>15 DEF b
  <1>5. Done(0)
    <2>1. SubSeq(p, 1, 0) = <<>> /\ SubSeq(e, 1, 0) = <<>>
      BY SubSeqEmpty
    <2>2. upto(0) = 0
      BY <1>2, UptoIs DEF Smaller
    <2>3. f \o <<>> = f /\ g \o <<>> = g
      BY <1>2, ConcatEmptySeq
    <2>4. QED
      BY <2>1, <2>2, <2>3 DEF g
  <1> HIDE DEF Done, K
  <1>6. ASSUME Fails # {} PROVE FALSE
    <2>1. PICK k \in Fails : \A i \in Fails : k <= i
      <3>1. Fails \subseteq Nat
        OBVIOUS
      <3> HIDE DEF Fails
      <3>2. QED
        BY <1>6, <3>1, Least
    <2>2. k # 0
      BY <1>5
    <2>3. k - 1 \in 0..(K - 1) /\ k - 1 \in Nat /\ k - 1 <= K /\ (k - 1) + 1 = k
      BY <1>1, <2>1, <2>2
    <2>4. k - 1 \notin Fails
      BY <2>1, <2>3
    <2>5. Done((k - 1) + 1)
      BY <1>4, <2>3, <2>4
    <2>6. QED
      BY <2>1, <2>3, <2>5
  <1>7. Done(K)
    <2>1. K \in Nat /\ K <= K
      BY <1>1
    <2>2. K \notin Fails
      <3> HIDE DEF Fails
      <3> QED
        BY <1>6
    <2>3. QED
      BY <2>1, <2>2
  <1>8. SubSeq(p, 1, K) = p /\ upto(K) = n /\ SubSeq(e, 1, n) = e
    BY <1>1, <1>2, <1>3, SubSeqFull DEF Smaller, K, n
  <1>9. QED
    BY <1>7, <1>8 DEF Done, p, g

-----------------------------------------------------------------------------
(* What a message is received as *)

LEMMA FirstColon ==
    ASSUME NEW x \in Seq(Byte), NEW t \in Nat, t + 1 <= Len(x), x[t + 1] = Colon,
           \A i \in 1..t : x[i] # Colon
    PROVE  bufferToMessage(x) = [tag |-> SubSeq(x, 1, t), data |-> SubSeq(x, t + 2, Len(x))]
  <1> DEFINE colons == {i \in DOMAIN x : x[i] = Colon}
             at == CHOOSE i \in colons : \A j \in colons : i <= j
  <1>1. DOMAIN x = 1..Len(x) /\ Len(x) \in Nat
    BY LenProperties
  <1>2. t + 1 \in colons /\ \A j \in colons : t + 1 <= j /\ j \in Nat
    BY <1>1
  <1> HIDE DEF colons
  <1>3. \E i \in colons : \A j \in colons : i <= j
    BY <1>2
  <1>4. at \in colons /\ \A j \in colons : at <= j
    BY <1>3
  <1>5. at = t + 1
    BY <1>2, <1>4
  <1>6. colons # {}
    BY <1>2
  <1>8. bufferToMessage(x) =
           [tag |-> SubSeq(x, 1, at - 1), data |-> SubSeq(x, at + 1, Len(x))]
    BY <1>6 DEF bufferToMessage, colons
  <1> HIDE DEF at
  <1>7. at - 1 = t /\ at + 1 = t + 2
    BY <1>5
  <1>9. QED
    BY <1>7, <1>8

\* Two sequences with the same elements at shifted places.
LEMMA SubSeqsEqual ==
    ASSUME NEW S, NEW x \in Seq(S), NEW y \in Seq(S), NEW k \in Nat, NEW l \in Nat,
           NEW a \in Nat, a + l <= Len(x), l <= Len(y), k = a + l,
           \A i \in 1..l : x[a + i] = y[i]
    PROVE  SubSeq(x, a + 1, k) = SubSeq(y, 1, l)
  <1>1. /\ Len(x) \in Nat /\ Len(y) \in Nat
        /\ \A i \in 1..Len(x) : x[i] \in S
        /\ \A i \in 1..Len(y) : y[i] \in S
    BY LenProperties, ElementOfSeq
  <1>2. /\ a + 1 \in Int /\ k \in Int /\ k - (a + 1) + 1 = l
        /\ \A i \in (a + 1)..k : x[i] \in S
        /\ \A i \in 1..l : (a + 1) + i - 1 = a + i
        /\ \A i \in 1..l : y[i] \in S
    BY <1>1
  <1>3. /\ SubSeq(x, a + 1, k) \in Seq(S) /\ Len(SubSeq(x, a + 1, k)) = l
        /\ \A i \in 1..l : SubSeq(x, a + 1, k)[i] = x[a + i]
    <2>1. /\ SubSeq(x, a + 1, k) \in Seq(S)
          /\ Len(SubSeq(x, a + 1, k)) = IF a + 1 <= k THEN k - (a + 1) + 1 ELSE 0
          /\ \A i \in 1..(k - (a + 1) + 1) :
                SubSeq(x, a + 1, k)[i] = x[(a + 1) + i - 1]
      BY <1>2, SubSeqProperties
    <2>2. (IF a + 1 <= k THEN k - (a + 1) + 1 ELSE 0) = l
      BY <1>2
    <2>3. QED
      BY <1>2, <2>1, <2>2
  <1>4. /\ SubSeq(y, 1, l) \in Seq(S) /\ Len(SubSeq(y, 1, l)) = l
        /\ \A i \in 1..l : SubSeq(y, 1, l)[i] = y[i]
    BY <1>2, SubSeqProperties
  <1>5. \A i \in 1..l : SubSeq(x, a + 1, k)[i] = SubSeq(y, 1, l)[i]
    BY <1>3, <1>4
  <1> DEFINE u == SubSeq(x, a + 1, k)
             v == SubSeq(y, 1, l)
  <1>6. u \in Seq(S) /\ v \in Seq(S) /\ Len(u) = l /\ Len(v) = l /\ \A i \in 1..l : u[i] = v[i]
    BY <1>3, <1>4, <1>5
  <1> HIDE DEF u, v
  <1>7. u = v
    BY <1>6, SeqEqual
  <1>8. QED
    BY <1>7 DEF u, v

\* Its first line is recognized: its tag, and as much of its data as the line has.
LEMMA FirstPiece ==
    ASSUME NEW m \in Message
    PROVE  LET whole == Append(m.data, Newline)
               fits  == MAXLINE - 2 - Len(m.tag)
           IN  bufferToMessage(Pieces(Encode(m))[1]) =
                  [tag |-> m.tag, data |-> SubSeq(whole, 1, Smaller(fits, Len(whole)))]
  <1> DEFINE e == Encode(m)
             g == m.tag
             w == Append(m.data, Newline)
             t == Len(g)
             d == Len(m.data)
             x == Pieces(e)[1]
             l == Smaller(MAXLINE - 2 - t, Len(w))
  <1>1. /\ e \in Seq(Byte) /\ e # <<>> /\ t \in Nat /\ d \in Nat /\ t + 1 <= Room
        /\ g \in Seq(Byte) /\ m.data \in Seq(Byte)
        /\ Len(e) = t + d + 2
        /\ \A i \in 1..t : e[i] = g[i] /\ e[i] # Colon
        /\ e[t + 1] = Colon
        /\ \A i \in 1..d : e[t + 1 + i] = m.data[i]
        /\ e[t + d + 2] = Newline
    BY EncodeShape
  <1>2. /\ w \in Seq(Byte) /\ Len(w) = d + 1
        /\ \A i \in 1..d : w[i] = m.data[i]
        /\ w[d + 1] = Newline
    <2>1. Newline \in Byte
      BY DEF Byte
    <2>2. QED
      BY <1>1, <2>1, AppendProperties
  <1>3. /\ x \in Seq(Byte) /\ Len(x) = Smaller(Room, Len(e))
        /\ \A i \in 1..Len(x) : x[i] = e[i]
    <2>1. 1 \in 1..Len(Pieces(e))
      <3>1. PICK k \in Nat \ {0} : Len(Pieces(e)) = k
        BY <1>1, PiecesAre
      <3>2. QED
        BY <3>1
    <2>2. /\ x \in Seq(Byte)
          /\ Len(x) = Smaller(Room, Len(e) - Upto(1 - 1)) /\ Len(x) \in 1..Room
          /\ \A i \in 1..Len(x) : x[i] = e[Upto(1 - 1) + i]
      BY <1>1, <2>1, PieceIs
    <2>3. 1 - 1 = 0 /\ Upto(0) = 0 /\ Upto(1 - 1) = 0
      BY UptoIs
    <2>4. Len(e) - 0 = Len(e) /\ \A i \in 1..Len(x) : 0 + i = i
      BY <1>1
    <2> HIDE DEF x, e
    <2>5. QED
      BY <2>2, <2>3, <2>4
  <1> HIDE DEF e, g, w, t, d, x
  <1>4. \A i \in 1..(d + 1) : e[(t + 1) + i] = w[i]
    <2> SUFFICES ASSUME NEW i \in 1..(d + 1) PROVE e[(t + 1) + i] = w[i]
      OBVIOUS
    <2>1. CASE i = d + 1
      <3>1. (t + 1) + i = t + d + 2
        BY <1>1, <2>1
      <3>2. QED
        BY <1>1, <1>2, <2>1, <3>1
    <2>2. CASE i # d + 1
      <3>1. i \in 1..d
        BY <1>1, <2>2
      <3>2. QED
        BY <1>1, <1>2, <3>1
    <2>3. QED
      BY <2>1, <2>2
  <1>5. /\ Len(x) \in Nat /\ Len(x) <= t + d + 2 /\ t + 1 <= Len(x)
        /\ l \in Nat /\ l <= d + 1 /\ Len(x) = (t + 1) + l
    <2>1. Room \in Nat /\ MAXLINE - 2 - t = Room - (t + 1)
      BY <1>1, RoomIs, ConnectionAssumption DEF Room
    <2>2. Len(x) = IF Room < t + d + 2 THEN Room ELSE t + d + 2
      BY <1>1, <1>3 DEF Smaller
    <2>3. l = IF Room - (t + 1) < d + 1 THEN Room - (t + 1) ELSE d + 1
      BY <1>2, <2>1 DEF Smaller
    <2> HIDE DEF l
    <2>4. QED
      BY <1>1, <2>1, <2>2, <2>3
  <1> HIDE DEF l
  <1>6. SubSeq(x, (t + 1) + 1, Len(x)) = SubSeq(w, 1, l)
    <2>1. \A i \in 1..l : x[(t + 1) + i] = w[i]
      <3>1. \A i \in 1..l : (t + 1) + i \in 1..Len(x) /\ i \in 1..(d + 1)
        BY <1>1, <1>5
      <3>2. QED
        BY <1>3, <1>4, <3>1
    <2>2. t + 1 \in Nat /\ (t + 1) + l <= Len(x) /\ l <= Len(w)
      BY <1>1, <1>2, <1>5
    <2> DEFINE a == t + 1
               k == Len(x)
    <2>3. /\ x \in Seq(Byte) /\ w \in Seq(Byte) /\ k \in Nat /\ l \in Nat /\ a \in Nat
          /\ a + l <= Len(x) /\ l <= Len(w) /\ k = a + l
          /\ \A i \in 1..l : x[a + i] = w[i]
      BY <1>2, <1>3, <1>5, <2>1, <2>2
    <2> HIDE DEF a, k
    <2>4. SubSeq(x, a + 1, k) = SubSeq(w, 1, l)
      BY <2>3, SubSeqsEqual
    <2>5. QED
      BY <2>4 DEF a, k
  <1>7. SubSeq(x, 0 + 1, t) = SubSeq(g, 1, t)
    <2>1. \A i \in 1..t : x[0 + i] = g[i]
      <3>1. \A i \in 1..t : 0 + i = i /\ i \in 1..Len(x)
        BY <1>1, <1>5
      <3>2. QED
        BY <1>1, <1>3, <3>1
    <2>2. 0 \in Nat /\ 0 + t <= Len(x) /\ t <= Len(g) /\ t = 0 + t
      BY <1>1, <1>5 DEF t
    <2>3. QED
      BY <1>1, <1>3, <2>1, <2>2, SubSeqsEqual
  <1>8. SubSeq(x, 1, t) = g /\ SubSeq(x, t + 2, Len(x)) = SubSeq(w, 1, l)
    <2>1. 0 + 1 = 1 /\ (t + 1) + 1 = t + 2
      BY <1>1
    <2>2. SubSeq(g, 1, t) = g
      BY <1>1, SubSeqFull DEF t
    <2>3. QED
      BY <1>6, <1>7, <2>1, <2>2
  <1>9. bufferToMessage(x) = [tag |-> SubSeq(x, 1, t), data |-> SubSeq(x, t + 2, Len(x))]
    <2>1. x[t + 1] = Colon /\ \A i \in 1..t : x[i] # Colon
      <3>1. t + 1 \in 1..Len(x) /\ \A i \in 1..t : i \in 1..Len(x)
        BY <1>1, <1>5
      <3>2. QED
        BY <1>1, <1>3, <3>1
    <2>2. QED
      BY <1>1, <1>3, <1>5, <2>1, FirstColon
  <1>10. QED
    BY <1>8, <1>9 DEF e, g, w, t, x, l

\* What is expected of a message is what its lines are taken for.
LEMMA ArrivalsAre ==
    ASSUME NEW m \in Message
    PROVE  /\ Arrivals(m) \in Seq(Reading) /\ Len(Arrivals(m)) = Len(Pieces(Encode(m)))
           /\ Pieces(Encode(m)) \in Seq(Seq(Byte))
           /\ \A i \in 1..Len(Pieces(Encode(m))) :
                 Arrivals(m)[i] = bufferToMessage(Pieces(Encode(m))[i])
  <1> DEFINE p == Pieces(Encode(m))
             k == Len(p)
             first == bufferToMessage(p[1])
             rest == [j \in 1..(k - 1) |-> bufferToMessage(p[j + 1])]
  <1>1. p \in Seq(Seq(Byte)) /\ k \in Nat \ {0}
    <2>1. Encode(m) \in Seq(Byte) /\ Encode(m) # <<>>
      BY EncodeType
    <2>2. QED
      BY <2>1, PiecesAre
  <1>2. Arrivals(m) = <<first>> \o rest
    BY FirstPiece DEF Arrivals
  <1>3. \A i \in 1..k : bufferToMessage(p[i]) \in Reading
    <2>1. \A i \in 1..k : p[i] \in Seq(Byte)
      BY <1>1, ElementOfSeq
    <2>2. QED
      BY <2>1 DEF Reading
  <1> HIDE DEF p, k
  <1>4. /\ <<first>> \in Seq(Reading) /\ Len(<<first>>) = 1 /\ <<first>>[1] = first
    <2>1. first \in Reading
      BY <1>1, <1>3
    <2> HIDE DEF first
    <2>2. QED
      BY <2>1
  <1>5. rest \in Seq(Reading) /\ Len(rest) = k - 1
    <2>1. k - 1 \in Nat /\ \A j \in 1..(k - 1) : j + 1 \in 1..k
      BY <1>1
    <2>2. rest \in [1..(k - 1) -> Reading]
      BY <1>3, <2>1
    <2> HIDE DEF rest
    <2>3. QED
      BY <2>1, <2>2
  <1>6. \A j \in 1..(k - 1) : rest[j] = bufferToMessage(p[j + 1])
    OBVIOUS
  <1> DEFINE a == <<first>>
  <1> HIDE DEF rest, a
  <1>7. /\ a \o rest \in Seq(Reading) /\ Len(a \o rest) = k
        /\ \A i \in 1..k : (a \o rest)[i] = IF i <= 1 THEN a[i] ELSE rest[i - 1]
    <2>1. a \in Seq(Reading) /\ Len(a) = 1
      BY <1>4 DEF a
    <2>2. /\ a \o rest \in Seq(Reading) /\ Len(a \o rest) = 1 + (k - 1)
          /\ \A i \in 1..(1 + (k - 1)) :
                (a \o rest)[i] = IF i <= 1 THEN a[i] ELSE rest[i - 1]
      <3>1. /\ a \o rest \in Seq(Reading) /\ Len(a \o rest) = Len(a) + Len(rest)
            /\ \A i \in 1..(Len(a) + Len(rest)) :
                  (a \o rest)[i] = IF i <= Len(a) THEN a[i] ELSE rest[i - Len(a)]
        BY <1>5, <2>1, ConcatProperties
      <3>2. QED
        BY <1>5, <2>1, <3>1
    <2>3. 1 + (k - 1) = k
      BY <1>1
    <2>4. QED
      BY <2>2, <2>3
  <1>8. ASSUME NEW i \in 1..k PROVE (a \o rest)[i] = bufferToMessage(p[i])
    <2>1. CASE i = 1
      BY <1>4, <1>7, <2>1 DEF a
    <2>2. CASE i # 1
      <3>1. i - 1 \in 1..(k - 1) /\ (i - 1) + 1 = i /\ ~(i <= 1)
        BY <1>1, <2>2
      <3>2. QED
        BY <1>6, <1>7, <3>1
    <2>3. QED
      BY <2>1, <2>2
  <1>9. QED
    BY <1>1, <1>2, <1>7, <1>8 DEF p, k, a

-----------------------------------------------------------------------------
(* The lines and the readings of all that was sent *)

MapOf(g, s) == [i \in DOMAIN s |-> g[s[i]]]

LEMMA MappedType ==
    ASSUME NEW S, NEW g \in [Message -> S], NEW s \in Seq(Message)
    PROVE  MapOf(g, s) \in Seq(S) /\ Len(MapOf(g, s)) = Len(s)
  <1>1. DOMAIN s = 1..Len(s) /\ Len(s) \in Nat /\ \A i \in 1..Len(s) : s[i] \in Message
    BY LenProperties, ElementOfSeq
  <1>2. MapOf(g, s) \in [1..Len(s) -> S]
    BY <1>1 DEF MapOf
  <1>3. QED
    BY <1>1, <1>2

LEMMA MappedMore ==
    ASSUME NEW S, NEW g \in [Message -> S], NEW s \in Seq(Message), NEW m \in Message
    PROVE  MapOf(g, Append(s, m)) = Append(MapOf(g, s), g[m])
  <1> DEFINE a == Append(s, m)
             k == MapOf(g, s)
             k2 == MapOf(g, a)
             e == g[m]
             n == Len(s)
  <1>1. /\ a \in Seq(Message) /\ Len(a) = n + 1 /\ n \in Nat
        /\ \A i \in 1..n : a[i] = s[i] /\ s[i] \in Message
        /\ a[n + 1] = m
    BY AppendProperties, LenProperties, ElementOfSeq
  <1> HIDE DEF a
  <1>2. k \in Seq(S) /\ Len(k) = n /\ k2 \in Seq(S) /\ Len(k2) = n + 1 /\ e \in S
    BY <1>1, MappedType
  <1>3. \A i \in 1..n : k[i] = g[s[i]]
    BY LenProperties DEF MapOf
  <1>4. \A i \in 1..(n + 1) : k2[i] = g[a[i]]
    BY <1>1, LenProperties DEF MapOf
  <1> HIDE DEF k, k2, e, n
  <1>5. /\ Append(k, e) \in Seq(S) /\ Len(Append(k, e)) = n + 1
        /\ \A i \in 1..n : Append(k, e)[i] = k[i]
        /\ Append(k, e)[n + 1] = e
    BY <1>2, AppendProperties
  <1>6. \A i \in 1..(n + 1) : k2[i] = Append(k, e)[i]
    <2> SUFFICES ASSUME NEW i \in 1..(n + 1) PROVE k2[i] = Append(k, e)[i]
      OBVIOUS
    <2>1. CASE i = n + 1
      BY <1>1, <1>4, <1>5, <2>1 DEF e
    <2>2. CASE i # n + 1
      <3>1. i \in 1..n
        BY <1>1, <2>2
      <3>2. QED
        BY <1>1, <1>3, <1>4, <1>5, <3>1
    <2>3. QED
      BY <2>1, <2>2
  <1> DEFINE z == Append(k, e)
  <1>7. z \in Seq(S) /\ Len(z) = n + 1 /\ \A i \in 1..(n + 1) : k2[i] = z[i]
    BY <1>5, <1>6
  <1> HIDE DEF z
  <1>8. k2 = z
    BY <1>2, <1>7, SeqEqual
  <1>9. QED
    BY <1>8 DEF a, k, k2, e, z

LinesFor    == [m \in Message |-> Pieces(Encode(m))]
ReadingsFor == [m \in Message |-> Arrivals(m)]

\* The lines that everything sent so far is read in, one message after another.
ExpectedLines == FlattenSeq(MapOf(LinesFor, sent))

\* The lines el hold the bytes b, each is cut where rio_readlineb cuts it, and ex
\* is what they are taken for.
Foresees(el, ex, b) ==
    /\ el \in Seq(Seq(Byte)) /\ ex \in Seq(Reading) /\ Len(ex) = Len(el)
    /\ \A i \in 1..Len(el) : Cut(el[i]) /\ ex[i] = bufferToMessage(el[i])
    /\ FlattenSeq(el) = b

Foreseen == Foresees(ExpectedLines, Expected, BytesSent)

LEMMA ForeseesMore ==
    ASSUME NEW el, NEW ex, NEW b, Foresees(el, ex, b), NEW m \in Message
    PROVE  Foresees(el \o Pieces(Encode(m)), ex \o Arrivals(m), b \o Encode(m))
  <1> DEFINE p == Pieces(Encode(m))
             a == Arrivals(m)
             n == Len(el)
             k == Len(p)
  <1>1. /\ el \in Seq(Seq(Byte)) /\ ex \in Seq(Reading) /\ Len(ex) = n /\ n \in Nat
        /\ \A i \in 1..n : Cut(el[i]) /\ ex[i] = bufferToMessage(el[i])
        /\ FlattenSeq(el) = b
    BY LenProperties DEF Foresees
  <1>2. /\ p \in Seq(Seq(Byte)) /\ a \in Seq(Reading) /\ Len(a) = k /\ k \in Nat
        /\ \A i \in 1..k : Cut(p[i]) /\ a[i] = bufferToMessage(p[i])
    BY ArrivalsAre, PieceCut, LenProperties
  <1>3. FlattenSeq(el \o p) = b \o Encode(m)
    BY <1>1, EncodeType, FlattenPieces
  <1> HIDE DEF p, a, n, k
  <1>4. /\ el \o p \in Seq(Seq(Byte)) /\ Len(el \o p) = n + k
        /\ \A i \in 1..(n + k) : (el \o p)[i] = IF i <= n THEN el[i] ELSE p[i - n]
    <2>1. /\ el \o p \in Seq(Seq(Byte)) /\ Len(el \o p) = Len(el) + Len(p)
          /\ \A i \in 1..(Len(el) + Len(p)) :
                (el \o p)[i] = IF i <= Len(el) THEN el[i] ELSE p[i - Len(el)]
      BY <1>1, <1>2, ConcatProperties
    <2>2. QED
      BY <2>1 DEF n, k
  <1>5. /\ ex \o a \in Seq(Reading) /\ Len(ex \o a) = n + k
        /\ \A i \in 1..(n + k) : (ex \o a)[i] = IF i <= n THEN ex[i] ELSE a[i - n]
    <2>1. /\ ex \o a \in Seq(Reading) /\ Len(ex \o a) = Len(ex) + Len(a)
          /\ \A i \in 1..(Len(ex) + Len(a)) :
                (ex \o a)[i] = IF i <= Len(ex) THEN ex[i] ELSE a[i - Len(ex)]
      BY <1>1, <1>2, ConcatProperties
    <2>2. QED
      BY <1>1, <1>2, <2>1
  <1>6. ASSUME NEW i \in 1..(n + k)
        PROVE  Cut((el \o p)[i]) /\ (ex \o a)[i] = bufferToMessage((el \o p)[i])
    <2>1. CASE i <= n
      <3>1. i \in 1..n
        BY <1>1, <2>1
      <3>2. (el \o p)[i] = el[i] /\ (ex \o a)[i] = ex[i]
        BY <1>4, <1>5, <2>1
      <3>3. QED
        BY <1>1, <3>1, <3>2
    <2>2. CASE ~(i <= n)
      <3>1. i - n \in 1..k
        BY <1>1, <1>2, <2>2
      <3>2. (el \o p)[i] = p[i - n] /\ (ex \o a)[i] = a[i - n]
        BY <1>4, <1>5, <2>2
      <3>3. QED
        BY <1>2, <3>1, <3>2
    <2>3. QED
      BY <2>1, <2>2
  <1>7. QED
    BY <1>3, <1>4, <1>5, <1>6 DEF Foresees, p, a

LEMMA ForTypes ==
    LinesFor \in [Message -> Seq(Seq(Byte))] /\ ReadingsFor \in [Message -> Seq(Reading)]
  BY ArrivalsAre DEF LinesFor, ReadingsFor

LEMMA ExpectedIs ==
    ASSUME sent \in Seq(Message)
    PROVE  Expected = FlattenSeq(MapOf(ReadingsFor, sent))
  <1>1. \A i \in DOMAIN sent : sent[i] \in Message
    BY LenProperties, ElementOfSeq
  <1>2. [i \in DOMAIN sent |-> Arrivals(sent[i])] = MapOf(ReadingsFor, sent)
    BY <1>1 DEF MapOf, ReadingsFor
  <1>3. QED
    BY <1>2 DEF Expected

\* Sending a message adds its lines at the end.
LEMMA ForeseenSend ==
    ASSUME sent \in Seq(Message), NEW m \in Message, sent' = Append(sent, m), Foreseen
    PROVE  Foreseen' /\ ExpectedLines' = ExpectedLines \o Pieces(Encode(m))
  <1>1. sent' \in Seq(Message)
    BY AppendProperties
  <1>2. ExpectedLines' = ExpectedLines \o Pieces(Encode(m))
    <2> DEFINE k == MapOf(LinesFor, sent)
               e == LinesFor[m]
    <2>1. MapOf(LinesFor, Append(sent, m)) = Append(k, e)
      BY ForTypes, MappedMore
    <2>2. k \in Seq(Seq(Seq(Byte))) /\ e \in Seq(Seq(Byte)) /\ e = Pieces(Encode(m))
      BY ForTypes, MappedType DEF LinesFor
    <2>3. ExpectedLines' = FlattenSeq(MapOf(LinesFor, Append(sent, m)))
      BY DEF ExpectedLines, LinesFor
    <2>4. ExpectedLines = FlattenSeq(k)
      BY DEF ExpectedLines
    <2> HIDE DEF k, e
    <2>5. FlattenSeq(Append(k, e)) = FlattenSeq(k) \o e
      BY <2>2, FlattenMore
    <2>6. QED
      BY <2>1, <2>2, <2>3, <2>4, <2>5
  <1>3. Expected' = Expected \o Arrivals(m)
    <2> DEFINE k == MapOf(ReadingsFor, sent)
               e == ReadingsFor[m]
    <2>1. MapOf(ReadingsFor, Append(sent, m)) = Append(k, e)
      BY ForTypes, MappedMore
    <2>2. k \in Seq(Seq(Reading)) /\ e \in Seq(Reading) /\ e = Arrivals(m)
      BY ForTypes, MappedType DEF ReadingsFor
    <2>3. Expected' = FlattenSeq(MapOf(ReadingsFor, Append(sent, m)))
      <3>1. Expected' = FlattenSeq([i \in DOMAIN sent' |-> Arrivals(sent'[i])])
        BY DEF Expected
      <3>2. [i \in DOMAIN sent' |-> Arrivals(sent'[i])] = MapOf(ReadingsFor, sent')
        <4>1. \A i \in DOMAIN sent' : sent'[i] \in Message
          BY <1>1, LenProperties, ElementOfSeq
        <4>2. QED
          BY <4>1 DEF MapOf, ReadingsFor
      <3>3. QED
        BY <3>1, <3>2
    <2>4. Expected = FlattenSeq(k)
      BY ExpectedIs
    <2> HIDE DEF k, e
    <2>5. FlattenSeq(Append(k, e)) = FlattenSeq(k) \o e
      BY <2>2, FlattenMore
    <2>6. QED
      BY <2>1, <2>2, <2>3, <2>4, <2>5
  <1>4. BytesSent' = BytesSent \o Encode(m)
    BY BytesSentMore
  <1>5. Foresees(ExpectedLines \o Pieces(Encode(m)), Expected \o Arrivals(m),
                 BytesSent \o Encode(m))
    BY ForeseesMore DEF Foreseen
  <1>6. Foresees(ExpectedLines', Expected', BytesSent')
    BY <1>2, <1>3, <1>4, <1>5
  <1>7. QED
    BY <1>2, <1>6 DEF Foreseen, Foresees, Reading, Byte

LEMMA ForeseenInit == Init => Foreseen
  <1> SUFFICES ASSUME Init PROVE Foreseen
    OBVIOUS
  <1>1. sent = <<>> /\ <<>> \in Seq(Message)
    BY EmptySeq DEF Init
  <1>2. MapOf(LinesFor, sent) = <<>> /\ MapOf(ReadingsFor, sent) = <<>>
        /\ [i \in DOMAIN sent |-> Encode(sent[i])] = <<>>
    BY <1>1 DEF MapOf
  <1>3. ExpectedLines = <<>> /\ Expected = <<>> /\ BytesSent = <<>>
    BY <1>1, <1>2, FlattenNone, ExpectedIs DEF ExpectedLines, BytesSent
  <1>4. /\ <<>> \in Seq(Seq(Byte)) /\ <<>> \in Seq(Reading) /\ Len(<<>>) = 0
        /\ FlattenSeq(<<>>) = <<>>
    BY FlattenNone
  <1>5. QED
    BY <1>3, <1>4 DEF Foreseen, Foresees

-----------------------------------------------------------------------------
(* Lines read are lines sent *)

\* A newline ends the line being read.
OneLine == \A i \in 1..(Len(line) - 1) : line[i] # Newline

\* The lines read are the first of those expected.
Whole ==
    /\ Len(lines) <= Len(ExpectedLines)
    /\ \A i \in 1..Len(lines) : lines[i] = ExpectedLines[i]

\* The last of them is what came of a line whose writer broke off; nothing follows.
Torn ==
    /\ writer = "broken" /\ Held = <<>> /\ rio_buf = <<>> /\ stream = <<>>
    /\ Len(lines) \in 1..Len(ExpectedLines)
    /\ \A i \in 1..(Len(lines) - 1) : lines[i] = ExpectedLines[i]

Intact == OneLine /\ Foreseen /\ (Whole \/ Torn)

\* Of two beginnings of the same bytes, a cut line is not the shorter one.
LEMMA CutNotShorter ==
    ASSUME NEW x \in Seq(Byte), NEW y \in Seq(Byte), NEW w \in Seq(Byte), NEW z \in Seq(Byte),
           x \o w = y \o z, Cut(x), Len(y) <= Room, \A i \in 1..(Len(y) - 1) : y[i] # Newline
    PROVE  Len(y) <= Len(x) /\ \A i \in 1..Len(y) : y[i] = x[i]
  <1>1. /\ Len(x) \in Nat /\ Len(y) \in Nat /\ Len(w) \in Nat /\ Len(z) \in Nat
        /\ Room \in Nat
    BY LenProperties, RoomIs
  <1> DEFINE u == x \o w
             v == y \o z
  <1>2. \A i \in 1..Len(x) : u[i] = x[i]
    <2>1. \A i \in 1..(Len(x) + Len(w)) : u[i] = IF i <= Len(x) THEN x[i] ELSE w[i - Len(x)]
      BY ConcatProperties
    <2>2. \A i \in 1..Len(x) : i \in 1..(Len(x) + Len(w)) /\ i <= Len(x)
      BY <1>1
    <2> HIDE DEF u
    <2>3. QED
      BY <2>1, <2>2
  <1>3. \A i \in 1..Len(y) : v[i] = y[i]
    <2>1. \A i \in 1..(Len(y) + Len(z)) : v[i] = IF i <= Len(y) THEN y[i] ELSE z[i - Len(y)]
      BY ConcatProperties
    <2>2. \A i \in 1..Len(y) : i \in 1..(Len(y) + Len(z)) /\ i <= Len(y)
      BY <1>1
    <2> HIDE DEF v
    <2>3. QED
      BY <2>1, <2>2
  <1>4. u = v
    OBVIOUS
  <1> HIDE DEF u, v
  <1>5. ASSUME Len(x) < Len(y) PROVE FALSE
    <2>1. Len(x) \in 1..(Len(y) - 1) /\ Len(x) \in 1..Len(x) /\ Len(x) \in 1..Len(y)
      BY <1>1, <1>5 DEF Cut
    <2>2. x[Len(x)] = Newline
      BY <1>1, <1>5 DEF Cut
    <2>3. y[Len(x)] = x[Len(x)]
      BY <1>2, <1>3, <1>4, <2>1
    <2>4. QED
      BY <2>1, <2>2, <2>3
  <1>6. Len(y) <= Len(x)
    BY <1>1, <1>5
  <1>7. \A i \in 1..Len(y) : i \in 1..Len(x)
    BY <1>1, <1>6
  <1>8. QED
    BY <1>2, <1>3, <1>4, <1>6, <1>7

LEMMA CutsAgree ==
    ASSUME NEW x \in Seq(Byte), NEW y \in Seq(Byte), NEW w \in Seq(Byte), NEW z \in Seq(Byte),
           x \o w = y \o z, Cut(x), Cut(y)
    PROVE  x = y
  <1>1. /\ Len(x) \in 1..Room /\ Len(y) \in 1..Room /\ Room \in Nat
        /\ \A i \in 1..(Len(x) - 1) : x[i] # Newline
        /\ \A i \in 1..(Len(y) - 1) : y[i] # Newline
    BY RoomIs DEF Cut
  <1>2. Len(x) <= Room /\ Len(y) <= Room
    BY <1>1
  <1>3. Len(y) <= Len(x) /\ \A i \in 1..Len(y) : y[i] = x[i]
    BY <1>1, <1>2, CutNotShorter
  <1>4. Len(x) <= Len(y)
    BY <1>1, <1>2, CutNotShorter
  <1>5. Len(x) = Len(y)
    BY <1>1, <1>3, <1>4
  <1>6. QED
    BY <1>3, <1>5, SeqEqual

\* What follows the bytes that have a place is what a broken connection lost.
LEMMA BytesAhead ==
    ASSUME IInv
    PROVE  \E z \in Seq(Byte) :
              BytesSent = BytesPlaced \o z /\ (writer # "broken" => z = <<>>)
  <1> DEFINE b == BytesSent
             p == BytesPlaced
  <1>1. b \in Seq(Byte) /\ p \in Seq(Byte)
    BY PlacedType DEF IInv
  <1>2. IF writer = "broken" THEN IsPrefix(p, b) ELSE p = b
    BY DEF IInv, BytesConserved
  <1> HIDE DEF b, p
  <1>3. Len(b) \in Nat /\ Len(p) \in Nat /\ \A i \in 1..Len(b) : b[i] \in Byte
    BY <1>1, LenProperties, ElementOfSeq
  <1>4. p \o <<>> = p /\ <<>> \o b = b /\ <<>> \in Seq(Byte)
    BY <1>1, ConcatEmptySeq, EmptySeq
  <1>5. CASE writer # "broken"
    BY <1>2, <1>4, <1>5 DEF b, p
  <1>6. CASE writer = "broken"
    <2>1. Len(p) <= Len(b) /\ p = SubSeq(b, 1, Len(p))
      <3>1. SubSeq(p, 1, Len(p)) = p
        BY <1>1, SubSeqFull
      <3>2. QED
        BY <1>2, <1>6, <3>1 DEF IsPrefix
    <2>2. CASE Len(p) = 0
      <3>1. p = <<>>
        BY <1>1, <2>2, EmptySeq
      <3>2. QED
        BY <1>1, <1>4, <1>6, <3>1 DEF b, p
    <2>3. CASE Len(p) # 0
      <3>1. Len(p) \in 1..Len(b)
        BY <1>3, <2>1, <2>3
      <3> DEFINE n == Len(p)
                 z == SubSeq(b, n + 1, Len(b))
      <3>2. n \in 1..Len(b)
        BY <3>1
      <3> HIDE DEF n
      <3>3. z \in Seq(Byte) /\ SubSeq(b, 1, n) \o z = b
        BY <1>1, <3>2, Split
      <3>4. p = SubSeq(b, 1, n)
        BY <2>1 DEF n
      <3> HIDE DEF z
      <3>5. QED
        BY <1>6, <3>3, <3>4 DEF b, p
    <2>4. QED
      BY <2>2, <2>3
  <1>7. QED
    BY <1>5, <1>6

\* What was sent behind the lines read: nothing, or the next line and others.
LEMMA LinesAhead ==
    ASSUME lines \in Seq(Seq(Byte)), Foreseen, Whole
    PROVE  \/ /\ Len(lines) = Len(ExpectedLines)
              /\ BytesSent = FlattenSeq(lines)
           \/ /\ Len(lines) < Len(ExpectedLines)
              /\ ExpectedLines[Len(lines) + 1] \in Seq(Byte)
              /\ \E y \in Seq(Byte) :
                    BytesSent = FlattenSeq(lines)
                                  \o (ExpectedLines[Len(lines) + 1] \o y)
  <1> DEFINE e == ExpectedLines
             n == Len(lines)
             Q == Seq(Byte)
  <1>1. e \in Seq(Q) /\ FlattenSeq(e) = BytesSent
    BY DEF Foreseen, Foresees
  <1>2. n <= Len(e) /\ \A i \in 1..n : lines[i] = e[i]
    BY DEF Whole
  <1>3. lines \in Seq(Q) /\ n \in Nat /\ Len(e) \in Nat
    BY <1>1, LenProperties
  <1> HIDE DEF e, Q
  <1>4. SubSeq(e, 1, n) = lines
    <2>1. \A i \in 1..n : e[0 + i] = lines[i]
      BY <1>2
    <2>2. 0 + n <= Len(e) /\ n <= Len(lines) /\ n = 0 + n /\ 0 \in Nat
      BY <1>2, <1>3
    <2>3. SubSeq(e, 0 + 1, n) = SubSeq(lines, 1, n)
      BY <1>1, <1>3, <2>1, <2>2, SubSeqsEqual
    <2>4. SubSeq(lines, 1, n) = lines
      BY <1>3, SubSeqFull
    <2>5. 0 + 1 = 1
      OBVIOUS
    <2>6. QED
      BY <2>3, <2>4, <2>5
  <1> HIDE DEF n
  <1>5. CASE n = Len(e)
    <2>1. SubSeq(e, 1, Len(e)) = e
      BY <1>1, SubSeqFull
    <2>2. QED
      BY <1>1, <1>4, <1>5, <2>1 DEF e, n
  <1>6. CASE n < Len(e)
    <2> DEFINE x == e[n + 1]
    <2>1. /\ n \in 0..(Len(e) - 1) /\ n + 1 \in 0..Len(e) /\ n + 1 \in 1..Len(e)
      BY <1>3, <1>6
    <2>2. SubSeq(e, 1, n + 1) = Append(lines, x) /\ x \in Q
      BY <1>1, <1>4, <2>1, SubSeqMore
    <2>3. PICK y \in Seq(Byte) : FlattenSeq(e) = FlattenSeq(SubSeq(e, 1, n + 1)) \o y
      BY <1>1, <2>1, FlattenPrefix DEF Q
    <2> HIDE DEF x
    <2>4. FlattenSeq(Append(lines, x)) = FlattenSeq(lines) \o x
      BY <1>3, <2>2, FlattenMore DEF Q
    <2> DEFINE f == FlattenSeq(lines)
    <2>5. f \in Seq(Byte)
      BY <1>3, FlattenType DEF Q
    <2> HIDE DEF f
    <2>6. (f \o x) \o y = f \o (x \o y)
      BY <2>2, <2>5, Regroup DEF Q
    <2>7. BytesSent = f \o (x \o y)
      BY <1>1, <2>2, <2>3, <2>4, <2>6 DEF f
    <2>8. ExpectedLines[Len(lines) + 1] \in Seq(Byte) /\ Len(lines) < Len(ExpectedLines)
      BY <1>6, <2>2 DEF e, n, x, Q
    <2>9. \E v \in Seq(Byte) : BytesSent = f \o (x \o v)
      BY <2>7
    <2>10. \E v \in Seq(Byte) :
              BytesSent = FlattenSeq(lines) \o (ExpectedLines[Len(lines) + 1] \o v)
      BY <2>9 DEF f, x, e, n
    <2>11. QED
      BY <2>8, <2>10
  <1>7. n = Len(e) \/ n < Len(e)
    BY <1>2, <1>3
  <1>8. QED
    BY <1>5, <1>6, <1>7

LEMMA Gathered ==
    ASSUME TypeOK, NEW z \in Seq(Byte)
    PROVE  BytesPlaced \o z
              = FlattenSeq(lines) \o (Held \o (((rio_buf \o stream) \o out) \o z))
  <1> DEFINE f == FlattenSeq(lines)
             g == Held
             r == rio_buf
             s == stream
             o == out
  <1>0. /\ f \in Seq(Byte) /\ g \in Seq(Byte) /\ r \in Seq(Byte) /\ s \in Seq(Byte)
        /\ o \in Seq(Byte)
        /\ BytesPlaced = (((f \o g) \o r) \o s) \o o
    BY PlacedType
  <1> HIDE DEF f, g, r, s, o
  <1>1. ((f \o g) \o r) \o s = (f \o g) \o (r \o s)
    <2> DEFINE a == f \o g
    <2>1. a \in Seq(Byte) /\ r \in Seq(Byte) /\ s \in Seq(Byte)
      BY <1>0
    <2> HIDE DEF a
    <2>2. (a \o r) \o s = a \o (r \o s)
      BY <2>1, Regroup, ZenonT(30)
    <2>3. QED
      BY <2>2 DEF a
  <1> DEFINE b == r \o s
             c == b \o o
             d == c \o z
  <1>2. b \in Seq(Byte)
    BY <1>0
  <1> HIDE DEF b
  <1>3. c \in Seq(Byte)
    BY <1>0, <1>2
  <1> HIDE DEF c
  <1>4. d \in Seq(Byte)
    BY <1>3
  <1>5. ((f \o g) \o b) \o o = (f \o g) \o c
    <2> DEFINE a == f \o g
    <2>1. a \in Seq(Byte) /\ b \in Seq(Byte) /\ o \in Seq(Byte)
      BY <1>0, <1>2
    <2> HIDE DEF a
    <2>2. (a \o b) \o o = a \o (b \o o)
      BY <2>1, Regroup, ZenonT(30)
    <2>3. QED
      BY <2>2 DEF a, c
  <1>6. ((f \o g) \o c) \o z = (f \o g) \o d
    <2> DEFINE a == f \o g
    <2>1. a \in Seq(Byte) /\ c \in Seq(Byte) /\ z \in Seq(Byte)
      BY <1>0, <1>3
    <2> HIDE DEF a
    <2>2. (a \o c) \o z = a \o (c \o z)
      BY <2>1, Regroup, ZenonT(30)
    <2>3. QED
      BY <2>2 DEF a
  <1> HIDE DEF d
  <1>7. (f \o g) \o d = f \o (g \o d)
    <2>1. f \in Seq(Byte) /\ g \in Seq(Byte) /\ d \in Seq(Byte)
      BY <1>0, <1>4
    <2> HIDE DEF d
    <2>2. QED
      BY <2>1, Regroup, ZenonT(30)
  <1>8. ((((f \o g) \o r) \o s) \o o) \o z = f \o (g \o d)
    BY <1>1, <1>5, <1>6, <1>7 DEF b
  <1>9. QED
    BY <1>0, <1>8 DEF b, c, d, f, g, r, s, o

LEMMA Cancelled ==
    ASSUME NEW f \in Seq(Byte), NEW u \in Seq(Byte), NEW v \in Seq(Byte), f \o u = f \o v
    PROVE  u = v
  BY ConcatSimplifications

\* The line being read and the next one sent begin the same bytes.
LEMMA NextLine ==
    ASSUME IInv, Foreseen, Whole, reader = "reading", line # <<>>
    PROVE  /\ Len(lines) < Len(ExpectedLines)
           /\ ExpectedLines[Len(lines) + 1] \in Seq(Byte)
           /\ Cut(ExpectedLines[Len(lines) + 1])
           /\ \E w \in Seq(Byte), y \in Seq(Byte) :
                 /\ line \o w = ExpectedLines[Len(lines) + 1] \o y
                 /\ rio_buf = <<>> /\ stream = <<>> /\ writer = "closed" => w = <<>>
  <1> DEFINE f == FlattenSeq(lines)
             x == ExpectedLines[Len(lines) + 1]
             g == line
             r == rio_buf
             s == stream
             o == out
  <1>1. PICK z \in Seq(Byte) :
           BytesSent = BytesPlaced \o z /\ (writer # "broken" => z = <<>>)
    BY BytesAhead
  <1>2. /\ f \in Seq(Byte) /\ g \in Seq(Byte) /\ r \in Seq(Byte) /\ s \in Seq(Byte)
        /\ o \in Seq(Byte)
        /\ BytesPlaced = (((f \o g) \o r) \o s) \o o
        /\ writer = "closed" => o = <<>>
    BY PlacedType DEF IInv, TypeOK, Held
  <1> DEFINE w == ((r \o s) \o o) \o z
  <1>3. /\ w \in Seq(Byte)
        /\ r = <<>> /\ s = <<>> /\ writer = "closed" => w = <<>>
    <2>1. /\ r \o s \in Seq(Byte) /\ (r \o s) \o o \in Seq(Byte) /\ w \in Seq(Byte)
      <3> HIDE DEF r, s, o
      <3>1. r \o s \in Seq(Byte)
        BY <1>2
      <3>2. (r \o s) \o o \in Seq(Byte)
        BY <1>2, <3>1
      <3>3. QED
        BY <3>1, <3>2
    <2>2. <<>> \o <<>> = <<>>
      BY EmptySeq, ConcatEmptySeq
    <2>3. ASSUME r = <<>>, s = <<>>, writer = "closed" PROVE w = <<>>
      <3>1. o = <<>> /\ z = <<>>
        BY <1>1, <1>2, <2>3
      <3> HIDE DEF r, s, o
      <3>2. w = ((<<>> \o <<>>) \o <<>>) \o <<>>
        BY <2>3, <3>1
      <3>3. QED
        BY <2>2, <3>2
    <2>4. QED
      BY <2>1, <2>3
  <1>4. BytesSent = f \o (g \o w)
    <2> HIDE DEF f, g, r, s, o
    <2>1. Held = g
      BY DEF Held, g
    <2>2. BytesPlaced \o z
             = FlattenSeq(lines) \o (Held \o (((rio_buf \o stream) \o out) \o z))
      BY Gathered DEF IInv
    <2>3. QED
      BY <1>1, <2>1, <2>2 DEF f, r, s, o
  <1> HIDE DEF w
  <1>5. g \o w \in Seq(Byte) /\ g \o w # <<>>
    <2> HIDE DEF g
    <2>1. g # <<>>
      BY DEF g
    <2>2. QED
      BY <1>2, <1>3, <2>1
  <1>6. BytesSent # f
    <2> HIDE DEF f, g
    <2> DEFINE u == g \o w
    <2>1. u \in Seq(Byte) /\ u # <<>> /\ BytesSent = f \o u
      BY <1>4, <1>5
    <2> HIDE DEF u
    <2>2. f \o u = f => u = <<>>
      BY <1>2, <2>1, ConcatSimplifications!idRight
    <2>3. QED
      BY <2>1, <2>2
  <1>7. /\ Len(lines) < Len(ExpectedLines) /\ x \in Seq(Byte)
        /\ \E y \in Seq(Byte) : BytesSent = f \o (x \o y)
    <2>1. lines \in Seq(Seq(Byte))
      BY DEF IInv, TypeOK
    <2>2. QED
      BY <1>6, <2>1, LinesAhead
  <1>8. PICK y \in Seq(Byte) : BytesSent = f \o (x \o y)
    BY <1>7
  <1>9. g \o w = x \o y
    <2> HIDE DEF f, g, x
    <2> DEFINE u == g \o w
               v == x \o y
    <2>1. u \in Seq(Byte) /\ v \in Seq(Byte) /\ f \o u = f \o v
      BY <1>4, <1>5, <1>7, <1>8
    <2> HIDE DEF u, v
    <2>2. u = v
      <3> DEFINE h == f
      <3>1. h \in Seq(Byte) /\ h \o u = h \o v
        BY <1>2, <2>1
      <3> HIDE DEF h
      <3>2. QED
        BY <2>1, <3>1, Cancelled
    <2>3. QED
      BY <2>2 DEF u, v
  <1>10. Cut(x)
    <2>1. Len(lines) + 1 \in 1..Len(ExpectedLines)
      <3>1. Len(lines) \in Nat /\ Len(ExpectedLines) \in Nat
        BY LenProperties DEF IInv, TypeOK, Foreseen, Foresees
      <3>2. QED
        BY <1>7, <3>1
    <2>2. QED
      BY <2>1 DEF Foreseen, Foresees
  <1>11. QED
    BY <1>3, <1>7, <1>9, <1>10

\* A complete line that is read is the next one sent; one cut off by the end of the
\* connection can only be the last.
LEMMA ReadWhole ==
    ASSUME IInv, Foreseen, Whole, OneLine, LineRead
    PROVE  Whole' \/ Torn'
  <1>1. /\ reader = "reading" /\ reader' = "idle" /\ lines' = Append(lines, line)
        /\ ~WantsByte \/ (AtEnd /\ line # <<>>)
        /\ UNCHANGED <<writer, rio_buf, stream, sent>>
    BY DEF LineRead, writerVars
  <1>2. /\ line \in Seq(Byte) /\ Len(line) \in Nat /\ Len(line) <= Room /\ Room \in Nat \ {0}
        /\ lines \in Seq(Seq(Byte)) /\ Len(lines) \in Nat /\ DOMAIN line = 1..Len(line)
    BY LenProperties, ConnectionAssumption, RoomIs DEF IInv, TypeOK, Room
  <1>3. WantsByte <=> (\A i \in 1..Len(line) : line[i] # Newline) /\ Len(line) < Room
    BY <1>1, <1>2 DEF WantsByte, Has, Room
  <1>4. line # <<>>
    <2>1. Len(<<>>) = 0
      BY EmptySeq
    <2>2. QED
      BY <1>1, <1>2, <1>3, <2>1
  <1> DEFINE n == Len(lines)
             x == ExpectedLines[n + 1]
  <1>5. /\ n < Len(ExpectedLines) /\ x \in Seq(Byte) /\ Cut(x)
        /\ Len(ExpectedLines) \in Nat
    BY <1>1, <1>4, NextLine, LenProperties DEF Foreseen, Foresees
  <1>6. PICK w \in Seq(Byte), y \in Seq(Byte) :
           /\ line \o w = x \o y
           /\ rio_buf = <<>> /\ stream = <<>> /\ writer = "closed" => w = <<>>
    BY <1>1, <1>4, NextLine
  <1>7. /\ Len(lines') = n + 1 /\ lines'[n + 1] = line
        /\ \A i \in 1..n : lines'[i] = lines[i]
        /\ ExpectedLines' = ExpectedLines
    BY <1>1, <1>2, AppendProperties DEF ExpectedLines
  <1> HIDE DEF x
  <1>8. ASSUME line = x PROVE Whole'
    <2>1. ASSUME NEW i \in 1..(n + 1) PROVE lines'[i] = ExpectedLines[i]
      <3>1. CASE i = n + 1
        BY <1>7, <1>8, <3>1 DEF x
      <3>2. CASE i # n + 1
        <4>1. i \in 1..n
          BY <1>2, <3>2
        <4>2. QED
          BY <1>7, <4>1 DEF Whole
      <3>3. QED
        BY <3>1, <3>2
    <2>2. n + 1 <= Len(ExpectedLines)
      BY <1>2, <1>5
    <2>3. QED
      BY <1>7, <2>1, <2>2 DEF Whole
  <1>9. CASE ~WantsByte
    <2> DEFINE g == line
               k == Len(g)
    <2> USE DEF OneLine
    <2>0. /\ g \in Seq(Byte) /\ k \in Nat /\ k <= Room /\ Room \in Nat \ {0}
          /\ ~((\A i \in 1..k : g[i] # Newline) /\ k < Room)
          /\ \A i \in 1..(k - 1) : g[i] # Newline
      BY <1>2, <1>3, <1>9
    <2>1. k # 0
      BY <1>2, <1>4, EmptySeq
    <2> HIDE DEF g, k
    <2>2. k = Room \/ g[k] = Newline
      <3> SUFFICES ASSUME k # Room PROVE g[k] = Newline
        OBVIOUS
      <3>1. k < Room
        BY <2>0
      <3>2. PICK i \in 1..k : g[i] = Newline
        BY <2>0, <3>1
      <3>3. ~(i \in 1..(k - 1))
        BY <2>0, <3>2
      <3>4. i = k
        BY <2>0, <3>3
      <3>5. QED
        BY <3>2, <3>4
    <2>3. Cut(line)
      <3>1. k \in 1..Room
        BY <2>0, <2>1
      <3>2. QED
        BY <2>0, <2>2, <3>1 DEF Cut, g, k
    <2>4. line = x
      BY <1>2, <1>5, <1>6, <2>3, CutsAgree
    <2>5. QED
      BY <1>8, <2>4
  <1>10. CASE WantsByte /\ writer = "broken"
    <2>1. rio_buf = <<>> /\ stream = <<>>
      BY <1>1, <1>10 DEF AtEnd
    <2>2. Held' = <<>>
      BY <1>1 DEF Held
    <2>3. n + 1 \in 1..Len(ExpectedLines) /\ (n + 1) - 1 = n
      BY <1>2, <1>5
    <2>4. \A i \in 1..n : lines'[i] = ExpectedLines[i]
      BY <1>7 DEF Whole
    <2>5. QED
      BY <1>1, <1>7, <1>10, <2>1, <2>2, <2>3, <2>4 DEF Torn
  <1>11. CASE WantsByte /\ writer # "broken"
    <2>1. rio_buf = <<>> /\ stream = <<>> /\ writer = "closed"
      BY <1>1, <1>11 DEF AtEnd
    <2>2. line = x \o y
      <3>1. w = <<>>
        BY <1>6, <2>1
      <3>2. line \o <<>> = line
        BY <1>2, ConcatEmptySeq
      <3>3. QED
        BY <1>6, <3>1, <3>2
    <2>3. /\ Len(x) \in Nat /\ Len(y) \in Nat /\ Len(x \o y) = Len(x) + Len(y)
          /\ \A i \in 1..(Len(x) + Len(y)) :
                (x \o y)[i] = IF i <= Len(x) THEN x[i] ELSE y[i - Len(x)]
      BY <1>5, ConcatProperties, LenProperties
    <2>4. Len(x) \in 1..Room /\ (Len(x) = Room \/ x[Len(x)] = Newline)
      BY <1>5 DEF Cut
    <2>5. Len(line) = Len(x) + Len(y) /\ Len(line) < Room
      BY <1>3, <1>11, <2>2, <2>3
    <2>6. Len(x) \in 1..(Len(x) + Len(y)) /\ Len(x) <= Len(x) /\ Len(x) # Room
      BY <1>2, <2>3, <2>4, <2>5
    <2>7. line[Len(x)] = Newline
      BY <2>2, <2>3, <2>4, <2>6
    <2>8. QED
      BY <1>3, <1>11, <2>5, <2>6, <2>7
  <1>12. QED
    BY <1>9, <1>10, <1>11

LEMMA OneLineStep ==
    ASSUME IInv, OneLine, Next
    PROVE  OneLine'
  <1>1. ASSUME UNCHANGED line PROVE OneLine'
    BY <1>1 DEF OneLine
  <1>2. ASSUME Receive PROVE OneLine'
    <2>1. line' = <<>> /\ Len(<<>>) = 0
      BY <1>2, EmptySeq DEF Receive
    <2>2. QED
      BY <2>1 DEF OneLine
  <1>3. ASSUME TakeByte PROVE OneLine'
    <2> DEFINE g == line
               h == Head(rio_buf)
    <2>1. rio_buf \in Seq(Byte) /\ rio_buf # <<>> /\ g \in Seq(Byte)
      BY <1>3 DEF TakeByte, IInv, TypeOK
    <2>2. h \in Byte /\ line' = Append(g, h)
      BY <1>3, <2>1 DEF TakeByte
    <2>3. Len(g) \in Nat /\ \A i \in 1..Len(g) : g[i] # Newline
      BY <1>3, <2>1, LenProperties DEF TakeByte, WantsByte, Has
    <2> HIDE DEF g, h
    <2>4. Len(Append(g, h)) = Len(g) + 1 /\ \A i \in 1..Len(g) : Append(g, h)[i] = g[i]
      BY <2>1, <2>2, AppendProperties
    <2>5. (Len(g) + 1) - 1 = Len(g)
      BY <2>3
    <2>6. QED
      BY <2>2, <2>3, <2>4, <2>5 DEF OneLine
  <1>4. QED
    BY NextCases, <1>1, <1>2, <1>3 DEF Send, Write, Break, CloseWriter, LineRead, EndSeen,
       ReadFails, Refill, readerVars

LEMMA ForeseenStep ==
    ASSUME IInv, Foreseen, Next
    PROVE  Foreseen'
  <1>1. ASSUME NEW m \in Message, Send(m) PROVE Foreseen'
    BY <1>1, ForeseenSend DEF IInv, TypeOK, Send
  <1>2. ASSUME UNCHANGED sent PROVE Foreseen'
    BY <1>2 DEF Foreseen, Foresees, ExpectedLines, Expected, BytesSent
  <1>3. QED
    BY NextCases, <1>1, <1>2 DEF Write, Break, CloseWriter, Receive, TakeByte, LineRead,
       EndSeen, ReadFails, Refill, writerVars

\* Only reading a line, and sending, can change whether the lines are those sent.
LEMMA LinesStep ==
    ASSUME IInv, Intact, Next
    PROVE  Whole' \/ Torn'
  <1>T. /\ lines \in Seq(Seq(Byte)) /\ Len(lines) \in Nat
        /\ ExpectedLines \in Seq(Seq(Byte)) /\ Len(ExpectedLines) \in Nat
    BY LenProperties DEF IInv, TypeOK, Intact, Foreseen, Foresees
  <1>E. ASSUME UNCHANGED sent PROVE UNCHANGED ExpectedLines
    BY <1>E DEF ExpectedLines
  <1>1. ASSUME NEW m \in Message, Send(m) PROVE Whole'
    <2>1. Whole
      BY <1>1 DEF Send, Intact, Torn
    <2> DEFINE e == ExpectedLines
               p == Pieces(Encode(m))
               n == Len(lines)
    <2>2. ExpectedLines' = e \o p
      BY <1>1, ForeseenSend DEF Intact, IInv, TypeOK, Send
    <2>3. e \in Seq(Seq(Byte)) /\ p \in Seq(Seq(Byte)) /\ n \in Nat
          /\ Len(e) \in Nat /\ Len(p) \in Nat
      BY <1>T, ArrivalsAre, LenProperties
    <2>4. n <= Len(e) /\ \A i \in 1..n : lines[i] = e[i]
      BY <2>1 DEF Whole
    <2>5. UNCHANGED lines
      BY <1>1 DEF Send, readerVars
    <2> HIDE DEF e, p, n
    <2>6. /\ Len(e \o p) = Len(e) + Len(p)
          /\ \A i \in 1..(Len(e) + Len(p)) :
                (e \o p)[i] = IF i <= Len(e) THEN e[i] ELSE p[i - Len(e)]
      BY <2>3, ConcatProperties
    <2>7. \A i \in 1..n : i \in 1..(Len(e) + Len(p)) /\ i <= Len(e)
      BY <2>3, <2>4
    <2>8. n <= Len(e \o p) /\ \A i \in 1..n : lines[i] = (e \o p)[i]
      BY <2>3, <2>4, <2>6, <2>7
    <2>9. QED
      BY <2>2, <2>5, <2>8 DEF Whole, n
  <1>2. ASSUME LineRead PROVE Whole' \/ Torn'
    <2>1. Whole
      <3>1. SUFFICES ASSUME Torn PROVE FALSE
        BY DEF Intact
      <3>2. line = <<>> /\ reader = "reading" /\ WantsByte
        <4>1. reader = "reading" /\ line = <<>>
          BY <1>2, <3>1 DEF LineRead, Torn, Held
        <4>2. Len(<<>>) = 0 /\ DOMAIN <<>> = {}
          BY EmptySeq
        <4>3. 0 < MAXLINE - 1
          BY ConnectionAssumption
        <4>4. QED
          BY <4>1, <4>2, <4>3 DEF WantsByte, Has
      <3>3. QED
        BY <1>2, <3>2 DEF LineRead
    <2>2. QED
      BY <1>2, <2>1, ReadWhole DEF Intact
  \* No other step changes the lines, nor finds more bytes once they have ended.
  <1>3. ASSUME UNCHANGED <<lines, sent>>,
               Torn => UNCHANGED <<rio_buf, stream, writer>> /\ Held' = <<>>
        PROVE  Whole' \/ Torn'
    <2>1. CASE Whole
      BY <1>3, <1>E, <2>1 DEF Whole
    <2>2. CASE Torn
      BY <1>3, <1>E, <2>2 DEF Torn
    <2>3. QED
      BY <2>1, <2>2 DEF Intact
  <1>4. ASSUME NEW n \in 1..Len(out), Write(n) PROVE Whole' \/ Torn'
    BY <1>3, <1>4 DEF Write, Torn, readerVars
  <1>5. ASSUME Break \/ CloseWriter PROVE Whole' \/ Torn'
    BY <1>3, <1>5 DEF Break, CloseWriter, Torn, readerVars
  <1>6. ASSUME Receive PROVE Whole' \/ Torn'
    BY <1>3, <1>6 DEF Receive, Torn, Held, writerVars
  <1>7. ASSUME TakeByte PROVE Whole' \/ Torn'
    BY <1>3, <1>7 DEF TakeByte, Torn, writerVars
  <1>8. ASSUME EndSeen \/ ReadFails PROVE Whole' \/ Torn'
    BY <1>3, <1>8 DEF EndSeen, ReadFails, WantsByte, AtEnd, Torn, Held, writerVars
  <1>9. ASSUME NEW n \in 1..Smaller(RIO_BUFSIZE, Len(stream)), Refill(n)
        PROVE  Whole' \/ Torn'
    BY <1>3, <1>9 DEF Refill, Torn, writerVars
  <1>10. QED
    BY NextCases, <1>1, <1>2, <1>4, <1>5, <1>6, <1>7, <1>8, <1>9

LEMMA IntactInit == Init => Intact
  <1> SUFFICES ASSUME Init PROVE Intact
    OBVIOUS
  <1>1. Foreseen
    BY ForeseenInit
  <1>2. Len(ExpectedLines) \in Nat
    BY <1>1, LenProperties DEF Foreseen, Foresees
  <1>3. line = <<>> /\ lines = <<>> /\ Len(<<>>) = 0
    BY EmptySeq DEF Init
  <1>4. OneLine /\ Whole
    BY <1>2, <1>3 DEF OneLine, Whole
  <1>5. QED
    BY <1>1, <1>4 DEF Intact

LEMMA IntactStep ==
    ASSUME IInv, Intact, [Next]_vars
    PROVE  Intact'
  <1>1. CASE Next
    BY <1>1, OneLineStep, ForeseenStep, LinesStep DEF Intact
  <1>2. CASE UNCHANGED vars
    <2>1. /\ UNCHANGED <<line, lines, sent, writer, rio_buf, stream, reader>>
      BY <1>2 DEF vars
    <2>2. UNCHANGED <<ExpectedLines, Expected, BytesSent, Held>>
      BY <2>1 DEF ExpectedLines, Expected, BytesSent, Held
    <2>3. QED
      BY <2>1, <2>2 DEF Intact, OneLine, Foreseen, Foresees, Whole, Torn
  <1>3. QED
    BY <1>1, <1>2

\* What the lines of s were taken for comes first among what those of e are.
LEMMA PrefixesAre ==
    ASSUME NEW S, NEW s \in Seq(S), NEW e \in Seq(S), NEW n \in Nat, n <= Len(s), n <= Len(e),
           \A i \in 1..n : s[i] = e[i]
    PROVE  SubSeq(s, 1, n) = SubSeq(e, 1, n)
  <1>1. SubSeq(s, 0 + 1, n) = SubSeq(e, 1, n)
    <2>1. 0 \in Nat /\ 0 + n <= Len(s) /\ n = 0 + n /\ \A i \in 1..n : s[0 + i] = e[i]
      OBVIOUS
    <2>2. QED
      BY <2>1, SubSeqsEqual
  <1>2. QED
    BY <1>1

LEMMA MessagesAreIntact == IInv /\ Intact => MessagesIntact
  <1> SUFFICES ASSUME IInv, Intact PROVE MessagesIntact
    OBVIOUS
  <1> DEFINE r == received
             e == Expected
             n == Len(lines)
             k == Len(ExpectedLines)
  <1>1. /\ r \in Seq(Reading) /\ Len(r) = n /\ n \in Nat
        /\ \A i \in 1..n : r[i] = bufferToMessage(lines[i])
    BY LenProperties DEF IInv, TypeOK, Parsed
  <1>2. /\ e \in Seq(Reading) /\ Len(e) = k /\ k \in Nat
        /\ \A i \in 1..k : e[i] = bufferToMessage(ExpectedLines[i])
    BY LenProperties DEF Intact, Foreseen, Foresees
  <1> HIDE DEF r, e, n, k
  <1>3. CASE Whole
    <2>1. n <= k /\ \A i \in 1..n : lines[i] = ExpectedLines[i] /\ i \in 1..k
      BY <1>1, <1>2, <1>3 DEF Whole, n, k
    <2>2. \A i \in 1..n : r[i] = e[i]
      BY <1>1, <1>2, <2>1
    <2>3. SubSeq(r, 1, n) = SubSeq(e, 1, n)
      BY <1>1, <1>2, <2>1, <2>2, PrefixesAre
    <2>4. IsPrefix(r, e)
      BY <1>1, <1>2, <2>1, <2>3 DEF IsPrefix
    <2>5. QED
      BY <2>4 DEF MessagesIntact, r, e
  <1>4. CASE Torn
    <2>1. writer = "broken" /\ n \in 1..k
          /\ \A i \in 1..(n - 1) : lines[i] = ExpectedLines[i]
      BY <1>4 DEF Torn, n, k
    <2>2. \A i \in 1..(n - 1) : r[i] = e[i]
      <3>1. \A i \in 1..(n - 1) : i \in 1..n /\ i \in 1..k
        BY <1>1, <1>2, <2>1
      <3>2. QED
        BY <1>1, <1>2, <2>1, <3>1
    <2>3. n - 1 \in Nat /\ n - 1 <= n /\ n - 1 <= k /\ n <= k
      BY <1>1, <1>2, <2>1
    <2> DEFINE j == n - 1
    <2>4. SubSeq(r, 1, j) = SubSeq(e, 1, j)
      BY <1>1, <1>2, <2>2, <2>3, PrefixesAre
    <2>5. Len(SubSeq(r, 1, j)) = j /\ SubSeq(SubSeq(r, 1, j), 1, j) = SubSeq(r, 1, j)
      <3> DEFINE q == SubSeq(r, 1, j)
      <3>1. \A i \in 1..j : r[i] \in Reading
        <4>1. \A i \in 1..n : r[i] \in Reading
          BY <1>1, ElementOfSeq
        <4>2. QED
          BY <1>1, <2>3, <4>1
      <3>2. q \in Seq(Reading) /\ Len(q) = IF 1 <= j THEN j - 1 + 1 ELSE 0
        BY <2>3, <3>1, SubSeqProperties
      <3>3. Len(q) = j
        BY <2>3, <3>2
      <3> HIDE DEF q
      <3>4. SubSeq(q, 1, Len(q)) = q
        BY <3>2, SubSeqFull
      <3>5. QED
        BY <3>3, <3>4 DEF q
    <2>6. Front(r) = SubSeq(r, 1, j)
      BY <1>1 DEF Front
    <2>7. IsPrefix(Front(r), e)
      <3> HIDE DEF j
      <3>1. j <= Len(e)
        BY <1>2, <2>3 DEF j
      <3>2. QED
        BY <2>4, <2>5, <2>6, <3>1 DEF IsPrefix
    <2>8. r # <<>>
      <3>1. Len(r) # 0
        BY <1>1, <2>1
      <3>2. QED
        BY <3>1, EmptySeq
    <2>9. QED
      BY <1>1, <1>2, <2>1, <2>3, <2>7, <2>8 DEF MessagesIntact, r, e
  <1>5. QED
    BY <1>3, <1>4 DEF Intact

\* Messages arrive in order, with the tag and the data they were sent with, whatever
\* parts of their lines write takes and read returns and however long their data is:
\* a line that does not fit the buffer is cut up and leaves the others as they are.
\* Only the last one received over a broken connection can be something else.
THEOREM MessagesIntactCorrect == Spec => []MessagesIntact
  <1>1. Init => IInv /\ Intact
    BY InvInit, IntactInit
  <1>2. IInv /\ Intact /\ [Next]_vars => (IInv /\ Intact)'
    BY InvStep, IntactStep
  <1>3. IInv /\ Intact => MessagesIntact
    BY MessagesAreIntact
  <1>4. QED
    BY <1>1, <1>2, <1>3, PTL DEF Spec
=============================================================================
