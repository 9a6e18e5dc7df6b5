-------------------------- MODULE ChatSystemProofs --------------------------
(***************************************************************************)
(* Machine-checked proofs about ChatSystem, for any clients, names, rooms  *)
(* and lines.  The server's part of it behaves as ChatServer allows, so    *)
(* everything proved in ChatServerProofs holds of it.                      *)
(***************************************************************************)
EXTENDS ChatSystem, ChatServerProofs

-----------------------------------------------------------------------------
(* Texts *)

\* The words that names, rooms and lines are made of.
Word == {Client!Colon} \cup UNION {ToSet(t) : t \in Line \cup RoomName \cup UserName}

LEMMA TextsAre == Line \cup RoomName \cup UserName \subseteq Seq(Word)
  <1> SUFFICES ASSUME NEW t \in Line \cup RoomName \cup UserName PROVE t \in Seq(Word)
    OBVIOUS
  <1>1. t \in Seq(ToSet(t)) /\ ToSet(t) \subseteq Word
    BY SystemAssumption DEF Word
  <1>2. QED
    BY <1>1, SeqMonotonic

\* find finds the first place after p ...
LEMMA FindFirst ==
    ASSUME NEW s \in Seq(Word), NEW w, NEW p \in Nat, NEW i \in (p + 1)..Len(s),
           s[i] = w, \A k \in (p + 1)..(i - 1) : s[k] # w
    PROVE  Client!Find(s, w, p) = i
  <1> DEFINE later == {k \in (p + 1)..Len(s) : s[k] = w}
  <1>1. i \in later /\ Len(s) \in Nat /\ i \in Nat
    BY LenProperties
  <1>2. \A k \in later : i <= k
    BY <1>1
  <1>3. \A x \in later : (\A y \in later : x =< y) => x = i
    BY <1>1, <1>2
  <1>4. (CHOOSE x \in later : \A y \in later : x =< y) = i
    <2> HIDE DEF later
    <2> QED
      BY <1>1, <1>2, <1>3
  <1>5. QED
    BY <1>1, <1>4 DEF Client!Find, Client!Min

\* ... or stays where it is.
LEMMA FindNone ==
    ASSUME NEW s, NEW w, NEW p, \A k \in (p + 1)..Len(s) : s[k] # w
    PROVE  Client!Find(s, w, p) = p
  BY DEF Client!Find

LEMMA FindRange ==
    ASSUME NEW s \in Seq(Word), NEW w, NEW p \in 0..Len(s)
    PROVE  Client!Find(s, w, p) \in p..Len(s)
  <1> DEFINE later == {k \in (p + 1)..Len(s) : s[k] = w}
  <1>0. Len(s) \in Nat /\ p \in Nat
    BY LenProperties
  <1>1. CASE later = {}
    BY <1>0, <1>1, FindNone
  <1>2. CASE later # {}
    <2>1. later \subseteq Nat
      BY <1>0
    <2>2. PICK i \in later : \A k \in later : i <= k
      <3> HIDE DEF later
      <3> QED
        BY <1>2, <2>1, Least
    <2>3. i \in (p + 1)..Len(s) /\ s[i] = w
      BY <2>2
    <2>4. \A k \in (p + 1)..(i - 1) : s[k] # w
      BY <1>0, <2>2, <2>3
    <2>5. Client!Find(s, w, p) = i
      BY <1>0, <2>3, <2>4, FindFirst
    <2>6. QED
      BY <1>0, <2>3, <2>5
  <1>3. QED
    BY <1>1, <1>2

LEMMA OneAfterOther ==
    ASSUME NEW p \in Seq(Word), NEW q \in Seq(Word)
    PROVE  /\ p \o q \in Seq(Word) /\ Len(p \o q) = Len(p) + Len(q)
           /\ \A i \in 1..Len(p) : (p \o q)[i] = p[i]
           /\ \A i \in 1..Len(q) : (p \o q)[Len(p) + i] = q[i]
  <1> DEFINE c == p \o q
  <1>1. /\ c \in Seq(Word) /\ Len(c) = Len(p) + Len(q)
        /\ \A i \in 1..(Len(p) + Len(q)) : c[i] = IF i <= Len(p) THEN p[i] ELSE q[i - Len(p)]
    BY ConcatProperties
  <1>2. Len(p) \in Nat /\ Len(q) \in Nat
    BY LenProperties
  <1> HIDE DEF c
  <1>3. ASSUME NEW i \in 1..Len(p) PROVE c[i] = p[i]
    <2>1. i \in 1..(Len(p) + Len(q)) /\ i <= Len(p)
      BY <1>2
    <2>2. QED
      BY <1>1, <2>1
  <1>4. ASSUME NEW i \in 1..Len(q) PROVE c[Len(p) + i] = q[i]
    <2> DEFINE j == Len(p) + i
    <2>1. j \in 1..(Len(p) + Len(q)) /\ ~(j <= Len(p)) /\ j - Len(p) = i
      BY <1>2
    <2> HIDE DEF j
    <2>2. c[j] = q[i]
      BY <1>1, <2>1
    <2>3. QED
      BY <2>2 DEF j
  <1>5. QED
    BY <1>1, <1>3, <1>4 DEF c

\* The parts of room:name:text, and where they are in it.
ThreeParts(r, n, t) == r \o <<Client!Colon>> \o n \o <<Client!Colon>> \o t

LEMMA Parts ==
    ASSUME NEW r \in Seq(Word), NEW n \in Seq(Word), NEW t \in Seq(Word)
    PROVE  LET d == ThreeParts(r, n, t)
           IN  /\ d \in Seq(Word) /\ Len(d) = Len(r) + Len(n) + 2 + Len(t)
               /\ \A i \in 1..Len(r) : d[i] = r[i]
               /\ d[Len(r) + 1] = Client!Colon
               /\ \A i \in 1..Len(n) : d[Len(r) + 1 + i] = n[i]
               /\ d[Len(r) + Len(n) + 2] = Client!Colon
               /\ \A i \in 1..Len(t) : d[Len(r) + Len(n) + 2 + i] = t[i]
  <1> DEFINE d == ThreeParts(r, n, t)
             a1 == Append(r, Client!Colon)
             a2 == a1 \o n
             a3 == Append(a2, Client!Colon)
  <1>0. Len(r) \in Nat /\ Len(n) \in Nat /\ Len(t) \in Nat /\ Client!Colon \in Word
    BY LenProperties DEF Word
  <1>1. /\ a1 \in Seq(Word) /\ Len(a1) = Len(r) + 1
        /\ \A i \in 1..Len(r) : a1[i] = r[i]
        /\ a1[Len(r) + 1] = Client!Colon
        /\ a1 = r \o <<Client!Colon>>
    BY <1>0, AppendProperties, AppendIsConcat
  <1> HIDE DEF a1
  <1>2. /\ a2 \in Seq(Word) /\ Len(a2) = Len(a1) + Len(n)
        /\ \A i \in 1..Len(a1) : a2[i] = a1[i]
        /\ \A i \in 1..Len(n) : a2[Len(a1) + i] = n[i]
    BY <1>1, OneAfterOther
  <1> HIDE DEF a2
  <1>3. /\ a3 \in Seq(Word) /\ Len(a3) = Len(a2) + 1
        /\ \A i \in 1..Len(a2) : a3[i] = a2[i]
        /\ a3[Len(a2) + 1] = Client!Colon
        /\ a3 = a2 \o <<Client!Colon>>
    BY <1>0, <1>2, AppendProperties, AppendIsConcat
  <1> HIDE DEF a3
  <1>4. d = a3 \o t
    BY <1>1, <1>3 DEF a2, ThreeParts
  <1>5. /\ d \in Seq(Word) /\ Len(d) = Len(a3) + Len(t)
        /\ \A i \in 1..Len(a3) : d[i] = a3[i]
        /\ \A i \in 1..Len(t) : d[Len(a3) + i] = t[i]
    <2>1. /\ a3 \o t \in Seq(Word) /\ Len(a3 \o t) = Len(a3) + Len(t)
          /\ \A i \in 1..Len(a3) : (a3 \o t)[i] = a3[i]
          /\ \A i \in 1..Len(t) : (a3 \o t)[Len(a3) + i] = t[i]
      BY <1>3, OneAfterOther
    <2>2. QED
      BY <1>4, <2>1
  <1> HIDE DEF d
  <1>6. Len(a1) = Len(r) + 1 /\ Len(a2) = Len(r) + 1 + Len(n) /\ Len(a3) = Len(r) + Len(n) + 2
    BY <1>0, <1>1, <1>2, <1>3
  <1>7. ASSUME NEW i \in 1..Len(r) PROVE d[i] = r[i]
    <2>1. i \in 1..Len(a1) /\ i \in 1..Len(a2) /\ i \in 1..Len(a3)
      BY <1>0, <1>6
    <2>2. QED
      BY <1>1, <1>2, <1>3, <1>5, <2>1
  <1>8. d[Len(r) + 1] = Client!Colon
    BY <1>0, <1>1, <1>2, <1>3, <1>5, <1>6
  <1>9. ASSUME NEW i \in 1..Len(n) PROVE d[Len(r) + 1 + i] = n[i]
    <2>1. /\ Len(r) + 1 + i = Len(a1) + i
          /\ Len(a1) + i \in 1..Len(a2) /\ Len(a1) + i \in 1..Len(a3)
      BY <1>0, <1>6
    <2>2. QED
      BY <1>2, <1>3, <1>5, <2>1
  <1>10. d[Len(r) + Len(n) + 2] = Client!Colon
    <2>1. Len(r) + Len(n) + 2 = Len(a2) + 1 /\ Len(a2) + 1 \in 1..Len(a3)
      BY <1>0, <1>6
    <2>2. QED
      BY <1>3, <1>5, <2>1
  <1>11. /\ Len(d) = Len(r) + Len(n) + 2 + Len(t)
         /\ \A i \in 1..Len(t) : d[Len(r) + Len(n) + 2 + i] = t[i]
    BY <1>0, <1>5, <1>6
  <1>12. QED
    BY <1>5, <1>7, <1>8, <1>9, <1>10, <1>11 DEF d

LEMMA PrefixIs ==
    ASSUME NEW p \in Seq(Word), NEW q \in Seq(Word), Len(p) <= Len(q),
           \A i \in 1..Len(p) : p[i] = q[i]
    PROVE  IsPrefix(p, q)
  <1> DEFINE u == SubSeq(p, 1, Len(p))
             v == SubSeq(q, 1, Len(p))
  <1>0. Len(p) \in Nat /\ Len(q) \in Nat /\ \A i \in 1..Len(p) : p[i] \in Word
    BY LenProperties, ElementOfSeq
  <1>1. /\ u \in Seq(Word) /\ v \in Seq(Word) /\ Len(u) = Len(p) /\ Len(v) = Len(p)
        /\ \A i \in 1..Len(p) : u[i] = p[1 + i - 1] /\ v[i] = q[1 + i - 1]
    <2>1. /\ u \in Seq(Word) /\ Len(u) = IF 1 <= Len(p) THEN Len(p) - 1 + 1 ELSE 0
          /\ \A i \in 1..(Len(p) - 1 + 1) : u[i] = p[1 + i - 1]
      BY <1>0, SubSeqProperties
    <2>2. /\ v \in Seq(Word) /\ Len(v) = IF 1 <= Len(p) THEN Len(p) - 1 + 1 ELSE 0
          /\ \A i \in 1..(Len(p) - 1 + 1) : v[i] = q[1 + i - 1]
      BY <1>0, SubSeqProperties
    <2> HIDE DEF u, v
    <2>3. QED
      BY <1>0, <2>1, <2>2
  <1> HIDE DEF u, v
  <1>2. \A i \in 1..Len(u) : u[i] = v[i]
    BY <1>0, <1>1
  <1>3. u = v
    BY <1>1, <1>2, SeqEqual
  <1>4. QED
    BY <1>3 DEF IsPrefix, u, v

\* Without a colon in room and name: the name comes out as it is, and of the text
\* what follows some place in it; all of it when it has no colon either.
LEMMA ShownIs ==
    ASSUME NEW r \in Seq(Word), NEW n \in Seq(Word), NEW t \in Seq(Word),
           NoColon(r), NoColon(n)
    PROVE  LET d == ThreeParts(r, n, t)
           IN  /\ IsSuffix(Client!Shown(d).data, t) /\ IsPrefix(n, Client!Shown(d).tag)
               /\ NoColon(t) => Client!Shown(d) = [tag |-> n, data |-> t]
  <1> DEFINE d == ThreeParts(r, n, t)
             first  == Client!Find(d, Client!Colon, 0)
             second == Client!Find(d, Client!Colon, first)
             fourth == Client!Find(d, Client!Colon, Client!Find(d, Client!Colon, second))
             fifth  == Client!Find(d, Client!Colon, fourth)
             tag    == SubSeq(d, first + 1, second - 1)
             more   == SubSeq(d, fourth + 1, fifth)
             rest   == SubSeq(d, fifth + 1, Len(d))
             a == Len(r) + 1
             b == Len(r) + Len(n) + 2
  <1>0. Len(r) \in Nat /\ Len(n) \in Nat /\ Len(t) \in Nat
    BY LenProperties
  <1>1. /\ d \in Seq(Word) /\ Len(d) = b + Len(t)
        /\ \A i \in 1..Len(r) : d[i] = r[i]
        /\ d[a] = Client!Colon
        /\ \A i \in 1..Len(n) : d[a + i] = n[i]
        /\ d[b] = Client!Colon
        /\ \A i \in 1..Len(t) : d[b + i] = t[i]
    <2>1. /\ d \in Seq(Word) /\ Len(d) = Len(r) + Len(n) + 2 + Len(t)
          /\ \A i \in 1..Len(r) : d[i] = r[i]
          /\ d[Len(r) + 1] = Client!Colon
          /\ \A i \in 1..Len(n) : d[Len(r) + 1 + i] = n[i]
          /\ d[Len(r) + Len(n) + 2] = Client!Colon
          /\ \A i \in 1..Len(t) : d[Len(r) + Len(n) + 2 + i] = t[i]
      BY Parts
    <2>2. QED
      BY <1>0, <2>1
  <1>2. Client!Shown(d) = [tag |-> tag \o more, data |-> rest]
    BY DEF Client!Shown
  <1> HIDE DEF d
  <1>3. first = a
    <2>1. a \in (0 + 1)..Len(d) /\ (0 + 1)..(a - 1) = 1..Len(r)
      BY <1>0, <1>1
    <2>2. \A k \in 1..Len(r) : d[k] # Client!Colon
      BY <1>1 DEF NoColon, Contains
    <2>3. d \in Seq(Word) /\ d[a] = Client!Colon
      BY <1>1
    <2>4. QED
      <3> HIDE DEF a
      <3>1. \A k \in (0 + 1)..(a - 1) : d[k] # Client!Colon
        BY <2>1, <2>2
      <3>2. QED
        BY <2>1, <2>3, <3>1, FindFirst
  <1>4. second = b
    <2>1. b \in (a + 1)..Len(d) /\ a \in Nat
      BY <1>0, <1>1
    <2>2. ASSUME NEW k \in (a + 1)..(b - 1) PROVE d[k] # Client!Colon
      <3>1. k - a \in 1..Len(n) /\ d[a + (k - a)] = d[k]
        BY <1>0
      <3>2. QED
        BY <1>1, <3>1 DEF NoColon, Contains
    <2>3. Client!Find(d, Client!Colon, a) = b
      <3>1. d \in Seq(Word) /\ d[b] = Client!Colon
        BY <1>1
      <3> HIDE DEF a, b
      <3>2. QED
        BY <2>1, <2>2, <3>1, FindFirst
    <2>4. QED
      BY <1>3, <2>3
  <1>5. fourth \in b..Len(d) /\ fifth \in fourth..Len(d)
    <2> DEFINE third == Client!Find(d, Client!Colon, second)
    <2>1. b \in 0..Len(d)
      BY <1>0, <1>1
    <2>2. third \in b..Len(d)
      BY <1>1, <1>4, <2>1, FindRange
    <2>3. third \in 0..Len(d)
      BY <1>0, <2>2
    <2> HIDE DEF third
    <2>4. Client!Find(d, Client!Colon, third) \in third..Len(d)
      BY <1>1, <2>3, FindRange
    <2>5. fourth = Client!Find(d, Client!Colon, third)
      BY DEF third
    <2>6. fourth \in 0..Len(d) /\ fourth \in b..Len(d)
      BY <1>0, <1>1, <2>2, <2>4, <2>5
    <2> HIDE DEF fourth
    <2>7. fifth \in fourth..Len(d)
      BY <1>1, <2>6, FindRange
    <2>8. QED
      BY <2>6, <2>7
  <1>6. NoColon(t) => fourth = b /\ fifth = b
    <2> SUFFICES ASSUME NoColon(t) PROVE fourth = b /\ fifth = b
      OBVIOUS
    <2>1. ASSUME NEW k \in (b + 1)..Len(d) PROVE d[k] # Client!Colon
      <3>1. k - b \in 1..Len(t) /\ d[b + (k - b)] = d[k]
        BY <1>0, <1>1
      <3>2. QED
        BY <1>1, <3>1 DEF NoColon, Contains
    <2>2. Client!Find(d, Client!Colon, b) = b
      BY <2>1, FindNone
    <2>3. QED
      BY <1>4, <2>2
  <1>7. tag = n
    <2>1. tag \in Seq(Word) /\ Len(tag) = Len(n)
          /\ \A i \in 1..Len(n) : tag[i] = d[a + 1 + i - 1]
      <3>1. \A i \in (a + 1)..(b - 1) : d[i] \in Word
        <4>1. \A i \in 1..Len(d) : d[i] \in Word
          BY <1>1, ElementOfSeq
        <4>2. QED
          BY <1>0, <1>1, <4>1
      <3>2. /\ SubSeq(d, a + 1, b - 1) \in Seq(Word)
            /\ Len(SubSeq(d, a + 1, b - 1)) =
                  IF a + 1 <= b - 1 THEN b - 1 - (a + 1) + 1 ELSE 0
            /\ \A i \in 1..(b - 1 - (a + 1) + 1) :
                  SubSeq(d, a + 1, b - 1)[i] = d[a + 1 + i - 1]
        BY <1>0, <3>1, SubSeqProperties
      <3>3. QED
        BY <1>0, <1>3, <1>4, <3>2
    <2> HIDE DEF tag
    <2>2. ASSUME NEW i \in 1..Len(n) PROVE tag[i] = n[i]
      <3>1. a + 1 + i - 1 = a + i
        BY <1>0
      <3>2. QED
        BY <1>1, <2>1, <3>1
    <2>3. QED
      BY <2>1, <2>2, SeqEqual
  <1> DEFINE k == Len(d) - fifth
  <1>8. /\ rest \in Seq(Word) /\ k \in 0..Len(t) /\ Len(rest) = k
        /\ \A i \in 1..k : rest[i] = t[Len(t) - k + i]
    <2>1. k \in 0..Len(t) /\ Len(d) \in Nat /\ fifth \in Nat
      BY <1>0, <1>1, <1>5
    <2> HIDE DEF fifth
    <2>2. \A i \in (fifth + 1)..Len(d) : d[i] \in Word
      <3>1. \A i \in 1..Len(d) : d[i] \in Word
        BY <1>1, ElementOfSeq
      <3>2. QED
        BY <2>1, <3>1
    <2>3. /\ rest \in Seq(Word)
          /\ Len(rest) = IF fifth + 1 <= Len(d) THEN Len(d) - (fifth + 1) + 1 ELSE 0
          /\ \A i \in 1..(Len(d) - (fifth + 1) + 1) : rest[i] = d[fifth + 1 + i - 1]
      BY <2>1, <2>2, SubSeqProperties
    <2> HIDE DEF rest
    <2>4. ASSUME NEW i \in 1..k PROVE rest[i] = t[Len(t) - k + i]
      <3>1. rest[i] = d[fifth + i]
        BY <2>1, <2>3
      <3>2. fifth + i = b + (Len(t) - k + i) /\ Len(t) - k + i \in 1..Len(t)
        BY <1>0, <1>1, <2>1
      <3>3. QED
        BY <1>1, <3>1, <3>2
    <2>5. QED
      BY <2>1, <2>3, <2>4
  <1>9. more \in Seq(Word) /\ (NoColon(t) => more = <<>>)
    <2>1. /\ fourth \in Nat /\ fifth \in Nat
          /\ \A i \in (fourth + 1)..fifth : d[i] \in Word
      <3>1. \A i \in 1..Len(d) : d[i] \in Word
        BY <1>1, ElementOfSeq
      <3> HIDE DEF fourth, fifth
      <3>2. QED
        BY <1>0, <1>1, <1>5, <3>1
    <2>2. ASSUME NoColon(t) PROVE more = <<>>
      <3>1. more = SubSeq(d, b + 1, b)
        BY <1>6, <2>2
      <3> HIDE DEF more
      <3>2. QED
        BY <1>0, <3>1, SubSeqEmpty
    <2> HIDE DEF fourth, fifth
    <2>3. more \in Seq(Word)
      BY <2>1, SubSeqProperties
    <2>4. QED
      BY <2>2, <2>3
  <1> HIDE DEF tag, more, rest, k, first, second, fourth, fifth
  <1>10. IsPrefix(n, tag \o more)
    <2> DEFINE c == n \o more
    <2>1. /\ c \in Seq(Word) /\ Len(c) = Len(n) + Len(more)
          /\ \A i \in 1..(Len(n) + Len(more)) :
                c[i] = IF i <= Len(n) THEN n[i] ELSE more[i - Len(n)]
      BY <1>9, ConcatProperties
    <2>2. Len(more) \in Nat
      BY <1>9, LenProperties
    <2> HIDE DEF c
    <2>3. Len(n) <= Len(c) /\ \A i \in 1..Len(n) : c[i] = n[i]
      BY <1>0, <2>1, <2>2
    <2>4. IsPrefix(n, c)
      BY <1>0, <2>1, <2>2, <2>3, PrefixIs
    <2>5. QED
      BY <1>7, <2>4 DEF c
  <1>11. IsSuffix(rest, t)
    <2> DEFINE u == Reverse(rest)
               v == Reverse(t)
    <2>1. /\ u = [i \in 1..k |-> rest[(k - i) + 1]]
          /\ v = [i \in 1..Len(t) |-> t[(Len(t) - i) + 1]]
      BY <1>8 DEF Reverse
    <2>2. /\ k \in Nat /\ k <= Len(t) /\ Len(u) = k /\ Len(v) = Len(t)
      BY <1>0, <1>8, <2>1
    <2>3. ASSUME NEW i \in 1..k PROVE u[i] = v[i]
      <3>1. u[i] = rest[(k - i) + 1] /\ v[i] = t[(Len(t) - i) + 1]
        BY <1>0, <2>1, <2>2
      <3>2. (k - i) + 1 \in 1..k /\ Len(t) - k + ((k - i) + 1) = (Len(t) - i) + 1
        BY <1>0, <2>2
      <3>3. QED
        BY <1>8, <3>1, <3>2
    <2>4. u \in Seq(Word) /\ v \in Seq(Word)
      <3>1. \A i \in 1..k : rest[(k - i) + 1] \in Word
        BY <1>8, <2>2, ElementOfSeq
      <3>2. \A i \in 1..Len(t) : t[(Len(t) - i) + 1] \in Word
        BY <1>0, ElementOfSeq
      <3>3. QED
        BY <1>0, <2>1, <2>2, <3>1, <3>2, IsASeq
    <2> HIDE DEF u, v
    <2>5. IsPrefix(u, v)
      BY <2>2, <2>3, <2>4, PrefixIs
    <2>6. QED
      BY <2>5 DEF IsSuffix, u, v
  <1>12. NoColon(t) => tag \o more = n /\ rest = t
    <2> SUFFICES ASSUME NoColon(t) PROVE tag \o more = n /\ rest = t
      OBVIOUS
    <2>1. tag \o more = n
      BY <1>7, <1>9, ConcatEmptySeq
    <2>2. k = Len(t)
      BY <1>0, <1>1, <1>6 DEF k
    <2>3. \A i \in 1..Len(t) : rest[i] = t[i]
      BY <1>0, <1>8, <2>2
    <2>4. rest = t
      BY <1>8, <2>2, <2>3, SeqEqual
    <2>5. QED
      BY <2>1, <2>4
  <1>13. /\ IsSuffix(Client!Shown(d).data, t) /\ IsPrefix(n, Client!Shown(d).tag)
         /\ NoColon(t) => Client!Shown(d) = [tag |-> n, data |-> t]
    <2>1. Client!Shown(d).data = rest /\ Client!Shown(d).tag = tag \o more
      BY <1>2
    <2>2. QED
      BY <1>2, <1>10, <1>11, <1>12, <2>1
  <1>14. QED
    BY <1>13 DEF d

-----------------------------------------------------------------------------
(* What is so of every client and the worker that serves it *)

Request == [tag : {"slogin", "rlogin", "join", "leave", "sendall", "quit"},
            data : Line \cup RoomName \cup UserName \cup {<<>>, <<"bye">>}]

\* What a worker sends: responses, and deliveries.
Responses  == [tag : {"ok", "err"}, to : Nat]
Deliveries == [tag : {"delivery"}, data : Seq(Word)]

Printable == [tag : Seq(Word), data : Seq(Word)]

ClientTypes ==
    /\ program \in Started
    /\ at \in [Session -> Client!Running \cup Client!Gone]
    /\ listening \in BOOLEAN
    /\ up \in [Session -> Seq(Request)]
    /\ down \in [Session -> Seq(Responses \cup Deliveries)]
    /\ typed \in [Session -> Seq(Line)]
    /\ \A s \in Session : Len(typed[s]) <= MaxLines
    /\ heard \in [Session -> Seq([line : Nat, response : Responses])]
    /\ printed \in [Session -> Seq(Printable)]

\* A sender, and its worker, which never is in the code for receivers ...
SenderSide(s) ==
    program[s] = "sender" =>
        /\ at[s] \in {"connect", "login", "type", "response", "quit"} \cup Client!Gone
        /\ \A i \in 1..Len(up[s]) : up[s][i].tag # "rlogin"
        /\ pc[s] \notin {"rjoin", "loop"} /\ ~isReciever[s]
        /\ printed[s] = <<>>

\* ... nor that of a receiver in the code for senders.
ReceiverSide(s) ==
    program[s] = "receiver" =>
        /\ at[s] \in {"connect", "login", "join", "print"} \cup Client!Gone
        /\ \A i \in 1..Len(up[s]) : up[s][i].tag \in {"rlogin", "join"}
        /\ pc[s] \notin {"recv", "remove", "leave", "bcast", "enqueue"}
        /\ pc[s] \in {"rjoin", "find", "create", "add", "loop"} => isReciever[s]
        /\ typed[s] = <<>> /\ heard[s] = <<>>

\* How many lines a sender has typed: as many as it has heard of, and the one it
\* waits for.
Waits(s) == IF at[s] \in {"response", "quit"} THEN 1 ELSE 0

\* How many responses the worker has sent: one to the login and one to each line.
Answered(s) == IF pc[s] = "login" THEN 0 ELSE IF pc[s] = "recv" THEN lines[s] + 1 ELSE lines[s]

Counting(s) ==
    program[s] = "sender" =>
        /\ at[s] \in {"connect", "login"} => /\ up[s] = <<>> /\ down[s] = <<>> /\ typed[s] = <<>>
                                             /\ heard[s] = <<>> /\ pc[s] = "login"
        /\ pc[s] = "login" => lines[s] = 0
        /\ Len(up[s]) + lines[s] <= Len(typed[s]) + (IF pc[s] = "login" THEN 1 ELSE 0)
        /\ \A i \in 1..Len(heard[s]) : heard[s][i].line = i /\ heard[s][i].response.to = i - 1
        /\ \A i \in 1..Len(down[s]) : /\ down[s][i].tag # "delivery"
                                      /\ down[s][i].to = Len(heard[s]) + i - 1
        /\ listening /\ at[s] \notin Client!Gone /\ ~SessionOver(s) =>
              Len(heard[s]) + Len(down[s]) = Answered(s)
        /\ (listening \/ down[s] # <<>>) /\ at[s] \in {"type", "response", "quit"} =>
              Len(typed[s]) = Len(heard[s]) + Waits(s)

\* What is on its way to client r: j responses, and behind them what was delivered.
OnTheWay(r, j) ==
    /\ \A i \in 1..j : down[r][i].tag # "delivery"
    /\ Len(printed[r]) + Len(down[r]) - j <= Len(delivered[r])
    /\ \A i \in (j + 1)..Len(down[r]) :
          down[r][i] = [tag |-> "delivery",
                        data |-> BroadcastText(delivered[r][Len(printed[r]) + i - j])]
    /\ listening /\ at[r] \notin Client!Gone =>
          Len(printed[r]) + Len(down[r]) - j = Len(delivered[r])

Printing(r) ==
    /\ delivered[r] # <<>> => pc[r] = "loop"
    /\ \E j \in 0..Len(down[r]) : OnTheWay(r, j)
    /\ \A i \in 1..Len(printed[r]) :
          printed[r][i] = Client!Shown(BroadcastText(delivered[r][i]))

\* What is queued or was delivered has been typed.
WasTyped(m) == m.text <= Len(typed[m.from])
QueueTyped(r) == \A i \in 1..Len(mqueue[r]) : WasTyped(mqueue[r][i])
DeliveredTyped(r) == \A i \in 1..Len(delivered[r]) : WasTyped(delivered[r][i])

Linked(s) ==
    /\ SenderSide(s) /\ ReceiverSide(s) /\ Counting(s)
    /\ Printing(s) /\ QueueTyped(s) /\ DeliveredTyped(s)
Links == \A s \in Session : Linked(s)

-----------------------------------------------------------------------------
(* What a turn of a worker does to its session, and to the others *)

\* Nothing happens to the sessions of the others but that messages are queued.
OthersStay(s) ==
    \A t \in Session \ {s} : /\ pc'[t] = pc[t] /\ lines'[t] = lines[t]
                              /\ isReciever'[t] = isReciever[t] /\ delivered'[t] = delivered[t]

\* What is in a queue was in it before, or is what s says.
QueuesFill(s) ==
    \A t \in Session : \A i \in 1..Len(mqueue'[t]) :
        \/ \E k \in 1..Len(mqueue[t]) : mqueue'[t][i] = mqueue[t][k]
        \/ pc[s] = "enqueue" /\ mqueue'[t][i] = Said(s)

\* Only the loop of a receiver delivers, and it delivers what comes next.
LoopDelivers(s) ==
    \/ delivered'[s] = delivered[s] /\ (pc[s] = "loop" => pc'[s] = "loop")
    \/ /\ pc[s] = "loop" /\ pc'[s] = "loop" /\ mqueue[s] # <<>>
       /\ delivered'[s] = Append(delivered[s], Head(mqueue[s]))

Turn(s) == OthersStay(s) /\ QueuesFill(s) /\ LoopDelivers(s)

LEMMA QueuesSame ==
    ASSUME IInv, NEW s \in Session, mqueue' = mqueue
    PROVE  QueuesFill(s)
  BY DEF QueuesFill

LEMMA OneTurn ==
    ASSUME IInv, NEW s \in Session, ClientStep(s) \/ WorkerStep(s)
    PROVE  Turn(s)
  <1> USE DEF Turn, OthersStay, LoopDelivers, At, Goto, Answer, lockVars, roomVars, userVars,
     localVars, historyVars, dataVars
  <1>0. /\ pc \in [Session -> PC] /\ lines \in [Session -> 0..MaxLines]
        /\ isReciever \in [Session -> BOOLEAN]
        /\ mqueue \in [Session -> Seq(BroadcastMessage)]
        /\ delivered \in [Session -> Seq(BroadcastMessage)]
    BY DEF IInv, TypeOK
  <1>1. ASSUME LoginSender(s) PROVE Turn(s)
    BY <1>0, <1>1, QueuesSame DEF LoginSender
  <1>2. ASSUME LoginReceiver(s) PROVE Turn(s)
    BY <1>0, <1>2, QueuesSame DEF LoginReceiver
  <1>3. ASSUME LoginOther(s) PROVE Turn(s)
    BY <1>0, <1>3, QueuesSame DEF LoginOther, Finish
  <1>4. ASSUME LoginErr(s) PROVE Turn(s)
    BY <1>0, <1>4, QueuesSame DEF LoginErr
  <1>5. ASSUME SenderJoin(s) PROVE Turn(s)
    BY <1>0, <1>5, QueuesSame DEF SenderJoin, ReceiveLine
  <1>6. ASSUME SenderLeave(s) PROVE Turn(s)
    BY <1>0, <1>6, QueuesSame DEF SenderLeave, ReceiveLine
  <1>7. ASSUME SenderSay(s) PROVE Turn(s)
    BY <1>0, <1>7, QueuesSame DEF SenderSay, ReceiveLine
  <1>8. ASSUME SenderQuit(s) PROVE Turn(s)
    BY <1>0, <1>8, QueuesSame DEF SenderQuit, Finish
  <1>9. ASSUME SenderFails(s) PROVE Turn(s)
    BY <1>0, <1>9, QueuesSame DEF SenderFails, Finish
  <1>10. ASSUME ReceiverJoin(s) PROVE Turn(s)
    BY <1>0, <1>10, QueuesSame DEF ReceiverJoin
  <1>11. ASSUME ReceiverRefused(s) PROVE Turn(s)
    BY <1>0, <1>11, QueuesSame DEF ReceiverRefused, Finish
  <1>12. ASSUME LeaveOldRoom(s) PROVE Turn(s)
    BY <1>0, <1>12, QueuesSame DEF LeaveOldRoom, RemoveMember
  <1>13. ASSUME LeaveRoom(s) PROVE Turn(s)
    BY <1>0, <1>13, QueuesSame DEF LeaveRoom, RemoveMember
  <1>14. ASSUME FindRoom(s) PROVE Turn(s)
    BY <1>0, <1>14, QueuesSame DEF FindRoom
  <1>15. ASSUME MissRoom(s) PROVE Turn(s)
    BY <1>0, <1>15, QueuesSame DEF MissRoom
  <1>16. ASSUME CreateRoom(s) PROVE Turn(s)
    BY <1>0, <1>16, QueuesSame DEF CreateRoom
  <1>17. ASSUME AddMember(s) PROVE Turn(s)
    BY <1>0, <1>17, QueuesSame DEF AddMember
  <1>18. ASSUME BroadcastBegin(s) PROVE Turn(s)
    BY <1>0, <1>18, QueuesSame DEF BroadcastBegin
  <1>19. ASSUME BroadcastTo(s) PROVE Turn(s)
    <2>1. PICK u \in pending[s] : mqueue' = [mqueue EXCEPT ![u] = Append(@, Said(s))]
      BY <1>19 DEF BroadcastTo
    <2>2. u \in Session /\ Said(s) \in BroadcastMessage /\ pc[s] = "enqueue"
      BY <1>19, SaidType DEF BroadcastTo, IInv, TypeOK
    <2>3. ASSUME NEW t \in Session, NEW i \in 1..Len(mqueue'[t])
          PROVE  \/ \E k \in 1..Len(mqueue[t]) : mqueue'[t][i] = mqueue[t][k]
                 \/ mqueue'[t][i] = Said(s)
      <3>1. CASE t = u
        <4>1. /\ mqueue'[t] = Append(mqueue[t], Said(s)) /\ Len(mqueue[t]) \in Nat
              /\ mqueue[t] \in Seq(BroadcastMessage)
          BY <1>0, <2>1, <2>2, <3>1, LenProperties
        <4>2. /\ Len(mqueue'[t]) = Len(mqueue[t]) + 1
              /\ \A k \in 1..Len(mqueue[t]) : mqueue'[t][k] = mqueue[t][k]
              /\ mqueue'[t][Len(mqueue[t]) + 1] = Said(s)
          BY <2>2, <4>1, AppendProperties
        <4>3. QED
          BY <4>1, <4>2
      <3>2. CASE t # u
        BY <1>0, <2>1, <2>2, <3>2
      <3>3. QED
        BY <3>1, <3>2
    <2>4. QueuesFill(s)
      BY <2>2, <2>3 DEF QueuesFill
    <2>5. QED
      BY <1>0, <1>19, <2>4 DEF BroadcastTo
  <1>20. ASSUME BroadcastEnd(s) PROVE Turn(s)
    BY <1>0, <1>20, QueuesSame DEF BroadcastEnd
  <1>21. ASSUME ReceiverDeliver(s) PROVE Turn(s)
    <2>1. /\ mqueue[s] # <<>> /\ mqueue' = [mqueue EXCEPT ![s] = Tail(@)]
          /\ mqueue[s] \in Seq(BroadcastMessage)
      BY <1>0, <1>21 DEF ReceiverDeliver
    <2>2. /\ Len(Tail(mqueue[s])) = Len(mqueue[s]) - 1 /\ Len(mqueue[s]) \in Nat
          /\ \A i \in 1..Len(Tail(mqueue[s])) : Tail(mqueue[s])[i] = mqueue[s][i + 1]
      BY <2>1, HeadTailProperties, LenProperties
    <2>3. ASSUME NEW t \in Session, NEW i \in 1..Len(mqueue'[t])
          PROVE  \E k \in 1..Len(mqueue[t]) : mqueue'[t][i] = mqueue[t][k]
      <3>1. CASE t = s
        <4>1. mqueue'[t] = Tail(mqueue[s])
          BY <1>0, <2>1, <3>1
        <4>2. i + 1 \in 1..Len(mqueue[t]) /\ mqueue'[t][i] = mqueue[t][i + 1]
          BY <2>2, <3>1, <4>1
        <4>3. QED
          BY <4>2
      <3>2. CASE t # s
        BY <1>0, <2>1, <3>2
      <3>3. QED
        BY <3>1, <3>2
    <2>4. QueuesFill(s)
      BY <2>3 DEF QueuesFill
    <2>5. QED
      BY <1>0, <1>21, <2>4 DEF ReceiverDeliver
  <1>22. ASSUME CopyRooms(s) PROVE Turn(s)
    BY <1>0, <1>22, QueuesSame DEF CopyRooms
  <1>23. ASSUME DeleteRoom(s) PROVE Turn(s)
    BY <1>0, <1>23, QueuesSame DEF DeleteRoom
  <1>24. ASSUME EndSession(s) PROVE Turn(s)
    BY <1>0, <1>24, QueuesSame DEF EndSession
  <1>25. ASSUME UseAfterFree(s) PROVE Turn(s)
    BY <1>0, <1>25, QueuesSame DEF UseAfterFree, Undefined
  <1>26. ASSUME MapRace(s) PROVE Turn(s)
    BY <1>0, <1>26, QueuesSame DEF MapRace, Undefined
  <1>27. QED
    BY <1>1, <1>2, <1>3, <1>4, <1>5, <1>6, <1>7, <1>8, <1>9, <1>10, <1>11, <1>12, <1>13, <1>14,
       <1>15, <1>16, <1>17, <1>18, <1>19, <1>20, <1>21, <1>22, <1>23, <1>24, <1>25, <1>26
    DEF ClientStep, WorkerStep

\* Where a worker that goes on by itself goes.
Moves(s) ==
    \/ pc[s] \in {"remove", "find", "create"} /\ pc'[s] \in {"find", "create", "add"}
    \/ pc[s] = "bcast" /\ pc'[s] = "enqueue"
    \/ pc[s] = "enqueue" /\ pc'[s] \in {"enqueue", "recv"}
    \/ pc[s] = "leave" /\ pc'[s] = "recv"
    \/ pc[s] = "add" /\ pc'[s] = IF isReciever[s] THEN "loop" ELSE "recv"
    \/ pc[s] = "loop" /\ pc'[s] = "loop"
    \/ pc[s] \in {"cleanup", "delete"} /\ pc'[s] \in {"delete", "done"}

LEMMA WorkMoves ==
    ASSUME IInv, NEW s \in Session, WorkerStep(s)
    PROVE  /\ lines'[s] = lines[s] /\ isReciever'[s] = isReciever[s]
           /\ \/ ub' /\ pc'[s] = pc[s]
              \/ ~ub' /\ Moves(s)
  <1> DEFINE Fine == /\ lines' = lines /\ isReciever' = isReciever
                     /\ (ub' /\ pc'[s] = pc[s]) \/ (~ub' /\ Moves(s))
  <1> USE DEF Moves, At, Goto, Answer, lockVars, roomVars, userVars, localVars, historyVars,
     dataVars
  <1>0. pc \in [Session -> PC]
    BY DEF IInv, TypeOK
  <1>1. ASSUME LeaveOldRoom(s) PROVE Fine
    BY <1>0, <1>1 DEF LeaveOldRoom, RemoveMember
  <1>2. ASSUME LeaveRoom(s) PROVE Fine
    BY <1>0, <1>2 DEF LeaveRoom, RemoveMember
  <1>3. ASSUME FindRoom(s) PROVE Fine
    BY <1>0, <1>3 DEF FindRoom
  <1>4. ASSUME MissRoom(s) PROVE Fine
    BY <1>0, <1>4 DEF MissRoom
  <1>5. ASSUME CreateRoom(s) PROVE Fine
    BY <1>0, <1>5 DEF CreateRoom
  <1>6. ASSUME AddMember(s) PROVE Fine
    BY <1>0, <1>6 DEF AddMember
  <1>7. ASSUME BroadcastBegin(s) PROVE Fine
    BY <1>0, <1>7 DEF BroadcastBegin
  <1>8. ASSUME BroadcastTo(s) PROVE Fine
    BY <1>0, <1>8 DEF BroadcastTo
  <1>9. ASSUME BroadcastEnd(s) PROVE Fine
    BY <1>0, <1>9 DEF BroadcastEnd
  <1>10. ASSUME ReceiverDeliver(s) PROVE Fine
    BY <1>0, <1>10 DEF ReceiverDeliver
  <1>11. ASSUME CopyRooms(s) PROVE Fine
    BY <1>0, <1>11 DEF CopyRooms
  <1>12. ASSUME DeleteRoom(s) PROVE Fine
    BY <1>0, <1>12 DEF DeleteRoom
  <1>13. ASSUME EndSession(s) PROVE Fine
    BY <1>0, <1>13 DEF EndSession
  <1>14. ASSUME UseAfterFree(s) PROVE Fine
    BY <1>0, <1>14 DEF UseAfterFree, Undefined
  <1>15. ASSUME MapRace(s) PROVE Fine
    BY <1>0, <1>15 DEF MapRace, Undefined
  <1>16. QED
    BY <1>1, <1>2, <1>3, <1>4, <1>5, <1>6, <1>7, <1>8, <1>9, <1>10, <1>11, <1>12, <1>13, <1>14,
       <1>15
    DEF WorkerStep

-----------------------------------------------------------------------------
(* The server's part of the system behaves as ChatServer says *)

\* Whatever a client sends, or fails to, the worker takes one of its steps.
LEMMA WorkersTurn ==
    ASSUME NEW s \in Session, Receive(s) \/ Work(s)
    PROVE  ClientStep(s) \/ WorkerStep(s)
  BY DEF Receive, Work, Handle, HandleEnd, ClientStep

LEMMA ServerSteps == [SystemNext]_systemVars => [Next]_vars
  <1>1. ASSUME NEW s \in Session, Receive(s) \/ Work(s) PROVE Next
    BY <1>1, WorkersTurn DEF Next
  <1>2. ASSUME NEW s \in Session, ClientMoves(s) PROVE UNCHANGED vars
    BY <1>2 DEF ClientMoves
  <1>3. ServerEnds => UNCHANGED vars
    BY DEF ServerEnds
  <1>4. UNCHANGED systemVars => UNCHANGED vars
    BY DEF systemVars
  <1>5. QED
    BY <1>1, <1>2, <1>3, <1>4 DEF SystemNext

\* With real clients at the other end of its connections the server does nothing
\* that ChatServer, whose clients send what they like, does not do: what is proved
\* of ChatServer holds in the system.
THEOREM ServerImplemented == SystemSpec => Spec
  <1>1. SystemInit => Init
    BY DEF SystemInit
  <1>2. QED
    BY <1>1, ServerSteps, PTL DEF SystemSpec, Spec

-----------------------------------------------------------------------------
(* The types of what is sent *)

LEMMA Constants ==
    /\ Started \subseteq [Session -> Client!Program] /\ MaxLines \in Nat
    /\ \A s \in Session : RoomArg[s] \in RoomName /\ username[s] \in UserName
  <1>1. \A s \in Session : RoomArg[s] \in RoomName
    BY SystemAssumption
  <1>2. Started \subseteq [Session -> Client!Program] /\ MaxLines \in Nat
    BY SystemAssumption DEF Client!ClientParameters
  <1>3. QED
    BY <1>1, <1>2, ServerAssumption

LEMMA CommandIs ==
    ASSUME NEW l \in Line
    PROVE  /\ Client!Command(l) \in Request
           /\ Client!Command(l).tag \in {"join", "leave", "sendall", "quit"}
  <1> DEFINE c == Client!Command(l)
  <1>1. c.tag \in {"join", "leave", "sendall", "quit"}
    BY DEF Client!Command
  <1>2. c = [tag |-> c.tag, data |-> c.data]
    BY DEF Client!Command
  <1>3. c.tag = "join" => c.data \in RoomName
    BY SystemAssumption
  <1>4. c.tag # "join" => c.data \in {<<>>, <<"bye">>, l}
    BY DEF Client!Command
  <1>5. c.data \in Line \cup RoomName \cup UserName \cup {<<>>, <<"bye">>}
    BY <1>3, <1>4
  <1> HIDE DEF c
  <1>6. c \in Request
    BY <1>1, <1>2, <1>5 DEF Request
  <1>7. QED
    BY <1>1, <1>6 DEF c

LEMMA ShownType ==
    ASSUME NEW d \in Seq(Word)
    PROVE  Client!Shown(d) \in Printable
  <1> DEFINE n == Len(d)
             first  == Client!Find(d, Client!Colon, 0)
             second == Client!Find(d, Client!Colon, first)
             third  == Client!Find(d, Client!Colon, second)
             fourth == Client!Find(d, Client!Colon, third)
             fifth  == Client!Find(d, Client!Colon, fourth)
  <1>0. n \in Nat /\ \A i \in 1..n : d[i] \in Word
    BY LenProperties, ElementOfSeq
  <1>1. \A p \in 0..n : Client!Find(d, Client!Colon, p) \in 0..n
    <2> SUFFICES ASSUME NEW p \in 0..n PROVE Client!Find(d, Client!Colon, p) \in 0..n
      OBVIOUS
    <2>1. Client!Find(d, Client!Colon, p) \in p..n
      BY FindRange
    <2>2. QED
      BY <1>0, <2>1
  <1>2. first \in 0..n
    BY <1>0, <1>1
  <1>3. second \in 0..n
    BY <1>1, <1>2
  <1>4. third \in 0..n
    BY <1>1, <1>3
  <1>5. fourth \in 0..n
    BY <1>1, <1>4
  <1>6. fifth \in 0..n
    BY <1>1, <1>5
  <1>7. \A i \in 0..n, j \in -1..n : SubSeq(d, i + 1, j) \in Seq(Word)
    <2> SUFFICES ASSUME NEW i \in 0..n, NEW j \in -1..n PROVE SubSeq(d, i + 1, j) \in Seq(Word)
      OBVIOUS
    <2>1. i + 1 \in Int /\ j \in Int /\ \A k \in (i + 1)..j : d[k] \in Word
      BY <1>0
    <2> HIDE DEF n
    <2>2. QED
      BY <2>1, SubSeqProperties
  <1>8. Client!Shown(d) =
          [tag  |-> SubSeq(d, first + 1, second - 1) \o SubSeq(d, fourth + 1, fifth),
           data |-> SubSeq(d, fifth + 1, n)]
    BY DEF Client!Shown
  <1> HIDE DEF first, second, third, fourth, fifth, n
  <1>9. /\ SubSeq(d, first + 1, second - 1) \in Seq(Word)
        /\ SubSeq(d, fourth + 1, fifth) \in Seq(Word)
        /\ SubSeq(d, fifth + 1, n) \in Seq(Word)
    <2>1. second - 1 \in -1..n /\ fifth \in -1..n /\ n \in -1..n
      BY <1>0, <1>3, <1>6
    <2>2. QED
      BY <1>2, <1>5, <1>6, <1>7, <2>1
  <1>10. SubSeq(d, first + 1, second - 1) \o SubSeq(d, fourth + 1, fifth) \in Seq(Word)
    BY <1>9, ConcatProperties
  <1>11. QED
    BY <1>8, <1>9, <1>10 DEF Printable

\* The parts of a delivery are texts.
LEMMA BroadcastParts ==
    ASSUME ClientTypes, NEW m \in BroadcastMessage, WasTyped(m)
    PROVE  /\ m.room \in Seq(Word) /\ username[m.from] \in Seq(Word)
           /\ typed[m.from][m.text] \in Seq(Word)
           /\ BroadcastText(m) = ThreeParts(m.room, username[m.from], typed[m.from][m.text])
           /\ BroadcastText(m) \in Seq(Word)
  <1>1. m.room \in RoomName /\ m.from \in Session /\ m.text \in 1..MaxLines
    BY DEF BroadcastMessage, Text
  <1>2. m.room \in Seq(Word) /\ username[m.from] \in Seq(Word)
    BY <1>1, Constants, TextsAre
  <1>3. typed[m.from][m.text] \in Seq(Word)
    <2>1. typed[m.from] \in Seq(Line) /\ Len(typed[m.from]) \in Nat
      BY <1>1, LenProperties DEF ClientTypes
    <2>2. m.text \in 1..Len(typed[m.from])
      BY <1>1, <2>1, Constants DEF WasTyped
    <2>3. typed[m.from][m.text] \in Line
      BY <2>1, <2>2, ElementOfSeq
    <2>4. QED
      BY <2>3, TextsAre
  <1>4. BroadcastText(m) = ThreeParts(m.room, username[m.from], typed[m.from][m.text])
    BY DEF BroadcastText, ThreeParts
  <1>5. \A r, n, t \in Seq(Word) : ThreeParts(r, n, t) \in Seq(Word)
    BY Parts
  <1>6. QED
    BY <1>2, <1>3, <1>4, <1>5

\* Typing more leaves what was said alone.
TypedGrows ==
    \A u \in Session : /\ Len(typed[u]) <= Len(typed'[u])
                        /\ \A k \in 1..Len(typed[u]) : typed'[u][k] = typed[u][k]

LEMMA TextStays ==
    ASSUME ClientTypes, ClientTypes', TypedGrows, NEW m \in BroadcastMessage, WasTyped(m)
    PROVE  WasTyped(m)' /\ BroadcastText(m)' = BroadcastText(m)
  <1>1. m.from \in Session /\ m.text \in 1..MaxLines
    BY DEF BroadcastMessage, Text
  <1>2. Len(typed[m.from]) \in Nat /\ Len(typed'[m.from]) \in Nat
    BY <1>1, LenProperties DEF ClientTypes
  <1>3. m.text \in 1..Len(typed[m.from])
    BY <1>1, <1>2, Constants DEF WasTyped
  <1>4. typed'[m.from][m.text] = typed[m.from][m.text] /\ m.text <= Len(typed'[m.from])
    BY <1>1, <1>2, <1>3 DEF TypedGrows
  <1>5. QED
    BY <1>4 DEF WasTyped, BroadcastText

-----------------------------------------------------------------------------
(* What a worker sends *)

\* The delivery that a receiver's worker sends next.
NextDelivery(s) == [tag |-> "delivery", data |-> BroadcastText(Head(mqueue[s]))]

LEMMA RespondCases ==
    ASSUME IInv, IInv', ClientTypes, Links, NEW s \in Session, Turn(s), Respond(s)
    PROVE  \/ down' = down /\ (at[s] \in Client!Gone \/ ~(Answers(s) \/ Delivers(s)))
           \/ /\ at[s] \notin Client!Gone /\ Delivers(s) /\ NextDelivery(s) \in Deliveries
              /\ down' = [down EXCEPT ![s] = Append(@, NextDelivery(s))]
           \/ /\ at[s] \notin Client!Gone /\ ~Delivers(s) /\ Answers(s)
              /\ Response(s) \in Responses
              /\ down' = [down EXCEPT ![s] = Append(@, Response(s))]
  <1>1. CASE at[s] \in Client!Gone \/ ~(Answers(s) \/ Delivers(s))
    BY <1>1 DEF Respond
  <1>2. CASE at[s] \notin Client!Gone /\ Delivers(s)
    <2>1. mqueue[s] # <<>> /\ mqueue[s] \in Seq(BroadcastMessage)
      BY <1>2 DEF Turn, LoopDelivers, Delivers, IInv, TypeOK
    <2>2. Head(mqueue[s]) \in BroadcastMessage /\ WasTyped(Head(mqueue[s]))
      <3>1. Head(mqueue[s]) = mqueue[s][1] /\ 1 \in 1..Len(mqueue[s])
        BY <2>1, EmptySeq, LenProperties
      <3>2. QED
        BY <2>1, <3>1, ElementOfSeq DEF Links, Linked, QueueTyped
    <2>3. NextDelivery(s) \in Deliveries
      BY <2>2, BroadcastParts DEF NextDelivery, Deliveries
    <2>4. QED
      BY <1>2, <2>3 DEF Respond, NextDelivery
  <1>3. CASE at[s] \notin Client!Gone /\ ~Delivers(s) /\ Answers(s)
    <2>1. lines'[s] \in 0..MaxLines
      BY DEF IInv, TypeOK
    <2>2. lines'[s] + (IF pc'[s] = "cleanup" THEN 1 ELSE 0) \in Nat
      BY <2>1, Constants
    <2>3. Response(s) \in Responses
      BY <2>2 DEF Response, Responses
    <2>4. QED
      BY <1>3, <2>3 DEF Respond
  <1>4. QED
    BY <1>1, <1>2, <1>3

LEMMA RespondType ==
    ASSUME IInv, IInv', ClientTypes, Links, NEW s \in Session, Turn(s), Respond(s)
    PROVE  down' \in [Session -> Seq(Responses \cup Deliveries)]
  <1>0. down \in [Session -> Seq(Responses \cup Deliveries)]
    BY DEF ClientTypes
  <1>1. \A x \in Responses \cup Deliveries :
           Append(down[s], x) \in Seq(Responses \cup Deliveries)
    BY <1>0, AppendProperties
  <1>2. CASE down' = down
    BY <1>0, <1>2
  <1>3. CASE NextDelivery(s) \in Deliveries
             /\ down' = [down EXCEPT ![s] = Append(@, NextDelivery(s))]
    BY <1>0, <1>1, <1>3
  <1>4. CASE Response(s) \in Responses
             /\ down' = [down EXCEPT ![s] = Append(@, Response(s))]
    BY <1>0, <1>1, <1>4
  <1>5. QED
    BY <1>2, <1>3, <1>4, RespondCases

\* What a client sends is lost or comes last.
LEMMA SendType ==
    ASSUME ClientTypes, NEW c \in Session, NEW m \in Request, Client!Send(c, m)
    PROVE  up' \in [Session -> Seq(Request)]
  <1>1. up \in [Session -> Seq(Request)]
    BY DEF ClientTypes
  <1>2. Append(up[c], m) \in Seq(Request)
    BY <1>1, AppendProperties
  <1>3. QED
    BY <1>1, <1>2 DEF Client!Send

\* What a client takes is the first that was sent to it.
LEMMA TakeFacts ==
    ASSUME ClientTypes, NEW c \in Session, Client!Take(c)
    PROVE  /\ down[c] # <<>> /\ down' = [down EXCEPT ![c] = Tail(down[c])]
           /\ down' \in [Session -> Seq(Responses \cup Deliveries)]
           /\ down'[c] = Tail(down[c])
           /\ Len(down[c]) \in Nat \ {0} /\ Len(down'[c]) = Len(down[c]) - 1
           /\ Head(down[c]) = down[c][1] /\ Head(down[c]) \in Responses \cup Deliveries
           /\ \A i \in 1..(Len(down[c]) - 1) : down'[c][i] = down[c][i + 1]
  <1>1. down[c] \in Seq(Responses \cup Deliveries) /\ down[c] # <<>>
        /\ down' = [down EXCEPT ![c] = Tail(down[c])]
        /\ down \in [Session -> Seq(Responses \cup Deliveries)]
    BY DEF ClientTypes, Client!Take
  <1>2. Len(down[c]) \in Nat \ {0}
    BY <1>1, EmptySeq
  <1>3. /\ Tail(down[c]) \in Seq(Responses \cup Deliveries)
        /\ Len(Tail(down[c])) = Len(down[c]) - 1
        /\ Head(down[c]) \in Responses \cup Deliveries
        /\ \A i \in 1..Len(Tail(down[c])) : Tail(down[c])[i] = down[c][i + 1]
    BY <1>1, HeadTailProperties
  <1>4. down'[c] = Tail(down[c]) /\ down' \in [Session -> Seq(Responses \cup Deliveries)]
    BY <1>1, <1>3
  <1>5. Head(down[c]) = down[c][1]
    BY <1>1
  <1>6. QED
    BY <1>1, <1>2, <1>3, <1>4, <1>5

\* A sender takes responses only.
LEMMA HearFacts ==
    ASSUME ClientTypes, Links, NEW c \in Session, at[c] \in {"response", "quit"},
           Client!Take(c), Client!Heard(c)
    PROVE  /\ program[c] = "sender" /\ Head(down[c]) \in Responses
           /\ heard' = [heard EXCEPT ![c] = Append(heard[c], [line |-> Len(typed[c]),
                                                             response |-> Head(down[c])])]
           /\ heard' \in [Session -> Seq([line : Nat, response : Responses])]
  <1>1. program[c] = "sender"
    <2>1. program[c] \in {"sender", "receiver"}
      BY Constants DEF ClientTypes, Client!Program
    <2>2. QED
      BY <2>1 DEF Links, Linked, ReceiverSide, Client!Gone
  <1>2. Head(down[c]) \in Responses
    <2>1. Head(down[c]) \in Responses \cup Deliveries /\ Head(down[c]) = down[c][1]
          /\ Len(down[c]) \in Nat \ {0}
      BY TakeFacts
    <2>2. Head(down[c]).tag # "delivery"
      <3>1. \A i \in 1..Len(down[c]) : down[c][i].tag # "delivery"
        BY <1>1 DEF Links, Linked, Counting
      <3>2. QED
        BY <2>1, <3>1
    <2>3. QED
      BY <2>1, <2>2 DEF Deliveries
  <1> DEFINE h == [line |-> Len(typed[c]), response |-> Head(down[c])]
  <1>3. h \in [line : Nat, response : Responses]
    <2>1. Len(typed[c]) \in Nat
      BY LenProperties DEF ClientTypes
    <2>2. QED
      BY <1>2, <2>1
  <1>4. heard' = [heard EXCEPT ![c] = Append(heard[c], h)]
    BY DEF Client!Heard
  <1>5. Append(heard[c], h) \in Seq([line : Nat, response : Responses])
    <2> HIDE DEF h
    <2>1. heard[c] \in Seq([line : Nat, response : Responses])
      BY DEF ClientTypes
    <2>2. QED
      BY <1>3, <2>1, AppendProperties
  <1>6. heard' \in [Session -> Seq([line : Nat, response : Responses])]
    <2> HIDE DEF h
    <2>1. QED
      BY <1>4, <1>5 DEF ClientTypes
  <1>7. QED
    BY <1>1, <1>2, <1>4, <1>6

LEMMA TypesStep ==
    ASSUME IInv, IInv', ClientTypes, Links, SystemNext
    PROVE  ClientTypes'
  <1> USE DEF Client!Running, Client!Gone, Client!Goto
  <1>0. /\ up \in [Session -> Seq(Request)]
        /\ at \in [Session -> Client!Running \cup Client!Gone]
        /\ down \in [Session -> Seq(Responses \cup Deliveries)]
        /\ <<>> \in Seq(Request) /\ <<>> \in Seq(Responses \cup Deliveries)
    BY EmptySeq DEF ClientTypes
  <1>1. CASE ServerEnds
    BY <1>0, <1>1 DEF ServerEnds, ClientTypes
  <1>2. ASSUME NEW s \in Session, Receive(s) PROVE ClientTypes'
    <2>1. down' \in [Session -> Seq(Responses \cup Deliveries)]
      BY <1>2, WorkersTurn, OneTurn, RespondType DEF Receive
    <2>2. up' \in [Session -> Seq(Request)]
      <3>1. up[s] # <<>> => Tail(up[s]) \in Seq(Request)
        BY <1>0, HeadTailProperties
      <3>2. Handle(s) => up[s] # <<>>
        BY DEF Handle, Arrived
      <3>3. QED
        BY <1>0, <1>2, <3>1, <3>2 DEF Receive
    <2>3. QED
      BY <1>2, <2>1, <2>2 DEF Receive, ClientTypes
  <1>3. ASSUME NEW s \in Session, Work(s) PROVE ClientTypes'
    <2>1. down' \in [Session -> Seq(Responses \cup Deliveries)]
      BY <1>3, WorkersTurn, OneTurn, RespondType DEF Work
    <2>2. QED
      BY <1>3, <2>1 DEF Work, ClientTypes
  <1>4. ASSUME NEW c \in Session, Client!Connect(c) \/ Client!ConnectFails(c) \/ Client!Kill(c)
        PROVE  ClientTypes'
    BY <1>0, <1>4 DEF Client!Connect, Client!ConnectFails, Client!Kill, ClientTypes
  <1>5. ASSUME NEW c \in Session, Client!SenderLogin(c) PROVE ClientTypes'
    <2>1. [tag |-> "slogin", data |-> username[c]] \in Request
      BY Constants DEF Request
    <2>2. up' \in [Session -> Seq(Request)]
      BY <1>5, <2>1, SendType DEF Client!SenderLogin
    <2>3. QED
      BY <1>0, <1>5, <2>2 DEF Client!SenderLogin, ClientTypes
  <1>6. ASSUME NEW c \in Session, Client!SenderType(c) PROVE ClientTypes'
    <2>1. PICK l \in Line : /\ typed' = [typed EXCEPT ![c] = Append(@, l)]
                            /\ Client!Send(c, Client!Command(l))
                            /\ Client!Goto(c, IF Client!Command(l).tag = "quit" THEN "quit"
                                              ELSE "response")
      BY <1>6 DEF Client!SenderType
    <2>2. up' \in [Session -> Seq(Request)]
      BY <2>1, CommandIs, SendType
    <2>3. typed' \in [Session -> Seq(Line)]
      BY <2>1, AppendProperties DEF ClientTypes
    <2>4. at' \in [Session -> Client!Running \cup Client!Gone]
      BY <1>0, <2>1
    <2>5. ASSUME NEW t \in Session PROVE Len(typed'[t]) <= MaxLines
      <3>1. typed[c] \in Seq(Line) /\ Len(typed[c]) \in Nat /\ Len(typed[c]) < MaxLines
        BY <1>6, LenProperties DEF ClientTypes, Client!SenderType
      <3>2. Len(Append(typed[c], l)) = Len(typed[c]) + 1
        BY <3>1, AppendProperties
      <3>3. CASE t = c
        BY <2>1, <3>1, <3>2, <3>3, Constants DEF ClientTypes
      <3>4. CASE t # c
        BY <2>1, <3>4 DEF ClientTypes
      <3>5. QED
        BY <3>3, <3>4
    <2>6. QED
      BY <1>6, <2>2, <2>3, <2>4, <2>5 DEF Client!SenderType, ClientTypes
  <1>7. ASSUME NEW c \in Session, Client!SenderHear(c) \/ Client!SenderHearQuit(c)
        PROVE  ClientTypes'
    <2>1. at[c] \in {"response", "quit"} /\ Client!Take(c) /\ Client!Heard(c)
      BY <1>7 DEF Client!SenderHear, Client!SenderHearQuit
    <2>2. /\ down' \in [Session -> Seq(Responses \cup Deliveries)]
          /\ heard' \in [Session -> Seq([line : Nat, response : Responses])]
      BY <2>1, TakeFacts, HearFacts
    <2>3. at' \in [Session -> Client!Running \cup Client!Gone]
      BY <1>0, <1>7 DEF Client!SenderHear, Client!SenderHearQuit
    <2>4. UNCHANGED <<program, up, listening, typed, printed>>
      BY <1>7 DEF Client!SenderHear, Client!SenderHearQuit
    <2>5. QED
      BY <2>2, <2>3, <2>4 DEF ClientTypes
  <1>8. ASSUME NEW c \in Session, Client!SenderHearNothing(c) \/ Client!ReceiverEnds(c)
        PROVE  ClientTypes'
    BY <1>0, <1>8 DEF Client!SenderHearNothing, Client!ReceiverEnds, ClientTypes
  <1>9. ASSUME NEW c \in Session, Client!ReceiverLogin(c) PROVE ClientTypes'
    <2>1. [tag |-> "rlogin", data |-> username[c]] \in Request
      BY Constants DEF Request
    <2>2. up' \in [Session -> Seq(Request)]
      BY <1>9, <2>1, SendType DEF Client!ReceiverLogin
    <2>3. QED
      BY <1>0, <1>9, <2>2 DEF Client!ReceiverLogin, ClientTypes
  <1>10. ASSUME NEW c \in Session, Client!ReceiverJoin(c) PROVE ClientTypes'
    <2>1. [tag |-> "join", data |-> RoomArg[c]] \in Request
      BY Constants DEF Request
    <2>2. up' \in [Session -> Seq(Request)]
      BY <1>10, <2>1, SendType DEF Client!ReceiverJoin
    <2>3. QED
      BY <1>0, <1>10, <2>2 DEF Client!ReceiverJoin, ClientTypes
  <1>11. ASSUME NEW c \in Session, Client!ReceiverPrint(c) PROVE ClientTypes'
    <2>1. /\ down' \in [Session -> Seq(Responses \cup Deliveries)]
          /\ Head(down[c]) \in Responses \cup Deliveries
      BY <1>11, TakeFacts DEF Client!ReceiverPrint
    <2>2. printed' \in [Session -> Seq(Printable)]
      <3>0. printed \in [Session -> Seq(Printable)]
        BY DEF ClientTypes
      <3>1. CASE Head(down[c]).tag = "delivery"
        <4>1. Head(down[c]) \in Deliveries
          BY <2>1, <3>1 DEF Responses
        <4>2. Client!Shown(Head(down[c]).data) \in Printable
          BY <4>1, ShownType DEF Deliveries
        <4>3. Append(printed[c], Client!Shown(Head(down[c]).data)) \in Seq(Printable)
          BY <3>0, <4>2, AppendProperties
        <4>4. QED
          BY <1>11, <3>0, <3>1, <4>3 DEF Client!ReceiverPrint
      <3>2. CASE Head(down[c]).tag # "delivery"
        BY <1>11, <3>0, <3>2 DEF Client!ReceiverPrint
      <3>3. QED
        BY <3>1, <3>2
    <2>3. QED
      BY <1>11, <2>1, <2>2 DEF Client!ReceiverPrint, ClientTypes
  <1>12. QED
    BY <1>1, <1>2, <1>3, <1>4, <1>5, <1>6, <1>7, <1>8, <1>9, <1>10, <1>11
    DEF SystemNext, ClientMoves, Client!ProgramStep, Client!UserStep

-----------------------------------------------------------------------------
(* Sessions that a step does not touch *)

\* What was delivered to r stays so; more may follow.
DeliveredGrows(r) ==
    /\ Len(delivered[r]) <= Len(delivered'[r])
    /\ \A k \in 1..Len(delivered[r]) : delivered'[r][k] = delivered[r][k]

LEMMA TextsStay ==
    ASSUME IInv, ClientTypes, ClientTypes', TypedGrows, NEW r \in Session,
           DeliveredGrows(r), DeliveredTyped(r)
    PROVE  \A k \in 1..Len(delivered[r]) :
              /\ WasTyped(delivered[r][k])'
              /\ BroadcastText(delivered[r][k])' = BroadcastText(delivered[r][k])
  <1> SUFFICES ASSUME NEW k \in 1..Len(delivered[r])
               PROVE  /\ WasTyped(delivered[r][k])'
                      /\ BroadcastText(delivered[r][k])' = BroadcastText(delivered[r][k])
    OBVIOUS
  <1>1. PICK m : m = delivered[r][k]
    OBVIOUS
  <1>2. m \in BroadcastMessage /\ WasTyped(m)
    <2>1. delivered[r] \in Seq(BroadcastMessage)
      BY DEF IInv, TypeOK
    <2>2. QED
      BY <1>1, <2>1, ElementOfSeq DEF DeliveredTyped
  <1>3. WasTyped(m)' /\ BroadcastText(m)' = BroadcastText(m)
    BY <1>2, TextStays
  <1>4. delivered'[r][k] = m
    BY <1>1 DEF DeliveredGrows
  <1>5. WasTyped(delivered[r][k])'
    BY <1>3, <1>4 DEF WasTyped
  <1>6. BroadcastText(delivered[r][k])' = BroadcastText(m)'
    BY <1>4 DEF BroadcastText
  <1>7. QED
    BY <1>1, <1>3, <1>5, <1>6

LEMMA Lengths ==
    ASSUME IInv, ClientTypes, NEW r \in Session
    PROVE  /\ Len(up[r]) \in Nat /\ Len(down[r]) \in Nat /\ Len(typed[r]) \in Nat
           /\ Len(heard[r]) \in Nat /\ Len(printed[r]) \in Nat /\ Len(delivered[r]) \in Nat
           /\ Len(mqueue[r]) \in Nat /\ lines[r] \in Nat
  <1>1. /\ up[r] \in Seq(Request) /\ down[r] \in Seq(Responses \cup Deliveries)
        /\ typed[r] \in Seq(Line) /\ heard[r] \in Seq([line : Nat, response : Responses])
        /\ printed[r] \in Seq(Printable)
    BY DEF ClientTypes
  <1>2. /\ delivered[r] \in Seq(BroadcastMessage) /\ mqueue[r] \in Seq(BroadcastMessage)
        /\ lines[r] \in 0..MaxLines
    BY DEF IInv, TypeOK
  <1>3. QED
    BY <1>1, <1>2, LenProperties, Constants

\* Where in what was delivered the deliveries that are on their way are.
LEMMA Positions ==
    ASSUME IInv, ClientTypes, NEW r \in Session, NEW j \in 0..Len(down[r]),
           Len(printed[r]) + Len(down[r]) - j <= Len(delivered[r])
    PROVE  /\ \A i \in (j + 1)..Len(down[r]) :
                 Len(printed[r]) + i - j \in 1..Len(delivered[r])
           /\ \A i \in 1..Len(printed[r]) : i \in 1..Len(delivered[r])
           /\ \A i \in 1..j : i \in 1..Len(down[r])
           /\ Len(delivered[r]) = 0 => Len(printed[r]) = 0 /\ j = Len(down[r])
  <1>0. /\ Len(down[r]) \in Nat /\ Len(printed[r]) \in Nat /\ Len(delivered[r]) \in Nat
    BY Lengths
  <1>1. ASSUME NEW i \in (j + 1)..Len(down[r])
        PROVE  Len(printed[r]) + i - j \in 1..Len(delivered[r])
    <2>1. PICK p \in Nat : p = Len(printed[r])
      BY <1>0
    <2>2. PICK d \in Nat : d = Len(down[r])
      BY <1>0
    <2>3. PICK l \in Nat : l = Len(delivered[r])
      BY <1>0
    <2>4. j \in 0..d /\ p + d - j <= l /\ i \in (j + 1)..d
      BY <2>1, <2>2, <2>3
    <2>5. p + i - j \in 1..l
      BY <2>4
    <2>6. QED
      BY <2>1, <2>2, <2>3, <2>5
  <1>2. \A i \in 1..Len(printed[r]) : i \in 1..Len(delivered[r])
    <2>1. PICK p \in Nat : p = Len(printed[r])
      BY <1>0
    <2>2. PICK d \in Nat : d = Len(down[r])
      BY <1>0
    <2>3. PICK l \in Nat : l = Len(delivered[r])
      BY <1>0
    <2>4. j \in 0..d /\ p + d - j <= l
      BY <2>1, <2>2, <2>3
    <2>5. \A i \in 1..p : i \in 1..l
      BY <2>4
    <2>6. QED
      BY <2>1, <2>2, <2>3, <2>5
  <1>3. \A i \in 1..j : i \in 1..Len(down[r])
    <2>1. PICK p \in Nat : p = Len(printed[r])
      BY <1>0
    <2>2. PICK d \in Nat : d = Len(down[r])
      BY <1>0
    <2>3. PICK l \in Nat : l = Len(delivered[r])
      BY <1>0
    <2>4. j \in 0..d /\ p + d - j <= l
      BY <2>1, <2>2, <2>3
    <2>5. \A i \in 1..j : i \in 1..d
      BY <2>4
    <2>6. QED
      BY <2>1, <2>2, <2>3, <2>5
  <1>4. Len(delivered[r]) = 0 => Len(printed[r]) = 0 /\ j = Len(down[r])
    <2>1. PICK p \in Nat : p = Len(printed[r])
      BY <1>0
    <2>2. PICK d \in Nat : d = Len(down[r])
      BY <1>0
    <2>3. PICK l \in Nat : l = Len(delivered[r])
      BY <1>0
    <2>4. j \in 0..d /\ p + d - j <= l
      BY <2>1, <2>2, <2>3
    <2>5. l = 0 => p = 0 /\ j = d
      BY <2>4
    <2>6. QED
      BY <2>1, <2>2, <2>3, <2>5
  <1>5. QED
    BY <1>1, <1>2, <1>3, <1>4

LEMMA PrintingKeeps ==
    ASSUME IInv, ClientTypes, ClientTypes', TypedGrows, NEW r \in Session,
           Printing(r), DeliveredTyped(r), delivered'[r] = delivered[r],
           delivered'[r] # <<>> => pc'[r] = pc[r],
           down'[r] = down[r], printed'[r] = printed[r],
           listening' => listening, at'[r] \notin Client!Gone => at[r] \notin Client!Gone
    PROVE  Printing(r)'
  <1>0. /\ Len(down[r]) \in Nat /\ Len(printed[r]) \in Nat /\ Len(delivered[r]) \in Nat
    BY Lengths
  <1>1. \A k \in 1..Len(delivered[r]) :
           BroadcastText(delivered[r][k])' = BroadcastText(delivered[r][k])
    BY <1>0, TextsStay DEF DeliveredGrows
  <1>2. PICK j \in 0..Len(down[r]) : OnTheWay(r, j)
    BY DEF Printing
  <1>3. OnTheWay(r, j)'
    <2>1. ASSUME NEW i \in (j + 1)..Len(down[r])
          PROVE  down'[r][i] = [tag |-> "delivery",
                    data |-> BroadcastText(delivered[r][Len(printed[r]) + i - j])']
      <3>1. Len(printed[r]) + Len(down[r]) - j <= Len(delivered[r])
        BY <1>2 DEF OnTheWay
      <3>2. Len(printed[r]) + i - j \in 1..Len(delivered[r])
        BY <3>1, <1>2, Positions
      <3>3. QED
        BY <1>1, <1>2, <3>2 DEF OnTheWay
    <2>2. QED
      BY <1>2, <2>1 DEF OnTheWay
  <1>4. ASSUME NEW i \in 1..Len(printed[r])
        PROVE  printed'[r][i] = Client!Shown(BroadcastText(delivered[r][i])')
    <2>1. i \in 1..Len(delivered[r])
      BY <1>0, <1>2 DEF OnTheWay
    <2>2. QED
      BY <1>1, <2>1 DEF Printing
  <1>5. QED
    BY <1>2, <1>3, <1>4 DEF Printing

\* A step that is none of t's leaves everything of t as it was.
Apart(t) ==
    /\ program' = program /\ at'[t] = at[t] /\ up'[t] = up[t] /\ down'[t] = down[t]
    /\ typed'[t] = typed[t] /\ heard'[t] = heard[t] /\ printed'[t] = printed[t]
    /\ pc'[t] = pc[t] /\ lines'[t] = lines[t] /\ isReciever'[t] = isReciever[t]
    /\ delivered'[t] = delivered[t]
    /\ listening' = listening

LEMMA ApartLinked ==
    ASSUME IInv, ClientTypes, ClientTypes', TypedGrows, NEW t \in Session, Apart(t),
           Linked(t), QueueTyped(t)'
    PROVE  Linked(t)'
  <1> USE DEF Apart
  <1>1. SenderSide(t)' /\ ReceiverSide(t)'
    BY DEF Linked, SenderSide, ReceiverSide
  <1>2. Counting(t)'
    <2> SUFFICES ASSUME program'[t] = "sender" PROVE Counting(t)'
      BY DEF Counting
    <2>1. Counting(t) /\ program[t] = "sender"
      BY DEF Linked
    <2>2. Answered(t)' = Answered(t) /\ Waits(t)' = Waits(t) /\ SessionOver(t)' = SessionOver(t)
      BY DEF Answered, Waits, SessionOver
    <2>3. QED
      BY <2>1, <2>2 DEF Counting
  <1>3. Printing(t)'
    BY PrintingKeeps DEF Linked
  <1>4. DeliveredTyped(t)'
    <2>1. Len(delivered[t]) \in Nat
      BY Lengths
    <2>2. \A k \in 1..Len(delivered[t]) : WasTyped(delivered[t][k])'
      BY <2>1, TextsStay DEF Linked, DeliveredGrows
    <2>3. QED
      BY <2>2 DEF DeliveredTyped
  <1>5. QED
    BY <1>1, <1>2, <1>3, <1>4 DEF Linked

\* A worker broadcasts the number of a line that its client has typed.
LEMMA SaidTyped ==
    ASSUME IInv, ClientTypes, NEW s \in Session, Linked(s), pc[s] = "enqueue"
    PROVE  Said(s) \in BroadcastMessage /\ WasTyped(Said(s))
  <1>1. program[s] = "sender"
    <2>1. program[s] \in {"sender", "receiver"}
      BY Constants DEF ClientTypes, Client!Program
    <2>2. QED
      BY <2>1 DEF Linked, ReceiverSide
  <1>2. lines[s] <= Len(typed[s])
    BY <1>1, Lengths DEF Linked, Counting
  <1>3. QED
    BY <1>2, SaidType DEF WasTyped, Said

LEMMA QueuesTyped ==
    ASSUME IInv, ClientTypes, ClientTypes', TypedGrows, Links, NEW s \in Session, QueuesFill(s)
    PROVE  \A t \in Session : QueueTyped(t)'
  <1> SUFFICES ASSUME NEW t \in Session, NEW i \in 1..Len(mqueue'[t])
               PROVE  WasTyped(mqueue[t][i])'
    BY DEF QueueTyped
  <1>1. PICK m : m = mqueue'[t][i]
    OBVIOUS
  <1>2. m \in BroadcastMessage /\ WasTyped(m)
    <2>1. CASE \E k \in 1..Len(mqueue[t]) : m = mqueue[t][k]
      <3>1. PICK k \in 1..Len(mqueue[t]) : m = mqueue[t][k]
        BY <2>1
      <3>2. mqueue[t] \in Seq(BroadcastMessage)
        BY DEF IInv, TypeOK
      <3>3. m \in BroadcastMessage
        BY <3>1, <3>2, ElementOfSeq
      <3>4. QED
        BY <3>1, <3>3 DEF Links, Linked, QueueTyped
    <2>2. CASE pc[s] = "enqueue" /\ m = Said(s)
      BY <2>2, SaidTyped DEF Links
    <2>3. QED
      BY <1>1, <2>1, <2>2 DEF QueuesFill
  <1>3. WasTyped(m)'
    BY <1>2, TextStays
  <1>4. QED
    BY <1>1, <1>3 DEF WasTyped

-----------------------------------------------------------------------------
(* The turn of a worker, and its own session *)

\* A session to which nothing was delivered.
LEMMA PrintingNothing ==
    ASSUME ClientTypes', NEW r \in Session, delivered'[r] = <<>>, printed'[r] = <<>>,
           \A i \in 1..Len(down'[r]) : down'[r][i].tag # "delivery"
    PROVE  Printing(r)'
  <1>1. Len(down'[r]) \in Nat /\ Len(printed'[r]) = 0 /\ Len(delivered'[r]) = 0
    <2>1. down'[r] \in Seq(Responses \cup Deliveries)
      BY DEF ClientTypes
    <2>2. QED
      BY <2>1, LenProperties
  <1> DEFINE j == Len(down'[r])
  <1>2. /\ j \in 0..j /\ Len(printed'[r]) + j - j <= Len(delivered'[r])
        /\ Len(printed'[r]) + j - j = Len(delivered'[r])
        /\ (j + 1)..j = {}
    BY <1>1
  <1>3. OnTheWay(r, Len(down[r]))'
    BY <1>2 DEF OnTheWay
  <1>4. \E k \in 0..Len(down'[r]) : OnTheWay(r, k)'
    BY <1>2, <1>3
  <1>5. QED
    BY <1>1, <1>4 DEF Printing

\* What the worker sends comes behind what is on its way.
LEMMA SentIsLast ==
    ASSUME ClientTypes, NEW s \in Session, NEW m \in Responses \cup Deliveries,
           down' = [down EXCEPT ![s] = Append(@, m)]
    PROVE  /\ Len(down[s]) \in Nat /\ Len(down'[s]) = Len(down[s]) + 1
           /\ \A i \in 1..Len(down[s]) : down'[s][i] = down[s][i]
           /\ down'[s][Len(down[s]) + 1] = m
           /\ \A i \in 1..Len(down'[s]) : i \in 1..Len(down[s]) \/ i = Len(down[s]) + 1
  <1>1. down[s] \in Seq(Responses \cup Deliveries) /\ down'[s] = Append(down[s], m)
    BY DEF ClientTypes
  <1>2. Len(down[s]) \in Nat
    BY <1>1, LenProperties
  <1>3. /\ Len(Append(down[s], m)) = Len(down[s]) + 1
        /\ \A i \in 1..Len(down[s]) : Append(down[s], m)[i] = down[s][i]
        /\ Append(down[s], m)[Len(down[s]) + 1] = m
    BY <1>1, AppendProperties
  <1>4. QED
    BY <1>1, <1>2, <1>3

LEMMA PrintingTurn ==
    ASSUME IInv, IInv', ClientTypes, ClientTypes', Links, NEW s \in Session, Turn(s), Respond(s),
           listening, UNCHANGED <<at, listening, typed, printed>>
    PROVE  Printing(s)' /\ DeliveredTyped(s)'
  <1>0. /\ Printing(s) /\ DeliveredTyped(s) /\ QueueTyped(s) /\ TypedGrows
        /\ \/ delivered'[s] = delivered[s] /\ (pc[s] = "loop" => pc'[s] = "loop")
           \/ /\ pc[s] = "loop" /\ pc'[s] = "loop" /\ mqueue[s] # <<>>
              /\ delivered'[s] = Append(delivered[s], Head(mqueue[s]))
    <2>1. TypedGrows
      <3>1. \A u \in Session : Len(typed[u]) \in Nat
        BY Lengths
      <3>2. QED
        BY <3>1 DEF TypedGrows
    <2>2. QED
      BY <2>1 DEF Turn, LoopDelivers, Links, Linked
  <1>1. /\ Len(down[s]) \in Nat /\ Len(printed[s]) \in Nat /\ Len(delivered[s]) \in Nat
        /\ delivered[s] \in Seq(BroadcastMessage) /\ mqueue[s] \in Seq(BroadcastMessage)
    BY Lengths DEF IInv, TypeOK
  <1>2. PICK j \in 0..Len(down[s]) : OnTheWay(s, j)
    BY <1>0 DEF Printing
  <1>3. /\ j \in 0..Len(down[s])
        /\ Len(printed[s]) + Len(down[s]) - j <= Len(delivered[s])
    BY <1>2 DEF OnTheWay
  <1>p. PICK p \in Nat : p = Len(printed[s])
    BY <1>1
  <1>d. PICK d \in Nat : d = Len(down[s])
    BY <1>1
  <1>l. PICK l \in Nat : l = Len(delivered[s])
    BY <1>1
  <1>7. /\ p = Len(printed[s]) /\ d = Len(down[s]) /\ l = Len(delivered[s])
        /\ j \in 0..d /\ p + d - j <= l
    BY <1>3, <1>p, <1>d, <1>l
  <1>8. j \in Nat /\ p + d - j <= l + 1 /\ (p + d - j = l => p + (d + 1) - j = l + 1)
        /\ l + 1 <= l + 1
    <2>1. p \in Nat /\ d \in Nat /\ l \in Nat /\ j \in 0..d /\ p + d - j <= l
      BY <1>7
    <2>2. QED
      BY <2>1
  <1>4. CASE delivered'[s] = delivered[s]
    <2>1. delivered'[s] # <<>> => pc'[s] = pc[s]
      BY <1>0, <1>4 DEF Printing
    <2>2. DeliveredTyped(s)'
      BY <1>0, <1>4 DEF DeliveredTyped, WasTyped
    <2>3. CASE down' = down
      BY <1>0, <1>4, <2>1, <2>2, <2>3, PrintingKeeps
    <2>4. CASE down' # down
      <3>1. /\ Answers(s) /\ Response(s) \in Responses
            /\ down' = [down EXCEPT ![s] = Append(@, Response(s))]
        BY <1>4, <2>4, RespondCases DEF Delivers
      <3>2. delivered[s] = <<>>
        BY <1>0, <3>1 DEF Answers, Printing
      <3>3. Len(printed[s]) = 0 /\ j = Len(down[s])
        <4>1. Len(delivered[s]) = 0
          BY <3>2
        <4>2. QED
          BY <1>3, <4>1, Positions
      <3>4. printed[s] = <<>>
        <4>1. printed[s] \in Seq(Printable)
          BY DEF ClientTypes
        <4>2. QED
          BY <3>3, <4>1, EmptySeq
      <3>5. \A i \in 1..Len(down'[s]) : down'[s][i].tag # "delivery"
        <4>1. Response(s).tag # "delivery"
          BY <3>1 DEF Responses
        <4>2. \A i \in 1..Len(down[s]) : down[s][i].tag # "delivery"
          BY <1>2, <3>3 DEF OnTheWay
        <4>3. PICK m : m = Response(s)
          OBVIOUS
        <4>4. /\ \A i \in 1..Len(down[s]) : down'[s][i] = down[s][i]
              /\ down'[s][Len(down[s]) + 1] = m
              /\ \A i \in 1..Len(down'[s]) : i \in 1..Len(down[s]) \/ i = Len(down[s]) + 1
          BY <3>1, <4>3, SentIsLast
        <4>5. QED
          BY <4>1, <4>2, <4>3, <4>4
      <3>6. Printing(s)'
        BY <1>4, <3>2, <3>4, <3>5, PrintingNothing
      <3>7. QED
        BY <2>2, <3>6
    <2>5. QED
      BY <2>3, <2>4
  <1>5. CASE /\ pc'[s] = "loop" /\ mqueue[s] # <<>> /\ delivered'[s] # delivered[s]
             /\ delivered'[s] = Append(delivered[s], Head(mqueue[s]))
    <2>1. PICK m : m = Head(mqueue[s])
      OBVIOUS
    <2>2. m \in BroadcastMessage /\ WasTyped(m)
      <3>1. m = mqueue[s][1] /\ 1 \in 1..Len(mqueue[s])
        BY <1>1, <1>5, <2>1, EmptySeq, LenProperties
      <3>2. QED
        BY <1>0, <1>1, <3>1, ElementOfSeq DEF QueueTyped
    <2>3. /\ Len(delivered'[s]) = Len(delivered[s]) + 1
          /\ \A k \in 1..Len(delivered[s]) : delivered'[s][k] = delivered[s][k]
          /\ delivered'[s][Len(delivered[s]) + 1] = m
      <3>1. delivered'[s] = Append(delivered[s], m)
        BY <1>5, <2>1
      <3>2. QED
        BY <1>1, <2>2, <3>1, AppendProperties
    <2>4. \A k \in 1..Len(delivered'[s]) : k \in 1..Len(delivered[s]) \/ k = Len(delivered[s]) + 1
      BY <1>1, <2>3
    <2>5. DeliveredTyped(s)'
      <3>1. ASSUME NEW k \in 1..Len(delivered'[s]) PROVE WasTyped(delivered[s][k])'
        BY <1>0, <2>2, <2>3, <2>4 DEF WasTyped, DeliveredTyped
      <3>2. QED
        BY <3>1 DEF DeliveredTyped
    <2>6. \A k \in 1..Len(delivered[s]) :
             BroadcastText(delivered[s][k])' = BroadcastText(delivered[s][k])
      BY <2>3 DEF BroadcastText
    <2>7. PICK n : n = Len(delivered[s]) + 1
      OBVIOUS
    <2>8. BroadcastText(delivered[s][n])' = BroadcastText(m)
      BY <2>3, <2>7 DEF BroadcastText
    <2>9. ASSUME NEW i \in (j + 1)..Len(down[s])
          PROVE  down[s][i] = [tag |-> "delivery",
                    data |-> BroadcastText(delivered[s][Len(printed[s]) + i - j])']
      <3>1. Len(printed[s]) + i - j \in 1..Len(delivered[s])
        BY <1>3, Positions
      <3>2. QED
        BY <1>2, <2>6, <3>1 DEF OnTheWay
    <2>10. ASSUME NEW i \in 1..Len(printed'[s])
           PROVE  printed'[s][i] = Client!Shown(BroadcastText(delivered[s][i])')
      <3>1. i \in 1..Len(printed[s]) /\ i \in 1..Len(delivered[s])
        BY <1>3, Positions
      <3>2. QED
        BY <1>0, <2>6, <3>1 DEF Printing
    <2>11. \E k \in 0..Len(down'[s]) : OnTheWay(s, k)'
      <3>1. CASE down' = down /\ at[s] \in Client!Gone
        <4>1. /\ p + d - j <= l + 1
              /\ \A i \in 1..j : down'[s][i].tag # "delivery"
          BY <1>2, <1>8, <3>1 DEF OnTheWay
        <4>2. Len(printed'[s]) + Len(down'[s]) - j <= Len(delivered'[s])
          BY <1>7, <2>3, <3>1, <4>1
        <4>3. OnTheWay(s, j)'
          BY <2>9, <3>1, <4>1, <4>2 DEF OnTheWay
        <4>4. QED
          BY <1>3, <3>1, <4>3
      <3>2. CASE /\ at[s] \notin Client!Gone /\ NextDelivery(s) \in Deliveries
                 /\ down' = [down EXCEPT ![s] = Append(@, NextDelivery(s))]
        <4>1. PICK x : x = NextDelivery(s)
          OBVIOUS
        <4>2. /\ Len(down'[s]) = Len(down[s]) + 1
              /\ \A i \in 1..Len(down[s]) : down'[s][i] = down[s][i]
              /\ down'[s][Len(down[s]) + 1] = x
              /\ \A i \in 1..Len(down'[s]) : i \in 1..Len(down[s]) \/ i = Len(down[s]) + 1
          BY <3>2, <4>1, SentIsLast
        <4>3. x = [tag |-> "delivery", data |-> BroadcastText(m)]
          BY <2>1, <4>1 DEF NextDelivery
        <4>4. Len(printed[s]) + Len(down[s]) - j = Len(delivered[s])
          BY <1>2, <3>2 DEF OnTheWay
        <4>5. Len(printed'[s]) + Len(down'[s]) - j = Len(delivered'[s])
          <5>1. p + d - j = l
            BY <1>7, <4>4
          <5>2. p + (d + 1) - j = l + 1
            BY <1>8, <5>1
          <5>3. QED
            BY <1>7, <2>3, <4>2, <5>2
        <4>6. ASSUME NEW i \in (j + 1)..Len(down'[s])
              PROVE  down'[s][i] = [tag |-> "delivery",
                        data |-> BroadcastText(delivered[s][Len(printed[s]) + i - j])']
          <5>1. CASE i \in 1..Len(down[s])
            <6>1. i \in (j + 1)..Len(down[s])
              BY <1>1, <1>3, <5>1
            <6>2. QED
              BY <2>9, <4>2, <5>1, <6>1
          <5>2. CASE i = Len(down[s]) + 1
            <6>1. Len(printed[s]) + i - j = n
              <7>1. p + d - j = l
                BY <1>7, <4>4
              <7>2. p + (d + 1) - j = l + 1
                BY <1>8, <7>1
              <7>3. QED
                BY <1>7, <2>7, <5>2, <7>2
            <6>2. BroadcastText(delivered[s][Len(printed[s]) + i - j])'
                     = BroadcastText(delivered[s][n])'
              BY <6>1
            <6>3. QED
              BY <2>8, <4>2, <4>3, <5>2, <6>2
          <5>3. i \in 1..Len(down'[s])
            BY <1>1, <1>3, <4>2
          <5>4. QED
            BY <4>2, <5>1, <5>2, <5>3
        <4>7. \A i \in 1..j : down'[s][i].tag # "delivery"
          <5>1. \A i \in 1..j : i \in 1..Len(down[s])
            BY <1>3, Positions
          <5>2. QED
            BY <1>2, <4>2, <5>1 DEF OnTheWay
        <4>8. OnTheWay(s, j)'
          <5>1. Len(printed'[s]) + Len(down'[s]) - j <= Len(delivered'[s])
            <6>1. Len(delivered'[s]) <= Len(delivered'[s])
              BY <1>7, <1>8, <2>3
            <6>2. QED
              BY <4>5, <6>1
          <5>2. QED
            BY <4>5, <4>6, <4>7, <5>1 DEF OnTheWay
        <4>9. j \in 0..Len(down'[s])
          BY <1>1, <1>3, <4>2
        <4>10. QED
          BY <4>8, <4>9
      <3>3. QED
        BY <1>5, <3>1, <3>2, RespondCases DEF Delivers
    <2>12. QED
      BY <1>5, <2>5, <2>10, <2>11 DEF Printing
  <1>6. QED
    BY <1>0, <1>4, <1>5

\* Where a worker goes that takes a message, or finds that there is none.
Takes(s) ==
    /\ up[s] # <<>> /\ up'[s] = Tail(up[s])
    /\ \/ /\ Head(up[s]).tag = "slogin" /\ pc[s] = "login" /\ pc'[s] = "recv"
          /\ lines'[s] = lines[s] /\ isReciever'[s] = isReciever[s]
       \/ /\ Head(up[s]).tag = "rlogin" /\ pc[s] = "login" /\ pc'[s] = "rjoin"
          /\ lines'[s] = lines[s] /\ isReciever'[s] = TRUE
       \/ /\ pc[s] = "rjoin" /\ pc'[s] = "find"
          /\ lines'[s] = lines[s] /\ isReciever'[s] = isReciever[s]
       \/ /\ pc[s] = "recv" /\ pc'[s] \in {"remove", "find", "leave", "bcast", "recv"}
          /\ lines'[s] = lines[s] + 1 /\ isReciever'[s] = isReciever[s]
       \/ /\ pc[s] = "recv" /\ pc'[s] = "cleanup"
          /\ lines'[s] = lines[s] /\ isReciever'[s] = isReciever[s]

FindsNone(s) ==
    /\ at[s] \in Client!Gone /\ up'[s] = <<>>
    /\ pc[s] \in {"login", "rjoin", "recv"} /\ pc'[s] = "cleanup"
    /\ lines'[s] = lines[s] /\ isReciever'[s] = isReciever[s]

LEMMA ReceiveMoves ==
    ASSUME IInv, ClientTypes, NEW s \in Session, Receive(s)
    PROVE  ~ub' /\ (Takes(s) \/ FindsNone(s))
  <1> USE DEF At, Goto, Answer, Finish, ReceiveLine, lockVars, roomVars, userVars, localVars,
     historyVars, dataVars
  <1>0. /\ pc \in [Session -> PC] /\ lines \in [Session -> 0..MaxLines]
        /\ isReciever \in [Session -> BOOLEAN] /\ up \in [Session -> Seq(Request)]
    BY DEF IInv, TypeOK, ClientTypes
  <1>1. CASE Handle(s) /\ up' = [up EXCEPT ![s] = Tail(@)]
    <2>0. up[s] # <<>> /\ up'[s] = Tail(up[s])
      BY <1>0, <1>1 DEF Handle, Arrived
    <2>1. ASSUME Arrived(s, "login", "slogin"), LoginSender(s) PROVE ~ub' /\ Takes(s)
      BY <1>0, <2>0, <2>1 DEF LoginSender, Arrived, Takes
    <2>2. ASSUME Arrived(s, "login", "rlogin"), LoginReceiver(s) PROVE ~ub' /\ Takes(s)
      BY <1>0, <2>0, <2>2 DEF LoginReceiver, Arrived, Takes
    <2>3. ASSUME ReceiverJoin(s) PROVE ~ub' /\ Takes(s)
      BY <1>0, <2>0, <2>3 DEF ReceiverJoin, Takes
    <2>4. ASSUME SenderJoin(s) PROVE ~ub' /\ Takes(s)
      BY <1>0, <2>0, <2>4 DEF SenderJoin, Takes
    <2>5. ASSUME SenderLeave(s) PROVE ~ub' /\ Takes(s)
      BY <1>0, <2>0, <2>5 DEF SenderLeave, Takes
    <2>6. ASSUME SenderSay(s) PROVE ~ub' /\ Takes(s)
      BY <1>0, <2>0, <2>6 DEF SenderSay, Takes
    <2>7. ASSUME SenderQuit(s) PROVE ~ub' /\ Takes(s)
      BY <1>0, <2>0, <2>7 DEF SenderQuit, Takes
    <2>8. QED
      BY <1>1, <2>1, <2>2, <2>3, <2>4, <2>5, <2>6, <2>7 DEF Handle
  <1>2. CASE HandleEnd(s) /\ up' = [up EXCEPT ![s] = <<>>]
    <2>0. at[s] \in Client!Gone /\ up'[s] = <<>>
      BY <1>0, <1>2 DEF HandleEnd
    <2>1. ASSUME LoginOther(s) \/ ReceiverRefused(s) \/ SenderFails(s)
          PROVE  ~ub' /\ FindsNone(s)
      BY <1>0, <2>0, <2>1 DEF LoginOther, ReceiverRefused, SenderFails, FindsNone
    <2>2. QED
      BY <1>2, <2>1 DEF HandleEnd
  <1>3. QED
    BY <1>1, <1>2 DEF Receive

\* What a worker does when it goes on by itself.
GoesOn(s) ==
    /\ up'[s] = up[s] /\ lines'[s] = lines[s] /\ isReciever'[s] = isReciever[s]
    /\ (ub' /\ pc'[s] = pc[s]) \/ (~ub' /\ Moves(s))

\* The turn of the worker, as far as its own session goes.
OwnTurn(s) ==
    /\ listening
    /\ UNCHANGED <<program, at, listening, typed, heard, printed>>
    /\ \/ ~ub' /\ (Takes(s) \/ FindsNone(s))
       \/ GoesOn(s)

LEMMA UpLeft ==
    ASSUME IInv, ClientTypes, NEW s \in Session, OwnTurn(s)
    PROVE  /\ Len(up'[s]) \in Nat /\ Len(up'[s]) <= Len(up[s])
           /\ Takes(s) => Len(up[s]) >= 1 /\ Len(up'[s]) = Len(up[s]) - 1
           /\ Takes(s) => Head(up[s]) = up[s][1] /\ 1 \in 1..Len(up[s])
           /\ \A i \in 1..Len(up'[s]) : \E k \in 1..Len(up[s]) : up'[s][i] = up[s][k]
  <1>0. up[s] \in Seq(Request) /\ Len(up[s]) \in Nat
    BY Lengths DEF ClientTypes
  <1>1. CASE Takes(s)
    <2>1. up[s] # <<>> /\ up'[s] = Tail(up[s])
      BY <1>1 DEF Takes
    <2>2. Len(up[s]) \in Nat \ {0} /\ Head(up[s]) = up[s][1]
      BY <1>0, <2>1, EmptySeq
    <2>3. /\ Len(up'[s]) = Len(up[s]) - 1
          /\ \A i \in 1..Len(up'[s]) : up'[s][i] = up[s][i + 1]
      BY <1>0, <2>1, HeadTailProperties
    <2>4. \A i \in 1..Len(up'[s]) : i + 1 \in 1..Len(up[s])
      BY <2>2, <2>3
    <2>5. 1 \in 1..Len(up[s]) /\ Len(up[s]) >= 1
      BY <2>2
    <2>6. \A i \in 1..Len(up'[s]) : \E k \in 1..Len(up[s]) : up'[s][i] = up[s][k]
      BY <2>3, <2>4
    <2>7. Len(up'[s]) \in Nat /\ Len(up'[s]) <= Len(up[s])
      BY <2>2, <2>3
    <2>8. QED
      BY <2>2, <2>3, <2>5, <2>6, <2>7
  <1>2. CASE ~Takes(s) /\ up'[s] = up[s]
    BY <1>0, <1>2
  <1>3. CASE ~Takes(s) /\ up'[s] = <<>>
    <2>1. Len(up'[s]) = 0
      BY <1>3
    <2>2. QED
      BY <1>0, <1>3, <2>1
  <1>4. QED
    BY <1>1, <1>2, <1>3 DEF OwnTurn, FindsNone, GoesOn

LEMMA SidesTurn ==
    ASSUME IInv, ClientTypes, NEW s \in Session, Linked(s), OwnTurn(s)
    PROVE  SenderSide(s)' /\ ReceiverSide(s)'
  <1>1. /\ \A i \in 1..Len(up'[s]) : \E k \in 1..Len(up[s]) : up'[s][i] = up[s][k]
        /\ Takes(s) => Head(up[s]) = up[s][1] /\ 1 \in 1..Len(up[s])
    BY UpLeft
  <1>2. ASSUME program[s] = "sender" PROVE SenderSide(s)'
    <2>1. \A i \in 1..Len(up'[s]) : up'[s][i].tag # "rlogin"
      BY <1>1, <1>2 DEF Linked, SenderSide
    <2>2. Takes(s) => Head(up[s]).tag # "rlogin"
      BY <1>1, <1>2 DEF Linked, SenderSide
    <2>3. pc[s] \notin {"rjoin", "loop"} /\ ~isReciever[s]
      BY <1>2 DEF Linked, SenderSide
    <2>4. pc'[s] \notin {"rjoin", "loop"} /\ ~isReciever'[s]
      BY <2>2, <2>3 DEF OwnTurn, Takes, FindsNone, GoesOn, Moves
    <2>5. QED
      BY <1>2, <2>1, <2>4 DEF Linked, SenderSide, OwnTurn
  <1>3. ASSUME program[s] = "receiver" PROVE ReceiverSide(s)'
    <2>1. \A i \in 1..Len(up'[s]) : up'[s][i].tag \in {"rlogin", "join"}
      BY <1>1, <1>3 DEF Linked, ReceiverSide
    <2>2. Takes(s) => Head(up[s]).tag # "slogin"
      BY <1>1, <1>3 DEF Linked, ReceiverSide
    <2>3. /\ pc[s] \notin {"recv", "remove", "leave", "bcast", "enqueue"}
          /\ pc[s] \in {"rjoin", "find", "create", "add", "loop"} => isReciever[s]
      BY <1>3 DEF Linked, ReceiverSide
    <2>4. /\ pc'[s] \notin {"recv", "remove", "leave", "bcast", "enqueue"}
          /\ pc'[s] \in {"rjoin", "find", "create", "add", "loop"} => isReciever'[s]
      BY <2>2, <2>3 DEF OwnTurn, Takes, FindsNone, GoesOn, Moves
    <2>5. QED
      BY <1>3, <2>1, <2>4 DEF Linked, ReceiverSide, OwnTurn
  <1>4. program' = program
    BY DEF OwnTurn
  <1>5. SenderSide(s)'
    BY <1>2, <1>4 DEF SenderSide
  <1>6. ReceiverSide(s)'
    BY <1>3, <1>4 DEF ReceiverSide
  <1>7. QED
    BY <1>5, <1>6

\* Every response answers the login or the next line, and counts it.
LEMMA AnswerCounts ==
    ASSUME IInv, IInv', ClientTypes, NEW s \in Session, Linked(s), OwnTurn(s),
           program[s] = "sender"
    PROVE  /\ Answers(s) /\ at[s] \notin Client!Gone =>
                 /\ ~SessionOver(s) /\ Response(s).to = Answered(s)
                 /\ ~SessionOver(s)' => Answered(s)' = Answered(s) + 1
           /\ ~Answers(s) /\ ~SessionOver(s)' => ~SessionOver(s) /\ Answered(s)' = Answered(s)
  <1>0. /\ pc[s] \in PC /\ pc'[s] \in PC /\ lines[s] \in Nat /\ lines'[s] \in Nat
        /\ pc[s] \notin {"rjoin", "loop"} /\ ~isReciever[s]
        /\ pc[s] = "login" => lines[s] = 0
        /\ Takes(s) => Head(up[s]).tag # "rlogin"
    <2>1. lines[s] \in 0..MaxLines /\ lines'[s] \in 0..MaxLines
      BY DEF IInv, TypeOK
    <2>2. Takes(s) => Head(up[s]) = up[s][1] /\ 1 \in 1..Len(up[s])
      BY UpLeft
    <2>3. pc[s] \in PC /\ pc'[s] \in PC
      BY DEF IInv, TypeOK
    <2>4. /\ pc[s] \notin {"rjoin", "loop"} /\ ~isReciever[s]
          /\ pc[s] = "login" => lines[s] = 0
          /\ \A i \in 1..Len(up[s]) : up[s][i].tag # "rlogin"
      BY DEF Linked, SenderSide, Counting
    <2>5. QED
      BY <2>1, <2>2, <2>3, <2>4, Constants
  <1> USE DEF Answers, SessionOver, Answered
  <1>1. Response(s).to = lines'[s] + (IF pc'[s] = "cleanup" THEN 1 ELSE 0)
    BY DEF Response
  <1>2. CASE ~ub' /\ Takes(s)
    <2>1. CASE pc[s] = "login"
      <3>1. pc'[s] = "recv" /\ lines[s] = 0 /\ lines'[s] = 0
        BY <1>0, <1>2, <2>1 DEF Takes
      <3>2. Response(s).to = 0
        BY <1>1, <3>1
      <3>3. QED
        BY <1>2, <2>1, <3>1, <3>2
    <2>2. CASE pc[s] = "recv" /\ pc'[s] = "recv"
      <3>1. lines'[s] = lines[s] + 1
        BY <1>2, <2>2 DEF Takes
      <3>2. Response(s).to = lines[s] + 1
        BY <1>0, <1>1, <2>2, <3>1
      <3>3. QED
        BY <1>0, <1>2, <2>2, <3>1, <3>2
    <2>3. CASE pc[s] = "recv" /\ pc'[s] \in {"remove", "find", "leave", "bcast"}
      <3>1. lines'[s] = lines[s] + 1
        BY <1>2, <2>3 DEF Takes
      <3>2. QED
        BY <1>0, <1>2, <2>3, <3>1
    <2>4. CASE pc[s] = "recv" /\ pc'[s] = "cleanup"
      <3>1. lines'[s] = lines[s]
        BY <1>2, <2>4 DEF Takes
      <3>2. Response(s).to = lines[s] + 1
        BY <1>0, <1>1, <2>4, <3>1
      <3>3. QED
        BY <1>0, <1>2, <2>4, <3>1, <3>2
    <2>5. QED
      BY <1>0, <1>2, <2>1, <2>2, <2>3, <2>4 DEF Takes
  <1>3. CASE ~ub' /\ FindsNone(s)
    BY <1>3 DEF FindsNone
  <1>4. CASE GoesOn(s)
    BY <1>0, <1>1, <1>4 DEF GoesOn, Moves
  <1>5. QED
    BY <1>2, <1>3, <1>4 DEF OwnTurn

LEMMA CountingTurn ==
    ASSUME IInv, IInv', ClientTypes, ClientTypes', Links, NEW s \in Session,
           Turn(s), OwnTurn(s), Respond(s)
    PROVE  Counting(s)'
  <1>1. CASE program[s] # "sender"
    BY <1>1 DEF Counting, OwnTurn
  <1>2. CASE program[s] = "sender"
    <2>0. Linked(s) /\ UNCHANGED <<program, at, listening, typed, heard, printed>>
      BY DEF Links, OwnTurn
    <2>1. /\ at[s] \in {"connect", "login"} => /\ up[s] = <<>> /\ down[s] = <<>>
                                               /\ typed[s] = <<>> /\ heard[s] = <<>>
                                               /\ pc[s] = "login"
          /\ pc[s] = "login" => lines[s] = 0
          /\ Len(up[s]) + lines[s] <= Len(typed[s]) + (IF pc[s] = "login" THEN 1 ELSE 0)
          /\ \A i \in 1..Len(heard[s]) : heard[s][i].line = i /\ heard[s][i].response.to = i - 1
          /\ \A i \in 1..Len(down[s]) : /\ down[s][i].tag # "delivery"
                                        /\ down[s][i].to = Len(heard[s]) + i - 1
          /\ at[s] \notin Client!Gone /\ ~SessionOver(s) =>
                Len(heard[s]) + Len(down[s]) = Answered(s)
          /\ at[s] \in {"type", "response", "quit"} => Len(typed[s]) = Len(heard[s]) + Waits(s)
      BY <1>2, <2>0 DEF Linked, Counting, OwnTurn
    <2>2. /\ Len(up[s]) \in Nat /\ Len(down[s]) \in Nat /\ Len(heard[s]) \in Nat
          /\ Len(typed[s]) \in Nat /\ lines[s] \in Nat
      BY Lengths
    <2>3. \/ /\ down' = down /\ (at[s] \in Client!Gone \/ ~Answers(s))
          \/ /\ at[s] \notin Client!Gone /\ Answers(s) /\ Response(s) \in Responses
             /\ down' = [down EXCEPT ![s] = Append(@, Response(s))]
      <3>1. ~Delivers(s)
        BY <1>2, <2>0 DEF Linked, SenderSide, Turn, LoopDelivers, Delivers
      <3>2. QED
        BY <3>1, RespondCases
    <2>4. /\ Answers(s) /\ at[s] \notin Client!Gone =>
                /\ ~SessionOver(s) /\ Response(s).to = Answered(s)
                /\ ~SessionOver(s)' => Answered(s)' = Answered(s) + 1
          /\ ~Answers(s) /\ ~SessionOver(s)' => ~SessionOver(s) /\ Answered(s)' = Answered(s)
      BY <1>2, <2>0, AnswerCounts
    <2>5. /\ Len(up'[s]) \in Nat /\ Len(up'[s]) <= Len(up[s])
          /\ Takes(s) => Len(up[s]) >= 1 /\ Len(up'[s]) = Len(up[s]) - 1
      BY UpLeft
    <2>c1. at'[s] \in {"connect", "login"} => /\ up'[s] = <<>> /\ down'[s] = <<>>
                                              /\ typed'[s] = <<>> /\ heard'[s] = <<>>
                                              /\ pc'[s] = "login"
      <3> SUFFICES ASSUME at'[s] \in {"connect", "login"}
                   PROVE  /\ up'[s] = <<>> /\ down'[s] = <<>> /\ typed'[s] = <<>>
                          /\ heard'[s] = <<>> /\ pc'[s] = "login"
        OBVIOUS
      <3>1. /\ up[s] = <<>> /\ down[s] = <<>> /\ typed[s] = <<>> /\ heard[s] = <<>>
            /\ pc[s] = "login" /\ at[s] \notin Client!Gone
        BY <2>0, <2>1 DEF Client!Gone
      <3>2. GoesOn(s)
        BY <3>1 DEF OwnTurn, Takes, FindsNone
      <3>3. ub' /\ pc'[s] = "login" /\ up'[s] = <<>>
        BY <3>1, <3>2 DEF GoesOn, Moves
      <3>4. QED
        BY <2>0, <2>3, <3>1, <3>3 DEF Answers
    <2>c2. pc'[s] = "login" => lines'[s] = 0
      BY <2>1 DEF OwnTurn, Takes, FindsNone, GoesOn, Moves
    <2>c3. Len(up'[s]) + lines'[s] <= Len(typed'[s]) + (IF pc'[s] = "login" THEN 1 ELSE 0)
      <3>1. PICK u \in Nat : u = Len(up[s])
        BY <2>2
      <3>2. PICK n \in Nat : n = lines[s]
        BY <2>2
      <3>3. PICK t \in Nat : t = Len(typed[s])
        BY <2>2
      <3>4. CASE Takes(s) /\ pc[s] = "login"
        <4>1. /\ Len(up'[s]) = u - 1 /\ lines'[s] = 0 /\ n = 0 /\ pc'[s] # "login"
              /\ Len(typed'[s]) = t
          BY <2>0, <2>1, <2>5, <3>1, <3>2, <3>3, <3>4 DEF Takes
        <4>2. u + 0 <= t + 1
          BY <2>1, <3>1, <3>2, <3>3, <3>4, <4>1
        <4>3. u - 1 + 0 <= t + 0
          BY <4>2
        <4>4. QED
          BY <4>1, <4>3
      <3>5. CASE Takes(s) /\ pc[s] # "login"
        <4>1. /\ Len(up'[s]) = u - 1 /\ lines'[s] \in {n, n + 1} /\ pc'[s] # "login"
              /\ Len(typed'[s]) = t
          BY <2>0, <2>1, <2>5, <3>1, <3>2, <3>3, <3>5 DEF Takes
        <4>2. u + n <= t + 0
          BY <2>1, <3>1, <3>2, <3>3, <3>5
        <4>3. u - 1 + n <= t + 0 /\ u - 1 + (n + 1) <= t + 0
          BY <4>2
        <4>4. QED
          BY <4>1, <4>3
      <3>6. CASE FindsNone(s)
        <4>1. /\ Len(up'[s]) = 0 /\ lines'[s] = n /\ pc'[s] # "login" /\ Len(typed'[s]) = t
          BY <2>0, <3>2, <3>3, <3>6 DEF FindsNone
        <4>2. n <= t
          <5>1. CASE pc[s] = "login"
            BY <2>1, <3>2, <5>1
          <5>2. CASE pc[s] # "login"
            <6>1. u + n <= t + 0
              BY <2>1, <3>1, <3>2, <3>3, <5>2
            <6>2. QED
              BY <6>1
          <5>3. QED
            BY <5>1, <5>2
        <4>3. 0 + n <= t + 0
          BY <4>2
        <4>4. QED
          BY <4>1, <4>3
      <3>7. CASE GoesOn(s)
        <4>1. /\ up'[s] = up[s] /\ lines'[s] = lines[s] /\ typed'[s] = typed[s]
              /\ pc'[s] = "login" <=> pc[s] = "login"
          BY <2>0, <3>7 DEF GoesOn, Moves
        <4>2. QED
          BY <2>1, <4>1
      <3>8. QED
        BY <3>4, <3>5, <3>6, <3>7 DEF OwnTurn
    <2>c5. \A i \in 1..Len(down'[s]) : /\ down'[s][i].tag # "delivery"
                                       /\ down'[s][i].to = Len(heard'[s]) + i - 1
      <3>1. CASE down' = down
        BY <2>0, <2>1, <3>1
      <3>2. CASE /\ at[s] \notin Client!Gone /\ Answers(s) /\ Response(s) \in Responses
                 /\ down' = [down EXCEPT ![s] = Append(@, Response(s))]
        <4>1. PICK m : m = Response(s)
          OBVIOUS
        <4>2. /\ \A i \in 1..Len(down[s]) : down'[s][i] = down[s][i]
              /\ down'[s][Len(down[s]) + 1] = m
              /\ \A i \in 1..Len(down'[s]) : i \in 1..Len(down[s]) \/ i = Len(down[s]) + 1
          BY <3>2, <4>1, SentIsLast
        <4>3. m.tag # "delivery"
          BY <3>2, <4>1 DEF Responses
        <4>4. m.to = Len(heard[s]) + Len(down[s])
          BY <2>1, <2>4, <3>2, <4>1
        <4>5. Len(heard[s]) + Len(down[s]) = Len(heard[s]) + (Len(down[s]) + 1) - 1
          BY <2>2
        <4>6. ASSUME NEW i \in 1..Len(down'[s])
              PROVE  down'[s][i].tag # "delivery" /\ down'[s][i].to = Len(heard[s]) + i - 1
          <5>1. CASE i \in 1..Len(down[s])
            BY <2>1, <4>2, <5>1
          <5>2. CASE i = Len(down[s]) + 1
            BY <4>2, <4>3, <4>4, <4>5, <5>2
          <5>3. QED
            BY <4>2, <5>1, <5>2
        <4>7. QED
          BY <2>0, <4>6
      <3>3. QED
        BY <2>3, <3>1, <3>2
    <2>c6. at'[s] \notin Client!Gone /\ ~SessionOver(s)' =>
              Len(heard'[s]) + Len(down'[s]) = Answered(s)'
      <3> SUFFICES ASSUME at[s] \notin Client!Gone, ~SessionOver(s)'
                   PROVE  Len(heard[s]) + Len(down'[s]) = Answered(s)'
        BY <2>0
      <3>1. Len(heard[s]) + Len(down[s]) = Answered(s)
        BY <2>1, <2>4
      <3>2. CASE down' = down /\ ~Answers(s)
        BY <2>4, <3>1, <3>2
      <3>3. CASE /\ Answers(s) /\ Response(s) \in Responses
                 /\ down' = [down EXCEPT ![s] = Append(@, Response(s))]
        <4>1. PICK m : m = Response(s)
          OBVIOUS
        <4>2. Len(down'[s]) = Len(down[s]) + 1
          BY <3>3, <4>1, SentIsLast
        <4>3. Len(heard[s]) + Len(down'[s]) = (Len(heard[s]) + Len(down[s])) + 1
          <5>1. PICK h \in Nat : h = Len(heard[s])
            BY <2>2
          <5>2. PICK d \in Nat : d = Len(down[s])
            BY <2>2
          <5>3. h + (d + 1) = (h + d) + 1
            OBVIOUS
          <5>4. QED
            BY <4>2, <5>1, <5>2, <5>3
        <4>4. QED
          BY <2>4, <3>1, <3>3, <4>3
      <3>4. QED
        BY <2>3, <3>2, <3>3
    <2>6. QED
      BY <1>2, <2>0, <2>1, <2>c1, <2>c2, <2>c3, <2>c5, <2>c6 DEF Counting, Waits
  <1>3. QED
    BY <1>1, <1>2

LEMMA TypedSame ==
    ASSUME IInv, ClientTypes, typed' = typed
    PROVE  TypedGrows
  <1>1. \A u \in Session : Len(typed[u]) \in Nat
    BY Lengths
  <1>2. QED
    BY <1>1 DEF TypedGrows

LEMMA TurnLinks ==
    ASSUME IInv, IInv', ClientTypes, ClientTypes', Links, NEW s \in Session, Receive(s) \/ Work(s)
    PROVE  Links'
  <1>1. /\ Turn(s) /\ Respond(s) /\ listening
        /\ UNCHANGED <<program, at, listening, typed, heard, printed>>
    BY WorkersTurn, OneTurn DEF Receive, Work
  <1>2. OwnTurn(s)
    <2>1. CASE Receive(s)
      BY <1>1, <2>1, ReceiveMoves DEF OwnTurn
    <2>2. CASE Work(s)
      <3>1. up' = up /\ WorkerStep(s)
        BY <2>2 DEF Work
      <3>2. /\ lines'[s] = lines[s] /\ isReciever'[s] = isReciever[s]
            /\ (ub' /\ pc'[s] = pc[s]) \/ (~ub' /\ Moves(s))
        BY <3>1, WorkMoves
      <3>3. QED
        BY <1>1, <3>1, <3>2 DEF OwnTurn, GoesOn
    <2>3. QED
      BY <2>1, <2>2
  <1>3. TypedGrows
    BY <1>1, TypedSame
  <1>4. \A t \in Session : QueueTyped(t)'
    BY <1>1, <1>3, QueuesTyped DEF Turn
  <1>5. Linked(s)'
    <2>1. Linked(s)
      BY DEF Links
    <2>2. SenderSide(s)' /\ ReceiverSide(s)'
      BY <1>2, <2>1, SidesTurn
    <2>3. Counting(s)'
      BY <1>1, <1>2, CountingTurn
    <2>4. Printing(s)' /\ DeliveredTyped(s)'
      BY <1>1, PrintingTurn
    <2>5. QED
      BY <1>4, <2>2, <2>3, <2>4 DEF Linked
  <1>6. ASSUME NEW t \in Session \ {s} PROVE Linked(t)'
    <2>1. /\ pc'[t] = pc[t] /\ lines'[t] = lines[t] /\ isReciever'[t] = isReciever[t]
          /\ delivered'[t] = delivered[t]
      BY <1>1 DEF Turn, OthersStay
    <2>2. up'[t] = up[t]
      <3>1. up \in [Session -> Seq(Request)]
        BY DEF ClientTypes
      <3>2. QED
        BY <3>1 DEF Receive, Work
    <2>3. down'[t] = down[t]
      <3>1. down \in [Session -> Seq(Responses \cup Deliveries)]
        BY DEF ClientTypes
      <3>2. QED
        BY <1>1, <3>1 DEF Respond
    <2>4. Apart(t)
      BY <1>1, <2>1, <2>2, <2>3 DEF Apart
    <2>5. QED
      BY <1>3, <1>4, <2>4, ApartLinked DEF Links
  <1>7. QED
    BY <1>5, <1>6 DEF Links

-----------------------------------------------------------------------------
(* The end of the server, and the steps of a client *)

LEMMA VarsSame ==
    ASSUME UNCHANGED vars
    PROVE  /\ pc' = pc /\ lines' = lines /\ isReciever' = isReciever
           /\ delivered' = delivered /\ mqueue' = mqueue
  BY DEF vars, dataVars, lockVars, roomVars, userVars, localVars, historyVars

\* While the server does nothing, what is queued stays, and what was delivered.
LEMMA IdleTyped ==
    ASSUME IInv, ClientTypes, ClientTypes', TypedGrows, Links, UNCHANGED vars, NEW t \in Session
    PROVE  QueueTyped(t)' /\ DeliveredTyped(t)'
  <1>1. QueueTyped(t)'
    BY VarsSame, QueuesSame, QueuesTyped
  <1>2. DeliveredTyped(t)'
    <2>1. delivered' = delivered /\ Len(delivered[t]) \in Nat /\ DeliveredTyped(t)
      BY VarsSame, Lengths DEF Links, Linked
    <2>2. DeliveredGrows(t)
      BY <2>1 DEF DeliveredGrows
    <2>3. \A k \in 1..Len(delivered[t]) : WasTyped(delivered[t][k])'
      BY <2>1, <2>2, TextsStay
    <2>4. QED
      BY <2>1, <2>3 DEF DeliveredTyped
  <1>3. QED
    BY <1>1, <1>2

\* ... and so does what is on its way and was printed, if the client leaves it.
LEMMA IdlePrinting ==
    ASSUME IInv, ClientTypes, ClientTypes', TypedGrows, Links, UNCHANGED vars, NEW t \in Session,
           down'[t] = down[t], printed'[t] = printed[t],
           listening' => listening, at'[t] \notin Client!Gone => at[t] \notin Client!Gone
    PROVE  Printing(t)'
  <1>1. delivered'[t] = delivered[t] /\ pc'[t] = pc[t]
    BY VarsSame
  <1>2. Printing(t) /\ DeliveredTyped(t)
    BY DEF Links, Linked
  <1>3. QED
    BY <1>1, <1>2, PrintingKeeps

LEMMA EndLinks ==
    ASSUME IInv, ClientTypes, ClientTypes', Links, ServerEnds
    PROVE  Links'
  <1>1. /\ UNCHANGED vars /\ UNCHANGED <<program, at, down, typed, heard, printed>>
        /\ listening /\ ~listening' /\ up' = [s \in Session |-> <<>>]
    BY DEF ServerEnds
  <1>2. TypedGrows /\ pc' = pc /\ lines' = lines /\ isReciever' = isReciever
    BY <1>1, TypedSame, VarsSame
  <1>3. ASSUME NEW t \in Session PROVE Linked(t)'
    <2>1. QueueTyped(t)' /\ DeliveredTyped(t)'
      BY <1>1, <1>2, IdleTyped
    <2>2. Printing(t)'
      BY <1>1, <1>2, IdlePrinting
    <2>3. up'[t] = <<>> /\ Len(up'[t]) = 0
      BY <1>1
    <2>4. SenderSide(t)' /\ ReceiverSide(t)'
      BY <1>1, <1>2, <2>3 DEF Links, Linked, SenderSide, ReceiverSide
    <2>5. Counting(t)'
      <3> SUFFICES ASSUME program[t] = "sender" PROVE Counting(t)'
        BY <1>1 DEF Counting
      <3>1. Counting(t) /\ Len(up[t]) \in Nat /\ Len(typed[t]) \in Nat /\ lines[t] \in Nat
        BY Lengths DEF Links, Linked
      <3>2. 0 + lines[t] <= Len(typed[t]) + (IF pc[t] = "login" THEN 1 ELSE 0)
        <4>1. Len(up[t]) + lines[t] <= Len(typed[t]) + (IF pc[t] = "login" THEN 1 ELSE 0)
          BY <3>1 DEF Counting
        <4>2. PICK u \in Nat : u = Len(up[t])
          BY <3>1
        <4>3. PICK n \in Nat : n = lines[t]
          BY <3>1
        <4>4. PICK k \in Nat : k = Len(typed[t])
          BY <3>1
        <4>5. CASE pc[t] = "login"
          <5>1. u + n <= k + 1
            BY <4>1, <4>2, <4>3, <4>4, <4>5
          <5>2. 0 + n <= k + 1
            BY <5>1
          <5>3. QED
            BY <4>3, <4>4, <4>5, <5>2
        <4>6. CASE pc[t] # "login"
          <5>1. u + n <= k + 0
            BY <4>1, <4>2, <4>3, <4>4, <4>6
          <5>2. 0 + n <= k + 0
            BY <5>1
          <5>3. QED
            BY <4>3, <4>4, <4>6, <5>2
        <4>7. QED
          BY <4>5, <4>6
      <3>3. /\ at[t] \in {"connect", "login"} => /\ down[t] = <<>> /\ typed[t] = <<>>
                                                 /\ heard[t] = <<>> /\ pc[t] = "login"
            /\ pc[t] = "login" => lines[t] = 0
            /\ \A i \in 1..Len(heard[t]) :
                  heard[t][i].line = i /\ heard[t][i].response.to = i - 1
            /\ \A i \in 1..Len(down[t]) : /\ down[t][i].tag # "delivery"
                                          /\ down[t][i].to = Len(heard[t]) + i - 1
            /\ at[t] \in {"type", "response", "quit"} =>
                  Len(typed[t]) = Len(heard[t]) + Waits(t)
        BY <1>1, <3>1 DEF Counting
      <3>4. /\ at'[t] = at[t] /\ up'[t] = <<>> /\ down'[t] = down[t] /\ typed'[t] = typed[t]
            /\ heard'[t] = heard[t] /\ pc'[t] = pc[t] /\ lines'[t] = lines[t] /\ ~listening'
        BY <1>1, <1>2, <2>3
      <3>5. /\ Len(up'[t]) + lines'[t] <= Len(typed'[t]) + (IF pc'[t] = "login" THEN 1 ELSE 0)
            /\ at'[t] \in {"type", "response", "quit"} =>
                  Len(typed'[t]) = Len(heard'[t]) + Waits(t)'
        <4>1. Len(up'[t]) = 0
          BY <2>3
        <4>2. Waits(t)' = Waits(t)
          BY <3>4 DEF Waits
        <4>3. Len(up'[t]) + lines'[t] <= Len(typed'[t]) + (IF pc'[t] = "login" THEN 1 ELSE 0)
          BY <3>2, <3>4, <4>1
        <4>4. at'[t] \in {"type", "response", "quit"} =>
                  Len(typed'[t]) = Len(heard'[t]) + Waits(t)'
          BY <3>3, <3>4, <4>2
        <4>5. QED
          BY <4>3, <4>4
      <3>6. QED
        BY <3>3, <3>4, <3>5 DEF Counting
    <2>6. QED
      BY <2>1, <2>2, <2>4, <2>5 DEF Linked
  <1>4. QED
    BY <1>3 DEF Links

\* What a client sends.
LEMMA SendFacts ==
    ASSUME ClientTypes, NEW c \in Session, NEW m \in Request, Client!Send(c, m)
    PROVE  /\ Len(up[c]) \in Nat /\ Len(up'[c]) \in Nat /\ Len(up'[c]) <= Len(up[c]) + 1
           /\ \A i \in 1..Len(up'[c]) :
                 up'[c][i] = m \/ \E k \in 1..Len(up[c]) : up'[c][i] = up[c][k]
           /\ \A t \in Session \ {c} : up'[t] = up[t]
  <1>0. up \in [Session -> Seq(Request)] /\ up[c] \in Seq(Request)
    BY DEF ClientTypes
  <1>1. Len(up[c]) \in Nat
    BY <1>0, LenProperties
  <1>2. \A t \in Session \ {c} : up'[t] = up[t]
    BY <1>0 DEF Client!Send
  <1>3. CASE up'[c] = up[c]
    BY <1>1, <1>2, <1>3
  <1>4. CASE up'[c] = Append(up[c], m)
    <2>1. /\ Len(up'[c]) = Len(up[c]) + 1
          /\ \A i \in 1..Len(up[c]) : up'[c][i] = up[c][i]
          /\ up'[c][Len(up[c]) + 1] = m
      BY <1>0, <1>4, AppendProperties
    <2>2. \A i \in 1..Len(up'[c]) : i \in 1..Len(up[c]) \/ i = Len(up[c]) + 1
      BY <1>1, <2>1
    <2>3. Len(up'[c]) \in Nat /\ Len(up'[c]) <= Len(up[c]) + 1
      BY <1>1, <2>1
    <2>4. QED
      BY <1>1, <1>2, <2>1, <2>2, <2>3
  <1>5. up'[c] = up[c] \/ up'[c] = Append(up[c], m)
    BY <1>0 DEF Client!Send
  <1>6. QED
    BY <1>3, <1>4, <1>5

\* What a user types comes behind what was typed.
LEMMA TypeFacts ==
    ASSUME ClientTypes, NEW c \in Session, NEW l \in Line,
           typed' = [typed EXCEPT ![c] = Append(@, l)]
    PROVE  /\ Len(typed[c]) \in Nat /\ Len(typed'[c]) = Len(typed[c]) + 1
           /\ \A t \in Session \ {c} : typed'[t] = typed[t]
           /\ TypedGrows
  <1>0. \A t \in Session : typed[t] \in Seq(Line) /\ Len(typed[t]) \in Nat
    BY LenProperties DEF ClientTypes
  <1>1. typed'[c] = Append(typed[c], l) /\ \A t \in Session \ {c} : typed'[t] = typed[t]
    BY DEF ClientTypes
  <1>2. /\ Len(typed'[c]) = Len(typed[c]) + 1
        /\ \A k \in 1..Len(typed[c]) : typed'[c][k] = typed[c][k]
    BY <1>0, <1>1, AppendProperties
  <1>3. Len(typed[c]) <= Len(typed'[c])
    BY <1>0, <1>2
  <1>4. TypedGrows
    <2>1. \A t \in Session \ {c} : Len(typed[t]) <= Len(typed[t])
      BY <1>0
    <2>2. QED
      BY <1>1, <1>2, <1>3, <2>1 DEF TypedGrows
  <1>5. QED
    BY <1>0, <1>1, <1>2, <1>4

LEMMA ClientTyping ==
    ASSUME IInv, ClientTypes, NEW c \in Session, ClientMoves(c)
    PROVE  TypedGrows
  <1>1. CASE typed' = typed
    BY <1>1, TypedSame
  <1>2. CASE Client!SenderType(c)
    BY <1>2, TypeFacts DEF Client!SenderType
  <1>3. QED
    BY <1>1, <1>2 DEF ClientMoves, Client!ProgramStep, Client!UserStep, Client!Connect,
       Client!ConnectFails, Client!Kill, Client!SenderLogin, Client!SenderHear,
       Client!SenderHearQuit, Client!SenderHearNothing, Client!ReceiverLogin,
       Client!ReceiverJoin, Client!ReceiverPrint, Client!ReceiverEnds

\* A client leaves the others alone.
LEMMA OthersApart ==
    ASSUME IInv, ClientTypes, NEW c \in Session, ClientMoves(c), NEW t \in Session \ {c}
    PROVE  Apart(t)
  <1>0. /\ at \in [Session -> Client!Running \cup Client!Gone]
        /\ up \in [Session -> Seq(Request)]
        /\ down \in [Session -> Seq(Responses \cup Deliveries)]
        /\ typed \in [Session -> Seq(Line)]
        /\ heard \in [Session -> Seq([line : Nat, response : Responses])]
        /\ printed \in [Session -> Seq(Printable)]
    BY DEF ClientTypes
  <1>1. /\ pc'[t] = pc[t] /\ lines'[t] = lines[t] /\ isReciever'[t] = isReciever[t]
        /\ delivered'[t] = delivered[t]
    BY VarsSame DEF ClientMoves
  <1> USE DEF Client!Goto, Client!Send, Client!Take, Client!Heard, Apart
  <1>2. CASE Client!Connect(c) \/ Client!ConnectFails(c) \/ Client!Kill(c)
    BY <1>0, <1>1, <1>2 DEF Client!Connect, Client!ConnectFails, Client!Kill
  <1>3. CASE Client!SenderLogin(c)
    BY <1>0, <1>1, <1>3 DEF Client!SenderLogin
  <1>4. CASE Client!SenderType(c)
    BY <1>0, <1>1, <1>4 DEF Client!SenderType
  <1>5. CASE Client!SenderHear(c)
    BY <1>0, <1>1, <1>5 DEF Client!SenderHear
  <1>6. CASE Client!SenderHearQuit(c)
    BY <1>0, <1>1, <1>6 DEF Client!SenderHearQuit
  <1>7. CASE Client!SenderHearNothing(c)
    BY <1>0, <1>1, <1>7 DEF Client!SenderHearNothing
  <1>8. CASE Client!ReceiverLogin(c) \/ Client!ReceiverJoin(c)
    BY <1>0, <1>1, <1>8 DEF Client!ReceiverLogin, Client!ReceiverJoin
  <1>9. CASE Client!ReceiverPrint(c)
    BY <1>0, <1>1, <1>9 DEF Client!ReceiverPrint
  <1>10. CASE Client!ReceiverEnds(c)
    BY <1>0, <1>1, <1>10 DEF Client!ReceiverEnds
  <1>11. QED
    BY <1>2, <1>3, <1>4, <1>5, <1>6, <1>7, <1>8, <1>9, <1>10
    DEF ClientMoves, Client!ProgramStep, Client!UserStep

\* What Counting says, for a sender.
LEMMA Counts ==
    ASSUME IInv, ClientTypes, Links, NEW c \in Session, program[c] = "sender"
    PROVE  /\ at[c] \in {"connect", "login"} => /\ up[c] = <<>> /\ down[c] = <<>>
                                                /\ typed[c] = <<>> /\ heard[c] = <<>>
                                                /\ pc[c] = "login"
           /\ pc[c] = "login" => lines[c] = 0
           /\ Len(up[c]) + lines[c] <= Len(typed[c]) + (IF pc[c] = "login" THEN 1 ELSE 0)
           /\ \A i \in 1..Len(heard[c]) :
                 heard[c][i].line = i /\ heard[c][i].response.to = i - 1
           /\ \A i \in 1..Len(down[c]) : /\ down[c][i].tag # "delivery"
                                         /\ down[c][i].to = Len(heard[c]) + i - 1
           /\ listening /\ at[c] \notin Client!Gone /\ ~SessionOver(c) =>
                 Len(heard[c]) + Len(down[c]) = Answered(c)
           /\ (listening \/ down[c] # <<>>) /\ at[c] \in {"type", "response", "quit"} =>
                 Len(typed[c]) = Len(heard[c]) + Waits(c)
  BY DEF Links, Linked, Counting

\* Connect, ConnectFails and Kill.
LEMMA MoveOnly ==
    ASSUME IInv, ClientTypes, ClientTypes', Links, NEW c \in Session, UNCHANGED vars,
           Client!Connect(c) \/ Client!ConnectFails(c) \/ Client!Kill(c)
    PROVE  SenderSide(c)' /\ ReceiverSide(c)' /\ Counting(c)' /\ Printing(c)'
  <1>1. /\ UNCHANGED <<program, up, down, listening, typed, heard, printed>>
        /\ at[c] \notin Client!Gone
        /\ (at[c] = "connect" /\ at'[c] = "login") \/ at'[c] \in Client!Gone
    BY DEF Client!Connect, Client!ConnectFails, Client!Kill, ClientTypes, Client!Goto,
       Client!Running, Client!Gone
  <1>2. TypedGrows /\ pc' = pc /\ lines' = lines /\ isReciever' = isReciever
    BY <1>1, TypedSame, VarsSame
  <1>3. SenderSide(c)' /\ ReceiverSide(c)'
    BY <1>1, <1>2 DEF Links, Linked, SenderSide, ReceiverSide
  <1>4. Counting(c)'
    <2> SUFFICES ASSUME program[c] = "sender" PROVE Counting(c)'
      BY <1>1 DEF Counting
    <2>1. Counting(c)
      BY DEF Links, Linked
    <2>2. QED
      BY <1>1, <1>2, <2>1 DEF Counting, Waits, Answered, SessionOver, Client!Gone
  <1>5. Printing(c)'
    BY <1>1, <1>2, IdlePrinting
  <1>6. QED
    BY <1>3, <1>4, <1>5

LEMMA LoginLinks ==
    ASSUME IInv, ClientTypes, ClientTypes', Links, NEW c \in Session, UNCHANGED vars,
           Client!SenderLogin(c)
    PROVE  SenderSide(c)' /\ ReceiverSide(c)' /\ Counting(c)' /\ Printing(c)'
  <1>0. /\ at[c] = "login" /\ program[c] = "sender" /\ at'[c] = "type"
        /\ Client!Send(c, [tag |-> "slogin", data |-> username[c]])
        /\ UNCHANGED <<program, down, listening, typed, heard, printed>>
    BY DEF Client!SenderLogin, Client!Goto, ClientTypes
  <1>1. TypedGrows /\ pc' = pc /\ lines' = lines /\ isReciever' = isReciever
    BY <1>0, TypedSame, VarsSame
  <1>2. PICK m \in Request : m.tag = "slogin" /\ Client!Send(c, m)
    BY <1>0, Constants DEF Request
  <1>3. /\ Len(up[c]) \in Nat /\ Len(up'[c]) \in Nat /\ Len(up'[c]) <= Len(up[c]) + 1
        /\ \A i \in 1..Len(up'[c]) :
              up'[c][i] = m \/ \E k \in 1..Len(up[c]) : up'[c][i] = up[c][k]
    BY <1>2, SendFacts
  <1>4. /\ up[c] = <<>> /\ down[c] = <<>> /\ typed[c] = <<>> /\ heard[c] = <<>>
        /\ pc[c] = "login" /\ lines[c] = 0
    BY <1>0, Counts
  <1>5. SenderSide(c)' /\ ReceiverSide(c)'
    <2>1. \A i \in 1..Len(up[c]) : up[c][i].tag # "rlogin"
      BY <1>0 DEF Links, Linked, SenderSide
    <2>2. \A i \in 1..Len(up'[c]) : up'[c][i].tag # "rlogin"
      BY <1>2, <1>3, <2>1
    <2>3. QED
      BY <1>0, <1>1, <2>2 DEF Links, Linked, SenderSide, ReceiverSide
  <1>6. Counting(c)'
    <2>1. Len(up[c]) = 0 /\ Len(typed[c]) = 0 /\ Len(heard[c]) = 0
      BY <1>4
    <2>2. Len(up'[c]) + 0 <= 0 + 1
      BY <1>3, <2>1
    <2>3. Len(up'[c]) + lines'[c] <= Len(typed'[c]) + (IF pc'[c] = "login" THEN 1 ELSE 0)
      BY <1>0, <1>1, <1>4, <2>1, <2>2
    <2>4. Waits(c)' = 0 /\ Len(typed'[c]) = Len(heard'[c]) + Waits(c)'
      BY <1>0, <2>1 DEF Waits
    <2>5. listening' /\ at'[c] \notin Client!Gone /\ ~SessionOver(c)' =>
              Len(heard'[c]) + Len(down'[c]) = Answered(c)'
      BY <1>0, <1>1, Counts DEF Answered, SessionOver, Client!Gone
    <2>6. QED
      BY <1>0, <1>1, <1>4, <2>3, <2>4, <2>5, Counts DEF Counting
  <1>7. Printing(c)'
    BY <1>0, <1>1, IdlePrinting DEF Client!Gone
  <1>8. QED
    BY <1>5, <1>6, <1>7

\* Who types, or waits for a response, is a sender.
LEMMA IsSender ==
    ASSUME ClientTypes, Links, NEW c \in Session, at[c] \in {"type", "response", "quit"}
    PROVE  program[c] = "sender"
  <1>1. program[c] \in {"sender", "receiver"}
    BY Constants DEF ClientTypes, Client!Program
  <1>2. QED
    BY <1>1 DEF Links, Linked, ReceiverSide, Client!Gone

LEMMA IsReceiver ==
    ASSUME ClientTypes, Links, NEW c \in Session, at[c] \in {"join", "print"}
    PROVE  program[c] = "receiver"
  <1>1. program[c] \in {"sender", "receiver"}
    BY Constants DEF ClientTypes, Client!Program
  <1>2. QED
    BY <1>1 DEF Links, Linked, SenderSide, Client!Gone

LEMMA TypingLinks ==
    ASSUME IInv, ClientTypes, ClientTypes', Links, NEW c \in Session, UNCHANGED vars,
           Client!SenderType(c)
    PROVE  SenderSide(c)' /\ ReceiverSide(c)' /\ Counting(c)' /\ Printing(c)'
  <1>0. /\ at[c] = "type" /\ program[c] = "sender"
        /\ UNCHANGED <<program, down, listening, heard, printed>>
    BY IsSender DEF Client!SenderType
  <1>1. PICK l \in Line : /\ typed' = [typed EXCEPT ![c] = Append(@, l)]
                          /\ Client!Send(c, Client!Command(l))
                          /\ Client!Goto(c, IF Client!Command(l).tag = "quit" THEN "quit"
                                            ELSE "response")
    BY DEF Client!SenderType
  <1>2. at'[c] \in {"response", "quit"}
    BY <1>1 DEF Client!Goto, ClientTypes
  <1>3. PICK m \in Request : m.tag # "rlogin" /\ Client!Send(c, m)
    BY <1>1, CommandIs
  <1>4. /\ Len(up[c]) \in Nat /\ Len(up'[c]) \in Nat /\ Len(up'[c]) <= Len(up[c]) + 1
        /\ \A i \in 1..Len(up'[c]) :
              up'[c][i] = m \/ \E k \in 1..Len(up[c]) : up'[c][i] = up[c][k]
    BY <1>3, SendFacts
  <1>5. Len(typed[c]) \in Nat /\ Len(typed'[c]) = Len(typed[c]) + 1 /\ TypedGrows
    BY <1>1, TypeFacts
  <1>6. pc' = pc /\ lines' = lines /\ isReciever' = isReciever
    BY VarsSame
  <1>7. SenderSide(c)' /\ ReceiverSide(c)'
    <2>1. \A i \in 1..Len(up[c]) : up[c][i].tag # "rlogin"
      BY <1>0 DEF Links, Linked, SenderSide
    <2>2. \A i \in 1..Len(up'[c]) : up'[c][i].tag # "rlogin"
      BY <1>3, <1>4, <2>1
    <2>3. QED
      BY <1>0, <1>2, <1>6, <2>2 DEF Links, Linked, SenderSide, ReceiverSide
  <1>8. Counting(c)'
    <2>1. Len(up'[c]) + lines'[c] <= Len(typed'[c]) + (IF pc'[c] = "login" THEN 1 ELSE 0)
      <3>1. PICK u \in Nat : u = Len(up[c])
        BY <1>4
      <3>2. PICK v \in Nat : v = Len(up'[c])
        BY <1>4
      <3>3. PICK n \in Nat : n = lines[c]
        BY Lengths
      <3>4. PICK t \in Nat : t = Len(typed[c])
        BY <1>5
      <3>5. v <= u + 1 /\ Len(typed'[c]) = t + 1 /\ lines'[c] = n
        BY <1>4, <1>5, <1>6, <3>1, <3>2, <3>3, <3>4
      <3>6. CASE pc[c] = "login"
        <4>1. u + n <= t + 1
          BY <1>0, <3>1, <3>3, <3>4, <3>6, Counts
        <4>2. v + n <= (t + 1) + 1
          BY <3>5, <4>1
        <4>3. QED
          BY <1>6, <3>2, <3>5, <3>6, <4>2
      <3>7. CASE pc[c] # "login"
        <4>1. u + n <= t + 0
          BY <1>0, <3>1, <3>3, <3>4, <3>7, Counts
        <4>2. v + n <= (t + 1) + 0
          BY <3>5, <4>1
        <4>3. QED
          BY <1>6, <3>2, <3>5, <3>7, <4>2
      <3>8. QED
        BY <3>6, <3>7
    <2>2. listening \/ down[c] # <<>> => Len(typed'[c]) = Len(heard'[c]) + Waits(c)'
      <3> SUFFICES ASSUME listening \/ down[c] # <<>>
                   PROVE  Len(typed'[c]) = Len(heard'[c]) + Waits(c)'
        OBVIOUS
      <3>1. Len(typed[c]) = Len(heard[c]) + Waits(c)
        BY <1>0, Counts
      <3>2. Waits(c) = 0 /\ Waits(c)' = 1
        BY <1>0, <1>2 DEF Waits
      <3>3. Len(heard[c]) \in Nat
        BY Lengths
      <3>4. Len(typed[c]) = Len(heard[c])
        BY <3>1, <3>2, <3>3
      <3>5. QED
        BY <1>0, <1>5, <3>2, <3>4
    <2>3. at'[c] \notin {"connect", "login"}
      BY <1>2
    <2>4. listening' /\ ~SessionOver(c)' => Len(heard'[c]) + Len(down'[c]) = Answered(c)'
      BY <1>0, <1>6, Counts DEF Answered, SessionOver, Client!Gone
    <2>5. QED
      BY <1>0, <1>6, <2>1, <2>2, <2>3, <2>4, Counts DEF Counting
  <1>9. Printing(c)'
    BY <1>0, <1>5, IdlePrinting DEF Client!Gone
  <1>10. QED
    BY <1>7, <1>8, <1>9

\* Nothing is delivered to a sender.
LEMMA SenderPrinting ==
    ASSUME IInv, ClientTypes, ClientTypes', Links, NEW c \in Session, UNCHANGED vars,
           program[c] = "sender", printed'[c] = printed[c],
           \A i \in 1..Len(down'[c]) : down'[c][i].tag # "delivery"
    PROVE  Printing(c)'
  <1>1. delivered[c] = <<>> /\ printed[c] = <<>>
    BY DEF Links, Linked, SenderSide, Printing
  <1>2. delivered'[c] = <<>>
    BY <1>1, VarsSame
  <1>3. QED
    BY <1>1, <1>2, PrintingNothing

LEMMA HearingLinks ==
    ASSUME IInv, ClientTypes, ClientTypes', Links, NEW c \in Session, UNCHANGED vars,
           Client!SenderHear(c) \/ Client!SenderHearQuit(c)
    PROVE  SenderSide(c)' /\ ReceiverSide(c)' /\ Counting(c)' /\ Printing(c)'
  <1>0. /\ at[c] \in {"response", "quit"} /\ Client!Take(c) /\ Client!Heard(c)
        /\ at'[c] \in {"type", "exit0"}
        /\ UNCHANGED <<program, up, listening, typed, printed>>
    BY DEF Client!SenderHear, Client!SenderHearQuit, Client!Goto, ClientTypes
  <1>1. program[c] = "sender"
    BY <1>0, IsSender
  <1>2. /\ Len(down[c]) \in Nat \ {0} /\ Len(down'[c]) = Len(down[c]) - 1
        /\ Head(down[c]) = down[c][1]
        /\ \A i \in 1..(Len(down[c]) - 1) : down'[c][i] = down[c][i + 1]
        /\ down[c] # <<>>
    BY <1>0, TakeFacts
  <1>3. PICK r \in Responses : r = Head(down[c])
    BY <1>0, HearFacts
  <1>4. PICK h : h = [line |-> Len(typed[c]), response |-> r]
    OBVIOUS
  <1>5. /\ Len(heard[c]) \in Nat /\ Len(heard'[c]) = Len(heard[c]) + 1
        /\ \A i \in 1..Len(heard[c]) : heard'[c][i] = heard[c][i]
        /\ heard'[c][Len(heard[c]) + 1] = h
    <2>1. heard[c] \in Seq([line : Nat, response : Responses]) /\ Len(heard[c]) \in Nat
      BY Lengths DEF ClientTypes
    <2>2. h \in [line : Nat, response : Responses]
      BY <1>3, <1>4, Lengths
    <2>3. heard'[c] = Append(heard[c], h)
      BY <1>0, <1>3, <1>4, HearFacts DEF ClientTypes
    <2>4. QED
      BY <2>1, <2>2, <2>3, AppendProperties
  <1>6. pc' = pc /\ lines' = lines /\ isReciever' = isReciever
    BY VarsSame
  <1>7. SenderSide(c)' /\ ReceiverSide(c)'
    BY <1>0, <1>1, <1>6 DEF Links, Linked, SenderSide, ReceiverSide, Client!Gone
  <1>8. \A i \in 1..Len(down'[c]) : /\ down'[c][i].tag # "delivery"
                                    /\ down'[c][i].to = Len(heard'[c]) + i - 1
    <2> SUFFICES ASSUME NEW i \in 1..Len(down'[c])
                 PROVE  /\ down'[c][i].tag # "delivery"
                        /\ down'[c][i].to = Len(heard'[c]) + i - 1
      OBVIOUS
    <2>1. i \in 1..(Len(down[c]) - 1) /\ i + 1 \in 1..Len(down[c])
      BY <1>2
    <2>2. down'[c][i] = down[c][i + 1]
      BY <1>2, <2>1
    <2>3. down[c][i + 1].tag # "delivery" /\ down[c][i + 1].to = Len(heard[c]) + (i + 1) - 1
      BY <1>1, <2>1, Counts
    <2>4. Len(heard[c]) + (i + 1) - 1 = Len(heard'[c]) + i - 1
      BY <1>5
    <2>5. QED
      BY <2>2, <2>3, <2>4
  <1>9. \A i \in 1..Len(heard'[c]) : heard'[c][i].line = i /\ heard'[c][i].response.to = i - 1
    <2>1. \A i \in 1..Len(heard'[c]) : i \in 1..Len(heard[c]) \/ i = Len(heard[c]) + 1
      BY <1>5
    <2>2. Len(typed[c]) = Len(heard[c]) + 1
      <3>1. Len(typed[c]) = Len(heard[c]) + Waits(c)
        BY <1>0, <1>1, <1>2, Counts
      <3>2. QED
        BY <1>0, <3>1 DEF Waits
    <2>3. r.to = Len(heard[c]) + 1 - 1
      <3>1. 1 \in 1..Len(down[c])
        BY <1>2
      <3>2. down[c][1].to = Len(heard[c]) + 1 - 1
        BY <1>1, <3>1, Counts
      <3>3. QED
        BY <1>2, <1>3, <3>2
    <2>4. h.line = Len(heard[c]) + 1 /\ h.response.to = (Len(heard[c]) + 1) - 1
      BY <1>4, <2>2, <2>3
    <2>5. \A i \in 1..Len(heard[c]) : heard[c][i].line = i /\ heard[c][i].response.to = i - 1
      BY <1>1, Counts
    <2>6. ASSUME NEW i \in 1..Len(heard'[c])
          PROVE  heard'[c][i].line = i /\ heard'[c][i].response.to = i - 1
      <3>1. CASE i \in 1..Len(heard[c])
        BY <1>5, <2>5, <3>1
      <3>2. CASE i = Len(heard[c]) + 1
        BY <1>5, <2>4, <3>2
      <3>3. QED
        BY <2>1, <3>1, <3>2
    <2>7. QED
      BY <2>6
  <1>10. Counting(c)'
    <2>1. listening' /\ at'[c] \notin Client!Gone /\ ~SessionOver(c)' =>
              Len(heard'[c]) + Len(down'[c]) = Answered(c)'
      <3> SUFFICES ASSUME listening, ~SessionOver(c)
                   PROVE  Len(heard'[c]) + Len(down'[c]) = Answered(c)'
        BY <1>0, <1>6 DEF SessionOver
      <3>1. Len(heard[c]) + Len(down[c]) = Answered(c)
        BY <1>0, <1>1, Counts DEF Client!Gone
      <3>2. Len(heard'[c]) + Len(down'[c]) = Len(heard[c]) + Len(down[c])
        <4>1. PICK n \in Nat : n = Len(heard[c])
          BY <1>5
        <4>2. PICK d \in Nat : d = Len(down[c])
          BY <1>2
        <4>3. (n + 1) + (d - 1) = n + d
          OBVIOUS
        <4>4. QED
          BY <1>2, <1>5, <4>1, <4>2, <4>3
      <3>3. Answered(c)' = Answered(c)
        BY <1>6 DEF Answered
      <3>4. QED
        BY <3>1, <3>2, <3>3
    <2>2. at'[c] = "type" => Len(typed'[c]) = Len(heard'[c]) + Waits(c)'
      <3>1. Len(typed[c]) = Len(heard[c]) + 1
        <4>1. Len(typed[c]) = Len(heard[c]) + Waits(c)
          BY <1>0, <1>1, <1>2, Counts
        <4>2. QED
          BY <1>0, <4>1 DEF Waits
      <3>2. at'[c] = "type" => Waits(c)' = 0
        BY DEF Waits
      <3>3. Len(typed'[c]) = Len(heard'[c]) + 0
        BY <1>0, <1>5, <3>1
      <3>4. QED
        BY <3>2, <3>3
    <2>3. Len(up'[c]) + lines'[c] <= Len(typed'[c]) + (IF pc'[c] = "login" THEN 1 ELSE 0)
      BY <1>0, <1>1, <1>6, Counts
    <2>4. QED
      BY <1>0, <1>1, <1>6, <1>8, <1>9, <2>1, <2>2, <2>3, Counts DEF Counting
  <1>11. Printing(c)'
    BY <1>0, <1>1, <1>8, SenderPrinting
  <1>12. QED
    BY <1>7, <1>10, <1>11

LEMMA HearingNothing ==
    ASSUME IInv, ClientTypes, ClientTypes', Links, NEW c \in Session, UNCHANGED vars,
           Client!SenderHearNothing(c)
    PROVE  SenderSide(c)' /\ ReceiverSide(c)' /\ Counting(c)' /\ Printing(c)'
  <1>0. /\ at[c] \in {"response", "quit"} /\ at'[c] \in {"type", "exit0"} /\ ~listening
        /\ down'[c] = <<>> /\ Len(down'[c]) = 0
        /\ UNCHANGED <<program, up, listening, typed, heard, printed>>
    BY DEF Client!SenderHearNothing, Client!Goto, ClientTypes
  <1>1. program[c] = "sender"
    BY <1>0, IsSender
  <1>2. pc' = pc /\ lines' = lines /\ isReciever' = isReciever
    BY VarsSame
  <1>3. SenderSide(c)' /\ ReceiverSide(c)'
    BY <1>0, <1>1, <1>2 DEF Links, Linked, SenderSide, ReceiverSide, Client!Gone
  <1>4. \A i \in 1..Len(down'[c]) : FALSE
    BY <1>0
  <1>5. Counting(c)'
    <2>1. Len(up'[c]) + lines'[c] <= Len(typed'[c]) + (IF pc'[c] = "login" THEN 1 ELSE 0)
      BY <1>0, <1>1, <1>2, Counts
    <2>2. /\ \A i \in 1..Len(heard'[c]) :
                heard'[c][i].line = i /\ heard'[c][i].response.to = i - 1
          /\ pc'[c] = "login" => lines'[c] = 0
      <3>1. /\ \A i \in 1..Len(heard[c]) :
                  heard[c][i].line = i /\ heard[c][i].response.to = i - 1
            /\ pc[c] = "login" => lines[c] = 0
        BY <1>1, Counts
      <3>2. QED
        BY <1>0, <1>2, <3>1
    <2>3. ~listening' /\ down'[c] = <<>> /\ at'[c] \notin {"connect", "login"}
      BY <1>0
    <2>4. QED
      BY <1>4, <2>1, <2>2, <2>3 DEF Counting
  <1>6. Printing(c)'
    BY <1>0, <1>1, <1>4, SenderPrinting
  <1>7. QED
    BY <1>3, <1>5, <1>6

\* ReceiverLogin and ReceiverJoin.
LEMMA AskingLinks ==
    ASSUME IInv, ClientTypes, ClientTypes', Links, NEW c \in Session, UNCHANGED vars,
           Client!ReceiverLogin(c) \/ Client!ReceiverJoin(c)
    PROVE  SenderSide(c)' /\ ReceiverSide(c)' /\ Counting(c)' /\ Printing(c)'
  <1>0. /\ program[c] = "receiver" /\ at[c] \notin Client!Gone /\ at'[c] \in {"join", "print"}
        /\ UNCHANGED <<program, down, listening, typed, heard, printed>>
    BY IsReceiver DEF Client!ReceiverLogin, Client!ReceiverJoin, Client!Goto, ClientTypes,
       Client!Gone
  <1>1. PICK m \in Request : m.tag \in {"rlogin", "join"} /\ Client!Send(c, m)
    <2>1. CASE Client!ReceiverLogin(c)
      BY <2>1, Constants DEF Client!ReceiverLogin, Request
    <2>2. CASE Client!ReceiverJoin(c)
      BY <2>2, Constants DEF Client!ReceiverJoin, Request
    <2>3. QED
      BY <2>1, <2>2
  <1>2. \A i \in 1..Len(up'[c]) : up'[c][i] = m \/ \E k \in 1..Len(up[c]) : up'[c][i] = up[c][k]
    BY <1>1, SendFacts
  <1>3. TypedGrows /\ pc' = pc /\ lines' = lines /\ isReciever' = isReciever
    BY <1>0, TypedSame, VarsSame
  <1>4. SenderSide(c)' /\ ReceiverSide(c)'
    <2>1. \A i \in 1..Len(up[c]) : up[c][i].tag \in {"rlogin", "join"}
      BY <1>0 DEF Links, Linked, ReceiverSide
    <2>2. \A i \in 1..Len(up'[c]) : up'[c][i].tag \in {"rlogin", "join"}
      BY <1>1, <1>2, <2>1
    <2>3. QED
      BY <1>0, <1>3, <2>2 DEF Links, Linked, SenderSide, ReceiverSide
  <1>5. Counting(c)'
    BY <1>0 DEF Counting
  <1>6. Printing(c)'
    BY <1>0, <1>3, IdlePrinting
  <1>7. QED
    BY <1>4, <1>5, <1>6

LEMMA PrintLinks ==
    ASSUME IInv, ClientTypes, ClientTypes', Links, NEW c \in Session, UNCHANGED vars,
           Client!ReceiverPrint(c)
    PROVE  SenderSide(c)' /\ ReceiverSide(c)' /\ Counting(c)' /\ Printing(c)'
  <1>0. /\ at[c] = "print" /\ Client!Take(c)
        /\ UNCHANGED <<program, at, up, listening, typed, heard>>
        /\ printed' = IF Head(down[c]).tag = "delivery"
                      THEN [printed EXCEPT ![c] = Append(@, Client!Shown(Head(down[c]).data))]
                      ELSE printed
    BY DEF Client!ReceiverPrint
  <1>1. program[c] = "receiver"
    BY <1>0, IsReceiver
  <1>2. /\ pc' = pc /\ lines' = lines /\ isReciever' = isReciever /\ delivered' = delivered
    BY VarsSame
  <1>3. SenderSide(c)' /\ ReceiverSide(c)' /\ Counting(c)'
    BY <1>0, <1>1, <1>2 DEF Links, Linked, SenderSide, ReceiverSide, Counting
  <1>4. /\ Len(down[c]) \in Nat \ {0} /\ Len(down'[c]) = Len(down[c]) - 1
        /\ Head(down[c]) = down[c][1]
        /\ \A i \in 1..(Len(down[c]) - 1) : down'[c][i] = down[c][i + 1]
    BY <1>0, TakeFacts
  <1>5. PICK j \in 0..Len(down[c]) : OnTheWay(c, j)
    BY DEF Links, Linked, Printing
  <1>6. PICK p \in Nat : p = Len(printed[c])
    BY Lengths
  <1>7. PICK d \in Nat \ {0} : d = Len(down[c])
    BY <1>4
  <1>8. PICK l \in Nat : l = Len(delivered[c])
    BY Lengths
  <1>9. /\ j \in 0..d /\ p + d - j <= l
        /\ \A i \in 1..j : down[c][i].tag # "delivery"
        /\ \A i \in (j + 1)..d : down[c][i] = [tag |-> "delivery",
                                    data |-> BroadcastText(delivered[c][p + i - j])]
        /\ listening /\ at[c] \notin Client!Gone => p + d - j = l
    BY <1>5, <1>6, <1>7, <1>8 DEF OnTheWay
  <1>10. \A k : BroadcastText(delivered[c][k])' = BroadcastText(delivered[c][k])
    BY <1>0, <1>2 DEF BroadcastText
  <1>11. /\ \A i \in 1..p : printed[c][i] = Client!Shown(BroadcastText(delivered[c][i]))
         /\ delivered[c] # <<>> => pc[c] = "loop"
    BY <1>6 DEF Links, Linked, Printing
  <1>12. CASE Head(down[c]).tag = "delivery"
    <2>1. j = 0
      <3>1. 1 \in 1..j => down[c][1].tag # "delivery"
        BY <1>9
      <3>2. QED
        BY <1>4, <1>9, <1>12, <3>1
    <2>2. Head(down[c]) = [tag |-> "delivery", data |-> BroadcastText(delivered[c][p + 1])]
      <3>1. 1 \in (j + 1)..d /\ p + 1 - j = p + 1
        BY <2>1, <1>7, <1>9
      <3>2. QED
        BY <1>4, <1>9, <3>1
    <2>3. PICK x \in Printable : x = Client!Shown(BroadcastText(delivered[c][p + 1]))
      <3>1. Head(down[c]) \in Deliveries
        BY <1>0, <1>12, TakeFacts DEF Responses
      <3>2. Client!Shown(Head(down[c]).data) \in Printable
        BY <3>1, ShownType DEF Deliveries
      <3>3. QED
        BY <2>2, <3>2
    <2>4. /\ Len(printed'[c]) = p + 1
          /\ \A i \in 1..p : printed'[c][i] = printed[c][i]
          /\ printed'[c][p + 1] = x
      <3>1. printed \in [Session -> Seq(Printable)]
        BY DEF ClientTypes
      <3>2. printed'[c] = Append(printed[c], x)
        BY <1>0, <1>12, <2>2, <2>3, <3>1
      <3>3. QED
        BY <1>6, <3>1, <3>2, AppendProperties
    <2>5. OnTheWay(c, 0)'
      <3>0. p \in Nat /\ d \in Nat \ {0} /\ j = 0
        BY <1>6, <1>7, <2>1
      <3>1. (p + 1) + (d - 1) - 0 = p + d - j
        BY <3>0
      <3>2. /\ Len(printed'[c]) + Len(down'[c]) - 0 <= Len(delivered'[c])
            /\ listening' /\ at'[c] \notin Client!Gone =>
                  Len(printed'[c]) + Len(down'[c]) - 0 = Len(delivered'[c])
        BY <1>0, <1>2, <1>4, <1>7, <1>8, <1>9, <2>4, <3>1
      <3>3. ASSUME NEW i \in (0 + 1)..Len(down'[c])
            PROVE  down'[c][i] = [tag |-> "delivery",
                      data |-> BroadcastText(delivered[c][Len(printed[c]) + i - 0])']
        <4>0. i \in 1..(d - 1)
          BY <1>4, <1>7
        <4>1. /\ i \in 1..(Len(down[c]) - 1) /\ i + 1 \in (j + 1)..d
              /\ p + (i + 1) - j = (p + 1) + i - 0
          <5>1. i + 1 \in (j + 1)..d /\ p + (i + 1) - j = (p + 1) + i - 0
            BY <3>0, <4>0
          <5>2. QED
            BY <1>7, <4>0, <5>1
        <4>2. down'[c][i] = [tag |-> "delivery",
                             data |-> BroadcastText(delivered[c][(p + 1) + i - 0])]
          BY <1>4, <1>9, <4>1
        <4>3. PICK k : k = (p + 1) + i - 0
          OBVIOUS
        <4>4. BroadcastText(delivered[c][Len(printed[c]) + i - 0])'
                 = BroadcastText(delivered[c][k])'
          BY <2>4, <4>3
        <4>5. QED
          BY <1>10, <4>2, <4>3, <4>4
      <3>4. \A i \in 1..0 : down'[c][i].tag # "delivery"
        OBVIOUS
      <3>5. QED
        BY <3>2, <3>3, <3>4 DEF OnTheWay
    <2>6. ASSUME NEW i \in 1..Len(printed'[c])
          PROVE  printed'[c][i] = Client!Shown(BroadcastText(delivered[c][i])')
      <3>1. i \in 1..p \/ i = p + 1
        BY <2>4
      <3>2. QED
        BY <1>10, <1>11, <2>3, <2>4, <3>1
    <2>7. 0 \in 0..Len(down'[c])
      BY <1>4
    <2>8. QED
      BY <1>2, <1>3, <1>11, <2>5, <2>6, <2>7 DEF Printing
  <1>13. CASE Head(down[c]).tag # "delivery"
    <2>1. j \in 1..d
      <3>1. j = 0 => 1 \in (j + 1)..d
        BY <1>7
      <3>2. ASSUME j = 0 PROVE down[c][1].tag = "delivery"
        <4>1. 1 \in (j + 1)..d
          BY <3>1, <3>2
        <4>2. down[c][1] = [tag |-> "delivery", data |-> BroadcastText(delivered[c][p + 1 - j])]
          BY <1>9, <4>1
        <4>3. QED
          BY <4>2
      <3>3. j # 0
        BY <1>4, <1>13, <3>2
      <3>4. QED
        BY <1>7, <1>9, <3>3
    <2>2. PICK k : k = j - 1
      OBVIOUS
    <2>3. k \in 0..(d - 1) /\ k \in 0..Len(down'[c])
      BY <1>4, <1>7, <2>1, <2>2
    <2>4. OnTheWay(c, k)'
      <3>1. p + (d - 1) - k = p + d - j
        BY <1>6, <1>7, <2>1, <2>2
      <3>2. /\ Len(printed'[c]) + Len(down'[c]) - k <= Len(delivered'[c])
            /\ listening' /\ at'[c] \notin Client!Gone =>
                  Len(printed'[c]) + Len(down'[c]) - k = Len(delivered'[c])
        BY <1>0, <1>2, <1>4, <1>6, <1>7, <1>8, <1>9, <1>13, <3>1
      <3>3. ASSUME NEW i \in (k + 1)..Len(down'[c])
            PROVE  down'[c][i] = [tag |-> "delivery",
                      data |-> BroadcastText(delivered[c][Len(printed[c]) + i - k])']
        <4>1. /\ i \in 1..(Len(down[c]) - 1) /\ i + 1 \in (j + 1)..d
              /\ p + (i + 1) - j = p + i - k
          BY <1>4, <1>6, <1>7, <2>1, <2>2
        <4>2. down'[c][i] = [tag |-> "delivery",
                             data |-> BroadcastText(delivered[c][p + i - k])]
          BY <1>4, <1>9, <4>1
        <4>3. PICK n : n = p + i - k
          OBVIOUS
        <4>4. BroadcastText(delivered[c][Len(printed[c]) + i - k])'
                 = BroadcastText(delivered[c][n])'
          BY <1>0, <1>6, <1>13, <4>3
        <4>5. QED
          BY <1>10, <4>2, <4>3, <4>4
      <3>4. \A i \in 1..k : down'[c][i].tag # "delivery"
        <4>1. \A i \in 1..k : i \in 1..(Len(down[c]) - 1) /\ i + 1 \in 1..j
          BY <1>7, <2>1, <2>2
        <4>2. QED
          BY <1>4, <1>9, <4>1
      <3>5. QED
        BY <3>2, <3>3, <3>4 DEF OnTheWay
    <2>5. \A i \in 1..Len(printed'[c]) :
             printed'[c][i] = Client!Shown(BroadcastText(delivered[c][i])')
      BY <1>0, <1>6, <1>10, <1>11, <1>13
    <2>6. QED
      BY <1>2, <1>3, <1>11, <2>3, <2>4, <2>5 DEF Printing
  <1>14. QED
    BY <1>12, <1>13

LEMMA GoingLinks ==
    ASSUME IInv, ClientTypes, ClientTypes', Links, NEW c \in Session, UNCHANGED vars,
           Client!ReceiverEnds(c)
    PROVE  SenderSide(c)' /\ ReceiverSide(c)' /\ Counting(c)' /\ Printing(c)'
  <1>0. /\ at[c] = "print" /\ ~listening /\ at'[c] = "exit0"
        /\ down'[c] = <<>> /\ Len(down'[c]) = 0
        /\ UNCHANGED <<program, up, listening, typed, heard, printed>>
    BY DEF Client!ReceiverEnds, Client!Goto, ClientTypes
  <1>1. program[c] = "receiver"
    BY <1>0, IsReceiver
  <1>2. /\ pc' = pc /\ lines' = lines /\ isReciever' = isReciever /\ delivered' = delivered
    BY VarsSame
  <1>3. SenderSide(c)' /\ ReceiverSide(c)' /\ Counting(c)'
    BY <1>0, <1>1, <1>2 DEF Links, Linked, SenderSide, ReceiverSide, Counting, Client!Gone
  <1>4. PICK j \in 0..Len(down[c]) : OnTheWay(c, j)
    BY DEF Links, Linked, Printing
  <1>5. Len(printed[c]) + 0 - 0 <= Len(delivered[c])
    <2>1. PICK p \in Nat : p = Len(printed[c])
      BY Lengths
    <2>2. PICK d \in Nat : d = Len(down[c])
      BY Lengths
    <2>3. PICK l \in Nat : l = Len(delivered[c])
      BY Lengths
    <2>4. j \in 0..d /\ p + d - j <= l
      BY <1>4, <2>1, <2>2, <2>3 DEF OnTheWay
    <2>5. p + 0 - 0 <= l
      BY <2>4
    <2>6. QED
      BY <2>1, <2>3, <2>5
  <1>6. OnTheWay(c, 0)'
    <2>1. Len(printed'[c]) + Len(down'[c]) - 0 <= Len(delivered'[c])
      BY <1>0, <1>2, <1>5
    <2>2. \A i \in 1..0 : down'[c][i].tag # "delivery"
      OBVIOUS
    <2>3. (0 + 1)..Len(down'[c]) = {}
      BY <1>0
    <2>4. QED
      BY <1>0, <2>1, <2>2, <2>3 DEF OnTheWay
  <1>7. Printing(c)'
    <2>1. \A i \in 1..Len(printed'[c]) :
             printed'[c][i] = Client!Shown(BroadcastText(delivered[c][i])')
      BY <1>0, <1>2 DEF Links, Linked, Printing, BroadcastText
    <2>2. 0 \in 0..Len(down'[c]) /\ (delivered'[c] # <<>> => pc'[c] = "loop")
      BY <1>0, <1>2 DEF Links, Linked, Printing
    <2>3. QED
      BY <1>6, <2>1, <2>2 DEF Printing
  <1>8. QED
    BY <1>3, <1>7

LEMMA ClientLinks ==
    ASSUME IInv, ClientTypes, ClientTypes', Links, NEW c \in Session, ClientMoves(c)
    PROVE  Links'
  <1>0. UNCHANGED vars /\ TypedGrows
    BY ClientTyping DEF ClientMoves
  <1>1. SenderSide(c)' /\ ReceiverSide(c)' /\ Counting(c)' /\ Printing(c)'
    <2>1. CASE Client!Connect(c) \/ Client!ConnectFails(c) \/ Client!Kill(c)
      BY <1>0, <2>1, MoveOnly
    <2>2. CASE Client!SenderLogin(c)
      BY <1>0, <2>2, LoginLinks
    <2>3. CASE Client!SenderType(c)
      BY <1>0, <2>3, TypingLinks
    <2>4. CASE Client!SenderHear(c) \/ Client!SenderHearQuit(c)
      BY <1>0, <2>4, HearingLinks
    <2>5. CASE Client!SenderHearNothing(c)
      BY <1>0, <2>5, HearingNothing
    <2>6. CASE Client!ReceiverLogin(c) \/ Client!ReceiverJoin(c)
      BY <1>0, <2>6, AskingLinks
    <2>7. CASE Client!ReceiverPrint(c)
      BY <1>0, <2>7, PrintLinks
    <2>8. CASE Client!ReceiverEnds(c)
      BY <1>0, <2>8, GoingLinks
    <2>9. QED
      BY <2>1, <2>2, <2>3, <2>4, <2>5, <2>6, <2>7, <2>8
      DEF ClientMoves, Client!ProgramStep, Client!UserStep
  <1>2. Linked(c)'
    BY <1>0, <1>1, IdleTyped DEF Linked
  <1>3. ASSUME NEW t \in Session \ {c} PROVE Linked(t)'
    <2>1. Apart(t)
      BY OthersApart
    <2>2. Linked(t) /\ QueueTyped(t)'
      BY <1>0, IdleTyped DEF Links
    <2>3. QED
      BY <1>0, <2>1, <2>2, ApartLinked
  <1>4. QED
    BY <1>2, <1>3 DEF Links

-----------------------------------------------------------------------------
(* The theorems *)

LEMMA LinksInit == SystemInit => ClientTypes /\ Links
  <1> SUFFICES ASSUME SystemInit PROVE ClientTypes /\ Links
    OBVIOUS
  <1>1. ClientTypes
    BY EmptySeq, Constants, LenProperties
    DEF SystemInit, Client!ClientInit, ClientTypes, Client!Running
  <1>2. ASSUME NEW s \in Session PROVE Linked(s)
    <2>1. /\ at[s] = "connect" /\ up[s] = <<>> /\ down[s] = <<>> /\ typed[s] = <<>>
          /\ heard[s] = <<>> /\ printed[s] = <<>>
          /\ pc[s] = "login" /\ lines[s] = 0 /\ ~isReciever[s]
          /\ mqueue[s] = <<>> /\ delivered[s] = <<>>
      BY DEF SystemInit, Client!ClientInit, Init
    <2>2. SenderSide(s) /\ ReceiverSide(s)
      BY <2>1 DEF SenderSide, ReceiverSide
    <2>3. Counting(s)
      BY <2>1 DEF Counting, Waits, Answered, SessionOver
    <2>4. Printing(s)
      BY <2>1 DEF Printing, OnTheWay
    <2>5. QueueTyped(s) /\ DeliveredTyped(s)
      BY <2>1 DEF QueueTyped, DeliveredTyped
    <2>6. QED
      BY <2>2, <2>3, <2>4, <2>5 DEF Linked
  <1>3. QED
    BY <1>1, <1>2 DEF Links

LEMMA LinksStutter ==
    ASSUME ClientTypes, Links, UNCHANGED systemVars
    PROVE  ClientTypes' /\ Links'
  <1>1. /\ UNCHANGED <<program, at, up, down, listening, typed, heard, printed>>
        /\ pc' = pc /\ lines' = lines /\ isReciever' = isReciever
        /\ delivered' = delivered /\ mqueue' = mqueue
    BY VarsSame DEF systemVars, Client!clientVars
  <1>2. ClientTypes'
    BY <1>1 DEF ClientTypes
  <1>3. ASSUME NEW s \in Session PROVE Linked(s)'
    <2>1. SenderSide(s)' /\ ReceiverSide(s)'
      BY <1>1 DEF Links, Linked, SenderSide, ReceiverSide
    <2>2. Counting(s)'
      BY <1>1 DEF Links, Linked, Counting, Waits, Answered, SessionOver
    <2>3. Printing(s)'
      BY <1>1 DEF Links, Linked, Printing, OnTheWay, BroadcastText
    <2>4. QueueTyped(s)' /\ DeliveredTyped(s)'
      BY <1>1 DEF Links, Linked, QueueTyped, DeliveredTyped, WasTyped
    <2>5. QED
      BY <2>1, <2>2, <2>3, <2>4 DEF Linked
  <1>4. QED
    BY <1>2, <1>3 DEF Links

LEMMA LinksStep ==
    ASSUME IInv, IInv', ClientTypes, Links, [SystemNext]_systemVars
    PROVE  ClientTypes' /\ Links'
  <1>1. CASE SystemNext
    <2>1. ClientTypes'
      BY <1>1, TypesStep
    <2>2. CASE ServerEnds
      BY <2>1, <2>2, EndLinks
    <2>3. ASSUME NEW s \in Session, Receive(s) \/ Work(s) PROVE Links'
      BY <2>1, <2>3, TurnLinks
    <2>4. ASSUME NEW s \in Session, ClientMoves(s) PROVE Links'
      BY <2>1, <2>4, ClientLinks
    <2>5. QED
      BY <1>1, <2>1, <2>2, <2>3, <2>4 DEF SystemNext
  <1>2. CASE UNCHANGED systemVars
    BY <1>2, LinksStutter
  <1>3. QED
    BY <1>1, <1>2

LEMMA LinksCorrect == SystemSpec => [](IInv /\ ClientTypes /\ Links)
  <1>1. IInv /\ ClientTypes /\ Links /\ IInv' /\ [SystemNext]_systemVars => (ClientTypes /\ Links)'
    BY LinksStep
  <1>2. SystemSpec => []IInv
    BY ServerImplemented, InvCorrect, PTL
  <1>3. QED
    BY LinksInit, <1>1, <1>2, PTL DEF SystemSpec

\* Every variable of the clients and the connections keeps to its type, and a
\* client that is a receiver types and hears nothing, a sender prints nothing.
THEOREM SystemTypeCorrect == SystemSpec => []SystemTypeOK
  <1>1. ASSUME IInv, ClientTypes, Links PROVE SystemTypeOK
    <2>1. ASSUME NEW s \in Session
          PROVE  /\ \A i \in DOMAIN up[s] : up[s][i].tag \in {"slogin", "rlogin", "join", "leave",
                                                              "sendall", "quit"}
                 /\ \A i \in DOMAIN down[s] : down[s][i].tag \in {"ok", "err", "delivery"}
      <3>0. up[s] \in Seq(Request) /\ down[s] \in Seq(Responses \cup Deliveries)
        BY <1>1 DEF ClientTypes
      <3>1. /\ up[s] \in Seq(Request) /\ down[s] \in Seq(Responses \cup Deliveries)
            /\ DOMAIN up[s] = 1..Len(up[s]) /\ DOMAIN down[s] = 1..Len(down[s])
        BY <3>0, LenProperties
      <3>2. /\ \A i \in 1..Len(up[s]) : up[s][i] \in Request
            /\ \A i \in 1..Len(down[s]) : down[s][i] \in Responses \cup Deliveries
        BY <3>1, ElementOfSeq
      <3>3. QED
        BY <3>1, <3>2 DEF Request, Responses, Deliveries
    <2>2. ASSUME NEW s \in Session
          PROVE  /\ typed[s] \in Seq(Line) /\ Len(typed[s]) <= MaxLines
                 /\ program[s] = "receiver" => typed[s] = <<>> /\ heard[s] = <<>>
                 /\ program[s] = "sender" => printed[s] = <<>>
      BY <1>1 DEF ClientTypes, Links, Linked, SenderSide, ReceiverSide
    <2>3. QED
      BY <1>1, <2>1, <2>2 DEF ClientTypes, SystemTypeOK
  <1>2. IInv /\ ClientTypes /\ Links => SystemTypeOK
    BY <1>1
  <1>3. QED
    BY LinksCorrect, <1>2, PTL

\* sender.cpp:29-31 never reads the response to the login, and no step of the
\* server makes up for it: each response is taken for that to the line after.
THEOREM OneBehindCorrect == SystemSpec => []OneBehind
  <1>1. ASSUME IInv, ClientTypes, Links PROVE OneBehind
    <2> SUFFICES ASSUME NEW s \in Session, NEW h \in ToSet(heard[s])
                 PROVE  h.response.to = h.line - 1
      BY DEF OneBehind
    <2>1. /\ heard[s] \in Seq([line : Nat, response : Responses])
          /\ DOMAIN heard[s] = 1..Len(heard[s])
      BY <1>1, LenProperties DEF ClientTypes
    <2>2. PICK i \in 1..Len(heard[s]) : h = heard[s][i]
      BY <2>1 DEF ToSet
    <2>3. program[s] = "sender"
      <3>1. program[s] \in {"sender", "receiver"}
        BY <1>1, Constants DEF ClientTypes, Client!Program
      <3>2. heard[s] = <<>> => 1..Len(heard[s]) = {}
        OBVIOUS
      <3>3. QED
        BY <1>1, <2>2, <3>1, <3>2 DEF Links, Linked, ReceiverSide
    <2>4. heard[s][i].line = i /\ heard[s][i].response.to = i - 1
      BY <1>1, <2>3, Counts
    <2>5. QED
      BY <2>2, <2>4
  <1>2. IInv /\ ClientTypes /\ Links => OneBehind
    BY <1>1
  <1>3. QED
    BY LinksCorrect, <1>2, PTL

\* A receiver prints what was delivered to it, in that order.  Behind a room and
\* a name without colons the name comes first and the end of the text as it was
\* typed; the whole text, when it has no colon either.
THEOREM PrintedAsTypedCorrect == SystemSpec => []PrintedAsTyped
  <1>1. ASSUME IInv, ClientTypes, Links PROVE PrintedAsTyped
    <2> SUFFICES ASSUME NEW r \in Session, NEW i \in DOMAIN printed[r]
                 PROVE  LET m == delivered[r][i]
                            text == typed[m.from][m.text]
                        IN  /\ NoColon(m.room) /\ NoColon(username[m.from]) =>
                                  /\ IsSuffix(printed[r][i].data, text)
                                  /\ IsPrefix(username[m.from], printed[r][i].tag)
                            /\ NoColon(m.room) /\ NoColon(username[m.from]) /\ NoColon(text) =>
                                  printed[r][i] = [tag |-> username[m.from], data |-> text]
      BY DEF PrintedAsTyped
    <2>1. i \in 1..Len(printed[r])
      <3>1. printed[r] \in Seq(Printable)
        BY <1>1 DEF ClientTypes
      <3>2. QED
        BY <3>1, LenProperties
    <2>2. i \in 1..Len(delivered[r])
      <3>1. PICK j \in 0..Len(down[r]) : OnTheWay(r, j)
        BY <1>1 DEF Links, Linked, Printing
      <3>2. QED
        BY <1>1, <2>1, <3>1, Positions DEF OnTheWay
    <2>3. PICK m : m = delivered[r][i]
      OBVIOUS
    <2>4. m \in BroadcastMessage /\ WasTyped(m)
      <3>1. delivered[r] \in Seq(BroadcastMessage)
        BY <1>1 DEF IInv, TypeOK
      <3>2. QED
        BY <1>1, <2>2, <2>3, <3>1, ElementOfSeq DEF Links, Linked, DeliveredTyped
    <2>5. printed[r][i] = Client!Shown(BroadcastText(m))
      BY <1>1, <2>1, <2>3 DEF Links, Linked, Printing
    <2>6. PICK t : t = typed[m.from][m.text]
      OBVIOUS
    <2>7. /\ m.room \in Seq(Word) /\ username[m.from] \in Seq(Word) /\ t \in Seq(Word)
          /\ printed[r][i] = Client!Shown(ThreeParts(m.room, username[m.from], t))
      BY <1>1, <2>4, <2>5, <2>6, BroadcastParts
    <2>8. /\ NoColon(m.room) /\ NoColon(username[m.from]) =>
                /\ IsSuffix(printed[r][i].data, t)
                /\ IsPrefix(username[m.from], printed[r][i].tag)
          /\ NoColon(m.room) /\ NoColon(username[m.from]) /\ NoColon(t) =>
                printed[r][i] = [tag |-> username[m.from], data |-> t]
      BY <2>7, ShownIs
    <2>9. QED
      BY <2>3, <2>6, <2>8
  <1>2. IInv /\ ClientTypes /\ Links => PrintedAsTyped
    BY <1>1
  <1>3. QED
    BY LinksCorrect, <1>2, PTL

\* What is proved of the server alone, with clients that send what they like,
\* holds with these clients: one room to a name, members where they were told
\* they are, each broadcast delivered once and in order, nothing undefined
\* before a session ends.
THEOREM SystemServerCorrect ==
    SystemSpec => [](UniqueRoom /\ Membership /\ ExactDelivery /\ SafeUntilSessionEnds)
  BY ServerImplemented, RoomsAreUnique, MembershipCorrect, DeliveryCorrect,
     SafeUntilEndCorrect, PTL
=============================================================================
