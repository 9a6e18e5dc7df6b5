---------------------------- MODULE ParSortProofs ----------------------------
(***************************************************************************)
(* Machine-checked proofs about the process tree of ParSort, for files of  *)
(* any length, any threshold and any failures: who may touch which part of *)
(* the array, what the exit code of the first process says, and that as    *)
(* much of the file as is counted is sorted when it says success.          *)
(***************************************************************************)
EXTENDS ParSort, SequenceTheorems, FiniteSetTheorems, Recursion, TLAPS

Half(b, e) == b + (e - b) \div 2

\* The part of its range that process p looks after itself begins here; in front
\* of it are the parts of its children.
lo(p) == IF pc[p] = "wait" THEN mid(p) ELSE begin(p)

\* The calls of p that have forked and not yet waited.
Waits(p) == 1..(IF pc[p] = "wait" THEN Len(stack[p]) ELSE Len(stack[p]) - 1)

Fine == {"none", "exit0"}

\* Every call of p but the innermost is for two elements or more, and the next
\* is for its right half.
Halved(p) ==
    \A i \in 1..(Len(stack[p]) - 1) :
        stack[p][i] + 1 < p /\ stack[p][i+1] = Half(stack[p][i], p)

Shape ==
    /\ status \in [Pid -> Ended \cup {"none", "running"}]
    /\ pc \in [Pid -> Label]
    /\ stack \in [Pid -> Seq(Nat)]
    /\ Main \in Pid /\ status[Main] # "none"
    /\ status[Main] = "running" => stack[Main][1] = 0
    /\ \A p \in Pid :
          /\ pc[p] = "ended" <=> status[p] # "running"
          /\ status[p] # "none" => p <= Main /\ (p = 0 => Main = 0)
          /\ status[p] = "running" =>
                /\ stack[p] # <<>> /\ begin(p) <= p /\ (p # 0 => begin(p) < p)
                /\ Halved(p)
          /\ pc[p] \in {"fork", "wait", "merge", "copy"} => begin(p) + 1 < p
          /\ pc[p] \in {"start", "close"} => p = Main /\ Len(stack[p]) = 1

\* c is, or was, the child forked for a left half that begins at b: if it has
\* succeeded so have all the processes of that half.
Child(b, c) ==
    /\ status[c] # "none"
    /\ status[c] = "running" => stack[c][1] = b
    /\ status[c] = "exit0" => \A q \in Pid : b < q /\ q < c => status[q] \in Fine

Children ==
    \A p \in Pid : status[p] = "running" =>
        \A i \in Waits(p) : Child(stack[p][i], Half(stack[p][i], p))

\* Nobody runs in the part that p looks after, and before p divides it nobody has.
Interior ==
    \A p, q \in Pid : status[p] = "running" /\ lo(p) < q /\ q < p =>
        /\ status[q] \in Fine
        /\ pc[p] \in {"start", "enter", "sort", "fork"} => status[q] = "none"

IInv == Shape /\ Children /\ Interior /\ FailureReported

-----------------------------------------------------------------------------

LEMMA HalfBetween ==
    ASSUME NEW b \in Nat, NEW e \in Nat, b + 1 < e
    PROVE  Half(b, e) \in Nat /\ b < Half(b, e) /\ Half(b, e) < e
  BY DEF Half

\* What a push and a pop leave of a stack.
LEMMA Pushed ==
    ASSUME NEW s \in Seq(Nat), NEW x \in Nat, s # <<>>
    PROVE  /\ Append(s, x) \in Seq(Nat) /\ Len(Append(s, x)) = Len(s) + 1
           /\ Append(s, x) # <<>> /\ Last(Append(s, x)) = x
           /\ \A i \in 1..Len(s) : Append(s, x)[i] = s[i]
           /\ Append(s, x)[1] = s[1] /\ Append(s, x)[Len(s) + 1] = x
           /\ Len(s) \in Nat /\ Len(s) > 0 /\ s[Len(s)] = Last(s)
  <1>1. Len(s) \in Nat /\ Len(s) > 0
    BY LenProperties, EmptySeq
  <1>2. QED
    BY <1>1, AppendProperties DEF Last

LEMMA Popped ==
    ASSUME NEW s \in Seq(Nat), Len(s) > 1
    PROVE  /\ Front(s) \in Seq(Nat) /\ Len(Front(s)) = Len(s) - 1
           /\ Front(s) # <<>> /\ Last(Front(s)) = s[Len(s) - 1]
           /\ \A i \in 1..(Len(s) - 1) : Front(s)[i] = s[i]
           /\ Front(s)[1] = s[1]
           /\ Len(s) \in Nat /\ s[Len(s)] = Last(s)
  <1>1. Len(s) \in Nat /\ \A i \in 1..Len(s) : s[i] \in Nat
    BY LenProperties, ElementOfSeq
  <1>2. /\ Front(s) \in Seq(Nat) /\ Len(Front(s)) = Len(s) - 1
        /\ \A i \in 1..(Len(s) - 1) : Front(s)[i] = s[i]
    <2>1. \A i \in 1..(Len(s) - 1) : s[i] \in Nat
      BY <1>1
    <2>2. /\ SubSeq(s, 1, Len(s) - 1) \in Seq(Nat)
          /\ Len(SubSeq(s, 1, Len(s) - 1)) = Len(s) - 1
          /\ \A i \in 1..(Len(s) - 1) : SubSeq(s, 1, Len(s) - 1)[i] = s[1 + i - 1]
      BY <1>1, <2>1, SubSeqProperties
    <2>3. QED
      BY <1>1, <2>2 DEF Front
  <1>3. Len(s) - 1 \in 1..(Len(s) - 1) /\ 1 \in 1..(Len(s) - 1)
    BY <1>1
  <1>4. Front(s) # <<>> /\ Last(Front(s)) = Front(s)[Len(s) - 1]
    BY <1>1, <1>2, EmptySeq DEF Last
  <1>5. QED
    BY <1>1, <1>2, <1>3, <1>4 DEF Last

\* What the inductive invariant says of a running process.
LEMMA RunningFacts ==
    ASSUME IInv, NEW p \in Pid, status[p] = "running"
    PROVE  /\ p \in Nat /\ stack[p] \in Seq(Nat) /\ Len(stack[p]) \in Nat \ {0}
           /\ begin(p) \in Nat /\ begin(p) = stack[p][Len(stack[p])]
           /\ pc[p] # "ended" /\ pc[p] \in Label
           /\ \A i \in 1..Len(stack[p]) : stack[p][i] \in Nat
  <1>1. stack[p] \in Seq(Nat) /\ stack[p] # <<>> /\ p \in Nat
    BY ParSortAssumption DEF IInv, Shape, Pid
  <1>2. Len(stack[p]) \in Nat \ {0} /\ \A i \in 1..Len(stack[p]) : stack[p][i] \in Nat
    BY <1>1, LenProperties, ElementOfSeq, EmptySeq
  <1>3. QED
    BY <1>1, <1>2 DEF IInv, Shape, begin, Last

LEMMA MidIsHalf == ASSUME NEW p PROVE mid(p) = Half(begin(p), p)
  BY DEF mid, Half

\* A call that has forked had two elements or more.
LEMMA WaitFacts ==
    ASSUME IInv, NEW r \in Pid, status[r] = "running", NEW i \in Waits(r)
    PROVE  /\ i \in 1..Len(stack[r]) /\ stack[r][i] \in Nat /\ r \in Nat
           /\ stack[r][i] < Half(stack[r][i], r) /\ Half(stack[r][i], r) \in Pid
           /\ Child(stack[r][i], Half(stack[r][i], r))
  <1>1. /\ Len(stack[r]) \in Nat \ {0} /\ r \in Nat /\ begin(r) = stack[r][Len(stack[r])]
        /\ \A j \in 1..Len(stack[r]) : stack[r][j] \in Nat
    BY RunningFacts
  <1>2. i \in 1..Len(stack[r])
    BY <1>1 DEF Waits
  <1>3. stack[r][i] + 1 < r
    <2>1. CASE i \in 1..(Len(stack[r]) - 1)
      BY <2>1 DEF IInv, Shape, Halved
    <2>2. CASE i \notin 1..(Len(stack[r]) - 1)
      <3>1. pc[r] = "wait" /\ i = Len(stack[r])
        BY <2>2, <1>1, <1>2 DEF Waits
      <3>2. QED
        BY <3>1, <1>1 DEF IInv, Shape
    <2>3. QED
      BY <2>1, <2>2
  <1>4. stack[r][i] < Half(stack[r][i], r) /\ Half(stack[r][i], r) \in Pid
    BY <1>1, <1>2, <1>3, HalfBetween, ParSortAssumption DEF Pid
  <1>5. QED
    BY <1>1, <1>2, <1>4 DEF IInv, Children

\* No process runs inside the part another one looks after.
LEMMA Apart ==
    ASSUME IInv, NEW p \in Pid, NEW q \in Pid, status[p] = "running", status[q] = "running",
           q < p
    PROVE  q <= lo(p)
  <1>1. lo(p) \in Int
    BY RunningFacts, MidIsHalf DEF lo, Half
  <1>2. q \in Int /\ p \in Int
    BY RunningFacts
  <1>3. QED
    BY <1>1, <1>2 DEF IInv, Interior, Fine

-----------------------------------------------------------------------------
(* Steps that only move a process on *)

LEMMA MoveStep ==
    ASSUME IInv, NEW p \in Pid, status[p] = "running",
           NEW l \in Label \ {"ended", "wait", "start"}, pc[p] # "wait",
           Goto(p, l), UNCHANGED <<status, stack, input>>,
           l \in {"enter", "sort", "fork"} => pc[p] \in {"start", "enter"},
           l \in {"fork", "merge", "copy"} => begin(p) + 1 < p,
           l = "close" => p = Main /\ Len(stack[p]) = 1
    PROVE  IInv'
  <1> USE DEF Goto
  <1>0. pc \in [Pid -> Label] /\ UNCHANGED Main
    BY DEF IInv, Shape, Main, Length
  <1>1. Shape'
    BY <1>0 DEF IInv, Shape, begin, Halved
  <1>2. \A q \in Pid : lo(q)' = lo(q) /\ Waits(q)' = Waits(q)
    BY <1>0 DEF lo, Waits, begin, mid
  <1>3. Children'
    BY <1>0, <1>2 DEF IInv, Children, Child
  <1>4. Interior'
    BY <1>0, <1>2 DEF IInv, Interior
  <1>5. FailureReported'
    BY <1>0 DEF IInv, FailureReported
  <1>6. QED
    BY <1>1, <1>3, <1>4, <1>5 DEF IInv

\* waitpid: the child has succeeded, and its half becomes p's to look after.
LEMMA WaitedStep ==
    ASSUME IInv, NEW p \in Pid, At(p, "wait"), status[mid(p)] = "exit0",
           Goto(p, "merge"), UNCHANGED <<status, stack, input>>
    PROVE  IInv'
  <1> USE DEF Goto, At, Runs
  <1>0. pc \in [Pid -> Label] /\ UNCHANGED Main
    BY DEF IInv, Shape, Main, Length
  <1>1. Shape'
    BY <1>0 DEF IInv, Shape, begin, Label, Halved
  <1>2. \A q \in Pid \ {p} : lo(q)' = lo(q) /\ Waits(q)' = Waits(q)
    BY <1>0 DEF lo, Waits, begin, mid
  <1>3. lo(p)' = begin(p) /\ lo(p) = mid(p)
    BY <1>0 DEF lo, begin
  <1>4. Waits(p)' \subseteq Waits(p) /\ Len(stack[p]) \in Waits(p)
    BY <1>0, RunningFacts DEF Waits
  <1>5. Children'
    BY <1>0, <1>2, <1>4 DEF IInv, Children, Child
  <1>6. \A q \in Pid : begin(p) < q /\ q < mid(p) => status[q] \in Fine
    BY <1>4, RunningFacts, MidIsHalf DEF IInv, Children, Child
  <1>7. Interior'
    <2> SUFFICES ASSUME NEW r \in Pid, NEW q \in Pid, status[r] = "running", lo(r)' < q, q < r
                 PROVE  /\ status[q] \in Fine
                        /\ pc'[r] \in {"start", "enter", "sort", "fork"} => status[q] = "none"
      BY DEF Interior
    <2>1. CASE r # p
      BY <2>1, <1>0, <1>2 DEF IInv, Interior
    <2>2. CASE r = p
      <3>1. pc'[p] = "merge"
        BY <1>0
      <3>2. mid(p) \in Int /\ q \in Int
        BY RunningFacts, MidIsHalf, ParSortAssumption DEF Half, Pid
      <3>3. CASE q < mid(p)
        BY <2>2, <3>1, <3>3, <1>3, <1>6
      <3>4. CASE q = mid(p)
        BY <2>2, <3>1, <3>4 DEF Fine
      <3>5. CASE mid(p) < q
        BY <2>2, <3>1, <3>5, <1>3 DEF IInv, Interior
      <3>6. QED
        BY <3>2, <3>3, <3>4, <3>5
    <2>3. QED
      BY <2>1, <2>2
  <1>8. FailureReported'
    BY <1>0 DEF IInv, FailureReported
  <1>9. QED
    BY <1>1, <1>5, <1>7, <1>8 DEF IInv

-----------------------------------------------------------------------------
(* Steps that change who runs, and the stacks *)

\* The end of a process.  Exit code 0 needs all its children to have succeeded.
LEMMA EndStep ==
    ASSUME IInv, NEW p \in Pid, status[p] = "running", NEW how \in Ended, End(p, how),
           how = "exit0" => \A q \in Pid : stack[p][1] < q /\ q < p => status[q] \in Fine
    PROVE  IInv'
  <1>0. /\ pc' = [pc EXCEPT ![p] = "ended"] /\ status' = [status EXCEPT ![p] = how]
        /\ stack' = [stack EXCEPT ![p] = <<>>] /\ UNCHANGED input
        /\ how # "none" /\ how # "running"
    BY DEF End, Goto, Ended
  <1>1. /\ pc \in [Pid -> Label] /\ status \in [Pid -> Ended \cup {"none", "running"}]
        /\ stack \in [Pid -> Seq(Nat)] /\ UNCHANGED Main
    BY <1>0 DEF IInv, Shape, Main, Length
  <1>2. Shape'
    <2>1. /\ pc' \in [Pid -> Label] /\ status' \in [Pid -> Ended \cup {"none", "running"}]
          /\ stack' \in [Pid -> Seq(Nat)]
      BY <1>0, <1>1 DEF Label
    <2>2. QED
      <3>1. \A q \in Pid \ {p} : begin(q)' = begin(q) /\ Halved(q)' = Halved(q)
        BY <1>0, <1>1 DEF begin, Halved
      <3>2. QED
        BY <1>0, <1>1, <2>1, <3>1 DEF IInv, Shape
  <1>3. \A q \in Pid \ {p} : lo(q)' = lo(q) /\ Waits(q)' = Waits(q)
    BY <1>0, <1>1 DEF lo, Waits, begin, mid
  <1>4. Children'
    <2> SUFFICES ASSUME NEW r \in Pid, status'[r] = "running", NEW i \in Waits(r)'
                 PROVE  Child(stack[r][i], Half(stack[r][i], r))'
      BY DEF Children
    <2>1. r # p /\ status[r] = "running" /\ i \in Waits(r) /\ stack'[r] = stack[r]
      BY <1>0, <1>1, <1>3
    <2>2. PICK b \in Nat, c \in Pid : b = stack[r][i] /\ c = Half(b, r)
      BY <2>1, WaitFacts
    <2>3. Child(b, c)
      BY <2>1, <2>2, WaitFacts
    <2>4. Child(b, c)'
      BY <1>0, <1>1, <2>3 DEF Child, Fine
    <2>5. QED
      BY <2>1, <2>2, <2>4 DEF Half
  <1>5. Interior'
    BY <1>0, <1>1, <1>3 DEF IInv, Interior, Fine
  <1>6. FailureReported'
    <2>1. CASE status[Main] = "exit0"
      BY <2>1 DEF IInv, FailureReported
    <2>2. CASE p = Main /\ how = "exit0"
      <3>1. stack[p][1] = 0 /\ \A q \in Pid : 0 < q /\ q < p => status[q] \in Fine
        BY <2>2 DEF IInv, Shape
      <3>2. \A q \in Pid \ {p} : q = 0 \/ q > p => status[q] = "none"
        BY <2>2, ParSortAssumption DEF IInv, Shape, Pid
      <3>3. \A q \in Pid \ {p} : status[q] \in Fine
        BY <3>1, <3>2, ParSortAssumption DEF Pid, Fine
      <3>4. QED
        BY <2>2, <3>3, <1>0, <1>1 DEF FailureReported, Fine
    <2>3. CASE status[Main] # "exit0" /\ ~(p = Main /\ how = "exit0")
      BY <2>3, <1>0, <1>1 DEF FailureReported, IInv, Shape
    <2>4. QED
      BY <2>1, <2>2, <2>3
  <1>7. QED
    BY <1>2, <1>4, <1>5, <1>6 DEF IInv

\* fork: the child is new, and nobody else looks after what it is given.
LEMMA ForkStep ==
    ASSUME IInv, NEW p \in Pid, Fork(p)
    PROVE  IInv'
  <1> SUFFICES ASSUME NEW b, b = begin(p), NEW c, c = mid(p), NEW n, n = Len(stack[p])
               PROVE  IInv'
    OBVIOUS
  <1>1. /\ status[p] = "running" /\ pc[p] = "fork" /\ b + 1 < p
        /\ status' = [status EXCEPT ![c] = "running"]
        /\ stack' = [stack EXCEPT ![c] = <<b>>, ![p] = Append(stack[p], c)]
        /\ pc' = [pc EXCEPT ![c] = "enter", ![p] = "enter"]
        /\ UNCHANGED input
    BY DEF Fork, At, Runs, IInv, Shape
  <1>2. /\ pc \in [Pid -> Label] /\ status \in [Pid -> Ended \cup {"none", "running"}]
        /\ stack \in [Pid -> Seq(Nat)] /\ UNCHANGED Main
    BY <1>1 DEF IInv, Shape, Main, Length
  <1>3. b \in Nat /\ p \in Nat /\ n \in Nat \ {0} /\ stack[p][n] = b
    BY <1>1, RunningFacts
  <1>4. c \in Pid /\ c \in Nat /\ b < c /\ c < p /\ c = Half(b, p)
    BY <1>1, <1>3, HalfBetween, MidIsHalf, ParSortAssumption DEF Pid
  <1>5. lo(p) = b /\ lo(p)' = c /\ lo(c)' = b
    <2>1. Last(Append(stack[p], c)) = c
      <3>1. stack[p] \in Seq(Nat) /\ stack[p] # <<>>
        BY <1>1 DEF IInv, Shape
      <3>2. QED
        BY <3>1, <1>4, Pushed
    <2>2. Last(<<b>>) = b
      BY DEF Last
    <2>3. p # c /\ stack'[p] = Append(stack[p], c) /\ stack'[c] = <<b>>
          /\ pc'[p] = "enter" /\ pc'[c] = "enter"
      BY <1>1, <1>2, <1>4
    <2>4. QED
      BY <1>1, <2>1, <2>2, <2>3 DEF lo, begin
  <1>6. \A q \in Pid : b < q /\ q < p => status[q] = "none"
    BY <1>1, <1>5 DEF IInv, Interior
  <1>7. /\ stack'[p] \in Seq(Nat) /\ Len(stack'[p]) = n + 1 /\ stack'[p] # <<>>
        /\ stack'[p][1] = stack[p][1] /\ stack'[p][n + 1] = c
        /\ \A i \in 1..n : stack'[p][i] = stack[p][i]
    <2>1. stack[p] \in Seq(Nat) /\ stack[p] # <<>>
      BY <1>1 DEF IInv, Shape
    <2>2. stack'[p] = Append(stack[p], c)
      BY <1>1, <1>2, <1>3, <1>4
    <2>3. QED
      BY <1>4, <2>1, <2>2, Pushed
  <1>8. /\ stack'[c] = <<b>> /\ stack'[c] \in Seq(Nat) /\ Len(stack'[c]) = 1
        /\ stack'[c] # <<>> /\ stack'[c][1] = b /\ begin(c)' = b /\ begin(p)' = c
    <2>1. stack'[c] = <<b>>
      BY <1>1, <1>2, <1>3, <1>4
    <2>2. <<b>> \in Seq(Nat) /\ Len(<<b>>) = 1 /\ <<b>>[1] = b /\ <<b>> # <<>>
      BY <1>3
    <2>3. Len(stack'[p]) = n + 1 /\ stack'[p][n + 1] = c
      BY <1>7
    <2>4. stack'[p][Len(stack'[p])] = c
      BY <2>3
    <2>5. QED
      BY <2>1, <2>2, <2>4 DEF begin, Last
  <1>9. \A q \in Pid \ {p, c} :
           /\ lo(q)' = lo(q) /\ Waits(q)' = Waits(q) /\ begin(q)' = begin(q)
           /\ Halved(q)' = Halved(q)
           /\ stack'[q] = stack[q] /\ pc'[q] = pc[q] /\ status'[q] = status[q]
    BY <1>1, <1>2 DEF lo, Waits, begin, mid, Halved
  <1>10. /\ Waits(p) = 1..(n - 1) /\ Waits(p)' = 1..n /\ Waits(c)' = {}
         /\ status'[p] = "running" /\ status'[c] = "running"
         /\ pc'[p] = "enter" /\ pc'[c] = "enter"
    <2>1. /\ status'[p] = "running" /\ status'[c] = "running"
          /\ pc'[p] = "enter" /\ pc'[c] = "enter"
      BY <1>1, <1>2, <1>3, <1>4
    <2>2. Waits(p) = 1..(n - 1)
      BY <1>1 DEF Waits
    <2>3. Waits(p)' = 1..(Len(stack'[p]) - 1) /\ Waits(c)' = 1..(Len(stack'[c]) - 1)
      BY <2>1 DEF Waits
    <2>4. QED
      BY <1>3, <1>7, <1>8, <2>1, <2>2, <2>3
  <1>11. c < Main /\ Main \in Nat /\ status[c] = "none"
    BY <1>1, <1>4, <1>6, ParSortAssumption DEF IInv, Shape, Pid
  <1>12. Shape'
    <2>1. /\ pc' \in [Pid -> Label] /\ status' \in [Pid -> Ended \cup {"none", "running"}]
          /\ stack' \in [Pid -> Seq(Nat)]
      BY <1>1, <1>2, <1>7, <1>8 DEF Label
    <2>2. Main' \in Pid /\ status'[Main] # "none"
      BY <1>1, <1>2, <1>4 DEF IInv, Shape
    <2>3. status'[Main] = "running" => stack'[Main][1] = 0
      <3>1. /\ Main' = Main /\ Main \in Pid /\ Main # c
            /\ status[Main] = "running" => stack[Main][1] = 0
        BY <1>2, <1>11, <1>4 DEF IInv, Shape
      <3>2. CASE Main = p
        BY <3>1, <3>2, <1>1, <1>7
      <3>3. CASE Main # p
        BY <3>1, <3>3, <1>9
      <3>4. QED
        BY <3>2, <3>3
    <2>4. Halved(p)'
      <3> SUFFICES \A i \in 1..(Len(stack'[p]) - 1) :
             stack'[p][i] + 1 < p /\ stack'[p][i+1] = Half(stack'[p][i], p)
        BY DEF Halved
      <3> TAKE i \in 1..(Len(stack'[p]) - 1)
      <3>1. i \in 1..n
        BY <1>3, <1>7
      <3>2. CASE i = n
        <4>1. n \in 1..n
          BY <1>3
        <4>2. stack'[p][n] = b
          BY <4>1, <1>3, <1>7
        <4>3. stack'[p][n + 1] = c
          BY <1>7
        <4>4. QED
          BY <3>2, <4>2, <4>3, <1>1, <1>4
      <3>3. CASE i # n
        <4>1. i \in 1..(Len(stack[p]) - 1) /\ i + 1 \in 1..n
          BY <3>1, <3>3, <1>3
        <4>2. QED
          <5>1. stack[p][i] + 1 < p /\ stack[p][i+1] = Half(stack[p][i], p)
            BY <1>1, <4>1 DEF IInv, Shape, Halved
          <5>2. stack'[p][i] = stack[p][i] /\ stack'[p][i+1] = stack[p][i+1]
            BY <1>7, <3>1, <4>1
          <5>3. QED
            BY <5>1, <5>2
      <3>4. QED
        BY <3>2, <3>3
    <2>5. \A q \in Pid :
          /\ pc'[q] = "ended" <=> status'[q] # "running"
          /\ status'[q] # "none" => q <= Main' /\ (q = 0 => Main' = 0)
          /\ status'[q] = "running" =>
                stack'[q] # <<>> /\ begin(q)' <= q /\ (q # 0 => begin(q)' < q)
          /\ pc'[q] \in {"fork", "wait", "merge", "copy"} => begin(q)' + 1 < q
          /\ pc'[q] \in {"start", "close"} => q = Main' /\ Len(stack'[q]) = 1
      <3> TAKE q \in Pid
      <3>1. CASE q = p
        <4>1. status[p] # "none" => p <= Main /\ (p = 0 => Main = 0)
          BY DEF IInv, Shape
        <4>2. pc'[p] = "enter" /\ status'[p] = "running"
          BY <1>1, <1>2, <1>4, <1>10
        <4>3. QED
          BY <3>1, <4>1, <4>2, <1>1, <1>2, <1>3, <1>4, <1>7, <1>8
      <3>2. CASE q = c
        <4>1. c <= Main' /\ c # 0 /\ b <= c /\ b < c
          BY <1>2, <1>3, <1>4, <1>11
        <4>2. QED
          BY <3>2, <4>1, <1>8, <1>10
      <3>3. CASE q \notin {p, c}
        BY <3>3, <1>2, <1>9 DEF IInv, Shape
      <3>4. QED
        BY <3>1, <3>2, <3>3
    <2>6. \A q \in Pid : status'[q] = "running" => Halved(q)'
      <3>1. Halved(c)'
        BY <1>8 DEF Halved
      <3>2. \A q \in Pid \ {p, c} : status'[q] = "running" => Halved(q)'
        BY <1>9 DEF IInv, Shape
      <3>3. QED
        BY <2>4, <3>1, <3>2
    <2>7. QED
      BY <2>1, <2>2, <2>3, <2>5, <2>6, <1>2 DEF Shape
  \* What was a child stays one.
  <1>13. ASSUME NEW x \in Nat, NEW d \in Pid, Child(x, d), x < d
         PROVE  Child(x, d)'
    <2>1. d # c
      BY <1>13, <1>11 DEF Child
    <2>2. status'[d] = status[d] /\ (status[d] = "running" => stack'[d][1] = stack[d][1])
      <3>1. CASE d = p
        BY <3>1, <1>1, <1>7, <1>10
      <3>2. CASE d # p
        BY <2>1, <3>2, <1>9
      <3>3. QED
        BY <3>1, <3>2
    <2>3. ASSUME status[d] = "exit0" PROVE ~(x < c /\ c < d)
      <3>1. SUFFICES ASSUME x < c, c < d PROVE FALSE
        OBVIOUS
      <3>2. d \in Nat /\ d # p
        BY <2>3, <1>1, ParSortAssumption DEF Pid
      <3>3. CASE p < d
        BY <3>1, <3>3, <2>3, <1>1, <1>3, <1>4, <1>13 DEF Child, Fine
      <3>4. CASE d < p
        BY <3>1, <3>4, <2>3, <1>3, <1>4, <1>6, <3>2
      <3>5. QED
        BY <3>2, <3>3, <3>4, <1>3
    <2>4. \A q \in Pid : q # c => status'[q] = status[q]
      BY <1>9, <1>10, <1>1
    <2>5. QED
      BY <1>13, <2>2, <2>3, <2>4 DEF Child
  <1>14. Children'
    <2> SUFFICES ASSUME NEW r \in Pid, status'[r] = "running", NEW i \in Waits(r)'
                 PROVE  Child(stack[r][i], Half(stack[r][i], r))'
      BY DEF Children
    <2>1. ASSUME status[r] = "running", i \in Waits(r), stack'[r][i] = stack[r][i]
          PROVE  Child(stack[r][i], Half(stack[r][i], r))'
      <3>1. PICK x \in Nat, d \in Pid : x = stack[r][i] /\ d = Half(x, r) /\ x < d
        BY <2>1, WaitFacts
      <3>2. Child(x, d)
        BY <2>1, <3>1, WaitFacts
      <3>3. Child(x, d)'
        BY <3>1, <3>2, <1>13
      <3>4. QED
        BY <2>1, <3>1, <3>3 DEF Half
    <2>2. r # c
      BY <1>10
    <2>3. CASE r = p /\ i = n
      <3>1. stack'[r][i] = b
        <4>1. n \in 1..n
          BY <1>3
        <4>2. QED
          BY <2>3, <4>1, <1>3, <1>7
      <3>2. Child(b, c)'
        BY <1>8, <1>10 DEF Child
      <3>3. QED
        BY <2>3, <3>1, <3>2, <1>4 DEF Half
    <2>4. CASE r = p /\ i # n
      <3>1. i \in Waits(p) /\ i \in 1..n
        BY <2>4, <1>3, <1>10
      <3>2. QED
        BY <2>1, <2>4, <3>1, <1>1, <1>7
    <2>5. CASE r # p
      BY <2>1, <2>2, <2>5, <1>9
    <2>6. QED
      BY <2>3, <2>4, <2>5
  <1>15. Interior'
    <2> SUFFICES ASSUME NEW r \in Pid, NEW q \in Pid, status'[r] = "running", lo(r)' < q, q < r
                 PROVE  /\ status'[q] \in Fine
                        /\ pc'[r] \in {"start", "enter", "sort", "fork"} => status'[q] = "none"
      BY DEF Interior
    <2>0. q \in Nat /\ r \in Nat
      BY ParSortAssumption DEF Pid
    <2>1. CASE r \in {p, c}
      <3>1. b < q /\ q < p /\ q # c
        BY <2>0, <2>1, <1>3, <1>4, <1>5
      <3>2. status'[q] = "none"
        BY <3>1, <2>0, <1>3, <1>6, <1>9
      <3>3. QED
        BY <3>2 DEF Fine
    <2>2. CASE r \notin {p, c}
      <3>1. status[r] = "running" /\ lo(r) < q /\ pc'[r] = pc[r]
        BY <2>2, <1>9
      <3>2. q # c
        <4>1. SUFFICES ASSUME q = c PROVE FALSE
          OBVIOUS
        <4>2. lo(r) \in Int
          BY <3>1, RunningFacts, MidIsHalf DEF lo, Half
        <4>3. CASE r < p
          BY <4>1, <4>3, <3>1, <2>0, <1>3, <1>4, <1>6
        <4>4. CASE p < r
          BY <4>1, <4>2, <4>4, <3>1, <2>0, <1>1, <1>3, <1>4, Apart
        <4>5. QED
          BY <4>3, <4>4, <2>0, <2>2, <1>3
      <3>3. status'[q] = status[q]
        BY <3>2, <1>1, <1>9, <1>10
      <3>4. QED
        BY <3>1, <3>3 DEF IInv, Interior
    <2>3. QED
      BY <2>1, <2>2
  <1>16. FailureReported'
    BY <1>1, <1>2, <1>4, <1>10, <1>11 DEF IInv, FailureReported, Shape
  <1>17. QED
    BY <1>12, <1>14, <1>15, <1>16 DEF IInv

\* A call for a right half returns to the call it is the half of.
LEMMA ReturnStep ==
    ASSUME IInv, NEW p \in Pid, At(p, "return"), Len(stack[p]) > 1,
           stack' = [stack EXCEPT ![p] = Front(@)], Goto(p, "wait"),
           UNCHANGED <<status, input>>
    PROVE  IInv'
  <1> DEFINE n == Len(stack[p])
  <1>1. /\ status[p] = "running" /\ pc[p] = "return" /\ pc' = [pc EXCEPT ![p] = "wait"]
    BY DEF At, Runs, Goto
  <1>2. /\ pc \in [Pid -> Label] /\ status \in [Pid -> Ended \cup {"none", "running"}]
        /\ stack \in [Pid -> Seq(Nat)] /\ UNCHANGED Main
    BY DEF IInv, Shape, Main, Length
  <1>3. /\ stack'[p] \in Seq(Nat) /\ Len(stack'[p]) = n - 1 /\ stack'[p] # <<>>
        /\ begin(p)' = stack[p][n - 1] /\ begin(p) = stack[p][n] /\ stack'[p][1] = stack[p][1]
        /\ \A i \in 1..(n - 1) : stack'[p][i] = stack[p][i]
        /\ n \in Nat
    BY <1>2, Popped DEF begin
  <1>4. n - 1 \in 1..(n - 1) /\ (n - 1) + 1 = n
    BY <1>3
  <1>5. /\ stack[p][n - 1] + 1 < p /\ begin(p) = Half(stack[p][n - 1], p)
        /\ stack[p][n - 1] \in Nat /\ p \in Nat /\ begin(p) \in Nat
    <2>1. n - 1 \in 1..(Len(stack[p]) - 1) /\ n - 1 \in 1..Len(stack[p])
      BY <1>3
    <2>2. stack[p][n - 1] + 1 < p /\ stack[p][(n - 1) + 1] = Half(stack[p][n - 1], p)
      BY <2>1, <1>1 DEF IInv, Shape, Halved
    <2>3. QED
      BY <2>1, <2>2, <1>1, <1>3, <1>4, RunningFacts
  <1> HIDE DEF n
  <1>6. lo(p) = begin(p) /\ lo(p)' = begin(p)
    <2>1. mid(p)' = Half(stack[p][n - 1], p)
      BY <1>3 DEF mid, Half
    <2>2. QED
      BY <1>1, <1>2, <1>5, <2>1 DEF lo
  <1>7. Waits(p)' = 1..(n - 1) /\ Waits(p) = 1..(n - 1)
    BY <1>1, <1>2, <1>3 DEF Waits, n
  <1>8. \A q \in Pid \ {p} :
           /\ lo(q)' = lo(q) /\ Waits(q)' = Waits(q) /\ begin(q)' = begin(q)
           /\ Halved(q)' = Halved(q)
           /\ stack'[q] = stack[q] /\ pc'[q] = pc[q]
    BY <1>1, <1>2 DEF lo, Waits, begin, mid, Halved
  <1>9. Shape'
    <2>1. pc' \in [Pid -> Label] /\ stack' \in [Pid -> Seq(Nat)]
      BY <1>1, <1>2, <1>3 DEF Label
    <2>2. Halved(p)'
      <3>1. Halved(p)
        BY <1>1 DEF IInv, Shape
      <3>2. \A i \in 1..(Len(stack'[p]) - 1) :
               /\ i \in 1..(Len(stack[p]) - 1)
               /\ stack'[p][i] = stack[p][i] /\ stack'[p][i+1] = stack[p][i+1]
        BY <1>3 DEF n
      <3>3. QED
        BY <3>1, <3>2 DEF Halved
    <2>3. begin(p)' + 1 < p /\ begin(p)' <= p /\ begin(p)' < p
      BY <1>3, <1>5
    <2>4. status[Main] = "running" => stack'[Main][1] = 0
      BY <1>2, <1>3, <1>8 DEF IInv, Shape
    <2>5. \A q \in Pid :
          /\ pc'[q] = "ended" <=> status[q] # "running"
          /\ status[q] = "running" =>
                stack'[q] # <<>> /\ begin(q)' <= q /\ (q # 0 => begin(q)' < q)
          /\ pc'[q] \in {"fork", "wait", "merge", "copy"} => begin(q)' + 1 < q
          /\ pc'[q] \in {"start", "close"} => q = Main /\ Len(stack'[q]) = 1
      <3> TAKE q \in Pid
      <3>1. CASE q = p
        BY <3>1, <1>1, <1>2, <1>3, <2>3
      <3>2. CASE q # p
        BY <3>2, <1>8 DEF IInv, Shape
      <3>3. QED
        BY <3>1, <3>2
    <2>6. \A q \in Pid : status[q] = "running" => Halved(q)'
      BY <2>2, <1>8 DEF IInv, Shape
    <2>7. QED
      BY <1>2, <2>1, <2>4, <2>5, <2>6 DEF IInv, Shape
  <1>10. \A q \in Pid : status[q] = "running" => stack'[q][1] = stack[q][1]
    BY <1>3, <1>8
  <1>11. Children'
    <2> SUFFICES ASSUME NEW r \in Pid, status[r] = "running", NEW i \in Waits(r)'
                 PROVE  Child(stack[r][i], Half(stack[r][i], r))'
      BY DEF Children
    <2>1. i \in Waits(r) /\ stack'[r][i] = stack[r][i]
      BY <1>3, <1>7, <1>8
    <2>2. PICK x \in Nat, d \in Pid : x = stack[r][i] /\ d = Half(x, r)
      BY <2>1, WaitFacts
    <2>3. Child(x, d)
      BY <2>1, <2>2, WaitFacts
    <2>4. Child(x, d)'
      BY <2>3, <1>10 DEF Child
    <2>5. QED
      BY <2>1, <2>2, <2>4 DEF Half
  <1>12. Interior'
    BY <1>1, <1>2, <1>6, <1>8 DEF IInv, Interior, Fine
  <1>13. FailureReported'
    BY <1>2 DEF IInv, FailureReported
  <1>14. QED
    BY <1>9, <1>11, <1>12, <1>13 DEF IInv

-----------------------------------------------------------------------------
(* The specification *)

LEMMA InvInit == Init => IInv
  <1> SUFFICES ASSUME Init PROVE IInv
    OBVIOUS
  <1>1. Main \in Pid
    <2>1. PICK k \in 0..MaxLen : input \in [0..(k - 1) -> Value]
      BY ParSortAssumption DEF Init
    <2>2. k \in Nat /\ DOMAIN input = 0..(k - 1)
      BY <2>1, ParSortAssumption
    <2>3. Cardinality(0..(k - 1)) = k
      BY <2>2, FS_Interval
    <2>4. QED
      BY <2>1, <2>2, <2>3 DEF Main, Length, Pid
  <1> DEFINE M == Main
  <1>2. M \in Pid /\ M \in Nat
    BY <1>1, ParSortAssumption DEF Pid
  <1>3. /\ status = [p \in Pid |-> IF p = M THEN "running" ELSE "none"]
        /\ stack = [p \in Pid |-> IF p = M THEN <<0>> ELSE <<>>]
        /\ pc = [p \in Pid |-> IF p = M THEN "start" ELSE "ended"]
    BY DEF Init
  <1> HIDE DEF M
  <1>4. begin(M) = 0 /\ Len(stack[M]) = 1 /\ stack[M][1] = 0 /\ stack[M] # <<>>
    BY <1>2, <1>3 DEF begin, Last
  <1>5. Shape
    <2>1. /\ status \in [Pid -> Ended \cup {"none", "running"}] /\ pc \in [Pid -> Label]
          /\ stack \in [Pid -> Seq(Nat)]
      BY <1>3 DEF Label
    <2>2. ASSUME NEW p \in Pid PROVE status[p] = "running" => Halved(p)
      BY <1>2, <1>3, <1>4 DEF Halved
    <2>3. M = Main
      BY DEF M
    <2>4. \A p \in Pid : p # M =>
             status[p] = "none" /\ pc[p] = "ended"
      BY <1>3
    <2>5. status[M] = "running" /\ pc[M] = "start"
      BY <1>2, <1>3
    <2>6. M # 0 => 0 < M
      BY <1>2
    <2>7. ASSUME NEW p \in Pid
          PROVE  /\ pc[p] = "ended" <=> status[p] # "running"
                 /\ status[p] # "none" => p <= M /\ (p = 0 => M = 0)
                 /\ status[p] = "running" =>
                       stack[p] # <<>> /\ begin(p) <= p /\ (p # 0 => begin(p) < p)
                 /\ pc[p] \in {"fork", "wait", "merge", "copy"} => begin(p) + 1 < p
                 /\ pc[p] \in {"start", "close"} => p = M /\ Len(stack[p]) = 1
      <3>1. CASE p = M
        BY <3>1, <1>2, <1>4, <2>5, <2>6
      <3>2. CASE p # M
        BY <3>2, <2>4
      <3>3. QED
        BY <3>1, <3>2
    <2>8. stack[M][1] = 0 /\ status[M] # "none"
      BY <1>4, <2>5
    <2>9. QED
      BY <1>2, <2>1, <2>2, <2>3, <2>7, <2>8 DEF Shape
  <1>6. Children
    BY <1>2, <1>3, <1>4 DEF Children, Waits
  <1>7. Interior /\ FailureReported
    BY <1>2, <1>3, ParSortAssumption DEF Interior, FailureReported, Fine, M, Pid
  <1>8. QED
    BY <1>5, <1>6, <1>7 DEF IInv

\* A call divides its range only when that has two elements or more, also when
\* their number does not fit an unsigned int.
LEMMA Divides ==
    ASSUME NEW x \in Nat, x % UnsignedMod >= 2
    PROVE  x > 1
  <1>1. UnsignedMod \in Nat \ {0}
    BY ParSortAssumption
  <1>2. x = 0 => x % UnsignedMod = 0
    BY <1>1
  <1>3. x = 1 => x % UnsignedMod \in {0, 1}
    BY <1>1
  <1>4. QED
    BY <1>2, <1>3

\* What is said of the processes says nothing of ub, and so survives it.
LEMMA UndefinedInv == IInv /\ Undefined => IInv'
  BY DEF IInv, Shape, Children, Interior, FailureReported, Child, Halved, Waits, lo,
     begin, mid, Main, Length, Undefined

LEMMA StepInv ==
    ASSUME IInv, NEW p \in Pid, Step(p) \/ Kill(p)
    PROVE  IInv'
  <1>1. CASE Start(p)
    BY <1>1, MoveStep DEF Start, At, Runs, Label
  <1>2. CASE StartFails(p) \/ CloseFails(p) \/ ForkFails(p) \/ MergeIntoNull(p) \/ Kill(p)
    BY <1>2, EndStep DEF StartFails, CloseFails, ForkFails, MergeIntoNull, Kill, At, Runs, Ended
  <1>3. CASE Close(p)
    <2>1. At(p, "close") /\ End(p, "exit0") /\ Len(stack[p]) = 1
      BY <1>3 DEF Close, At, Runs, IInv, Shape
    <2>2. lo(p) = stack[p][1]
      BY <2>1 DEF lo, begin, Last, At, Runs
    <2>3. \A q \in Pid : stack[p][1] < q /\ q < p => status[q] \in Fine
      BY <2>1, <2>2 DEF IInv, Interior, At, Runs
    <2>4. QED
      BY <2>1, <2>3, EndStep DEF At, Runs, Ended
  <1>4. CASE Enter(p)
    <2>1. begin(p) \in Nat /\ p \in Nat /\ begin(p) <= p
      BY <1>4, RunningFacts DEF Enter, At, Runs, IInv, Shape
    <2>2. num_elements(p) >= 2 => begin(p) + 1 < p
      BY <2>1, Divides DEF num_elements
    <2>3. num_elements(p) \in Nat
      BY <2>1, ParSortAssumption DEF num_elements
    <2>4. PICK l \in {"sort", "return", "fork"} :
             Goto(p, l) /\ (l = "fork" => begin(p) + 1 < p)
      BY <1>4, <2>2, <2>3 DEF Enter
    <2>5. QED
      BY <1>4, <2>4, MoveStep DEF Enter, At, Runs, Label
  <1>5. CASE Qsort(p)
    BY <1>5, MoveStep DEF Qsort, At, Runs, Label
  <1>6. CASE Fork(p)
    BY <1>6, ForkStep
  <1>7. CASE Return(p)
    <2>0. At(p, "return")
      BY <1>7 DEF Return
    <2>1. CASE /\ Len(stack[p]) > 1 /\ Goto(p, "wait") /\ UNCHANGED <<status, input>>
               /\ stack' = [stack EXCEPT ![p] = Front(@)]
      BY <2>0, <2>1, ReturnStep
    <2>2. CASE /\ Len(stack[p]) = 1 /\ p = Main
               /\ Goto(p, "close") /\ UNCHANGED <<status, stack, input>>
      BY <2>0, <2>2, MoveStep DEF At, Runs, Label
    <2>3. CASE Len(stack[p]) = 1 /\ End(p, "exit0")
      <3>1. lo(p) = stack[p][1] /\ status[p] = "running"
        BY <1>7, <2>3 DEF Return, lo, begin, Last, At, Runs
      <3>2. \A q \in Pid : stack[p][1] < q /\ q < p => status[q] \in Fine
        BY <3>1 DEF IInv, Interior
      <3>3. QED
        BY <2>3, <3>1, <3>2, EndStep DEF Ended
    <2>4. QED
      BY <1>7, <2>1, <2>2, <2>3 DEF Return
  <1>8. CASE Wait(p)
    <2>1. CASE /\ status[mid(p)] = "exit0"
               /\ Goto(p, "merge") /\ UNCHANGED <<status, stack, input>>
      BY <1>8, <2>1, WaitedStep DEF Wait
    <2>2. CASE End(p, "exit1")
      BY <1>8, <2>2, EndStep DEF Wait, At, Runs, Ended
    <2>3. QED
      BY <1>8, <2>1, <2>2 DEF Wait
  <1>9. CASE Merge(p)
    BY <1>9, MoveStep DEF Merge, At, Runs, Label, IInv, Shape
  <1>10. CASE CopyBack(p)
    BY <1>10, MoveStep DEF CopyBack, At, Runs, Label
  <1>11. CASE MergeOverruns(p) \/ CopyOverflows(p)
    BY <1>11, UndefinedInv DEF MergeOverruns, CopyOverflows
  <1>12. QED
    BY <1>1, <1>2, <1>3, <1>4, <1>5, <1>6, <1>7, <1>8, <1>9, <1>10, <1>11 DEF Step

LEMMA InvCorrect == Spec => []IInv
  <1>1. IInv /\ [Next]_vars => IInv'
    <2>1. IInv /\ Next => IInv'
      BY StepInv DEF Next
    <2>2. IInv /\ UNCHANGED vars => IInv'
      BY DEF IInv, Shape, Children, Interior, FailureReported, Child, Halved, Waits, lo,
         begin, mid, Main, Length, vars
    <2>3. QED
      BY <2>1, <2>2
  <1>2. QED
    BY InvInit, <1>1, PTL DEF Spec

\* merge_sort reports every failure: when the first process exits with 0, each
\* process that was ever forked has exited with 0 (the WIFEXITED and WEXITSTATUS
\* tests after waitpid are enough, at any depth of the tree).
THEOREM FailuresAreReported == Spec => []FailureReported
  <1>1. IInv => FailureReported
    BY DEF IInv
  <1>2. QED
    BY <1>1, InvCorrect, PTL

\* No element of the shared mapping is read or written by two processes at once,
\* also when parents have failed and left their children to go on.
THEOREM NobodyInterferes == Spec => []NoInterference
  <1>1. IInv => NoInterference
    <2> SUFFICES ASSUME IInv PROVE NoInterference
      OBVIOUS
    <2>1. ASSUME NEW p \in Accessing, NEW q \in Accessing, q < p
          PROVE  Access(p) \cap Access(q) = {}
      <3>1. /\ p \in Pid /\ pc[p] \in {"sort", "merge", "copy"}
            /\ q \in Pid /\ pc[q] \in {"sort", "merge", "copy"}
        BY <2>1 DEF Accessing
      <3>2. status[p] = "running" /\ status[q] = "running" /\ lo(p) = begin(p)
        BY <3>1 DEF IInv, Shape, lo
      <3>3. q <= begin(p)
        BY <2>1, <3>1, <3>2, Apart
      <3>4. begin(p) \in Nat /\ begin(q) \in Nat /\ p \in Nat /\ q \in Nat
        BY <3>1, <3>2, RunningFacts
      <3>5. QED
        BY <3>3, <3>4 DEF Access
    <2>2. QED
      BY <2>1, ParSortAssumption DEF NoInterference, Accessing, Pid
  <1>2. QED
    BY <1>1, InvCorrect, PTL

-----------------------------------------------------------------------------
(* Counting and rearranging elements *)

LEMMA IntervalFinite == \A x, y \in Int : IsFiniteSet(x..y)
  BY FS_Interval

\* What a bijection is.
LEMMA BijectionMeans ==
    ASSUME NEW S, NEW T, NEW f \in Bijection(S, T)
    PROVE  /\ f \in [S -> T] /\ \A i, j \in S : f[i] = f[j] => i = j
           /\ \A t \in T : \E i \in S : f[i] = t
  <1>1. f \in [S -> T] /\ DOMAIN f = S
    BY DEF Bijection, Injection
  <1>2. QED
    BY <1>1 DEF Bijection, Injection, Surjection, IsInjective

LEMMA BijectionMade ==
    ASSUME NEW S, NEW T, NEW f \in [S -> T], \A i, j \in S : f[i] = f[j] => i = j,
           \A t \in T : \E i \in S : f[i] = t
    PROVE  f \in Bijection(S, T)
  <1>1. DOMAIN f = S
    OBVIOUS
  <1>2. QED
    BY <1>1 DEF Bijection, Injection, Surjection, IsInjective

\* How often a has v in S.
Times(a, v, S) == Cardinality({i \in S : a[i] = v})

\* A rearrangement has each value as often as the original.
LEMMA SameCount ==
    ASSUME NEW S, NEW T, IsFiniteSet(S), NEW f \in Bijection(S, T), NEW a, NEW c,
           \A i \in S : c[i] = a[f[i]], NEW v
    PROVE  Times(c, v, S) = Times(a, v, T)
  <1> DEFINE X == {i \in S : c[i] = v}
             Y == {i \in T : a[i] = v}
             g == [i \in X |-> f[i]]
  <1>1. /\ f \in [S -> T] /\ \A i, j \in S : f[i] = f[j] => i = j
        /\ \A t \in T : \E i \in S : f[i] = t
    BY BijectionMeans
  <1>2. g \in Bijection(X, Y)
    <2>1. /\ g \in [X -> Y] /\ \A i, j \in X : g[i] = g[j] => i = j
          /\ \A t \in Y : \E i \in X : g[i] = t
      BY <1>1
    <2> HIDE DEF X, Y, g
    <2>2. QED
      BY <2>1, BijectionMade
  <1>3. ExistsBijection(X, Y)
    BY <1>2 DEF ExistsBijection
  <1>4. X \in SUBSET S
    OBVIOUS
  <1> HIDE DEF X, Y, g
  <1>5. IsFiniteSet(X)
    BY <1>4, FS_Subset
  <1>6. Cardinality(Y) = Cardinality(X)
    BY <1>3, <1>5, FS_Bijection
  <1>7. QED
    BY <1>6 DEF X, Y, Times

Count(a, v, b, e) == Cardinality({i \in b..(e - 1) : a[i] = v})

LEMMA SameIs ==
    ASSUME NEW a, NEW c, NEW b, NEW e
    PROVE  SameElements(a, c, b, e) <=> \A v \in Value : Count(a, v, b, e) = Count(c, v, b, e)
  BY DEF SameElements, Count

LEMMA CountSplit ==
    ASSUME NEW a, NEW v, NEW b \in Int, NEW m \in Int, NEW e \in Int, b <= m, m <= e
    PROVE  Count(a, v, b, e) = Count(a, v, b, m) + Count(a, v, m, e)
  <1> DEFINE X == {i \in b..(m - 1) : a[i] = v}
             Y == {i \in m..(e - 1) : a[i] = v}
             Z == {i \in b..(e - 1) : a[i] = v}
  <1>1. IsFiniteSet(b..(m - 1)) /\ IsFiniteSet(m..(e - 1))
    BY IntervalFinite
  <1>2. X \in SUBSET (b..(m - 1)) /\ Y \in SUBSET (m..(e - 1))
    OBVIOUS
  <1>3. Z = X \cup Y /\ X \cap Y = {}
    OBVIOUS
  <1> HIDE DEF X, Y, Z
  <1>4. IsFiniteSet(X) /\ IsFiniteSet(Y)
    BY <1>1, <1>2, FS_Subset
  <1>5. Cardinality(X) \in Nat /\ Cardinality(Y) \in Nat
    BY <1>4, FS_CardinalityType
  <1>6. Cardinality(Z) = Cardinality(X) + Cardinality(Y) - Cardinality({})
    BY <1>3, <1>4, FS_Union
  <1>7. Cardinality(Z) = Cardinality(X) + Cardinality(Y)
    BY <1>5, <1>6, FS_EmptySet
  <1>8. QED
    BY <1>7 DEF X, Y, Z, Count

LEMMA SameCombined ==
    ASSUME NEW a, NEW c, NEW b \in Int, NEW m \in Int, NEW e \in Int, b <= m, m <= e,
           SameElements(a, c, b, m), SameElements(a, c, m, e)
    PROVE  SameElements(a, c, b, e)
  BY CountSplit, SameIs

LEMMA SameTransitive ==
    ASSUME NEW a, NEW c, NEW d, NEW b, NEW e,
           SameElements(a, c, b, e), SameElements(c, d, b, e)
    PROVE  SameElements(a, d, b, e)
  BY DEF SameElements

\* Ranges on which two arrays agree.
LEMMA Agree ==
    ASSUME NEW a, NEW c, NEW b \in Int, NEW e \in Int, \A i \in b..(e - 1) : c[i] = a[i]
    PROVE  /\ \A x \in Int, y \in Int :
                 b <= x /\ y <= e /\ SortedOn(a, x, y) => SortedOn(c, x, y)
           /\ \A d : SameElements(a, d, b, e) => SameElements(c, d, b, e)
           /\ SameElements(a, c, b, e)
  <1>1. ASSUME NEW x \in Int, NEW y \in Int, b <= x, y <= e, SortedOn(a, x, y)
        PROVE  SortedOn(c, x, y)
    <2>1. \A i \in x..(y - 2) : i \in b..(e - 1) /\ i + 1 \in b..(e - 1)
      BY <1>1
    <2>2. QED
      BY <1>1, <2>1 DEF SortedOn
  <1>2. \A v : {i \in b..(e - 1) : c[i] = v} = {i \in b..(e - 1) : a[i] = v}
    OBVIOUS
  <1>3. QED
    BY <1>1, <1>2 DEF SameElements

-----------------------------------------------------------------------------
(* Sequences of values in order *)

Ascending(s) == \A i \in 1..(Len(s) - 1) : s[i] <= s[i+1]

\* The first k elements of s are those that a has in T.
Drawn(s, a, k, T) == \E f \in Bijection(1..k, T) : \A i \in 1..k : s[i] = a[f[i]]

Arranged(s, a, b, e) ==
    s \in Seq(Value) /\ Len(s) = e - b /\ Drawn(s, a, e - b, b..(e - 1))

LEMMA CompareFacts ==
    ASSUME NEW l \in Int, NEW r \in Int
    PROVE  compare_i64(l, r) <= 0 <=> l <= r
  BY DEF compare_i64

\* Everything can be put in order ...
LEMMA OrderExists ==
    ASSUME NEW n \in Nat, NEW s \in [1..n -> Value]
    PROVE  \E f \in Bijection(1..n, 1..n) : \A i \in 1..(n - 1) : s[f[i]] <= s[f[i+1]]
  <1> DEFINE InOrder(t, f, k) == \A i \in 1..(k - 1) : t[f[i]] <= t[f[i+1]]
             Fails == {k \in Nat : \E t \in [1..k -> Value] :
                                      \A f \in Bijection(1..k, 1..k) : ~InOrder(t, f, k)}
  <1>1. ASSUME Fails # {} PROVE FALSE
    <2>1. Fails \subseteq Nat
      OBVIOUS
    <2>2. PICK k \in Fails : \A l \in Fails : k <= l
      <3> HIDE DEF Fails
      <3> QED
        BY <1>1, <2>1, Least
    <2>3. PICK t \in [1..k -> Value] : \A f \in Bijection(1..k, 1..k) : ~InOrder(t, f, k)
      BY <2>2
    <2>4. k \in Nat
      BY <2>2
    <2>5. CASE k = 0
      <3>1. [i \in 1..0 |-> 0] \in Bijection(1..0, 1..0)
        <4> DEFINE z == [i \in 1..0 |-> 0]
        <4>1. /\ z \in [1..0 -> 1..0] /\ \A i, j \in 1..0 : z[i] = z[j] => i = j
              /\ \A l \in 1..0 : \E i \in 1..0 : z[i] = l
          OBVIOUS
        <4> HIDE DEF z
        <4>2. z \in Bijection(1..0, 1..0)
          BY <4>1, BijectionMade
        <4> QED
          BY <4>2 DEF z
      <3>2. QED
        BY <2>3, <2>5, <3>1
    <2>6. CASE k # 0
      <3> DEFINE u == [i \in 1..(k - 1) |-> t[i]]
      <3>1. k - 1 \in Nat /\ k - 1 \notin Fails /\ u \in [1..(k - 1) -> Value]
        BY <2>2, <2>4, <2>6
      <3>2. PICK f \in Bijection(1..(k - 1), 1..(k - 1)) : InOrder(u, f, k - 1)
        BY <3>1
      <3>3. /\ f \in [1..(k - 1) -> 1..(k - 1)]
            /\ \A i, j \in 1..(k - 1) : f[i] = f[j] => i = j
            /\ \A l \in 1..(k - 1) : \E i \in 1..(k - 1) : f[i] = l
        <4> DEFINE N == 1..(k - 1)
        <4>1. f \in Bijection(N, N)
          BY <3>2
        <4> HIDE DEF N
        <4>2. /\ f \in [N -> N] /\ \A i, j \in N : f[i] = f[j] => i = j
              /\ \A l \in N : \E i \in N : f[i] = l
          BY <4>1, BijectionMeans
        <4>3. QED
          BY <4>2 DEF N
      <3>0. \A i \in 1..(k - 1) : f[i] \in 1..(k - 1)
        BY <3>3
      <3>4. \A i \in 1..(k - 2) : t[f[i]] <= t[f[i+1]]
        <4>0. /\ (k - 1) - 1 = k - 2
              /\ \A i \in 1..(k - 2) : i \in 1..(k - 1) /\ i + 1 \in 1..(k - 1)
          BY <2>4
        <4>1. \A i \in 1..(k - 2) :
                 /\ u[f[i]] <= u[f[i+1]]
                 /\ f[i] \in 1..(k - 1) /\ f[i+1] \in 1..(k - 1)
          <5>1. \A i \in 1..(k - 2) : u[f[i]] <= u[f[i+1]]
            BY <3>2, <4>0
          <5>2. QED
            BY <3>3, <4>0, <5>1
        <4>2. QED
          BY <4>1
      <3>5. t \in [1..k -> Int]
        BY ParSortAssumption
      <3> DEFINE Behind == {i \in 1..k : i = k \/ t[k] < t[f[i]]}
      <3>6. PICK j \in Behind : \A i \in Behind : j <= i
        <4>1. Behind \subseteq Nat /\ Behind # {}
          <5>1. k \in 1..k
            BY <2>4, <2>6
          <5>2. k \in Behind
            BY <5>1
          <5>3. Behind \subseteq Nat
            BY <2>4
          <5>4. QED
            BY <5>2, <5>3
        <4> HIDE DEF Behind
        <4> QED
          BY <4>1, Least
      <3>7. /\ j \in 1..k /\ (j # k => t[k] < t[f[j]])
            /\ \A i \in 1..(j - 1) : t[f[i]] <= t[k]
        <4>1. j \in 1..k /\ (j # k => t[k] < t[f[j]])
          BY <3>6
        <4>2. ASSUME NEW i \in 1..(j - 1) PROVE t[f[i]] <= t[k]
          <5>1. i \in 1..(k - 1) /\ i \notin Behind
            BY <4>1, <3>6, <2>4
          <5>2. ~(t[k] < t[f[i]])
            BY <5>1, <2>4
          <5>3. t[k] \in Int /\ t[f[i]] \in Int
            <6>1. k \in 1..k /\ f[i] \in 1..(k - 1)
              <7>1. f[i] \in 1..(k - 1)
                BY <5>1, <3>0
              <7>2. QED
                BY <7>1, <2>4, <2>6
            <6>2. f[i] \in 1..k
              BY <6>1, <2>4
            <6>3. QED
              BY <6>1, <6>2, <3>5
          <5>4. QED
            BY <5>2, <5>3
        <4>3. QED
          BY <4>1, <4>2
      <3> HIDE DEF Behind, u, Fails
      <3> DEFINE g == [i \in 1..k |-> IF i < j THEN f[i] ELSE IF i = j THEN k ELSE f[i-1]]
      <3>8. g \in Bijection(1..k, 1..k)
        <4>0. /\ j \in 1..k /\ k \in Nat \ {0}
              /\ \A i \in 1..(k - 1) : f[i] \in Int /\ 1 <= f[i] /\ f[i] < k
          <5>1. \A i \in 1..(k - 1) : f[i] \in Int /\ 1 <= f[i] /\ f[i] < k
            BY <2>4, <3>0
          <5>2. QED
            BY <2>4, <2>6, <3>7, <5>1
        <4>1. g \in [1..k -> 1..k]
          <5>1. \A i \in 1..k : i < j => i \in 1..(k - 1)
            BY <4>0
          <5>2. \A i \in 1..k : i > j => i - 1 \in 1..(k - 1)
            BY <4>0
          <5>3. \A i \in 1..k : g[i] \in 1..k
            BY <4>0, <5>1, <5>2
          <5>4. QED
            BY <5>3
        <4>2. ASSUME NEW x \in 1..k, NEW y \in 1..k, g[x] = g[y] PROVE x = y
          <5> DEFINE x1 == IF x < j THEN x ELSE x - 1
                     y1 == IF y < j THEN y ELSE y - 1
          <5>1. x # j => x1 \in 1..(k - 1) /\ g[x] = f[x1]
            BY <4>0
          <5>2. y # j => y1 \in 1..(k - 1) /\ g[y] = f[y1]
            BY <4>0
          <5>3. g[j] = k
            BY <4>0
          <5>4. CASE x # j /\ y # j
            <6>1. x1 = y1
              BY <5>1, <5>2, <5>4, <4>2, <3>3
            <6>2. QED
              BY <6>1, <5>4, <4>0
          <5>5. CASE x = j \/ y = j
            <6> HIDE DEF g, x1, y1
            <6> QED
              BY <5>1, <5>2, <5>3, <5>5, <4>0, <4>2
          <5>6. QED
            BY <5>4, <5>5
        <4>3. ASSUME NEW l \in 1..k PROVE \E i \in 1..k : g[i] = l
          <5>1. CASE l = k
            BY <5>1, <3>7
          <5>2. CASE l # k
            <6>1. PICK i \in 1..(k - 1) : f[i] = l
              BY <5>2, <3>3, <2>4
            <6>2. g[IF i < j THEN i ELSE i + 1] = l
              BY <6>1, <3>7, <2>4
            <6>3. (IF i < j THEN i ELSE i + 1) \in 1..k
              BY <2>4
            <6>4. QED
              BY <6>2, <6>3
          <5>3. QED
            BY <5>1, <5>2
        <4> HIDE DEF g
        <4>4. QED
          BY <4>1, <4>2, <4>3, BijectionMade
      <3>9. ASSUME NEW i \in 1..(k - 1) PROVE t[g[i]] <= t[g[i+1]]
        <4>1. CASE i + 1 < j
          BY <4>1, <3>4, <3>7, <2>4
        <4>2. CASE i + 1 = j
          BY <4>2, <3>7, <2>4
        <4>3. CASE i = j
          <5>1. g[i] = k /\ g[i+1] = f[j] /\ t[k] < t[f[j]]
            BY <4>3, <3>7, <2>4
          <5>2. t[k] \in Int /\ t[f[j]] \in Int
            <6>1. k \in 1..k /\ f[j] \in 1..(k - 1)
              <7>1. j \in 1..(k - 1)
                BY <4>3
              <7>2. f[j] \in 1..(k - 1)
                BY <7>1, <3>0
              <7>3. QED
                BY <7>2, <2>4, <2>6
            <6>2. f[j] \in 1..k
              BY <6>1, <2>4
            <6>3. QED
              <7> HIDE DEF g
              <7> QED
                BY <6>1, <6>2, <3>5
          <5>3. QED
            BY <5>1, <5>2
        <4>4. CASE i > j
          <5>1. g[i] = f[i-1] /\ g[i+1] = f[(i-1)+1] /\ i - 1 \in 1..(k - 2)
            BY <4>4, <3>7, <2>4
          <5>2. QED
            BY <5>1, <3>4
        <4>5. QED
          BY <4>1, <4>2, <4>3, <4>4, <3>7, <2>4
      <3>10. QED
        BY <2>3, <3>8, <3>9
    <2>7. QED
      BY <2>5, <2>6
  <1>2. n \notin Fails
    BY <1>1
  <1>3. QED
    BY <1>2

\* ... and so qsort does.
LEMMA QsortSorts ==
    ASSUME NEW s \in Seq(Value)
    PROVE  /\ qsort(s) \in Seq(Value) /\ Len(qsort(s)) = Len(s) /\ Ascending(qsort(s))
           /\ Drawn(qsort(s), s, Len(s), 1..Len(s))
  <1> DEFINE n == Len(s)
             D == DOMAIN s
             Out(f) == [i \in D |-> s[f[i]]]
             Outs == {Out(f) : f \in Bijection(D, D)}
             Good(t) == \A i \in 1..(n - 1) : compare_i64(t[i], t[i+1]) <= 0
  <1>1. n \in Nat /\ D = 1..n /\ s \in [1..n -> Value]
    BY LenProperties
  <1>2. \A f \in Bijection(D, D) : f \in [1..n -> 1..n]
    BY <1>1, BijectionMeans
  <1>3. PICK f \in Bijection(D, D) : \A i \in 1..(n - 1) : s[f[i]] <= s[f[i+1]]
    <2> HIDE DEF D, n
    <2>1. PICK f \in Bijection(1..n, 1..n) : \A i \in 1..(n - 1) : s[f[i]] <= s[f[i+1]]
      BY <1>1, OrderExists
    <2>2. QED
      BY <1>1, <2>1
  <1>4. Good(Out(f))
    <2>1. ASSUME NEW i \in 1..(n - 1) PROVE compare_i64(Out(f)[i], Out(f)[i+1]) <= 0
      <3>1. i \in D /\ i + 1 \in D /\ f[i] \in 1..n /\ f[i+1] \in 1..n
        BY <1>1, <1>2
      <3>2. s[f[i]] \in Int /\ s[f[i+1]] \in Int
        BY <1>1, <3>1, ParSortAssumption
      <3>3. s[f[i]] <= s[f[i+1]]
        BY <1>3
      <3>4. QED
        BY <3>1, <3>2, <3>3, CompareFacts
    <2>2. QED
      BY <2>1
  <1>5. qsort(s) = CHOOSE t \in Outs : Good(t)
    BY DEF qsort
  <1>6. Out(f) \in Outs
    OBVIOUS
  <1>7. qsort(s) \in Outs /\ Good(qsort(s))
    <2> HIDE DEF Outs, Good, Out
    <2> QED
      BY <1>4, <1>5, <1>6
  <1>8. PICK g \in Bijection(D, D) : qsort(s) = Out(g)
    BY <1>7
  <1>9. qsort(s) \in [1..n -> Value] /\ \A i \in 1..n : qsort(s)[i] = s[g[i]]
    BY <1>1, <1>2, <1>8
  <1>10. qsort(s) \in Seq(Value) /\ Len(qsort(s)) = n
    <2> DEFINE q == qsort(s)
    <2> HIDE DEF q
    <2>1. q \in [1..n -> Value]
      BY <1>9 DEF q
    <2> HIDE DEF n
    <2>2. q \in Seq(Value) /\ Len(q) = n
      BY <1>1, <2>1
    <2>3. QED
      BY <2>2 DEF q
  <1>11. Ascending(qsort(s))
    <2>1. ASSUME NEW i \in 1..(n - 1) PROVE qsort(s)[i] <= qsort(s)[i+1]
      <3>1. qsort(s)[i] \in Int /\ qsort(s)[i+1] \in Int
        <4>1. i \in 1..n /\ i + 1 \in 1..n
          BY <1>1
        <4>2. qsort(s)[i] \in Value /\ qsort(s)[i+1] \in Value
          BY <1>9, <4>1
        <4>3. QED
          BY <4>2, ParSortAssumption
      <3>2. compare_i64(qsort(s)[i], qsort(s)[i+1]) <= 0
        BY <1>7
      <3>3. QED
        BY <3>1, <3>2, CompareFacts
    <2>2. QED
      BY <1>10, <2>1 DEF Ascending
  <1>12. g \in Bijection(1..Len(s), 1..Len(s))
    BY <1>1, <1>8
  <1>13. QED
    BY <1>9, <1>10, <1>11, <1>12 DEF Drawn

-----------------------------------------------------------------------------
(* merge *)

\* One iteration of the loop of merge.
MergeStep(a, m, e, s) ==
    LET takeLeft == \/ s.right >= e
                    \/ s.left < m /\ compare_i64(a[s.left], a[s.right]) <= 0
    IN  IF takeLeft
        THEN [s EXCEPT !.left = @ + 1, !.dst = Append(@, a[s.left])]
        ELSE [s EXCEPT !.right = @ + 1, !.dst = Append(@, a[s.right])]

\* After k iterations, with l and r the next elements of the halves: dst holds the
\* elements before those in ascending order, none greater than what is left.
Taken(a, b, m, e, k, l, r, dst) ==
    /\ l \in b..m /\ r \in m..e /\ (l - b) + (r - m) = k
    /\ dst \in Seq(Value) /\ Len(dst) = k /\ Ascending(dst)
    /\ k > 0 /\ l < m => dst[k] <= a[l]
    /\ k > 0 /\ r < e => dst[k] <= a[r]
    /\ Drawn(dst, a, k, (b..(l - 1)) \cup (m..(r - 1)))

Merged(a, b, m, e, k, s) ==
    /\ s = [left |-> s.left, right |-> s.right, dst |-> s.dst]
    /\ Taken(a, b, m, e, k, s.left, s.right, s.dst)

\* The loop is a function on 0 .. e-b that starts at the two begins.
MergeLoop(g, a, b, m, e) ==
    /\ g[0] = [left |-> b, right |-> m, dst |-> <<>>]
    /\ \A k \in 1..(e - b) : g[k] = MergeStep(a, m, e, g[k-1])

LEMMA MergeUnfolds ==
    ASSUME NEW a, NEW b \in Int, NEW m \in Int, NEW e \in Int, b <= e
    PROVE  \E g : MergeLoop(g, a, b, m, e) /\ merge(a, b, m, e) = g[e - b].dst
  <1> DEFINE n == e - b
             W == {a[i] : i \in Int}
             V == [left : Int, right : Int, dst : Seq(W)]
             first == [left |-> b, right |-> m, dst |-> <<>>]
             next == [k \in Nat |-> [s \in V |-> MergeStep(a, m, e, s)]]
             Loop(g) == [k \in 0..n |-> IF k = 0 THEN first ELSE MergeStep(a, m, e, g[k-1])]
             h == CHOOSE g : g = Loop(g)
  <1>1. n \in Nat /\ first \in V
    BY EmptySeq
  <1>2. next \in [Nat -> [V -> V]]
    <2>1. ASSUME NEW s \in V PROVE MergeStep(a, m, e, s) \in V
      <3>1. /\ s.left \in Int /\ s.right \in Int /\ s.dst \in Seq(W)
            /\ a[s.left] \in W /\ a[s.right] \in W
        OBVIOUS
      <3> HIDE DEF W
      <3>2. Append(s.dst, a[s.left]) \in Seq(W) /\ Append(s.dst, a[s.right]) \in Seq(W)
        BY <3>1, AppendProperties
      <3>3. MergeStep(a, m, e, s) \in
               {[s EXCEPT !.left = @ + 1, !.dst = Append(@, a[s.left])],
                [s EXCEPT !.right = @ + 1, !.dst = Append(@, a[s.right])]}
        BY DEF MergeStep
      <3>4. [s EXCEPT !.left = @ + 1, !.dst = Append(@, a[s.left])] \in V
        <4> DEFINE d == Append(s.dst, a[s.left])
        <4> HIDE DEF d
        <4>1. d \in Seq(W) /\ s.left + 1 \in Int
          BY <3>1, <3>2 DEF d
        <4>2. [s EXCEPT !.left = @ + 1, !.dst = d] \in V
          BY <4>1
        <4>3. QED
          BY <4>2 DEF d
      <3>5. [s EXCEPT !.right = @ + 1, !.dst = Append(@, a[s.right])] \in V
        <4> DEFINE d == Append(s.dst, a[s.right])
        <4> HIDE DEF d
        <4>1. d \in Seq(W) /\ s.right + 1 \in Int
          BY <3>1, <3>2 DEF d
        <4>2. [s EXCEPT !.right = @ + 1, !.dst = d] \in V
          BY <4>1
        <4>3. QED
          BY <4>2 DEF d
      <3> HIDE DEF V
      <3>6. QED
        BY <3>3, <3>4, <3>5
    <2> HIDE DEF V
    <2>2. QED
      BY <2>1
  <1>3. PICK f \in [0..n -> V] : Unfolds(f, first, next, 0, n)
    <2> HIDE DEF V, next, n, first
    <2> QED
      BY <1>1, <1>2, RecursionExists
  <1>4. f = Loop(f)
    <2>1. f[0] = first /\ \A k \in 1..n : f[k] = next[k][f[k-1]]
      <3> HIDE DEF V, next, n, first
      <3>1. 0 + 1 = 1
        OBVIOUS
      <3>2. QED
        BY <1>3, <3>1 DEF Unfolds
    <2>2. ASSUME NEW k \in 1..n PROVE f[k] = MergeStep(a, m, e, f[k-1])
      <3>1. k \in Nat /\ k - 1 \in 0..n
        BY <1>1
      <3>2. f[k-1] \in V
        BY <3>1, <1>3
      <3> HIDE DEF V
      <3>3. next[k][f[k-1]] = MergeStep(a, m, e, f[k-1])
        BY <3>1, <3>2
      <3> HIDE DEF next, n, first
      <3>4. QED
        BY <2>1, <3>3
    <2> HIDE DEF V, next, n, first
    <2>3. \A k \in 0..n : f[k] = IF k = 0 THEN first ELSE MergeStep(a, m, e, f[k-1])
      BY <1>1, <2>1, <2>2
    <2>4. QED
      BY <1>3, <2>3
  <1>5. h = Loop(h)
    <2> HIDE DEF Loop
    <2> QED
      BY <1>4
  <1>6. merge(a, b, m, e) = h[n].dst
    BY DEF merge, MergeStep
  <1> HIDE DEF h
  <1>7. h[0] = first /\ \A k \in 1..n : h[k] = MergeStep(a, m, e, h[k-1])
    <2> HIDE DEF first
    <2>1. h[0] = first
      BY <1>1, <1>5
    <2>2. ASSUME NEW k \in 1..n PROVE h[k] = MergeStep(a, m, e, h[k-1])
      BY <1>1, <1>5
    <2>3. QED
      BY <2>1, <2>2
  <1>8. QED
    BY <1>6, <1>7 DEF MergeLoop

\* A bijection with one more pair.
LEMMA BijectionMore ==
    ASSUME NEW k \in Nat, NEW T, NEW f \in Bijection(1..k, T), NEW x, x \notin T
    PROVE  [i \in 1..(k + 1) |-> IF i = k + 1 THEN x ELSE f[i]]
             \in Bijection(1..(k + 1), T \cup {x})
  <1> DEFINE g == [i \in 1..(k + 1) |-> IF i = k + 1 THEN x ELSE f[i]]
  <1>1. /\ f \in [1..k -> T] /\ \A i, j \in 1..k : f[i] = f[j] => i = j
        /\ \A t \in T : \E i \in 1..k : f[i] = t
    BY BijectionMeans
  <1>2. \A i \in 1..k : i \in 1..(k + 1) /\ g[i] = f[i] /\ f[i] \in T
    BY <1>1
  <1>3. k + 1 \in 1..(k + 1) /\ g[k + 1] = x /\ \A i \in 1..(k + 1) : i = k + 1 \/ i \in 1..k
    OBVIOUS
  <1>4. g \in [1..(k + 1) -> T \cup {x}]
    <2>1. \A i \in 1..(k + 1) : g[i] \in T \cup {x}
      BY <1>2, <1>3
    <2>2. QED
      BY <2>1
  <1> HIDE DEF g
  <1>5. ASSUME NEW i \in 1..(k + 1), NEW j \in 1..(k + 1), g[i] = g[j] PROVE i = j
    <2>1. CASE i \in 1..k /\ j \in 1..k
      BY <1>1, <1>2, <1>5, <2>1
    <2>2. CASE ~(i \in 1..k /\ j \in 1..k)
      BY <1>2, <1>3, <1>5, <2>2
    <2>3. QED
      BY <2>1, <2>2
  <1>6. ASSUME NEW t \in T \cup {x} PROVE \E i \in 1..(k + 1) : g[i] = t
    <2>1. CASE t = x
      BY <1>3, <2>1
    <2>2. CASE t \in T
      BY <1>1, <1>2, <2>2
    <2>3. QED
      BY <2>1, <2>2
  <1>7. g \in Bijection(1..(k + 1), T \cup {x})
    BY <1>4, <1>5, <1>6, BijectionMade
  <1>8. QED
    BY <1>7 DEF g

\* Element x of a, which was not drawn yet, comes last.
LEMMA DrawnMore ==
    ASSUME NEW a, NEW k \in Nat, NEW s, NEW T, Drawn(s, a, k, T), NEW x, x \notin T,
           NEW d, \A i \in 1..k : d[i] = s[i], d[k + 1] = a[x]
    PROVE  Drawn(d, a, k + 1, T \cup {x})
  <1>0. PICK f \in Bijection(1..k, T) : \A i \in 1..k : s[i] = a[f[i]]
    BY DEF Drawn
  <1> DEFINE g == [i \in 1..(k + 1) |-> IF i = k + 1 THEN x ELSE f[i]]
  <1>2. g \in Bijection(1..(k + 1), T \cup {x})
    BY BijectionMore
  <1>3. ASSUME NEW i \in 1..(k + 1) PROVE d[i] = a[g[i]]
    <2>1. CASE i = k + 1
      BY <2>1
    <2>2. CASE i # k + 1
      <3>1. i \in 1..k
        BY <2>2
      <3>2. g[i] = f[i]
        BY <2>2
      <3>3. QED
        BY <1>0, <3>1, <3>2
    <2>3. QED
      BY <2>1, <2>2
  <1> HIDE DEF g
  <1>4. QED
    BY <1>2, <1>3 DEF Drawn

LEMMA AscendingMore ==
    ASSUME NEW k \in Nat, NEW s, NEW d, Len(s) = k, Len(d) = k + 1, Ascending(s),
           \A i \in 1..k : d[i] = s[i], k > 0 => s[k] <= d[k + 1]
    PROVE  Ascending(d)
  <1>1. ASSUME NEW i \in 1..k PROVE d[i] <= d[i+1]
    <2>1. CASE i = k
      BY <2>1
    <2>2. CASE i # k
      <3>1. i \in 1..(k - 1) /\ i + 1 \in 1..k
        BY <2>2
      <3>2. s[i] <= s[i+1]
        BY <3>1 DEF Ascending
      <3>3. QED
        BY <3>1, <3>2
    <2>3. QED
      BY <2>1, <2>2
  <1>2. QED
    BY <1>1 DEF Ascending

\* One more element, from the left half or from the right one.
LEMMA TakenLeft ==
    ASSUME NEW a, NEW b \in Int, NEW m \in Int, NEW e \in Int, b <= m, m <= e,
           \A i \in b..(e - 1) : a[i] \in Value, SortedOn(a, b, m),
           NEW k \in Nat, NEW l, NEW r, NEW s, Taken(a, b, m, e, k, l, r, s),
           l < m, r < e => a[l] <= a[r]
    PROVE  Taken(a, b, m, e, k + 1, l + 1, r, Append(s, a[l]))
  <1> DEFINE T == (b..(l - 1)) \cup (m..(r - 1))
             d == Append(s, a[l])
  <1>1. /\ l \in Int /\ r \in Int /\ b <= l /\ l <= m /\ m <= r /\ r <= e
        /\ (l - b) + (r - m) = k
    BY DEF Taken
  <1>2. /\ s \in Seq(Value) /\ Len(s) = k /\ Ascending(s)
        /\ k > 0 => s[k] <= a[l]
    BY DEF Taken
  <1>3. Drawn(s, a, k, T)
    BY DEF Taken
  <1>4. l \notin T /\ l \in b..(e - 1)
    BY <1>1
  <1>5. a[l] \in Value
    BY <1>4
  <1>6. l + 1 < m => a[l] <= a[l + 1]
    BY <1>1 DEF SortedOn
  <1>7. T \cup {l} = (b..(l + 1 - 1)) \cup (m..(r - 1))
    BY <1>1
  <1>8. l + 1 \in b..m /\ r \in m..e /\ (l + 1 - b) + (r - m) = k + 1
    BY <1>1
  <1> HIDE DEF T
  <1>9. /\ d \in Seq(Value) /\ Len(d) = k + 1 /\ \A i \in 1..k : d[i] = s[i]
        /\ d[k + 1] = a[l]
    BY <1>2, <1>5, AppendProperties
  <1> HIDE DEF d
  <1>10. Drawn(d, a, k + 1, T \cup {l})
    BY <1>3, <1>4, <1>9, DrawnMore
  <1>11. Ascending(d)
    BY <1>2, <1>9, AscendingMore
  <1>12. Drawn(d, a, k + 1, (b..(l + 1 - 1)) \cup (m..(r - 1)))
    BY <1>7, <1>10
  <1>13. Taken(a, b, m, e, k + 1, l + 1, r, d)
    BY <1>6, <1>8, <1>9, <1>11, <1>12 DEF Taken
  <1>14. QED
    BY <1>13 DEF d

\* ... and likewise from the right half.
LEMMA TakenRight ==
    ASSUME NEW a, NEW b \in Int, NEW m \in Int, NEW e \in Int, b <= m, m <= e,
           \A i \in b..(e - 1) : a[i] \in Value, SortedOn(a, m, e),
           NEW k \in Nat, NEW l, NEW r, NEW s, Taken(a, b, m, e, k, l, r, s),
           r < e, l < m => a[r] <= a[l]
    PROVE  Taken(a, b, m, e, k + 1, l, r + 1, Append(s, a[r]))
  <1> DEFINE T == (b..(l - 1)) \cup (m..(r - 1))
             d == Append(s, a[r])
  <1>1. /\ l \in Int /\ r \in Int /\ b <= l /\ l <= m /\ m <= r /\ r <= e
        /\ (l - b) + (r - m) = k
    BY DEF Taken
  <1>2. /\ s \in Seq(Value) /\ Len(s) = k /\ Ascending(s)
        /\ k > 0 => s[k] <= a[r]
    BY DEF Taken
  <1>3. Drawn(s, a, k, T)
    BY DEF Taken
  <1>4. r \notin T /\ r \in b..(e - 1)
    BY <1>1
  <1>5. a[r] \in Value
    BY <1>4
  <1>6. r + 1 < e => a[r] <= a[r + 1]
    BY <1>1 DEF SortedOn
  <1>7. T \cup {r} = (b..(l - 1)) \cup (m..(r + 1 - 1))
    BY <1>1
  <1>8. l \in b..m /\ r + 1 \in m..e /\ (l - b) + (r + 1 - m) = k + 1
    BY <1>1
  <1> HIDE DEF T
  <1>9. /\ d \in Seq(Value) /\ Len(d) = k + 1 /\ \A i \in 1..k : d[i] = s[i]
        /\ d[k + 1] = a[r]
    BY <1>2, <1>5, AppendProperties
  <1> HIDE DEF d
  <1>10. Drawn(d, a, k + 1, T \cup {r})
    BY <1>3, <1>4, <1>9, DrawnMore
  <1>11. Ascending(d)
    BY <1>2, <1>9, AscendingMore
  <1>12. Drawn(d, a, k + 1, (b..(l - 1)) \cup (m..(r + 1 - 1)))
    BY <1>7, <1>10
  <1>13. Taken(a, b, m, e, k + 1, l, r + 1, d)
    BY <1>6, <1>8, <1>9, <1>11, <1>12 DEF Taken
  <1>14. QED
    BY <1>13 DEF d

LEMMA MergedMade ==
    ASSUME NEW a, NEW b, NEW m, NEW e, NEW k, NEW l, NEW r, NEW d,
           Taken(a, b, m, e, k, l, r, d)
    PROVE  Merged(a, b, m, e, k, [left |-> l, right |-> r, dst |-> d])
  BY DEF Merged

LEMMA MergedStep ==
    ASSUME NEW a, NEW b \in Int, NEW m \in Int, NEW e \in Int, b <= m, m <= e,
           \A i \in b..(e - 1) : a[i] \in Value, SortedOn(a, b, m), SortedOn(a, m, e),
           NEW k \in Nat, k < e - b, NEW s, Merged(a, b, m, e, k, s)
    PROVE  Merged(a, b, m, e, k + 1, MergeStep(a, m, e, s))
  <1> DEFINE l == s.left
             r == s.right
             u == s.dst
  <1>1. s = [left |-> l, right |-> r, dst |-> u] /\ Taken(a, b, m, e, k, l, r, u)
    BY DEF Merged
  <1> HIDE DEF l, r, u
  <1>2. /\ l \in Int /\ r \in Int /\ b <= l /\ l <= m /\ m <= r /\ r <= e
        /\ (l - b) + (r - m) = k
    BY <1>1 DEF Taken
  <1>3. (l < m => a[l] \in Int) /\ (r < e => a[r] \in Int) /\ (l < m \/ r < e)
    <2>1. (l < m => l \in b..(e - 1)) /\ (r < e => r \in b..(e - 1)) /\ (l < m \/ r < e)
      BY <1>2
    <2>2. QED
      BY <2>1, ParSortAssumption
  <1> DEFINE c == r >= e \/ (l < m /\ compare_i64(a[l], a[r]) <= 0)
  <1>4. MergeStep(a, m, e, s) =
          IF c THEN [left |-> l + 1, right |-> r, dst |-> Append(u, a[l])]
               ELSE [left |-> l, right |-> r + 1, dst |-> Append(u, a[r])]
    <2> DEFINE ul == Append(u, a[l])
               ur == Append(u, a[r])
    <2>1. s.left = l /\ s.right = r /\ s.dst = u
      BY DEF l, r, u
    <2>2. MergeStep(a, m, e, s) = IF c THEN [s EXCEPT !.left = l + 1, !.dst = ul]
                                       ELSE [s EXCEPT !.right = r + 1, !.dst = ur]
      BY <2>1 DEF MergeStep
    <2> HIDE DEF ul, ur, c
    <2>3. s \in [left : Int, right : Int, dst : Seq(Value)] /\ l \in Int /\ r \in Int
      BY <1>1, <1>2 DEF Taken
    <2> DEFINE zl == [s EXCEPT !.left = l + 1, !.dst = ul]
               zr == [s EXCEPT !.right = r + 1, !.dst = ur]
    <2>4. zl = [left |-> l + 1, right |-> r, dst |-> ul]
      <3>1. zl = [s EXCEPT !.left = l + 1, !.dst = ul]
        OBVIOUS
      <3> HIDE DEF zl
      <3>2. QED
        BY <2>1, <2>3, <3>1
    <2>5. zr = [left |-> l, right |-> r + 1, dst |-> ur]
      <3>1. zr = [s EXCEPT !.right = r + 1, !.dst = ur]
        OBVIOUS
      <3> HIDE DEF zr
      <3>2. QED
        BY <2>1, <2>3, <3>1
    <2>6. QED
      BY <2>2, <2>4, <2>5 DEF ul, ur
  <1>5. CASE r >= e \/ (l < m /\ compare_i64(a[l], a[r]) <= 0)
    <2>1. l < m /\ (r < e => a[l] <= a[r])
      BY <1>2, <1>3, <1>5, CompareFacts
    <2>2. Taken(a, b, m, e, k + 1, l + 1, r, Append(u, a[l]))
      BY <1>1, <2>1, TakenLeft
    <2>3. QED
      BY <1>4, <1>5, <2>2, MergedMade
  <1>6. CASE ~(r >= e \/ (l < m /\ compare_i64(a[l], a[r]) <= 0))
    <2>1. r < e /\ (l < m => a[r] <= a[l])
      BY <1>2, <1>3, <1>6, CompareFacts
    <2>2. Taken(a, b, m, e, k + 1, l, r + 1, Append(u, a[r]))
      BY <1>1, <2>1, TakenRight
    <2>3. QED
      BY <1>4, <1>6, <2>2, MergedMade
  <1>7. QED
    BY <1>5, <1>6

\* merge makes one sorted sequence of two sorted halves.
LEMMA MergeSorts ==
    ASSUME NEW a, NEW b \in Int, NEW m \in Int, NEW e \in Int, b <= m, m <= e,
           \A i \in b..(e - 1) : a[i] \in Value, SortedOn(a, b, m), SortedOn(a, m, e)
    PROVE  Arranged(merge(a, b, m, e), a, b, e) /\ Ascending(merge(a, b, m, e))
  <1> DEFINE n == e - b
  <1>0. PICK h : MergeLoop(h, a, b, m, e) /\ merge(a, b, m, e) = h[e - b].dst
    <2>1. b <= e
      OBVIOUS
    <2>2. QED
      BY <2>1, MergeUnfolds
  <1>1. /\ h[0] = [left |-> b, right |-> m, dst |-> <<>>]
        /\ \A k \in 1..n : h[k] = MergeStep(a, m, e, h[k-1])
        /\ merge(a, b, m, e) = h[n].dst
    BY <1>0 DEF MergeLoop
  <1> DEFINE Fails == {k \in 0..n : ~Merged(a, b, m, e, k, h[k])}
  <1>2. n \in Nat
    OBVIOUS
  <1>3. ASSUME Fails # {} PROVE FALSE
    <2>1. PICK k \in Fails : \A i \in Fails : k <= i
      <3>1. Fails \subseteq Nat
        BY <1>2
      <3> HIDE DEF Fails
      <3> QED
        BY <1>3, <3>1, Least
    <2>2. CASE k = 0
      <3> DEFINE f == [i \in 1..0 |-> 0]
      <3>1. /\ f \in [1..0 -> {}] /\ \A i, j \in 1..0 : f[i] = f[j] => i = j
            /\ \A t \in {} : \E i \in 1..0 : f[i] = t
        OBVIOUS
      <3> HIDE DEF f
      <3>2. f \in Bijection(1..0, {})
        BY <3>1, BijectionMade
      <3>3. (b..(b - 1)) \cup (m..(m - 1)) = {}
        OBVIOUS
      <3>4. <<>> \in Seq(Value) /\ Len(<<>>) = 0 /\ Ascending(<<>>)
        BY EmptySeq DEF Ascending
      <3>5. Drawn(<<>>, a, 0, {})
        BY <3>2 DEF Drawn
      <3>6. Taken(a, b, m, e, 0, b, m, <<>>)
        <4> DEFINE z == <<>>
        <4>1. z \in Seq(Value) /\ Len(z) = 0 /\ Ascending(z) /\ Drawn(z, a, 0, {})
          BY <3>4, <3>5
        <4> HIDE DEF z
        <4>2. b \in b..m /\ m \in m..e /\ (b - b) + (m - m) = 0 /\ ~(0 > 0)
          OBVIOUS
        <4>3. Taken(a, b, m, e, 0, b, m, z)
          BY <3>3, <4>1, <4>2 DEF Taken
        <4>4. QED
          BY <4>3 DEF z
      <3>7. Merged(a, b, m, e, 0, [left |-> b, right |-> m, dst |-> <<>>])
        BY <3>6, MergedMade
      <3>8. QED
        BY <1>1, <2>1, <2>2, <3>7
    <2>3. CASE k # 0
      <3>1. k \in 1..n /\ k - 1 \in 0..n /\ k - 1 \notin Fails /\ k - 1 \in Nat
        BY <1>2, <2>1, <2>3
      <3>2. Merged(a, b, m, e, k - 1, h[k - 1])
        BY <3>1
      <3>3. k - 1 < e - b /\ (k - 1) + 1 = k
        BY <3>1
      <3>4. Merged(a, b, m, e, k, MergeStep(a, m, e, h[k - 1]))
        BY <3>1, <3>2, <3>3, MergedStep
      <3>5. QED
        BY <1>1, <2>1, <3>1, <3>4
    <2>4. QED
      BY <2>2, <2>3
  <1>4. n \notin Fails
    BY <1>3
  <1>5. Merged(a, b, m, e, n, h[n])
    BY <1>2, <1>4
  <1> DEFINE s == h[n]
  <1>6. Taken(a, b, m, e, n, s.left, s.right, s.dst)
    BY <1>5 DEF Merged
  <1> HIDE DEF s
  <1>7. s.left = m /\ s.right = e
    BY <1>6 DEF Taken
  <1>8. (b..(m - 1)) \cup (m..(e - 1)) = b..(e - 1)
    OBVIOUS
  <1>9. /\ s.dst \in Seq(Value) /\ Len(s.dst) = n /\ Ascending(s.dst)
        /\ Drawn(s.dst, a, n, b..(e - 1))
    BY <1>6, <1>7, <1>8 DEF Taken
  <1>10. merge(a, b, m, e) = s.dst
    BY <1>1 DEF s
  <1>11. QED
    BY <1>9, <1>10 DEF Arranged

-----------------------------------------------------------------------------
(* Writing a part of the array *)

\* What qsort is given is a part of the array.
LEMMA SliceDrawn ==
    ASSUME NEW a, NEW b \in Nat, NEW n \in Nat, \A i \in b..(b + n - 1) : a[i] \in Value,
           NEW s, s = Slice(a, b, b + n)
    PROVE  /\ s \in Seq(Value) /\ Len(s) = n
           /\ \A t : Drawn(t, s, n, 1..n) => Drawn(t, a, n, b..(b + n - 1))
  <1>1. s = [k \in 1..n |-> a[b + k - 1]]
    <2>1. (b + n) - b = n
      OBVIOUS
    <2>2. QED
      BY <2>1 DEF Slice
  <1>2. \A k \in 1..n : b + k - 1 \in b..(b + n - 1)
    OBVIOUS
  <1>3. s \in [1..n -> Value]
    BY <1>1, <1>2
  <1>4. s \in Seq(Value) /\ Len(s) = n
    BY <1>3
  <1>5. ASSUME NEW t, Drawn(t, s, n, 1..n) PROVE Drawn(t, a, n, b..(b + n - 1))
    <2>1. PICK f \in Bijection(1..n, 1..n) : \A i \in 1..n : t[i] = s[f[i]]
      BY <1>5 DEF Drawn
    <2>2. /\ f \in [1..n -> 1..n] /\ \A i, j \in 1..n : f[i] = f[j] => i = j
          /\ \A l \in 1..n : \E i \in 1..n : f[i] = l
      <3> DEFINE N == 1..n
      <3>1. f \in Bijection(N, N)
        BY <2>1
      <3> HIDE DEF N
      <3>2. /\ f \in [N -> N] /\ \A i, j \in N : f[i] = f[j] => i = j
            /\ \A l \in N : \E i \in N : f[i] = l
        BY <3>1, BijectionMeans
      <3>3. QED
        BY <3>2 DEF N
    <2> DEFINE g == [i \in 1..n |-> b + f[i] - 1]
    <2>3. /\ g \in [1..n -> b..(b + n - 1)] /\ \A i, j \in 1..n : g[i] = g[j] => i = j
          /\ \A x \in b..(b + n - 1) : \E i \in 1..n : g[i] = x
      <3>0. \A i \in 1..n : f[i] \in 1..n
        BY <2>2
      <3>1. \A i \in 1..n : f[i] \in 1..n /\ g[i] = b + f[i] - 1 /\ g[i] \in b..(b + n - 1)
        BY <3>0
      <3>2. g \in [1..n -> b..(b + n - 1)]
        BY <3>1
      <3>3. \A i, j \in 1..n : g[i] = g[j] => f[i] = f[j]
        BY <3>1
      <3>4. ASSUME NEW x \in b..(b + n - 1) PROVE \E i \in 1..n : g[i] = x
        <4>1. x - b + 1 \in 1..n
          OBVIOUS
        <4>2. PICK i \in 1..n : f[i] = x - b + 1
          BY <4>1, <2>2
        <4>3. g[i] = x
          BY <3>1, <4>2
        <4>4. QED
          BY <4>3
      <3>5. ASSUME NEW i \in 1..n, NEW j \in 1..n, g[i] = g[j] PROVE i = j
        BY <2>2, <3>3, <3>5
      <3> HIDE DEF g
      <3>6. QED
        BY <3>2, <3>4, <3>5
    <2>4. \A i \in 1..n : t[i] = a[g[i]]
      BY <1>1, <2>1, <2>2
    <2> HIDE DEF g
    <2>5. g \in Bijection(1..n, b..(b + n - 1))
      BY <2>3, BijectionMade
    <2>6. QED
      BY <2>4, <2>5 DEF Drawn
  <1>6. QED
    BY <1>4, <1>5

\* Writing a rearrangement in ascending order over the part it was drawn from.
LEMMA OverwriteSorts ==
    ASSUME NEW L \in Nat, NEW a \in [0..(L - 1) -> Value], NEW b \in Nat, NEW n \in Nat,
           b + n <= L,
           NEW s \in Seq(Value), Len(s) = n, Ascending(s), Drawn(s, a, n, b..(b + n - 1)),
           NEW c, c = Overwrite(a, b, s)
    PROVE  /\ c \in [0..(L - 1) -> Value]
           /\ \A i \in 0..(L - 1) : i < b \/ i >= b + n => c[i] = a[i]
           /\ SortedOn(c, b, b + n)
           /\ SameElements(c, a, b, b + n)
  <1>1. c = [i \in 0..(L - 1) |-> IF i \in b..(b + n - 1) THEN s[i - b + 1] ELSE a[i]]
    BY DEF Overwrite
  <1>2. \A i \in b..(b + n - 1) : i \in 0..(L - 1) /\ i - b + 1 \in 1..n
    OBVIOUS
  <1>3. \A k \in 1..n : s[k] \in Value
    BY ElementOfSeq
  <1>4. c \in [0..(L - 1) -> Value]
    BY <1>1, <1>2, <1>3
  <1>5. /\ \A i \in 0..(L - 1) : i < b \/ i >= b + n => c[i] = a[i]
        /\ \A i \in b..(b + n - 1) : c[i] = s[i - b + 1]
    BY <1>1, <1>2
  <1>6. SortedOn(c, b, b + n)
    <2>1. ASSUME NEW i \in b..((b + n) - 2) PROVE c[i] <= c[i+1]
      <3>1. /\ i \in b..(b + n - 1) /\ i + 1 \in b..(b + n - 1)
            /\ i - b + 1 \in 1..(n - 1) /\ (i + 1) - b + 1 = (i - b + 1) + 1
        OBVIOUS
      <3>2. s[i - b + 1] <= s[(i - b + 1) + 1]
        BY <3>1 DEF Ascending
      <3>3. QED
        BY <1>5, <3>1, <3>2
    <2>2. QED
      BY <2>1 DEF SortedOn
  <1>7. PICK f \in Bijection(1..n, b..(b + n - 1)) : \A i \in 1..n : s[i] = a[f[i]]
    BY DEF Drawn
  <1> DEFINE T == b..(b + n - 1)
             g == [i \in T |-> f[i - b + 1]]
  <1>8. /\ f \in [1..n -> T] /\ \A i, j \in 1..n : f[i] = f[j] => i = j
        /\ \A t \in T : \E i \in 1..n : f[i] = t
    <2> DEFINE N == 1..n
    <2>1. f \in Bijection(N, T)
      BY <1>7
    <2> HIDE DEF N, T
    <2>2. /\ f \in [N -> T] /\ \A i, j \in N : f[i] = f[j] => i = j
          /\ \A t \in T : \E i \in N : f[i] = t
      BY <2>1, BijectionMeans
    <2>3. QED
      BY <2>2 DEF N
  <1>9. /\ g \in [T -> T] /\ \A i, j \in T : g[i] = g[j] => i = j
        /\ \A t \in T : \E i \in T : g[i] = t
    <2>1. \A i \in T : i - b + 1 \in 1..n /\ g[i] = f[i - b + 1] /\ g[i] \in T
      BY <1>2, <1>8
    <2>2. g \in [T -> T]
      BY <2>1
    <2>3. \A i, j \in T : g[i] = g[j] => i - b + 1 = j - b + 1
      BY <1>8, <2>1
    <2>4. \A i, j \in T : g[i] = g[j] => i = j
      BY <2>3
    <2>5. ASSUME NEW t \in T PROVE \E i \in T : g[i] = t
      <3>1. PICK k \in 1..n : f[k] = t
        BY <1>8
      <3>2. b + k - 1 \in T /\ (b + k - 1) - b + 1 = k
        OBVIOUS
      <3>3. g[b + k - 1] = t
        BY <2>1, <3>1, <3>2
      <3>4. QED
        BY <3>2, <3>3
    <2>6. QED
      BY <2>2, <2>4, <2>5
  <1>10. \A i \in T : c[i] = a[g[i]]
    BY <1>2, <1>5, <1>7
  <1>11. IsFiniteSet(T)
    BY IntervalFinite
  <1>12. (b + n) - 1 = b + n - 1
    OBVIOUS
  <1> HIDE DEF g, T
  <1>13. g \in Bijection(T, T)
    BY <1>9, BijectionMade
  <1>14. \A v : Times(c, v, T) = Times(a, v, T)
    BY <1>10, <1>11, <1>13, SameCount
  <1>15. SameElements(c, a, b, b + n)
    BY <1>12, <1>14 DEF SameElements, Times, T
  <1>16. QED
    BY <1>4, <1>5, <1>6, <1>15

-----------------------------------------------------------------------------
(* is_sorted *)

SortStep(a, k, s) == [prev |-> a[k-1], sorted |-> s.sorted /\ a[k-1] >= s.prev]

SortLoop(g, a, n) ==
    /\ g[1] = [prev |-> a[0], sorted |-> TRUE]
    /\ \A k \in 2..n : g[k] = SortStep(a, k, g[k-1])

LEMMA IsSortedUnfolds ==
    ASSUME NEW a, NEW n \in Nat \ {0}
    PROVE  \E g : SortLoop(g, a, n) /\ (is_sorted(a, n) <=> g[n].sorted)
  <1> DEFINE W == {a[i] : i \in Int}
             V == [prev : W, sorted : BOOLEAN]
             first == [prev |-> a[0], sorted |-> TRUE]
             next == [k \in Nat |-> [s \in V |-> SortStep(a, k, s)]]
             Loop(g) == [k \in 1..n |-> IF k = 1 THEN first ELSE SortStep(a, k, g[k-1])]
             h == CHOOSE g : g = Loop(g)
  <1>1. n \in Nat /\ 1 \in Nat /\ 1 <= n /\ first \in V
    OBVIOUS
  <1>2. next \in [Nat -> [V -> V]]
    <2>1. ASSUME NEW k \in Nat, NEW s \in V PROVE SortStep(a, k, s) \in V
      <3>1. a[k-1] \in W /\ (s.sorted /\ a[k-1] >= s.prev) \in BOOLEAN
        OBVIOUS
      <3> DEFINE w == a[k-1]
                 o == s.sorted /\ a[k-1] >= s.prev
      <3>2. w \in W /\ o \in BOOLEAN
        BY <3>1
      <3> HIDE DEF w, o, W
      <3>3. [prev |-> w, sorted |-> o] \in V
        BY <3>2
      <3>4. QED
        BY <3>3 DEF SortStep, w, o
    <2> HIDE DEF V
    <2>2. QED
      BY <2>1
  <1>3. PICK f \in [1..n -> V] : Unfolds(f, first, next, 1, n)
    <2> HIDE DEF V, next, first
    <2> QED
      BY <1>1, <1>2, RecursionExists
  <1>4. f = Loop(f)
    <2>1. f[1] = first /\ \A k \in 2..n : f[k] = next[k][f[k-1]]
      <3> HIDE DEF V, next, first
      <3>1. 1 + 1 = 2
        OBVIOUS
      <3>2. QED
        BY <1>3, <3>1 DEF Unfolds
    <2>2. ASSUME NEW k \in 2..n PROVE f[k] = SortStep(a, k, f[k-1])
      <3>1. k \in Nat /\ k - 1 \in 1..n
        BY <1>1
      <3>2. f[k-1] \in V
        BY <3>1, <1>3
      <3> HIDE DEF V
      <3>3. next[k][f[k-1]] = SortStep(a, k, f[k-1])
        BY <3>1, <3>2
      <3> HIDE DEF next, first
      <3>4. QED
        BY <2>1, <3>3
    <2> HIDE DEF V, next, first
    <2>3. \A k \in 1..n : f[k] = IF k = 1 THEN first ELSE SortStep(a, k, f[k-1])
      BY <1>1, <2>1, <2>2
    <2>4. QED
      BY <1>3, <2>3
  <1>5. h = Loop(h)
    <2> HIDE DEF Loop
    <2> QED
      BY <1>4
  <1>6. is_sorted(a, n) <=> h[n].sorted
    BY DEF is_sorted, SortStep
  <1> HIDE DEF h
  <1>7. h[1] = first /\ \A k \in 2..n : h[k] = SortStep(a, k, h[k-1])
    <2> HIDE DEF first
    <2>1. h[1] = first
      BY <1>1, <1>5
    <2>2. ASSUME NEW k \in 2..n PROVE h[k] = SortStep(a, k, h[k-1])
      BY <1>1, <1>5
    <2>3. QED
      BY <2>1, <2>2
  <1>8. QED
    BY <1>6, <1>7 DEF SortLoop

\* is_sorted accepts the sorted files, and only those.
LEMMA IsSortedTells ==
    ASSUME NEW n \in Nat, NEW a \in [0..(n - 1) -> Value]
    PROVE  is_sorted(a, n) <=> SortedOn(a, 0, n)
  <1>1. CASE n = 0
    BY <1>1 DEF is_sorted, SortedOn
  <1>2. CASE n # 0
    <2>1. PICK g : SortLoop(g, a, n) /\ (is_sorted(a, n) <=> g[n].sorted)
      BY <1>2, IsSortedUnfolds
    <2> DEFINE Good(k) == g[k].prev = a[k-1] /\ (g[k].sorted <=> SortedOn(a, 0, k))
               Fails == {k \in 1..n : ~Good(k)}
    <2>2. ASSUME Fails # {} PROVE FALSE
      <3>1. PICK k \in Fails : \A i \in Fails : k <= i
        <4>1. Fails \subseteq Nat
          OBVIOUS
        <4> HIDE DEF Fails
        <4> QED
          BY <2>2, <4>1, Least
      <3>2. CASE k = 1
        <4>1. SortedOn(a, 0, 1)
          BY DEF SortedOn
        <4>2. g[1].prev = a[0] /\ g[1].sorted
          BY <2>1 DEF SortLoop
        <4>3. QED
          BY <3>1, <3>2, <4>1, <4>2
      <3>3. CASE k # 1
        <4>1. k \in 2..n /\ k - 1 \in 1..n /\ k - 1 \notin Fails /\ (k - 1) - 1 = k - 2
          BY <3>1, <3>3
        <4>2. g[k-1].prev = a[k-2] /\ (g[k-1].sorted <=> SortedOn(a, 0, k - 1))
          BY <4>1
        <4>3. g[k] = SortStep(a, k, g[k-1])
          BY <2>1, <4>1 DEF SortLoop
        <4>4. g[k].prev = a[k-1] /\ (g[k].sorted <=> g[k-1].sorted /\ a[k-1] >= g[k-1].prev)
          <5> DEFINE o == g[k-1].sorted /\ a[k-1] >= g[k-1].prev
          <5>1. g[k] = [prev |-> a[k-1], sorted |-> o]
            BY <4>3 DEF SortStep
          <5> HIDE DEF o
          <5>2. g[k].prev = a[k-1] /\ g[k].sorted = o
            BY <5>1
          <5>3. QED
            BY <5>2 DEF o
        <4>5. a[k-1] \in Int /\ a[k-2] \in Int
          <5>1. k - 1 \in 0..(n - 1) /\ k - 2 \in 0..(n - 1)
            BY <4>1
          <5>2. QED
            BY <5>1, ParSortAssumption
        <4>6. SortedOn(a, 0, k) <=> SortedOn(a, 0, k - 1) /\ a[k-2] <= a[k-1]
          <5>1. \A i : i \in 0..(k - 2) <=> i \in 0..((k - 1) - 2) \/ i = k - 2
            BY <4>1
          <5>2. (k - 2) + 1 = k - 1
            BY <4>1
          <5>3. QED
            BY <5>1, <5>2 DEF SortedOn
        <4>7. QED
          BY <3>1, <4>2, <4>4, <4>5, <4>6
      <3>4. QED
        BY <3>2, <3>3
    <2>3. n \in 1..n /\ n \notin Fails
      BY <1>2, <2>2
    <2>4. QED
      BY <2>1, <2>3
  <1>3. QED
    BY <1>1, <1>2

-----------------------------------------------------------------------------
(* What the array holds while it is sorted *)

\* The begins of the calls of p grow.
Ordered(p) == \A i, j \in 1..Len(stack[p]) : i <= j => stack[p][i] <= stack[p][j]

\* The calls of a process do not begin inside the range another one was started on.
Nested ==
    \A p, q \in Pid : status[p] = "running" /\ status[q] = "running" /\ q < p =>
        \A i \in 1..Len(stack[p]) : q <= stack[p][i] \/ stack[p][i] <= stack[q][1]

\* What merge_sort of [b, e) makes of the file c, as far as num_elements counts.
Result(a, c, b, e) ==
    SortedOn(a, b, b + ((e - b) % UnsignedMod)) /\ SameElements(a, c, b, e)

Untouched(a, c, b, e) == \A i \in b..(e - 1) : a[i] = c[i]

\* What a call for [b, e) has done when it is at label l, with t its temparr.
Owned(l, a, c, t, b, e) ==
    /\ l \in {"start", "enter", "sort", "fork"} => Untouched(a, c, b, e)
    /\ l \in {"return", "close"} => Result(a, c, b, e)
    /\ l \in {"wait", "merge"} => Result(a, c, Half(b, e), e)
    /\ l = "merge" => Result(a, c, b, Half(b, e))
    /\ l = "copy" => /\ SameElements(a, c, b, e) /\ Arranged(t, a, b, e) /\ Ascending(t)
                     /\ e - b < UnsignedMod
    /\ l # "copy" => t = NoTemp

Own(p) == Owned(pc[p], arr, input, temparr[p], begin(p), p)

\* Of the children p has not waited for, those that have succeeded have sorted
\* their halves.
Given(p) ==
    \A i \in Waits(p) :
        status[Half(stack[p][i], p)] = "exit0" =>
            Result(arr, input, stack[p][i], Half(stack[p][i], p))

Proper(p) == Ordered(p) /\ Own(p) /\ Given(p)

Data ==
    /\ input \in File
    /\ arr \in [DOMAIN input -> Value]
    /\ threshold \in 0..MaxThreshold
    /\ temparr \in [Pid -> Seq(Value) \cup {NoTemp}]

Contents ==
    /\ Data /\ Nested
    /\ \A p \in Pid : status[p] = "running" => Proper(p)
    /\ \A p \in Pid : status[p] # "running" => stack[p] = <<>> /\ temparr[p] = NoTemp
    /\ status[Main] = "exit0" => Result(arr, input, 0, Main)

-----------------------------------------------------------------------------

\* The file fills 0 .. Main-1.
LEMMA Extent ==
    ASSUME Data
    PROVE  /\ Main \in 0..MaxLen /\ Main \in Nat /\ DOMAIN input = 0..(Main - 1)
           /\ arr \in [0..(Main - 1) -> Value] /\ input \in [0..(Main - 1) -> Value]
  <1>1. PICK k \in 0..MaxLen : input \in [0..(k - 1) -> Value]
    BY ParSortAssumption DEF Data
  <1>2. k \in Nat /\ DOMAIN input = 0..(k - 1)
    BY <1>1, ParSortAssumption
  <1>3. Cardinality(0..(k - 1)) = k
    BY <1>2, FS_Interval
  <1>4. Main = k
    BY <1>2, <1>3 DEF Main, Length
  <1>5. QED
    BY <1>1, <1>2, <1>4 DEF Data

\* A range that num_elements counts is sorted as a whole.
LEMMA ResultWhole ==
    ASSUME NEW a, NEW c, NEW b \in Int, NEW e \in Int, b <= e, e - b < UnsignedMod,
           Result(a, c, b, e)
    PROVE  SortedOn(a, b, e) /\ SameElements(a, c, b, e)
  <1>1. UnsignedMod \in Nat \ {0}
    BY ParSortAssumption
  <1>2. (e - b) % UnsignedMod = e - b
    BY <1>1
  <1>3. b + (e - b) = e
    OBVIOUS
  <1>4. QED
    BY <1>2, <1>3 DEF Result

LEMMA ResultOnce ==
    ASSUME NEW a, NEW c, NEW b \in Int, NEW e \in Int, b <= e, e - b < UnsignedMod,
           SortedOn(a, b, e), SameElements(a, c, b, e)
    PROVE  Result(a, c, b, e)
  <1>1. UnsignedMod \in Nat \ {0}
    BY ParSortAssumption
  <1>2. (e - b) % UnsignedMod = e - b
    BY <1>1
  <1>3. b + (e - b) = e
    OBVIOUS
  <1>4. QED
    BY <1>2, <1>3 DEF Result

\* What is known of a range stays known when the range is not written to.
LEMMA RangeKept ==
    ASSUME NEW a, NEW a2, NEW c, NEW b \in Int, NEW e \in Int, b <= e,
           \A i \in b..(e - 1) : a2[i] = a[i]
    PROVE  /\ Result(a, c, b, e) => Result(a2, c, b, e)
           /\ Untouched(a, c, b, e) => Untouched(a2, c, b, e)
           /\ SameElements(a, c, b, e) => SameElements(a2, c, b, e)
           /\ \A t : Arranged(t, a, b, e) => Arranged(t, a2, b, e)
  <1>1. b + ((e - b) % UnsignedMod) \in Int /\ b + ((e - b) % UnsignedMod) <= e
    <2>1. UnsignedMod \in Nat \ {0} /\ e - b \in Nat
      BY ParSortAssumption
    <2>2. (e - b) % UnsignedMod \in Nat /\ (e - b) % UnsignedMod <= e - b
      BY <2>1
    <2>3. QED
      BY <2>2
  <1>2. Result(a, c, b, e) => Result(a2, c, b, e)
    <2> DEFINE y == b + ((e - b) % UnsignedMod)
    <2>1. y \in Int /\ y <= e /\ b <= b
      BY <1>1
    <2> HIDE DEF y
    <2>2. /\ SortedOn(a, b, y) => SortedOn(a2, b, y)
          /\ SameElements(a, c, b, e) => SameElements(a2, c, b, e)
      BY <2>1, Agree
    <2>3. QED
      BY <2>2 DEF Result, y
  <1>3. SameElements(a, c, b, e) => SameElements(a2, c, b, e)
    BY Agree
  <1>4. ASSUME NEW t, Arranged(t, a, b, e) PROVE Arranged(t, a2, b, e)
    <2> DEFINE n == e - b
               T == b..(e - 1)
    <2>1. PICK f \in Bijection(1..n, T) : \A i \in 1..n : t[i] = a[f[i]]
      BY <1>4 DEF Arranged, Drawn
    <2>2. \A i \in 1..n : f[i] \in T
      <3> DEFINE N == 1..n
      <3>1. f \in Bijection(N, T)
        BY <2>1
      <3> HIDE DEF N, T
      <3>2. f \in [N -> T]
        BY <3>1, BijectionMeans
      <3>3. QED
        BY <3>2 DEF N
    <2>3. \A i \in 1..n : t[i] = a2[f[i]]
      BY <2>1, <2>2
    <2> HIDE DEF n, T
    <2>4. Drawn(t, a2, n, T)
      BY <2>1, <2>3 DEF Drawn
    <2>5. QED
      BY <1>4, <2>4 DEF Arranged, n, T
  <1>5. QED
    BY <1>2, <1>3, <1>4 DEF Untouched

\* What the two invariants say of a running process.
LEMMA ProperFacts ==
    ASSUME IInv, Contents, NEW p \in Pid, status[p] = "running"
    PROVE  /\ p \in Nat /\ Main \in Nat /\ p <= Main
           /\ Len(stack[p]) \in Nat \ {0} /\ begin(p) \in Nat /\ begin(p) <= p
           /\ begin(p) = stack[p][Len(stack[p])]
           /\ \A i \in 1..Len(stack[p]) :
                 stack[p][i] \in Nat /\ stack[p][1] <= stack[p][i] /\ stack[p][i] <= begin(p)
           /\ stack[p][1] \in Nat /\ stack[p][1] <= begin(p)
           /\ \A i \in 0..(p - 1) : arr[i] \in Value
           /\ Proper(p)
  <1>1. /\ p \in Nat /\ Len(stack[p]) \in Nat \ {0} /\ begin(p) \in Nat
        /\ begin(p) = stack[p][Len(stack[p])]
        /\ \A i \in 1..Len(stack[p]) : stack[p][i] \in Nat
    BY RunningFacts
  <1>2. p <= Main /\ begin(p) <= p
    BY DEF IInv, Shape
  <1>3. Proper(p) /\ Main \in Nat /\ arr \in [0..(Main - 1) -> Value]
    BY Extent DEF Contents
  <1>4. 1 \in 1..Len(stack[p]) /\ Len(stack[p]) \in 1..Len(stack[p])
    BY <1>1
  <1>5. \A i \in 1..Len(stack[p]) : stack[p][1] <= stack[p][i] /\ stack[p][i] <= begin(p)
    BY <1>1, <1>3, <1>4 DEF Proper, Ordered
  <1>6. \A i \in 0..(p - 1) : i \in 0..(Main - 1)
    BY <1>1, <1>2, <1>3
  <1>7. QED
    BY <1>1, <1>2, <1>3, <1>4, <1>5, <1>6

\* Nothing a process relies on changes with a step of another one that does not
\* write to the array.
LEMMA ProperKept ==
    ASSUME IInv, NEW q \in Pid, status[q] = "running", Proper(q), UNCHANGED <<arr, input>>,
           stack'[q] = stack[q], pc'[q] = pc[q], temparr'[q] = temparr[q],
           \A i \in Waits(q) : LET c == Half(stack[q][i], q) IN
               status'[c] = "exit0" =>
                   status[c] = "exit0" \/ Result(arr, input, stack[q][i], c)
    PROVE  Proper(q)'
  <1>1. begin(q)' = begin(q) /\ Waits(q)' = Waits(q) /\ Main' = Main
    BY DEF begin, Waits, Main, Length
  <1>2. Ordered(q)'
    BY DEF Proper, Ordered
  <1>4. Own(q)'
    BY <1>1 DEF Proper, Own
  <1>5. Given(q)'
    <2> SUFFICES ASSUME NEW i \in Waits(q), status'[Half(stack[q][i], q)] = "exit0"
                 PROVE  Result(arr, input, stack[q][i], Half(stack[q][i], q))
      BY <1>1 DEF Given, Half
    <2>1. QED
      BY DEF Proper, Given
  <1>6. QED
    BY <1>2, <1>4, <1>5 DEF Proper

\* A step of p that starts nobody and does not write to the array.
LEMMA PlainStep ==
    ASSUME IInv, Contents, NEW p \in Pid, status[p] = "running",
           UNCHANGED <<arr, input, threshold>>,
           temparr' \in [Pid -> Seq(Value) \cup {NoTemp}],
           \A q \in Pid \ {p} : /\ stack'[q] = stack[q] /\ pc'[q] = pc[q]
                                /\ temparr'[q] = temparr[q] /\ status'[q] = status[q],
           status'[p] = "running" =>
               /\ Proper(p)'
               /\ Len(stack'[p]) \in 1..Len(stack[p])
               /\ \A i \in 1..Len(stack'[p]) : stack'[p][i] = stack[p][i],
           status'[p] # "running" => stack'[p] = <<>> /\ temparr'[p] = NoTemp,
           status'[p] = "exit0" =>
               Len(stack[p]) = 1 /\ Result(arr, input, begin(p), p)
    PROVE  Contents'
  <1>1. Data'
    BY DEF Contents, Data
  <1>2. Main' = Main
    BY DEF Main, Length
  <1>3. status'[p] = "exit0" => Result(arr, input, stack[p][1], p)
    BY RunningFacts
  <1>4. ASSUME NEW q \in Pid, status'[q] = "running" PROVE Proper(q)'
    <2>1. CASE q = p
      BY <1>4, <2>1
    <2>2. CASE q # p
      <3>1. status[q] = "running" /\ Proper(q)
        BY <1>4, <2>2 DEF Contents
      <3>2. ASSUME NEW i \in Waits(q), NEW c, c = Half(stack[q][i], q), status'[c] = "exit0"
            PROVE  status[c] = "exit0" \/ Result(arr, input, stack[q][i], c)
        <4>1. c \in Pid /\ Child(stack[q][i], c)
          BY <3>1, <3>2, WaitFacts
        <4>2. CASE c = p
          <5>1. stack[p][1] = stack[q][i]
            BY <4>1, <4>2 DEF Child
          <5>2. QED
            BY <1>3, <3>2, <4>2, <5>1
        <4>3. CASE c # p
          BY <3>2, <4>1, <4>3
        <4>4. QED
          BY <4>2, <4>3
      <3>3. QED
        BY <2>2, <3>1, <3>2, ProperKept
    <2>3. QED
      BY <2>1, <2>2
  <1>5. ASSUME NEW q \in Pid, status'[q] # "running"
        PROVE  stack'[q] = <<>> /\ temparr'[q] = NoTemp
    BY <1>5 DEF Contents
  <1>6. Nested'
    <2> SUFFICES ASSUME NEW x \in Pid, NEW y \in Pid, status'[x] = "running",
                        status'[y] = "running", y < x, NEW i \in 1..Len(stack'[x])
                 PROVE  y <= stack'[x][i] \/ stack'[x][i] <= stack'[y][1]
      BY DEF Nested
    <2>1. status[x] = "running" /\ status[y] = "running"
      OBVIOUS
    <2>2. i \in 1..Len(stack[x]) /\ stack'[x][i] = stack[x][i]
      <3>1. CASE x = p
        <4>1. Len(stack[p]) \in Nat
          BY RunningFacts
        <4>2. QED
          BY <3>1, <4>1
      <3>2. CASE x # p
        BY <3>2
      <3>3. QED
        BY <3>1, <3>2
    <2>3. stack'[y][1] = stack[y][1]
      BY RunningFacts
    <2>4. y <= stack[x][i] \/ stack[x][i] <= stack[y][1]
      BY <2>1, <2>2 DEF Contents, Nested
    <2>5. QED
      BY <2>2, <2>3, <2>4
  <1>7. status'[Main] = "exit0" => Result(arr, input, 0, Main)
    <2>1. CASE p = Main
      <3>1. stack[Main][1] = 0
        BY <2>1 DEF IInv, Shape
      <3>2. QED
        BY <1>3, <2>1, <3>1
    <2>2. CASE p # Main
      BY <2>2 DEF Contents, IInv, Shape
    <2>3. QED
      BY <2>1, <2>2
  <1>8. QED
    BY <1>1, <1>2, <1>4, <1>5, <1>6, <1>7 DEF Contents

\* The end of a process, with success only after what it was started for.
LEMMA EndContents ==
    ASSUME IInv, Contents, NEW p \in Pid, status[p] = "running",
           NEW how \in Ended, End(p, how),
           how = "exit0" => Len(stack[p]) = 1 /\ Result(arr, input, begin(p), p)
    PROVE  Contents'
  <1>1. /\ pc \in [Pid -> Label] /\ status \in [Pid -> Ended \cup {"none", "running"}]
        /\ stack \in [Pid -> Seq(Nat)] /\ temparr \in [Pid -> Seq(Value) \cup {NoTemp}]
    BY DEF IInv, Shape, Contents, Data
  <1>2. /\ UNCHANGED <<arr, input, threshold>>
        /\ temparr' \in [Pid -> Seq(Value) \cup {NoTemp}]
        /\ \A q \in Pid \ {p} : /\ stack'[q] = stack[q] /\ pc'[q] = pc[q]
                                /\ temparr'[q] = temparr[q] /\ status'[q] = status[q]
        /\ stack'[p] = <<>> /\ temparr'[p] = NoTemp /\ status'[p] = how
    BY <1>1 DEF End, Goto
  <1>3. how # "running"
    BY DEF Ended
  <1>4. QED
    BY <1>2, <1>3, PlainStep

\* p goes on in the same call.
LEMMA GoOn ==
    ASSUME IInv, Contents, NEW p \in Pid, status[p] = "running", NEW l \in Label, Goto(p, l),
           UNCHANGED <<arr, input, threshold, status, stack>>,
           NEW t, t \in Seq(Value) \cup {NoTemp}, temparr' = [temparr EXCEPT ![p] = t],
           pc[p] # "wait" => l # "wait",
           Owned(l, arr, input, t, begin(p), p)
    PROVE  Contents'
  <1>1. /\ pc \in [Pid -> Label] /\ temparr \in [Pid -> Seq(Value) \cup {NoTemp}]
    BY DEF IInv, Shape, Contents, Data
  <1>2. /\ temparr' \in [Pid -> Seq(Value) \cup {NoTemp}]
        /\ \A q \in Pid \ {p} : pc'[q] = pc[q] /\ temparr'[q] = temparr[q]
        /\ pc'[p] = l /\ temparr'[p] = t
    BY <1>1 DEF Goto
  <1>3. begin(p)' = begin(p) /\ Main' = Main /\ Proper(p)
    BY DEF begin, Main, Length, Contents
  <1>4. Len(stack[p]) \in Nat \ {0}
    BY RunningFacts
  <1>5. Waits(p)' \subseteq Waits(p)
    BY <1>2, <1>4 DEF Waits
  <1>6. Ordered(p)' /\ Own(p)'
    BY <1>2, <1>3 DEF Proper, Ordered, Own
  <1>8. Given(p)'
    BY <1>3, <1>5 DEF Proper, Given, Half
  <1>9. Proper(p)' /\ Len(stack[p]) \in 1..Len(stack[p])
    BY <1>4, <1>6, <1>8 DEF Proper
  <1>10. status[p] # "exit0"
    OBVIOUS
  <1>11. QED
    BY <1>2, <1>9, <1>10, PlainStep

LEMMA Unchanged ==
    ASSUME IInv, Contents, NEW p \in Pid, status[p] = "running"
    PROVE  /\ temparr[p] \in Seq(Value) \cup {NoTemp}
           /\ temparr = [temparr EXCEPT ![p] = temparr[p]]
           /\ Owned(pc[p], arr, input, temparr[p], begin(p), p)
  BY DEF Contents, Data, Proper, Own

LEMMA StartContents ==
    ASSUME IInv, Contents, NEW p \in Pid, Start(p)
    PROVE  Contents'
  <1>1. /\ status[p] = "running" /\ pc[p] = "start" /\ Goto(p, "enter")
        /\ UNCHANGED <<arr, input, threshold, status, stack, temparr>>
    BY DEF Start, At, Runs
  <1>2. Owned("enter", arr, input, temparr[p], begin(p), p)
    BY <1>1, Unchanged DEF Owned
  <1>3. "enter" \in Label /\ temparr' = [temparr EXCEPT ![p] = temparr[p]]
    BY <1>1, Unchanged DEF Label
  <1>4. QED
    BY <1>1, <1>2, <1>3, Unchanged, GoOn

LEMMA EnterContents ==
    ASSUME IInv, Contents, NEW p \in Pid, Enter(p)
    PROVE  Contents'
  <1>1. /\ status[p] = "running" /\ pc[p] = "enter"
        /\ UNCHANGED <<arr, input, threshold, status, stack, temparr>>
    BY DEF Enter, At, Runs
  <1> DEFINE b == begin(p)
             n == num_elements(p)
  <1>2. /\ p \in Nat /\ b \in Nat /\ b <= p /\ Main \in Nat /\ p <= Main
    BY <1>1, ProperFacts
  <1>3. n \in Nat /\ n = (p - b) % UnsignedMod
    BY <1>2, ParSortAssumption DEF num_elements
  <1>4. Untouched(arr, input, b, p) /\ temparr[p] = NoTemp
    BY <1>1, Unchanged DEF Owned
  <1> HIDE DEF b, n
  <1>5. /\ temparr[p] \in Seq(Value) \cup {NoTemp}
        /\ temparr' = [temparr EXCEPT ![p] = temparr[p]]
    BY <1>1, Unchanged
  <1>6. SameElements(arr, input, b, p)
    <2>1. b \in Int /\ p \in Int
      BY <1>2
    <2>2. \A i \in b..(p - 1) : arr[i] = input[i]
      BY <1>4 DEF Untouched
    <2>3. QED
      BY <2>1, <2>2, Agree
  <1>7. n < 2 => Result(arr, input, b, p)
    <2>1. n < 2 => SortedOn(arr, b, b + n)
      BY <1>2, <1>3 DEF SortedOn
    <2>2. QED
      BY <1>3, <1>6, <2>1 DEF Result
  <1>9. PICK l \in {"sort", "return", "fork"} :
           Goto(p, l) /\ (l = "return" => n < 2)
    BY <1>3 DEF Enter, n
  <1>10. Owned(l, arr, input, temparr[p], b, p)
    BY <1>4, <1>7, <1>9 DEF Owned
  <1>11. l \in Label /\ l # "wait"
    BY DEF Label
  <1>12. QED
    BY <1>1, <1>5, <1>9, <1>10, <1>11, GoOn DEF b

\* merge_sort returns to the call it was the right half of.
LEMMA PopContents ==
    ASSUME IInv, Contents, NEW p \in Pid, At(p, "return"), Len(stack[p]) > 1,
           stack' = [stack EXCEPT ![p] = Front(@)], Goto(p, "wait"),
           UNCHANGED <<arr, input, threshold, status, temparr>>
    PROVE  Contents'
  <1> DEFINE n == Len(stack[p])
  <1>1. /\ status[p] = "running" /\ pc[p] = "return" /\ pc' = [pc EXCEPT ![p] = "wait"]
        /\ pc \in [Pid -> Label] /\ stack \in [Pid -> Seq(Nat)]
        /\ temparr \in [Pid -> Seq(Value) \cup {NoTemp}]
    BY DEF At, Runs, Goto, IInv, Shape, Contents, Data
  <1>2. /\ Len(stack'[p]) = n - 1 /\ begin(p)' = stack[p][n - 1] /\ begin(p) = stack[p][n]
        /\ \A i \in 1..(n - 1) : stack'[p][i] = stack[p][i]
        /\ n \in Nat /\ n > 1
    BY <1>1, Popped DEF begin
  <1>3. begin(p) = Half(stack[p][n - 1], p)
    <2>1. n - 1 \in 1..(Len(stack[p]) - 1) /\ (n - 1) + 1 = n
      BY <1>2
    <2>2. QED
      BY <1>1, <1>2, <2>1 DEF IInv, Shape, Halved
  <1>4. Ordered(p) /\ Own(p) /\ Given(p)
    BY <1>1 DEF Contents, Proper
  <1> HIDE DEF n
  <1>5. \A i \in 1..(n - 1) : i \in 1..n
    BY <1>2
  <1>6. Ordered(p)'
    BY <1>2, <1>4, <1>5 DEF Ordered, n
  <1>8. Own(p)'
    <2>1. Result(arr, input, begin(p), p) /\ temparr[p] = NoTemp
      BY <1>1, <1>4 DEF Own, Owned
    <2>2. Owned("wait", arr, input, temparr[p], stack[p][n - 1], p)
      BY <1>3, <2>1 DEF Owned
    <2>3. QED
      BY <1>1, <1>2, <2>2 DEF Own
  <1>9. Given(p)'
    <2>1. Waits(p)' = 1..(n - 1) /\ Waits(p) = 1..(n - 1)
      BY <1>1, <1>2 DEF Waits, n
    <2>2. QED
      BY <1>2, <1>4, <2>1 DEF Given, Half
  <1>10. Proper(p)' /\ Len(stack'[p]) \in 1..Len(stack[p])
    BY <1>2, <1>6, <1>8, <1>9 DEF Proper, n
  <1>11. /\ \A q \in Pid \ {p} : stack'[q] = stack[q] /\ pc'[q] = pc[q]
         /\ \A i \in 1..Len(stack'[p]) : stack'[p][i] = stack[p][i]
    BY <1>1, <1>2
  <1>12. QED
    BY <1>1, <1>10, <1>11, PlainStep

LEMMA ReturnContents ==
    ASSUME IInv, Contents, NEW p \in Pid, Return(p)
    PROVE  Contents'
  <1>1. At(p, "return") /\ status[p] = "running" /\ pc[p] = "return"
    BY DEF Return, At, Runs
  <1>2. Result(arr, input, begin(p), p) /\ temparr[p] = NoTemp
    BY <1>1, Unchanged DEF Owned
  <1>3. CASE /\ Len(stack[p]) > 1 /\ stack' = [stack EXCEPT ![p] = Front(@)]
             /\ Goto(p, "wait") /\ UNCHANGED <<arr, input, threshold, status, temparr>>
    BY <1>1, <1>3, PopContents
  <1>4. CASE Goto(p, "close") /\ UNCHANGED <<arr, input, threshold, status, stack, temparr>>
    <2>1. Owned("close", arr, input, temparr[p], begin(p), p)
      BY <1>2 DEF Owned
    <2>2. "close" \in Label /\ temparr' = [temparr EXCEPT ![p] = temparr[p]]
      BY <1>1, <1>4, Unchanged DEF Label
    <2>3. QED
      BY <1>1, <1>4, <2>1, <2>2, Unchanged, GoOn
  <1>5. CASE Len(stack[p]) = 1 /\ End(p, "exit0")
    BY <1>1, <1>2, <1>5, EndContents DEF Ended
  <1>6. QED
    BY <1>3, <1>4, <1>5 DEF Return

\* main's own call is the only one on the stack when main closes the file.
LEMMA CloseContents ==
    ASSUME IInv, Contents, NEW p \in Pid, Close(p)
    PROVE  Contents'
  <1>1. status[p] = "running" /\ pc[p] = "close" /\ End(p, "exit0")
    BY DEF Close, At, Runs
  <1>2. Result(arr, input, begin(p), p)
    BY <1>1, Unchanged DEF Owned
  <1>3. Len(stack[p]) = 1
    BY <1>1 DEF IInv, Shape
  <1>4. QED
    BY <1>1, <1>2, <1>3, EndContents DEF Ended

LEMMA WaitContents ==
    ASSUME IInv, Contents, NEW p \in Pid, Wait(p)
    PROVE  Contents'
  <1>1. status[p] = "running" /\ pc[p] = "wait"
    BY DEF Wait, At, Runs
  <1>2. CASE /\ status[mid(p)] = "exit0" /\ Goto(p, "merge")
             /\ UNCHANGED <<arr, input, threshold, status, stack, temparr>>
    <2>1. /\ Len(stack[p]) \in Waits(p) /\ begin(p) = stack[p][Len(stack[p])]
          /\ mid(p) = Half(begin(p), p)
      BY <1>1, RunningFacts, MidIsHalf DEF Waits
    <2>2. Given(p)
      BY <1>1 DEF Contents, Proper
    <2>3. Result(arr, input, begin(p), Half(begin(p), p))
      BY <1>2, <2>1, <2>2 DEF Given
    <2>4. Result(arr, input, Half(begin(p), p), p) /\ temparr[p] = NoTemp
      BY <1>1, Unchanged DEF Owned
    <2>5. Owned("merge", arr, input, temparr[p], begin(p), p)
      BY <2>3, <2>4 DEF Owned
    <2>7. "merge" \in Label /\ temparr' = [temparr EXCEPT ![p] = temparr[p]]
      BY <1>1, <1>2, Unchanged DEF Label
    <2>8. QED
      BY <1>1, <1>2, <2>5, <2>7, Unchanged, GoOn
  <1>3. CASE End(p, "exit1")
    BY <1>1, <1>3, EndContents DEF Ended
  <1>4. QED
    BY <1>2, <1>3 DEF Wait

\* A process that divides its range divides it in front of its middle.
LEMMA Divided ==
    ASSUME IInv, Contents, NEW p \in Pid, pc[p] \in {"fork", "merge", "copy"}
    PROVE  /\ status[p] = "running" /\ begin(p) \in Nat /\ p \in Nat /\ p <= Main
           /\ begin(p) + 1 < p
           /\ mid(p) \in Nat /\ begin(p) < mid(p) /\ mid(p) < p /\ mid(p) = Half(begin(p), p)
           /\ \A i \in begin(p)..(p - 1) : arr[i] \in Value
  <1>1. status[p] = "running" /\ begin(p) + 1 < p
    BY DEF IInv, Shape
  <1>2. /\ begin(p) \in Nat /\ p \in Nat /\ p <= Main
        /\ \A i \in 0..(p - 1) : arr[i] \in Value
    BY <1>1, ProperFacts
  <1>3. mid(p) \in Nat /\ begin(p) < mid(p) /\ mid(p) < p /\ mid(p) = Half(begin(p), p)
    BY <1>1, <1>2, HalfBetween, MidIsHalf
  <1>4. \A i \in begin(p)..(p - 1) : i \in 0..(p - 1)
    BY <1>2
  <1>5. QED
    BY <1>1, <1>2, <1>3, <1>4

\* A range that fits temparr is counted by num_elements, and only such a range
\* is merged and copied back.
LEMMA Counted ==
    ASSUME IInv, Contents, NEW p \in Pid,
           pc[p] = "copy" \/ (pc[p] = "merge" /\ Fits(p))
    PROVE  p - begin(p) < UnsignedMod /\ num_elements(p) = p - begin(p)
  <1>1. status[p] = "running" /\ begin(p) \in Nat /\ p \in Nat /\ begin(p) + 1 < p
    BY Divided
  <1>2. UnsignedMod \in Nat \ {0} /\ p - begin(p) \in Nat
    BY <1>1, ParSortAssumption
  <1>3. p - begin(p) < UnsignedMod
    <2>1. CASE pc[p] = "copy"
      BY <1>1, <2>1, Unchanged DEF Owned
    <2>2. CASE Fits(p)
      <3>1. num_elements(p) < UnsignedMod /\ num_elements(p) \in Nat
        BY <1>2 DEF num_elements
      <3>2. QED
        BY <1>2, <2>2, <3>1 DEF Fits
    <2>3. QED
      BY <2>1, <2>2
  <1>4. QED
    BY <1>2, <1>3 DEF num_elements

\* At a merge both halves are sorted, and as the file had them.
LEMMA HalvesSorted ==
    ASSUME IInv, Contents, NEW p \in Pid, pc[p] = "merge", Fits(p)
    PROVE  /\ SortedOn(arr, begin(p), mid(p)) /\ SameElements(arr, input, begin(p), mid(p))
           /\ SortedOn(arr, mid(p), p) /\ SameElements(arr, input, mid(p), p)
  <1> DEFINE b == begin(p)
             m == mid(p)
  <1>1. /\ status[p] = "running" /\ b \in Nat /\ m \in Nat /\ p \in Nat /\ b < m /\ m < p
        /\ p - b < UnsignedMod /\ m = Half(b, p)
    BY Divided, Counted
  <1>2. Result(arr, input, b, m) /\ Result(arr, input, m, p)
    BY <1>1, Unchanged DEF Owned
  <1> HIDE DEF b, m
  <1>3. /\ b <= m /\ m - b < UnsignedMod /\ m <= p /\ p - m < UnsignedMod
        /\ b \in Int /\ m \in Int /\ p \in Int
    BY <1>1, ParSortAssumption
  <1>4. QED
    BY <1>2, <1>3, ResultWhole DEF b, m

LEMMA MergeContents ==
    ASSUME IInv, Contents, NEW p \in Pid, Merge(p)
    PROVE  Contents'
  <1> DEFINE b == begin(p)
             m == mid(p)
             t == merge(arr, b, m, p)
  <1>1. /\ pc[p] = "merge" /\ Fits(p)
        /\ Goto(p, "copy") /\ temparr' = [temparr EXCEPT ![p] = t]
        /\ UNCHANGED <<arr, input, threshold, status, stack>>
    BY DEF Merge, At, Runs
  <1>2. /\ status[p] = "running" /\ b \in Nat /\ m \in Nat /\ p \in Nat /\ b < m /\ m < p
        /\ p - b < UnsignedMod
        /\ \A i \in b..(p - 1) : arr[i] \in Value
    BY <1>1, Divided, Counted
  <1>3. /\ SortedOn(arr, b, m) /\ SameElements(arr, input, b, m)
        /\ SortedOn(arr, m, p) /\ SameElements(arr, input, m, p)
    BY <1>1, HalvesSorted
  <1> HIDE DEF b, m
  <1>4. b \in Int /\ m \in Int /\ p \in Int /\ b <= m /\ m <= p
    BY <1>2
  <1>5. Arranged(t, arr, b, p) /\ Ascending(t)
    BY <1>2, <1>3, <1>4, MergeSorts
  <1>6. SameElements(arr, input, b, p)
    BY <1>3, <1>4, SameCombined
  <1> HIDE DEF t
  <1>7. t \in Seq(Value) \cup {NoTemp}
    BY <1>5 DEF Arranged
  <1>8. Owned("copy", arr, input, t, b, p)
    BY <1>2, <1>5, <1>6 DEF Owned
  <1>9. "copy" \in Label
    BY DEF Label
  <1>10. QED
    BY <1>1, <1>2, <1>7, <1>8, <1>9, GoOn DEF b

LEMMA OwnedKept ==
    ASSUME NEW l, NEW a, NEW a2, NEW c, NEW t, NEW b \in Nat, NEW e \in Nat, b <= e,
           Owned(l, a, c, t, b, e),
           \A i \in (IF l = "wait" THEN Half(b, e) ELSE b)..(e - 1) : a2[i] = a[i]
    PROVE  Owned(l, a2, c, t, b, e)
  <1> DEFINE h == Half(b, e)
  <1>1. h \in Int /\ b <= h /\ h <= e /\ b \in Int /\ e \in Int
    BY DEF Half
  <1> HIDE DEF h
  <1>2. l # "wait" => \A i \in b..(e - 1) : a2[i] = a[i]
    OBVIOUS
  <1>3. \A i \in h..(e - 1) : a2[i] = a[i]
    BY <1>1 DEF h
  <1>4. l # "wait" => \A i \in b..(h - 1) : a2[i] = a[i]
    BY <1>1, <1>2
  <1>5. Result(a, c, h, e) => Result(a2, c, h, e)
    BY <1>1, <1>3, RangeKept
  <1>6. l # "wait" => (Result(a, c, b, h) => Result(a2, c, b, h))
    BY <1>1, <1>4, RangeKept
  <1>7. l # "wait" => /\ Untouched(a, c, b, e) => Untouched(a2, c, b, e)
                      /\ Result(a, c, b, e) => Result(a2, c, b, e)
                      /\ SameElements(a, c, b, e) => SameElements(a2, c, b, e)
                      /\ Arranged(t, a, b, e) => Arranged(t, a2, b, e)
    BY <1>1, <1>2, RangeKept
  <1>8. QED
    BY <1>5, <1>6, <1>7 DEF Owned, h

\* No child that has succeeded, and that its parent has not waited for, has its
\* half where p is writing.
LEMMA HalfClear ==
    ASSUME IInv, Contents, NEW p \in Pid, status[p] = "running", pc[p] \in {"sort", "copy"},
           NEW r \in Pid, status[r] = "running", NEW i \in Waits(r),
           NEW x, x = stack[r][i], NEW c, c = Half(x, r), status[c] = "exit0"
    PROVE  x \in Nat /\ c \in Nat /\ x < c /\ c < r /\ (p <= x \/ c <= begin(p))
  <1>1. /\ i \in 1..Len(stack[r]) /\ x \in Nat /\ x < c /\ c \in Pid /\ Child(x, c)
        /\ r \in Nat
    BY WaitFacts
  <1>2. /\ p \in Nat /\ begin(p) \in Nat /\ begin(p) <= p /\ Len(stack[p]) \in Nat \ {0}
        /\ stack[p][1] <= begin(p) /\ stack[p][1] \in Nat
        /\ \A j \in 1..Len(stack[p]) : stack[p][j] <= begin(p)
    BY ProperFacts
  <1>3. /\ Len(stack[r]) \in Nat \ {0} /\ begin(r) = stack[r][Len(stack[r])]
        /\ begin(r) \in Nat
        /\ begin(r) <= r
    BY ProperFacts
  <1>4. c \in Nat /\ c < r
    <2>1. x + 1 < r
      <3>1. CASE i \in 1..(Len(stack[r]) - 1)
        BY <3>1 DEF IInv, Shape, Halved
      <3>2. CASE i \notin 1..(Len(stack[r]) - 1)
        <4>1. pc[r] = "wait" /\ i = Len(stack[r])
          BY <3>2, <1>1, <1>3 DEF Waits
        <4>2. QED
          BY <4>1, <1>3 DEF IInv, Shape
      <3>3. QED
        BY <3>1, <3>2
    <2>2. QED
      BY <1>1, <2>1, HalfBetween
  <1>5. ~(x < p /\ p < c) /\ p # c
    BY <1>1 DEF Child, Fine
  <1>6. CASE p < c
    BY <1>1, <1>2, <1>4, <1>5, <1>6
  <1>7. CASE p = r
    <2>1. pc[r] # "wait"
      BY <1>7
    <2>2. i \in 1..(Len(stack[p]) - 1) /\ i + 1 \in 1..Len(stack[p])
      BY <1>2, <1>7, <2>1 DEF Waits
    <2>3. stack[p][i + 1] = c
      BY <1>7, <2>2 DEF IInv, Shape, Halved
    <2>4. QED
      BY <1>1, <1>2, <1>4, <2>2, <2>3
  <1>8. CASE r < p
    <2>1. lo(p) = begin(p)
      BY DEF lo
    <2>2. r <= begin(p)
      BY <1>8, <2>1, Apart
    <2>3. QED
      BY <1>1, <1>2, <1>4, <2>2
  <1>9. CASE c < p /\ p < r
    <2>1. p <= lo(r)
      BY <1>9, Apart
    <2>2. i \in 1..(Len(stack[r]) - 1)
      <3>1. SUFFICES ASSUME i \notin 1..(Len(stack[r]) - 1) PROVE FALSE
        OBVIOUS
      <3>2. pc[r] = "wait" /\ i = Len(stack[r])
        BY <3>1, <1>1, <1>3 DEF Waits
      <3>3. lo(r) = c
        BY <3>2, <1>3, MidIsHalf DEF lo
      <3>4. QED
        BY <1>2, <1>4, <1>9, <2>1, <3>3
    <2>3. stack[r][i + 1] = c /\ i + 1 \in 1..Len(stack[r])
      <3>1. stack[r][i + 1] = c
        BY <2>2 DEF IInv, Shape, Halved
      <3>2. QED
        BY <2>2, <1>3, <3>1
    <2>4. p <= c \/ c <= stack[p][1]
      BY <1>9, <2>3 DEF Contents, Nested
    <2>5. QED
      BY <1>1, <1>2, <1>4, <1>9, <2>4
  <1>10. QED
    BY <1>1, <1>2, <1>4, <1>5, <1>6, <1>7, <1>8, <1>9

\* p writes the result of its innermost call.
LEMMA WriteContents ==
    ASSUME IInv, Contents, NEW p \in Pid, status[p] = "running", pc[p] \in {"sort", "copy"},
           arr' \in [0..(Main - 1) -> Value],
           \A i \in 0..(Main - 1) : i < begin(p) \/ i >= p => arr'[i] = arr[i],
           Result(arr', input, begin(p), p),
           UNCHANGED <<input, threshold, status, stack>>, Goto(p, "return"),
           temparr' = [temparr EXCEPT ![p] = NoTemp]
    PROVE  Contents'
  <1> DEFINE b == begin(p)
  <1>1. /\ pc \in [Pid -> Label] /\ temparr \in [Pid -> Seq(Value) \cup {NoTemp}]
        /\ Main' = Main /\ lo(p) = b
    BY DEF IInv, Shape, Contents, Data, Main, Length, lo
  <1>2. /\ \A q \in Pid \ {p} : pc'[q] = pc[q] /\ temparr'[q] = temparr[q]
        /\ pc'[p] = "return" /\ temparr'[p] = NoTemp
        /\ temparr' \in [Pid -> Seq(Value) \cup {NoTemp}]
    BY <1>1 DEF Goto
  <1>3. /\ p \in Nat /\ b \in Nat /\ Main \in Nat /\ p <= Main /\ b <= p
        /\ Len(stack[p]) \in Nat \ {0} /\ Proper(p)
    BY ProperFacts
  <1>4. \A q \in Pid : begin(q)' = begin(q)
    BY DEF begin
  <1> HIDE DEF b
  <1>5. Data'
    BY <1>1, <1>2, Extent DEF Contents, Data
  <1>6. ASSUME NEW x \in Int, NEW y \in Int, 0 <= x, y <= Main, y <= b \/ p <= x
        PROVE  \A i \in x..(y - 1) : arr'[i] = arr[i]
    <2>1. \A i \in x..(y - 1) : i \in 0..(Main - 1) /\ (i < b \/ i >= p)
      BY <1>3, <1>6
    <2>2. QED
      BY <2>1 DEF b
  <1>7. ASSUME NEW q \in Pid, status[q] = "running" PROVE Own(q)'
    <2>1. CASE q = p
      <3>1. Owned("return", arr', input, NoTemp, b, p)
        BY DEF Owned, b
      <3>2. QED
        BY <2>1, <3>1, <1>2, <1>4 DEF Own, b
    <2>2. CASE q # p
      <3>1. /\ q \in Nat /\ begin(q) \in Nat /\ begin(q) <= q /\ q <= Main /\ Proper(q)
        BY <1>7, ProperFacts
      <3>2. lo(q) = IF pc[q] = "wait" THEN Half(begin(q), q) ELSE begin(q)
        BY MidIsHalf DEF lo
      <3>3. lo(q) \in Int /\ 0 <= lo(q)
        BY <3>1, <3>2 DEF Half
      <3>4. q <= b \/ p <= lo(q)
        <4>1. CASE q < p
          BY <4>1, <1>1, <1>7, Apart
        <4>2. CASE p < q
          BY <4>2, <1>7, Apart
        <4>3. QED
          BY <4>1, <4>2, <2>2, <3>1, <1>3
      <3>5. \A i \in lo(q)..(q - 1) : arr'[i] = arr[i]
        BY <1>6, <3>1, <3>3, <3>4
      <3>6. Owned(pc[q], arr, input, temparr[q], begin(q), q)
        BY <3>1 DEF Proper, Own
      <3>7. Owned(pc[q], arr', input, temparr[q], begin(q), q)
        BY <3>1, <3>2, <3>5, <3>6, OwnedKept
      <3>8. QED
        BY <2>2, <3>7, <1>2, <1>4 DEF Own
    <2>3. QED
      BY <2>1, <2>2
  <1>8. ASSUME NEW q \in Pid, status[q] = "running" PROVE Given(q)'
    <2>1. Waits(q)' \subseteq Waits(q)
      <3>1. CASE q = p
        BY <3>1, <1>2, <1>3 DEF Waits
      <3>2. CASE q # p
        BY <3>2, <1>2 DEF Waits
      <3>3. QED
        BY <3>1, <3>2
    <2>2. SUFFICES ASSUME NEW i \in Waits(q), status[Half(stack[q][i], q)] = "exit0"
                   PROVE  Result(arr', input, stack[q][i], Half(stack[q][i], q))
      BY <2>1 DEF Given, Half
    <2>3. PICK x, c : x = stack[q][i] /\ c = Half(x, q)
      OBVIOUS
    <2>4. x \in Nat /\ c \in Nat /\ x < c /\ c < q /\ (p <= x \/ c <= b)
      BY <1>8, <2>2, <2>3, HalfClear DEF b
    <2>5. Result(arr, input, x, c)
      BY <1>8, <2>2, <2>3 DEF Contents, Proper, Given
    <2>6. q \in Nat /\ q <= Main
      BY <1>8, ProperFacts
    <2>7. x \in Int /\ c \in Int /\ 0 <= x /\ c <= Main /\ x <= c
      BY <1>3, <2>4, <2>6
    <2>8. \A j \in x..(c - 1) : arr'[j] = arr[j]
      BY <1>6, <2>4, <2>7
    <2>9. Result(arr', input, x, c)
      BY <2>5, <2>7, <2>8, RangeKept
    <2>10. QED
      BY <2>3, <2>9
  <1>9. ASSUME NEW q \in Pid, status[q] = "running" PROVE Ordered(q)'
    BY <1>9 DEF Contents, Proper, Ordered
  <1>10. \A q \in Pid : status[q] = "running" => Proper(q)'
    BY <1>7, <1>8, <1>9 DEF Proper
  <1>11. ASSUME NEW q \in Pid, status[q] # "running"
         PROVE  stack[q] = <<>> /\ temparr'[q] = NoTemp
    BY <1>2, <1>11 DEF Contents
  <1>12. status[Main] # "exit0"
    BY DEF IInv, FailureReported
  <1>13. Nested'
    BY DEF Contents, Nested
  <1>14. QED
    BY <1>1, <1>5, <1>10, <1>11, <1>12, <1>13 DEF Contents

LEMMA QsortContents ==
    ASSUME IInv, Contents, NEW p \in Pid, Qsort(p)
    PROVE  Contents'
  <1> DEFINE b == begin(p)
             n == num_elements(p)
             u == Slice(arr, b, b + n)
             s == qsort(u)
  <1>1. /\ status[p] = "running" /\ pc[p] = "sort" /\ Goto(p, "return")
        /\ arr' = Overwrite(arr, b, s)
        /\ UNCHANGED <<input, threshold, status, stack, temparr>>
    BY DEF Qsort, At, Runs
  <1>2. /\ p \in Nat /\ b \in Nat /\ b <= p /\ Main \in Nat /\ p <= Main
        /\ \A i \in 0..(p - 1) : arr[i] \in Value
    BY <1>1, ProperFacts
  <1>3. n \in Nat /\ n <= p - b /\ n = (p - b) % UnsignedMod
    <2>1. UnsignedMod \in Nat \ {0} /\ p - b \in Nat
      BY <1>2, ParSortAssumption
    <2>2. QED
      BY <2>1 DEF num_elements
  <1>4. Untouched(arr, input, b, p) /\ temparr[p] = NoTemp
        /\ temparr = [temparr EXCEPT ![p] = temparr[p]]
    BY <1>1, Unchanged DEF Owned
  <1>5. arr \in [0..(Main - 1) -> Value]
    BY Extent DEF Contents
  <1> HIDE DEF b, n, s, u
  <1>6. \A i \in b..(b + n - 1) : arr[i] \in Value
    <2>1. \A i \in b..(b + n - 1) : i \in 0..(p - 1)
      BY <1>2, <1>3
    <2>2. QED
      BY <1>2, <2>1
  <1>7. u \in Seq(Value) /\ Len(u) = n
        /\ \A t : Drawn(t, u, n, 1..n) => Drawn(t, arr, n, b..(b + n - 1))
    BY <1>2, <1>3, <1>6, SliceDrawn DEF u
  <1>8. s \in Seq(Value) /\ Len(s) = n /\ Ascending(s) /\ Drawn(s, u, n, 1..n)
    BY <1>7, QsortSorts DEF s
  <1>9. Drawn(s, arr, n, b..(b + n - 1)) /\ b + n <= Main
    BY <1>2, <1>3, <1>7, <1>8
  <1>10. /\ arr' \in [0..(Main - 1) -> Value]
         /\ \A i \in 0..(Main - 1) : i < b \/ i >= b + n => arr'[i] = arr[i]
         /\ SortedOn(arr', b, b + n)
         /\ SameElements(arr', arr, b, b + n)
    <2>1. PICK c : c = arr'
      OBVIOUS
    <2>2. c = Overwrite(arr, b, s)
      BY <1>1, <2>1
    <2>3. b \in Nat /\ n \in Nat /\ Main \in Nat /\ b + n <= Main
      BY <1>2, <1>3, <1>9
    <2>4. s \in Seq(Value) /\ Len(s) = n /\ Ascending(s) /\ Drawn(s, arr, n, b..(b + n - 1))
      BY <1>8, <1>9
    <2>5. /\ c \in [0..(Main - 1) -> Value]
          /\ \A i \in 0..(Main - 1) : i < b \/ i >= b + n => c[i] = arr[i]
          /\ SortedOn(c, b, b + n)
          /\ SameElements(c, arr, b, b + n)
      BY <1>5, <2>2, <2>3, <2>4, OverwriteSorts
    <2>6. QED
      BY <2>1, <2>5
  <1>11. SameElements(arr', input, b, p)
    <2>1. \A i \in b..((b + n) - 1) : i \in b..(p - 1)
      BY <1>2, <1>3
    <2>2. \A i \in b..((b + n) - 1) : arr[i] = input[i]
      BY <1>4, <2>1 DEF Untouched
    <2>3. \A i \in (b + n)..(p - 1) : arr'[i] = input[i]
      <3>1. \A i \in (b + n)..(p - 1) : i \in b..(p - 1) /\ i \in 0..(Main - 1) /\ i >= b + n
        BY <1>2, <1>3
      <3>2. QED
        BY <1>4, <1>10, <3>1 DEF Untouched
    <2>4. b \in Int /\ b + n \in Int /\ p \in Int /\ b <= b + n /\ b + n <= p
      BY <1>2, <1>3
    <2>5. SameElements(arr, input, b, b + n)
      BY <2>2, <2>4, Agree
    <2>6. SameElements(arr', input, b, b + n)
      BY <1>10, <2>5, SameTransitive
    <2>7. SameElements(arr', input, b + n, p)
      BY <2>3, <2>4, Agree
    <2>8. QED
      BY <2>4, <2>6, <2>7, SameCombined
  <1>12. Result(arr', input, b, p)
    BY <1>3, <1>10, <1>11 DEF Result
  <1>13. \A i \in 0..(Main - 1) : i < b \/ i >= p => arr'[i] = arr[i]
    BY <1>2, <1>3, <1>10
  <1>14. temparr' = [temparr EXCEPT ![p] = NoTemp]
    BY <1>1, <1>4
  <1>15. QED
    BY <1>1, <1>10, <1>12, <1>13, <1>14, WriteContents DEF b

LEMMA CopyBackContents ==
    ASSUME IInv, Contents, NEW p \in Pid, CopyBack(p)
    PROVE  Contents'
  <1> DEFINE b == begin(p)
             t == temparr[p]
             n == p - b
  <1>1. /\ status[p] = "running" /\ pc[p] = "copy" /\ Goto(p, "return")
        /\ arr' = Overwrite(arr, b, SubSeq(t, 1, num_elements(p)))
        /\ temparr' = [temparr EXCEPT ![p] = NoTemp]
        /\ UNCHANGED <<input, threshold, status, stack>>
    BY DEF CopyBack, At, Runs
  <1>2. /\ p \in Nat /\ b \in Nat /\ n \in Nat /\ b + n <= Main /\ b + n = p
        /\ num_elements(p) = n /\ n < UnsignedMod /\ b <= p
    <2>1. /\ p \in Nat /\ b \in Nat /\ p <= Main /\ num_elements(p) = p - b /\ b + 1 < p
          /\ p - b < UnsignedMod
      BY <1>1, Divided, Counted
    <2>2. Main \in Nat
      BY Extent DEF Contents
    <2>3. QED
      BY <2>1, <2>2
  <1>3. SameElements(arr, input, b, p) /\ Arranged(t, arr, b, p) /\ Ascending(t)
    BY <1>1, Unchanged DEF Owned
  <1>4. arr \in [0..(Main - 1) -> Value] /\ Main \in Nat
    BY Extent DEF Contents
  <1> HIDE DEF b, t
  <1>5. /\ t \in Seq(Value) /\ Len(t) = n
        /\ Drawn(t, arr, n, b..(b + n - 1))
    <2>1. b + n - 1 = p - 1
      BY <1>2
    <2>2. QED
      BY <1>3, <2>1 DEF Arranged
  <1> HIDE DEF n
  <1>6. SubSeq(t, 1, n) = t
    BY <1>5, SubSeqFull
  <1>7. arr' = Overwrite(arr, b, t)
    BY <1>1, <1>2, <1>6
  <1>8. /\ arr' \in [0..(Main - 1) -> Value]
        /\ \A i \in 0..(Main - 1) : i < b \/ i >= b + n => arr'[i] = arr[i]
        /\ SortedOn(arr', b, b + n)
        /\ SameElements(arr', arr, b, b + n)
    BY <1>2, <1>3, <1>4, <1>5, <1>7, OverwriteSorts
  <1>9. SameElements(arr', input, b, p) /\ SortedOn(arr', b, p)
    BY <1>2, <1>3, <1>8, SameTransitive
  <1>10. Result(arr', input, b, p)
    BY <1>2, <1>9, ResultOnce DEF n
  <1>11. \A i \in 0..(Main - 1) : i < b \/ i >= p => arr'[i] = arr[i]
    BY <1>2, <1>8
  <1>12. QED
    BY <1>1, <1>8, <1>10, <1>11, WriteContents DEF b

\* fork divides the range of p, with what was in it.
LEMMA ForkContents ==
    ASSUME IInv, Contents, NEW p \in Pid, Fork(p)
    PROVE  Contents'
  <1> SUFFICES ASSUME NEW b, b = begin(p), NEW c, c = mid(p), NEW n, n = Len(stack[p])
               PROVE  Contents'
    OBVIOUS
  <1>1. /\ status[p] = "running" /\ pc[p] = "fork"
        /\ status' = [status EXCEPT ![c] = "running"]
        /\ stack' = [stack EXCEPT ![c] = <<b>>, ![p] = Append(stack[p], c)]
        /\ pc' = [pc EXCEPT ![c] = "enter", ![p] = "enter"]
        /\ UNCHANGED <<arr, input, threshold, temparr>>
    BY DEF Fork, At, Runs
  <1>2. /\ pc \in [Pid -> Label] /\ status \in [Pid -> Ended \cup {"none", "running"}]
        /\ stack \in [Pid -> Seq(Nat)] /\ UNCHANGED Main
    BY <1>1 DEF IInv, Shape, Main, Length
  <1>3. /\ b \in Nat /\ p \in Nat /\ c \in Nat /\ b < c /\ c < p /\ c = Half(b, p)
        /\ p <= Main
    BY <1>1, Divided
  <1>4. /\ n \in Nat \ {0} /\ b = stack[p][n]
        /\ \A i \in 1..n : stack[p][i] \in Nat /\ stack[p][i] <= b
        /\ stack[p][1] <= b /\ stack[p][1] \in Nat
        /\ Proper(p)
    BY <1>1, ProperFacts
  <1>5. c \in Pid
    BY <1>3, ParSortAssumption DEF Pid
  <1>6. lo(p) = b
    BY <1>1 DEF lo
  <1>7. \A q \in Pid : b < q /\ q < p => status[q] = "none"
    BY <1>1, <1>6 DEF IInv, Interior
  <1>8. /\ stack'[p] = Append(stack[p], c) /\ stack'[c] = <<b>>
        /\ Len(stack'[p]) = n + 1 /\ stack'[p][1] = stack[p][1] /\ stack'[p][n + 1] = c
        /\ \A i \in 1..n : stack'[p][i] = stack[p][i]
        /\ begin(p)' = c
    <2>1. stack[p] \in Seq(Nat) /\ stack[p] # <<>>
      BY <1>1, <1>2 DEF IInv, Shape
    <2>2. stack'[p] = Append(stack[p], c) /\ stack'[c] = <<b>>
      BY <1>1, <1>2, <1>3, <1>5
    <2>3. begin(p)' = Last(Append(stack[p], c))
      BY <2>2 DEF begin
    <2>4. QED
      BY <1>3, <2>1, <2>2, <2>3, Pushed
  <1>9. Len(stack'[c]) = 1 /\ stack'[c][1] = b /\ begin(c)' = b
    BY <1>8 DEF begin, Last
  <1>10. /\ pc'[p] = "enter" /\ pc'[c] = "enter" /\ status'[p] = "running"
         /\ status'[c] = "running"
         /\ \A q \in Pid \ {p, c} :
               stack'[q] = stack[q] /\ pc'[q] = pc[q] /\ status'[q] = status[q]
    BY <1>1, <1>2, <1>3, <1>5
  <1>11. status[c] = "none" /\ temparr[c] = NoTemp /\ temparr[p] = NoTemp
    <2>1. status[c] = "none"
      BY <1>3, <1>5, <1>7
    <2>2. temparr[p] = NoTemp
      BY <1>1, Unchanged DEF Owned
    <2>3. QED
      BY <1>5, <2>1, <2>2 DEF Contents
  <1>12. Untouched(arr, input, b, p)
    BY <1>1, Unchanged DEF Owned
  <1>13. Data'
    BY <1>1 DEF Contents, Data
  <1>14. Proper(c)'
    <2>1. Ordered(c)'
      BY <1>3, <1>9 DEF Ordered
    <2>4. Owned("enter", arr, input, NoTemp, b, c)
      BY <1>3, <1>12 DEF Owned, Untouched
    <2>5. Own(c)'
      BY <1>1, <1>9, <1>10, <1>11, <2>4 DEF Own
    <2>6. Waits(c)' = {}
      BY <1>9, <1>10 DEF Waits
    <2>7. Given(c)'
      BY <2>6 DEF Given
    <2>8. QED
      BY <2>1, <2>5, <2>7 DEF Proper
  <1>15. Proper(p)'
    <2>1. \A i \in 1..(n + 1) : i = n + 1 \/ i \in 1..n
      BY <1>4
    <2>2. \A i \in 1..n : stack'[p][i] \in Nat /\ stack'[p][i] < c
      BY <1>3, <1>4, <1>8
    <2>3. Ordered(p)'
      <3> SUFFICES ASSUME NEW i \in 1..(n + 1), NEW j \in 1..(n + 1), i <= j
                   PROVE  stack'[p][i] <= stack'[p][j]
        BY <1>8 DEF Ordered
      <3>1. CASE j = n + 1
        <4>1. stack'[p][i] <= c
          <5>1. CASE i = n + 1
            BY <5>1, <1>3, <1>8
          <5>2. CASE i \in 1..n
            BY <5>2, <1>3, <2>2
          <5>3. QED
            BY <2>1, <5>1, <5>2
        <4>2. QED
          BY <3>1, <4>1, <1>8
      <3>2. CASE j # n + 1
        <4>1. i \in 1..n /\ j \in 1..n
          BY <3>2, <1>4
        <4>2. stack[p][i] <= stack[p][j]
          BY <4>1, <1>4 DEF Proper, Ordered
        <4>3. QED
          BY <4>1, <4>2, <1>8
      <3>3. QED
        BY <3>1, <3>2
    <2>6. Owned("enter", arr, input, NoTemp, c, p)
      BY <1>3, <1>12 DEF Owned, Untouched
    <2>7. Own(p)'
      BY <1>1, <1>8, <1>10, <1>11, <2>6 DEF Own
    <2>8. Waits(p)' = 1..n /\ Waits(p) = 1..(n - 1)
      BY <1>1, <1>4, <1>8, <1>10 DEF Waits
    <2>9. Given(p)'
      <3> SUFFICES ASSUME NEW i \in 1..n, status'[Half(stack'[p][i], p)] = "exit0"
                   PROVE  Result(arr, input, stack'[p][i], Half(stack'[p][i], p))
        BY <1>1, <2>8 DEF Given, Half
      <3>1. i # n
        BY <1>3, <1>4, <1>8, <1>10
      <3>2. i \in Waits(p) /\ stack'[p][i] = stack[p][i]
        BY <1>4, <1>8, <2>8, <3>1
      <3>3. Half(stack[p][i], p) \in Pid
        BY <1>1, <3>2, WaitFacts
      <3>4. status[Half(stack[p][i], p)] = "exit0"
        BY <1>10, <3>2, <3>3
      <3>5. QED
        BY <1>4, <3>2, <3>4 DEF Proper, Given
    <2>10. QED
      BY <2>3, <2>7, <2>9 DEF Proper
  <1>16. ASSUME NEW q \in Pid, status'[q] = "running" PROVE Proper(q)'
    <2>1. CASE q = p
      BY <2>1, <1>15
    <2>2. CASE q = c
      BY <2>2, <1>14
    <2>3. CASE q \notin {p, c}
      <3>1. status[q] = "running" /\ Proper(q)
        BY <1>10, <1>16, <2>3 DEF Contents
      <3>2. ASSUME NEW i \in Waits(q), NEW d, d = Half(stack[q][i], q), status'[d] = "exit0"
            PROVE  status[d] = "exit0" \/ Result(arr, input, stack[q][i], d)
        <4>1. d \in Pid
          BY <3>1, <3>2, WaitFacts
        <4>2. QED
          BY <1>10, <3>2, <4>1
      <3>3. QED
        BY <1>1, <1>10, <2>3, <3>1, <3>2, ProperKept
    <2>4. QED
      BY <2>1, <2>2, <2>3
  <1>17. ASSUME NEW q \in Pid, status'[q] # "running"
         PROVE  stack'[q] = <<>> /\ temparr'[q] = NoTemp
    BY <1>1, <1>10, <1>17 DEF Contents
  <1>18. Nested'
    <2> SUFFICES ASSUME NEW x \in Pid, NEW y \in Pid, status'[x] = "running",
                        status'[y] = "running", y < x, NEW i \in 1..Len(stack'[x])
                 PROVE  y <= stack'[x][i] \/ stack'[x][i] <= stack'[y][1]
      BY DEF Nested
    <2>0. x \in Nat /\ y \in Nat
      BY ParSortAssumption DEF Pid
    <2>1. ASSUME NEW q \in Pid, status[q] = "running", q < p PROVE q <= b
      BY <1>1, <1>6, <2>1, Apart
    <2>2. ASSUME NEW q \in Pid, status[q] = "running", NEW r \in Pid, status[r] = "running",
                 q < r,
                 NEW j \in 1..Len(stack[r])
          PROVE  q <= stack[r][j] \/ stack[r][j] <= stack[q][1]
      BY <2>2 DEF Contents, Nested
    <2>3. CASE x = p /\ y = c
      <3>1. stack'[p][i] <= b \/ stack'[p][i] = c
        BY <1>4, <1>8, <2>3
      <3>2. QED
        BY <1>3, <1>9, <2>3, <3>1
    <2>4. CASE x = p /\ y # c
      <3>1. status[y] = "running" /\ stack'[y] = stack[y]
        BY <1>10, <2>0, <2>4
      <3>2. CASE i = n + 1
        BY <1>3, <1>8, <2>0, <2>1, <2>4, <3>1, <3>2
      <3>3. CASE i # n + 1
        <4>1. i \in 1..n
          BY <1>4, <1>8, <2>4, <3>3
        <4>2. y <= stack[p][i] \/ stack[p][i] <= stack[y][1]
          BY <1>1, <2>2, <2>4, <3>1, <4>1
        <4>3. QED
          BY <1>8, <2>4, <3>1, <4>1, <4>2
      <3>4. QED
        BY <3>2, <3>3
    <2>5. CASE x = c
      <3>1. status[y] = "running" /\ y < p
        BY <1>3, <1>10, <2>0, <2>5
      <3>2. y <= b
        BY <2>1, <3>1
      <3>3. QED
        BY <1>9, <2>5, <3>2
    <2>6. CASE x \notin {p, c}
      <3>1. status[x] = "running" /\ stack'[x] = stack[x]
        BY <1>10, <2>6
      <3>2. CASE y = p
        BY <1>1, <1>8, <2>2, <3>1, <3>2
      <3>3. CASE y = c
        <4>1. p < x
          <5>1. SUFFICES ASSUME x < p PROVE FALSE
            BY <2>0, <2>6, <1>3
          <5>2. status[x] = "none"
            BY <1>3, <1>7, <2>0, <3>3, <5>1
          <5>3. QED
            BY <3>1, <5>2
        <4>2. p <= stack[x][i] \/ stack[x][i] <= stack[p][1]
          BY <1>1, <2>2, <3>1, <4>1
        <4>3. stack[x][i] \in Nat
          BY <3>1, RunningFacts
        <4>4. c <= stack[x][i] \/ stack[x][i] <= b
          <5>1. PICK z \in Nat : z = stack[x][i]
            BY <4>3
          <5>2. PICK z1 \in Nat : z1 = stack[p][1]
            BY <1>4
          <5>3. p <= z \/ z <= z1
            BY <4>2, <5>1, <5>2
          <5>4. c <= z \/ z <= b
            BY <1>3, <1>4, <5>2, <5>3
          <5>5. QED
            BY <5>1, <5>4
        <4>5. QED
          BY <1>9, <3>1, <3>3, <4>4
      <3>4. CASE y \notin {p, c}
        BY <1>10, <2>2, <3>1, <3>4
      <3>5. QED
        BY <3>2, <3>3, <3>4
    <2>7. QED
      BY <2>3, <2>4, <2>5, <2>6
  <1>19. status'[Main] = "exit0" => Result(arr, input, 0, Main)
    <2>1. Main \in Pid
      BY DEF IInv, Shape
    <2>2. status'[Main] = "exit0" => status[Main] = "exit0"
      BY <1>10, <2>1
    <2>3. QED
      BY <2>2 DEF Contents
  <1>20. QED
    BY <1>1, <1>2, <1>13, <1>16, <1>17, <1>18, <1>19 DEF Contents

-----------------------------------------------------------------------------

LEMMA ContentsInit == Init => Contents
  <1> SUFFICES ASSUME Init PROVE Contents
    OBVIOUS
  <1>1. Data
    <2>1. arr = input /\ input \in File
      BY DEF Init
    <2>2. PICK k \in 0..MaxLen : input \in [0..(k - 1) -> Value]
      BY <2>1, ParSortAssumption
    <2>3. input \in [DOMAIN input -> Value]
      BY <2>2
    <2>4. QED
      BY <2>1, <2>3 DEF Init, Data
  <1> DEFINE M == Main
  <1>2. M \in Nat /\ M \in Pid
    BY <1>1, Extent DEF Pid
  <1>3. /\ status = [p \in Pid |-> IF p = M THEN "running" ELSE "none"]
        /\ stack = [p \in Pid |-> IF p = M THEN <<0>> ELSE <<>>]
        /\ pc = [p \in Pid |-> IF p = M THEN "start" ELSE "ended"]
        /\ temparr = [p \in Pid |-> NoTemp]
        /\ arr = input
    BY DEF Init
  <1> HIDE DEF M
  <1>4. begin(M) = 0 /\ Len(stack[M]) = 1 /\ stack[M][1] = 0 /\ pc[M] = "start"
    BY <1>2, <1>3 DEF begin, Last
  <1>5. Proper(M)
    <2>1. Ordered(M)
      BY <1>4 DEF Ordered
    <2>2. Own(M)
      BY <1>2, <1>3, <1>4 DEF Own, Owned, Untouched
    <2>3. Waits(M) = {}
      BY <1>4 DEF Waits
    <2>4. QED
      BY <2>1, <2>2, <2>3 DEF Proper, Given
  <1>6. \A p \in Pid : status[p] = "running" <=> p = M
    BY <1>3
  <1>7. Nested
    BY <1>2, <1>6 DEF Nested
  <1>8. QED
    BY <1>1, <1>2, <1>3, <1>5, <1>6, <1>7 DEF Contents, M

LEMMA UndefinedContents == Contents /\ Undefined => Contents'
  BY DEF Contents, Data, Nested, Proper, Ordered, Own, Given, Waits, begin, mid, Main,
     Length, Undefined

LEMMA StepContents ==
    ASSUME IInv, Contents, NEW p \in Pid, Step(p) \/ Kill(p)
    PROVE  Contents'
  <1>1. CASE StartFails(p) \/ CloseFails(p) \/ ForkFails(p) \/ MergeIntoNull(p) \/ Kill(p)
    BY <1>1, EndContents DEF StartFails, CloseFails, ForkFails, MergeIntoNull, Kill, At, Runs,
       Ended
  <1>2. CASE Start(p) \/ Enter(p) \/ Return(p) \/ Wait(p) \/ Close(p)
    BY <1>2, StartContents, EnterContents, ReturnContents, WaitContents, CloseContents
  <1>3. CASE Fork(p) \/ Qsort(p) \/ Merge(p) \/ CopyBack(p)
    BY <1>3, ForkContents, QsortContents, MergeContents, CopyBackContents
  <1>4. CASE MergeOverruns(p) \/ CopyOverflows(p)
    BY <1>4, UndefinedContents DEF MergeOverruns, CopyOverflows
  <1>5. QED
    BY <1>1, <1>2, <1>3, <1>4 DEF Step

LEMMA ContentsCorrect == Spec => []Contents
  <1>1. IInv /\ Contents /\ [Next]_vars => Contents'
    <2>1. IInv /\ Contents /\ Next => Contents'
      BY StepContents DEF Next
    <2>2. Contents /\ UNCHANGED vars => Contents'
      BY DEF Contents, Data, Nested, Proper, Ordered, Own, Given, Waits, begin,
         mid, Main, Length, vars
    <2>3. QED
      BY <2>1, <2>2
  <1>2. QED
    BY ContentsInit, <1>1, InvCorrect, PTL DEF Spec

BooleanUb == ub \in BOOLEAN

LEMMA UbStep ==
    ASSUME BooleanUb, NEW p \in Pid, Step(p) \/ Kill(p)
    PROVE  BooleanUb'
  <1>1. ub' = ub \/ ub' = TRUE
    BY DEF Step, Kill, Start, StartFails, Close, CloseFails, Enter, Qsort, Fork, ForkFails,
       Return, Wait, Merge, MergeIntoNull, MergeOverruns, CopyBack, CopyOverflows, Undefined,
       End
  <1>2. QED
    BY <1>1 DEF BooleanUb

LEMMA UbCorrect == Spec => []BooleanUb
  <1>1. Init => BooleanUb
    BY DEF Init, BooleanUb
  <1>2. BooleanUb /\ [Next]_vars => BooleanUb'
    <2>1. BooleanUb /\ UNCHANGED vars => BooleanUb'
      BY DEF BooleanUb, vars
    <2>2. QED
      BY <2>1, UbStep DEF Next
  <1>3. QED
    BY <1>1, <1>2, PTL DEF Spec

\* Every variable holds a value of its type, the calls on a stack are for ever
\* smaller right halves, only two elements or more are divided, and what is to be
\* copied back has as many elements as the range, whatever the length of the file.
THEOREM TypeCorrect == Spec => []TypeOK
  <1>1. IInv /\ Contents /\ BooleanUb => TypeOK
    <2> SUFFICES ASSUME IInv, Contents, BooleanUb PROVE TypeOK
      OBVIOUS
    <2>1. ASSUME NEW p \in Pid
          PROVE  /\ stack[p] \in Seq(0..MaxLen) /\ Increasing(stack[p])
                 /\ status[p] = "running" <=> stack[p] # <<>>
                 /\ IF pc[p] = "copy"
                    THEN temparr[p] \in Seq(Value) /\ Len(temparr[p]) = p - begin(p)
                    ELSE temparr[p] = NoTemp
      <3>1. CASE status[p] = "running"
        <4>1. /\ p \in Nat /\ p <= MaxLen /\ begin(p) <= p /\ Len(stack[p]) \in Nat \ {0}
              /\ begin(p) \in Nat
              /\ \A i \in 1..Len(stack[p]) : stack[p][i] \in Nat /\ stack[p][i] <= begin(p)
          BY <3>1, ProperFacts, ParSortAssumption DEF Pid
        <4>2. \A i \in 1..Len(stack[p]) : stack[p][i] \in 0..MaxLen
          BY <4>1, ParSortAssumption
        <4>3. stack[p] \in Seq(Nat) /\ stack[p] # <<>>
          BY <3>1 DEF IInv, Shape
        <4>4. stack[p] \in Seq(0..MaxLen)
          <5> DEFINE s == stack[p]
          <5>1. s \in Seq(Nat) /\ \A i \in 1..Len(s) : s[i] \in 0..MaxLen
            BY <4>2, <4>3
          <5> HIDE DEF s
          <5>2. Len(s) \in Nat /\ s \in [1..Len(s) -> 0..MaxLen]
            <6>1. s \in [1..Len(s) -> Nat] /\ Len(s) \in Nat
              BY <5>1, LenProperties
            <6>2. QED
              BY <5>1, <6>1
          <5>3. s \in Seq(0..MaxLen)
            BY <5>2, SeqDef
          <5>4. QED
            BY <5>3 DEF s
        <4>5. Increasing(stack[p])
          <5>1. ASSUME NEW i \in 1..(Len(stack[p]) - 1) PROVE stack[p][i] < stack[p][i+1]
            <6>1. stack[p][i] + 1 < p /\ stack[p][i+1] = Half(stack[p][i], p)
              BY <3>1 DEF IInv, Shape, Halved
            <6>2. stack[p][i] \in Nat
              BY <4>1
            <6>3. QED
              BY <4>1, <6>1, <6>2, HalfBetween
          <5>2. QED
            BY <5>1 DEF Increasing
        <4>6. IF pc[p] = "copy"
              THEN temparr[p] \in Seq(Value) /\ Len(temparr[p]) = p - begin(p)
              ELSE temparr[p] = NoTemp
          BY <3>1, Unchanged DEF Owned, Arranged
        <4>7. QED
          BY <3>1, <4>3, <4>4, <4>5, <4>6
      <3>2. CASE status[p] # "running"
        <4>1. stack[p] = <<>> /\ temparr[p] = NoTemp /\ pc[p] = "ended"
          BY <3>2 DEF Contents, IInv, Shape
        <4>2. <<>> \in Seq(0..MaxLen) /\ Increasing(<<>>)
          BY EmptySeq DEF Increasing
        <4>3. QED
          BY <3>2, <4>1, <4>2
      <3>3. QED
        BY <3>1, <3>2
    <2>2. QED
      BY <2>1 DEF IInv, Shape, Contents, Data, BooleanUb, TypeOK
  <1>2. QED
    BY <1>1, InvCorrect, ContentsCorrect, UbCorrect, PTL

\* For every file and every failure: exit code 0 means that the file holds its own
\* integers, sorted as far as num_elements counts, unless the int index of the copy
\* or the end of temparr has been overrun; and is_sorted tells the sorted files from
\* the others.
THEOREM SortedCorrect == Spec => []CountedPartSorted
  <1>1. IInv /\ Contents => CountedPartSorted
    <2> SUFFICES ASSUME IInv, Contents PROVE CountedPartSorted
      OBVIOUS
    <2>1. arr \in [0..(Main - 1) -> Value] /\ Main \in Nat
      BY Extent DEF Contents
    <2>2. is_sorted(arr, Main) <=> SortedOn(arr, 0, Main)
      BY <2>1, IsSortedTells
    <2>3. 0 + ((Main - 0) % UnsignedMod) = Main % UnsignedMod
      <3>1. Main % UnsignedMod \in Nat /\ Main - 0 = Main
        BY <2>1, ParSortAssumption
      <3>2. QED
        BY <3>1
    <2>4. status[Main] = "exit0" =>
             SortedOn(arr, 0, Main % UnsignedMod) /\ SameElements(arr, input, 0, Main)
      BY <2>3 DEF Contents, Result
    <2>5. QED
      BY <2>2, <2>4 DEF CountedPartSorted, Main
  <1>2. QED
    BY <1>1, InvCorrect, ContentsCorrect, PTL

\* A merge begins only when both halves are sorted and hold what the file had
\* there: waitpid and its exit code are enough to know it of the left half.
THEOREM HalvesCorrect == Spec => []HalvesReady
  <1>1. IInv /\ Contents => HalvesReady
    BY HalvesSorted DEF HalvesReady
  <1>2. QED
    BY <1>1, InvCorrect, ContentsCorrect, PTL
=============================================================================
