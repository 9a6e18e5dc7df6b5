------------------------------- MODULE ParSort -------------------------------
(***************************************************************************)
(* hw4/csf_assign04: parsort.c, and the loop of is_sorted.c, which checks  *)
(* what it has left.  A file of integers, mapped shared into memory, is    *)
(* sorted by a tree of processes.  merge_sort forks a child for the left   *)
(* half [begin, mid), sorts the right half [mid, end) itself, waits for    *)
(* the child and merges.                                                   *)
(*                                                                         *)
(* A process is named by the end of the range it was started on.  The      *)
(* calls on its stack are all for right halves and so end there too, and   *)
(* every fork happens at a different mid: the name is unique, and a stack  *)
(* is the sequence of the begins of its calls.  The first process is       *)
(* named by the length of the file.                                        *)
(*                                                                         *)
(* What fails is the environment's choice: any fork, any malloc, main's    *)
(* system calls, and a signal that kills a process at any point.  waitpid  *)
(* itself cannot return -1: its argument is a child nobody else reaps, and *)
(* no signal handler is installed.                                         *)
(*                                                                         *)
(* Lengths are size_t, but num_elements is an unsigned int and the index   *)
(* that copies back an int.  A range that num_elements cannot count is     *)
(* sorted in part or not at all; merging one writes past the end of        *)
(* temparr, and copying one back that an int cannot index overflows it.    *)
(* These two set ub, and nothing is said of what happens after.            *)
(***************************************************************************)
EXTENDS Integers, Sequences, FiniteSets, SequencesExt

CONSTANTS Value,        \* the integers in a file
          File,         \* the files there may be
          MaxLen,       \* bound: elements in a file
          MaxThreshold, \* bound: values of the threshold argument
          UnsignedMod,  \* number of values of an unsigned int (2^32), and of an int
          NoTemp        \* temparr outside merge .. free

ASSUME ParSortAssumption ==
    /\ Value \subseteq Int /\ IsFiniteSet(Value)
    /\ MaxLen \in Nat /\ MaxThreshold \in Nat
    /\ UnsignedMod \in Nat \ {0} /\ UnsignedMod % 2 = 0
    /\ \A f \in File : \E n \in 0..MaxLen : f \in [0..n-1 -> Value]

IntMax == UnsignedMod \div 2 - 1

VARIABLES arr,        \* the mapped file, shared by all the processes
          input,      \* its initial contents
          threshold,  \* the second argument
          status,     \* how each process is doing, as its parent sees it
          stack,      \* the begins of the calls of merge_sort in progress
          pc,         \* where each process is in its innermost call
          temparr,    \* the malloc'd copy that merge fills
          ub          \* whether behaviour has become undefined

vars == <<arr, input, threshold, status, stack, pc, temparr, ub>>

Pid    == 0..MaxLen
Length == Cardinality(DOMAIN input)
Main   == Length

Ended  == {"exit0", "exit1", "signal"}
Label  == {"start", "enter", "sort", "fork", "return",
           "wait", "merge", "copy", "close", "ended"}

begin(p) == Last(stack[p])
mid(p)   == begin(p) + (p - begin(p)) \div 2     \* the end of the range is p
num_elements(p) == (p - begin(p)) % UnsignedMod

Init ==
    /\ input \in File
    /\ arr = input
    /\ threshold \in 0..MaxThreshold
    /\ status = [p \in Pid |-> IF p = Main THEN "running" ELSE "none"]
    /\ stack = [p \in Pid |-> IF p = Main THEN <<0>> ELSE <<>>]
    /\ pc = [p \in Pid |-> IF p = Main THEN "start" ELSE "ended"]
    /\ temparr = [p \in Pid |-> NoTemp]
    /\ ub = FALSE

Runs(p)        == ~ub /\ status[p] = "running"
At(p, label)   == Runs(p) /\ pc[p] = label
Goto(p, label) == pc' = [pc EXCEPT ![p] = label]

\* The process is gone, with everything on its stack and its heap.
End(p, how) ==
    /\ status' = [status EXCEPT ![p] = how]
    /\ stack' = [stack EXCEPT ![p] = <<>>]
    /\ temparr' = [temparr EXCEPT ![p] = NoTemp]
    /\ Goto(p, "ended")
    /\ UNCHANGED <<arr, input, threshold, ub>>

-----------------------------------------------------------------------------
(* Pure parts *)

\* Seeded fault: the result 1 is forgotten.
CompareNoGreater(l, r) == IF l < r THEN -1 ELSE 0

compare_i64(l, r) == IF l < r THEN -1 ELSE IF l > r THEN 1 ELSE 0

\* merge of [b, m) and [m, e): iteration k of the loop writes dst[k], with
\* left and right the next elements of the two halves.
merge(a, b, m, e) ==
    LET loop[k \in 0..(e - b)] ==
          IF k = 0 THEN [left |-> b, right |-> m, dst |-> <<>>]
          ELSE LET s == loop[k-1]
                   takeLeft == \/ s.right >= e
                               \/ /\ s.left < m
                                  /\ compare_i64(a[s.left], a[s.right]) <= 0
               IN  IF takeLeft
                   THEN [s EXCEPT !.left = @ + 1, !.dst = Append(@, a[s.left])]
                   ELSE [s EXCEPT !.right = @ + 1, !.dst = Append(@, a[s.right])]
    IN  loop[e - b].dst

\* Seeded fault: every element is compared with the first.
IsSortedFirst(a, n) ==
    LET loop[k \in 1..n] ==
          IF k = 1 THEN [prev |-> a[0], sorted |-> TRUE]
          ELSE [prev |-> a[0], sorted |-> loop[k-1].sorted /\ a[k-1] >= loop[k-1].prev]
    IN  n = 0 \/ loop[n].sorted

\* is_sorted.c on a file of n elements: exit code 0.  An empty file is not read
\* any further, and passes.
is_sorted(a, n) ==
    LET loop[k \in 1..n] ==
          IF k = 1 THEN [prev |-> a[0], sorted |-> TRUE]
          ELSE [prev |-> a[k-1], sorted |-> loop[k-1].sorted /\ a[k-1] >= loop[k-1].prev]
    IN  n = 0 \/ loop[n].sorted

Slice(a, b, e)    == [k \in 1..(e - b) |-> a[b + k - 1]]
Overwrite(a, b, s) ==
    [i \in DOMAIN a |-> IF i \in b..(b + Len(s) - 1) THEN s[i - b + 1] ELSE a[i]]

\* The library's qsort (external): the elements in ascending order, as compare_i64
\* tells it.
qsort(s) ==
    LET Permuted(f) == [i \in DOMAIN s |-> s[f[i]]]
    IN  CHOOSE t \in {Permuted(f) : f \in Bijection(DOMAIN s, DOMAIN s)} :
            \A i \in 1..(Len(s) - 1) : compare_i64(t[i], t[i+1]) <= 0

-----------------------------------------------------------------------------
(* main *)

\* The arguments are accepted and the file is opened, measured and mapped.
\* mmap refuses an empty file, not one of fewer bytes than an element has.
Start(p) ==
    /\ At(p, "start")
    /\ Goto(p, "enter")
    /\ UNCHANGED <<arr, input, threshold, status, stack, temparr, ub>>

StartFails(p) == At(p, "start") /\ End(p, "exit1")

Close(p)      == At(p, "close") /\ End(p, "exit0")
CloseFails(p) == At(p, "close") /\ End(p, "exit1")

-----------------------------------------------------------------------------
(* merge_sort *)

Enter(p) ==
    /\ At(p, "enter")
    /\ Goto(p, IF num_elements(p) <= threshold THEN "sort"
               ELSE IF num_elements(p) < 2 THEN "return"
               ELSE "fork")
    /\ UNCHANGED <<arr, input, threshold, status, stack, temparr, ub>>

\* One step: nobody else looks at the range meanwhile (NoInterference), and
\* nobody looks at it afterwards if a signal interrupts it.
Qsort(p) ==
    /\ At(p, "sort")
    /\ arr' = Overwrite(arr, begin(p),
                        qsort(Slice(arr, begin(p), begin(p) + num_elements(p))))
    /\ Goto(p, "return")
    /\ UNCHANGED <<input, threshold, status, stack, temparr, ub>>

\* The child gets a copy of the process and calls merge_sort on the left half;
\* the parent calls it on the right half.
Fork(p) ==
    /\ At(p, "fork")
    /\ LET child == mid(p) IN
          /\ status' = [status EXCEPT ![child] = "running"]
          /\ stack' = [stack EXCEPT ![child] = <<begin(p)>>, ![p] = Append(@, mid(p))]
          /\ pc' = [pc EXCEPT ![child] = "enter", ![p] = "enter"]
    /\ UNCHANGED <<arr, input, threshold, temparr, ub>>

\* exit(1) ends the process, whatever calls are below this one on its stack;
\* the children of those calls are not waited for.
ForkFails(p) == At(p, "fork") /\ End(p, "exit1")

\* Seeded fault: the child's exit(0) at parsort.c:79 is missing.
ReturnFallsThrough(p) ==
    /\ At(p, "return")
    /\ IF p = Main /\ Len(stack[p]) = 1
       THEN Goto(p, "close") /\ UNCHANGED stack
       ELSE Goto(p, "wait") /\ stack' = [stack EXCEPT ![p] = Front(@)]
    /\ UNCHANGED <<arr, input, threshold, status, temparr, ub>>

\* merge_sort returns: to the call it was the right half of, to main, or to
\* the exit(0) of a forked child.
Return(p) ==
    /\ At(p, "return")
    /\ \/ /\ Len(stack[p]) > 1
          /\ stack' = [stack EXCEPT ![p] = Front(@)]
          /\ Goto(p, "wait")
          /\ UNCHANGED <<arr, input, threshold, status, temparr, ub>>
       \/ /\ Len(stack[p]) = 1 /\ p = Main
          /\ Goto(p, "close")
          /\ UNCHANGED <<arr, input, threshold, status, stack, temparr, ub>>
       \/ Len(stack[p]) = 1 /\ p # Main /\ End(p, "exit0")

\* Seeded fault: no waitpid.
WaitNot(p) ==
    /\ At(p, "wait")
    /\ Goto(p, "merge")
    /\ UNCHANGED <<arr, input, threshold, status, stack, temparr, ub>>

\* Seeded fault: the status waitpid returns is not looked at.
WaitUnchecked(p) ==
    /\ At(p, "wait")
    /\ status[mid(p)] \in Ended
    /\ Goto(p, "merge")
    /\ UNCHANGED <<arr, input, threshold, status, stack, temparr, ub>>

\* Seeded fault: the wait is repeated until the child has succeeded.
WaitForSuccess(p) ==
    /\ At(p, "wait")
    /\ status[mid(p)] = "exit0"
    /\ Goto(p, "merge")
    /\ UNCHANGED <<arr, input, threshold, status, stack, temparr, ub>>

\* waitpid blocks until the child has ended; WIFEXITED and WEXITSTATUS decide.
Wait(p) ==
    /\ At(p, "wait")
    /\ \/ /\ status[mid(p)] = "exit0"
          /\ Goto(p, "merge")
          /\ UNCHANGED <<arr, input, threshold, status, stack, temparr, ub>>
       \/ status[mid(p)] \in Ended \ {"exit0"} /\ End(p, "exit1")

\* temparr has room for num_elements, which may be fewer than the range has.
Fits(p) == p - begin(p) <= num_elements(p)

Merge(p) ==
    /\ At(p, "merge")
    /\ Fits(p)
    /\ temparr' = [temparr EXCEPT ![p] = merge(arr, begin(p), mid(p), p)]
    /\ Goto(p, "copy")
    /\ UNCHANGED <<arr, input, threshold, status, stack, ub>>

\* malloc had returned NULL, which is not checked: merge writes through it.
MergeIntoNull(p) == At(p, "merge") /\ End(p, "signal")

\* The copy back into arr, and free(temparr).
CopyBack(p) ==
    /\ At(p, "copy")
    /\ num_elements(p) <= IntMax
    /\ arr' = Overwrite(arr, begin(p), SubSeq(temparr[p], 1, num_elements(p)))
    /\ temparr' = [temparr EXCEPT ![p] = NoTemp]
    /\ Goto(p, "return")
    /\ UNCHANGED <<input, threshold, status, stack, ub>>

Undefined ==
    /\ ub' = TRUE
    /\ UNCHANGED <<arr, input, threshold, status, stack, pc, temparr>>

\* merge writes behind the end of temparr.
MergeOverruns(p) == At(p, "merge") /\ ~Fits(p) /\ Undefined

\* i++ takes the int i past its largest value.
CopyOverflows(p) == At(p, "copy") /\ num_elements(p) > IntMax /\ Undefined

-----------------------------------------------------------------------------

\* A signal kills a process.
Kill(p) == Runs(p) /\ End(p, "signal")

Step(p) ==
    \/ Start(p) \/ StartFails(p) \/ Close(p) \/ CloseFails(p)
    \/ Enter(p) \/ Qsort(p) \/ Fork(p) \/ ForkFails(p) \/ Return(p)
    \/ Wait(p) \/ Merge(p) \/ MergeIntoNull(p) \/ MergeOverruns(p)
    \/ CopyBack(p) \/ CopyOverflows(p)

Next == \E p \in Pid : Step(p) \/ Kill(p)

Spec == Init /\ [][Next]_vars

\* The kernel runs every process that is not blocked in waitpid.
FairSpec == Spec /\ \A p \in Pid : WF_vars(Step(p))

-----------------------------------------------------------------------------
(* Properties *)

Increasing(s) == \A i \in 1..(Len(s) - 1) : s[i] < s[i+1]

\* Every variable holds a value of its type; the calls on a stack are for
\* ever smaller right halves, only two elements or more are divided, and what
\* is to be copied back is as long as the range.
TypeOK ==
    /\ input \in File
    /\ arr \in [DOMAIN input -> Value]
    /\ threshold \in 0..MaxThreshold
    /\ status \in [Pid -> Ended \cup {"none", "running"}]
    /\ pc \in [Pid -> Label]
    /\ \A p \in Pid :
          /\ stack[p] \in Seq(0..MaxLen) /\ Increasing(stack[p])
          /\ pc[p] = "ended" <=> status[p] # "running"
          /\ status[p] = "running" <=> stack[p] # <<>>
          /\ pc[p] # "ended" => begin(p) <= p
          /\ pc[p] \in {"fork", "wait", "merge", "copy"} => begin(p) + 1 < p
          /\ IF pc[p] = "copy"
             THEN temparr[p] \in Seq(Value) /\ Len(temparr[p]) = p - begin(p)
             ELSE temparr[p] = NoTemp
    /\ ub \in BOOLEAN

SortedOn(a, b, e) == \A i \in b..(e - 2) : a[i] <= a[i+1]
SameElements(a, c, b, e) ==
    \A v \in Value : Cardinality({i \in b..(e - 1) : a[i] = v})
                       = Cardinality({i \in b..(e - 1) : c[i] = v})

\* What exit code 0 says of the file, whatever failed on the way: it holds the
\* integers it had, and as many of them are sorted as the call of main counts.
\* Those are all of them only in a file of fewer than UnsignedMod elements, see
\* SortedOnSuccess.  Of the file that was left, with or without success,
\* is_sorted tells whether it is sorted.
CountedPartSorted ==
    /\ status[Main] = "exit0" =>
           SortedOn(arr, 0, Length % UnsignedMod) /\ SameElements(arr, input, 0, Length)
    /\ (\A p \in Pid : status[p] # "running") =>
           (is_sorted(arr, Length) <=> SortedOn(arr, 0, Length))

\* "exit with a 0 exit code if sort was successful" (parsort.c:187): exit code 0
\* means that the file is sorted.
SortedOnSuccess == status[Main] = "exit0" => SortedOn(arr, 0, Length)

\* "they must all finish before merging" (README.txt:80): at a merge both
\* halves are sorted and hold the elements the file had there.  A half that could
\* not be counted is not, but merging it overruns temparr all the same.
HalvesReady ==
    \A p \in Pid : pc[p] = "merge" /\ Fits(p) =>
        /\ SortedOn(arr, begin(p), mid(p)) /\ SameElements(arr, input, begin(p), mid(p))
        /\ SortedOn(arr, mid(p), p) /\ SameElements(arr, input, mid(p), p)

\* The processes that are reading or writing elements, and which.
Accessing == {p \in Pid : pc[p] \in {"sort", "merge", "copy"}}
Access(p) == begin(p)..(p - 1)

\* The array is shared without a lock: no element is ever accessed by two
\* processes at once, orphans of failed parents included.
NoInterference == \A p, q \in Accessing : p # q => Access(p) \cap Access(q) = {}

\* A failure anywhere in the tree reaches the exit code of the first process,
\* and an exit code of 0 is given when every other process has ended.
FailureReported ==
    status[Main] = "exit0" => \A p \in Pid : status[p] \in {"none", "exit0"}

\* Every process ends, however the others fail: nobody waits for ever.
Terminates == <>[](ub \/ \A p \in Pid : status[p] # "running")
=============================================================================
