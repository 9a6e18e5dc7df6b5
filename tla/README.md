# Verification of CSF_assignments

TLA+ models of the programs in this repository, the TLC runs that check them
on small instances, and TLAPS proofs of what holds for every instance.  The
repository holds three independent programs:

* `hw5/csf_assign05` -- a multithreaded chat **server** with its clients;
* `hw3` -- a set-associative **cache simulator**;
* `hw4/csf_assign04` -- a **parallel merge sort** over a shared mapped file.

## 1. Inventory

| part | state | operations | what is hard | what makes it correct |
|---|---|---|---|---|
| message queue (`message_queue.cpp`) | mutex, semaphore, deque of pointers | `enqueue`, `dequeue` (gives up after 1 s) | emptiness checked outside the mutex; timeout racing a post; messages allocated by one thread, deleted by another | FIFO, no loss or duplication; the semaphore counts the deque; one owner per message; `enqueue` returns |
| sessions and rooms (`server.cpp`, `room.cpp`) | `m_rooms`, per room members and lock, per session a User, the room it is in | login; join, leave, quit, any text; deliver loop; cleanup | look-up-then-insert; membership changing during a broadcast; join from inside a room under two locks; deletion of shared rooms at the end of a session | unique rooms; what the client is told is true; exact ordered delivery; memory safety; every command answered |
| life of the server process (`server.cpp:211-272`, `server_main.cpp`, `open_listenfd`) | descriptors, the list of addresses, one ClientData and Connection per client, `m_lock`, the rooms | listen, accept, create thread, delete both objects, `~Server`, return of `main` | ownership of ClientData shared by two threads and reused memory; errors on every path of `open_listenfd`; rooms deleted when accept fails | nothing leaks; nothing is closed twice; each object freed after its last use; shutdown ends |
| connection and wire format (`connection.cpp`, `message.h`, rio in `csapp.c`) | descriptor, read buffer | send, receive a line, split at the colon | partial reads, lines without colon, lines longer than MAXLINE | what was sent is what is received |
| clients (`sender.cpp`, `receiver.cpp`) | one connection | connect, login, send a command and read one response; print deliveries | responses paired with commands; texts with colons; a server that goes away | which response is taken for which command; what is printed is what was typed |
| cache simulator (`main.cpp`, `cache_funcs.cpp`) | sets of slots, cycles, clock, counters | load, store | LRU by timestamps of mixed widths, FIFO by shifted load ages | same hits, misses and victims as an LRU or FIFO cache; costs of the chosen write policy |
| parallel sort (`parsort.c`, `is_sorted.c`) | the mapped array, a tree of processes | fork, sort, wait, merge, copy back | unlocked sharing between processes; failures anywhere in the tree; lengths that overflow | sorted permutation if the exit code is 0; exclusive access; everyone ends |

How the parts interact: the main thread starts one worker thread per client and
hands it a pointer to a ClientData; a worker reads its client's lines through a
Connection; workers meet in `m_rooms` (guarded by `Server::m_lock`), in the members
of a Room (guarded by `Room::lock`) and in the MessageQueue of a User (mutex and
semaphore): a sender's worker calls `broadcast_message`, which enqueues into the
queues of the room's members, and a receiver's worker dequeues and sends to its
client.  Main meets the workers in the ClientData, the Connection and, when accept
has failed, in the rooms.  Clients and workers exchange messages over one
connection each.  The processes of the sort share the array and are ordered only
by `fork` and `waitpid`.  `PROJECT.json` lists the hazards with their lines.

## 2. Modules

| module | models | corresponds to the code how |
|---|---|---|
| `MessageChannel` | what `message_queue.h` promises | abstract FIFO channel: one step per call, effect and return |
| `MessageQueue` | `message_queue.cpp` | one action per step of a thread between two points where another can intervene: lock, critical section, semaphore operation, unlock; `heap` holds the allocated messages |
| `ChatServer` | `server.cpp` workers, `room.cpp` | one session per worker thread, `pc` names the code it is about to run; a section under one lock is one step, except the two others can see half-done (look-up/insert, broadcast loop); a queue is the FIFO channel that `MessageQueueProofs` proves it to be |
| `ServerLifetime` | `open_listenfd`, `Server::listen`, `handle_client_requests`, the constructor and destructor of Connection, `~Server`, `main` | one action per call that can fail or that a worker can observe; `fds`, `data` and `conn` are the descriptors and the two kinds of memory blocks, handed out again once closed or freed; a worker is reduced to the moments at which it follows the pointer, holds `m_lock` or a room's lock; `~Server` is its lock, the deletion of the rooms (each `~Room` waits for the room's lock) and the destruction of the members |
| `ChatClient` | `sender.cpp`, `receiver.cpp`, `Connection::connect` | one action per message sent, line typed or message awaited; `up` and `down` are the two directions of a connection; a typed line is a sequence of words, colons and blanks |
| `ChatSystem` | the composition of `ChatClient` and `ChatServer` | session s serves client s: the tag of the message that has arrived selects the action of `ChatServer`, which it extends; `Client!` is `ChatClient` (`INSTANCE`); the action puts a response on `down`; what the worker dequeues becomes a delivery |
| `Connection` | `connection.cpp`, `message.h`, `rio_writen`, `rio_read`, `rio_readlineb` | one action per system call or byte handed over; bytes of three kinds; `writer` and `reader` are the two ends |
| `ReferenceCache` | what a set-associative cache is | each set a sequence of blocks in order of eviction |
| `CacheSim` | `main.cpp`, `cache_funcs.cpp`, `Cache.h` | one step per line of the trace; the command line is chosen in `Init` |
| `ParSort` | `parsort.c`, the loop of `is_sorted.c` | a process is named by the end of its range, its stack is the sequence of the begins of its calls, `pc` is the place in the innermost call; lengths are cut to `UnsignedMod` values and an `int` has half of them |
| `MC*` | -- | values of constants for TLC |
| `*Proofs` | -- | theorems on the module they are named after, section 4 |
| `Recursion` | -- | lemmas about recursive functions, which the proofs share |

Definitions called *seeded fault* are not part of any specification.  Each is
the form an action would have with a plausible bug; substituting it makes the
property it is paired with in `PROJECT.json` fail, which shows that the
property says something about that code.

Undefined behaviour in the server: a step that dereferences a deleted Room or
User, or that touches `m_rooms` while another thread inserts, sets `ub`, and
nothing happens after it.  The properties of `ChatServer` are claims about
executions up to that point; `SafeUntilSessionEnds` says when it can come.

`ChatServer` and `ChatSystem` give every worker a connection of its own for as long
as it needs it.  The code does not: after `pthread_create` main deletes the Connection
(`server.cpp:267`), which closes the client's descriptor, and the ClientData (line
268), always and at once.  A worker that is not faster finds a closed descriptor, a
freed block, or the block and descriptor of a later client.  The first two modules
therefore show what sessions, rooms and clients do on the premise that lines 267-268
have not taken effect -- that of a server without these two lines, or of a worker
while main has not run on -- and not what the program as it stands does with every
client.  `ServerLifetime` models the two lines and what they lead to: a use of a freed
block or of a room or a Server that is gone sets its `ub`; the rest goes unnoticed.

## 3. Runs

| run | configuration | bounds | shows |
|---|---|---|---|
| `queue` | `MessageQueue.cfg` | 3 producers with one call each, 2 consumers, 2 messages, an address per call; with fairness | `PermitsMatch`, `NoEmptyPop`, `Ownership`, `ImplementsChannel`, `MessageDelivered`, `EnqueueReturns` |
| `server` | `ChatServer.cfg` | 3 sessions of any role, two of one name, 2 rooms, 2 lines per sender, symmetry in sessions that share a name | `UniqueRoom`, `Membership`, `ExactDelivery`, `SafeUntilSessionEnds` |
| `system` | `ChatSystem.cfg` | a sender and a receiver, one room, 2 typed lines out of join, leave, quit, the empty line, a text without and one with three colons; a client killed or the server ended at any point; with fairness | `OneBehind`, `PrintedAsTyped`, `CommandAnswered`, `LineAnswered`, `QuitEndsSession`, `EverythingPrinted` |
| `lifetime` | `ServerLifetime.cfg` | 2 clients, 2 addresses to listen on, descriptors 3 to 5, 2 blocks of each kind, any step failing; with fairness | `NothingKept`, `CloseNeverFails`, `RoomHeldIsLive`, `ShutdownEnds` |
| `connection` | `Connection.cfg` | 3 sends out of 4 messages, two of which are too long for MAXLINE = 6, a read buffer of 4; any partial read or write, a break at any byte; with fairness | `BytesConserved`, `MessagesIntact`, `MessageArrives`, `EndNoticed` |
| `cache` | `CacheSim.cfg` | 1 set of 1 or 4 slots, 2 sets of 2 slots, and shapes `main` refuses; 5 blocks; traces 2 lines longer than a set; all accepted policies | `NoDuplicates`, `LoadAgesOrdered`, `CyclesAccounted`, `ImplementsReference` |
| `parsort` | `ParSort.cfg` | every file of up to 3 elements of 3 values and of 4 elements of 2, and one each of 5, 6, 13 and 26 elements, thresholds 0 to 2, an unsigned int of 12 values; any fork, malloc, system call and process failing; with fairness | `CountedPartSorted`, `HalvesReady`, `NoInterference`, `FailureReported`, `Terminates` |
| `stale_room`, `left_room` | `ChatServerStaleRoom.cfg`, `ChatServerLeave.cfg` | 2 sessions | disagreements of the code with its comments, below |
| `worker_own` | `ServerLifetimeOwn.cfg` | as `lifetime` | disagreement, below |
| `cache_write_through` | `CacheSimWriteThrough.cfg` | one small shape | disagreement, below |
| `parsort_uncounted` | `ParSortUncounted.cfg` | as `parsort` | disagreement, below |

Every passing run also checks its module's type invariant.

Why the bounds are enough.  Three producers and two consumers reach every
overlap of the queue's critical sections, and three messages let a consumer time
out before, between and after them.  In the server the hazards take two sessions
that race and one that watches, two rooms so that a session can move, and two
lines so that it can act after moving.  In the composition one sender and one
receiver meet every kind of message, and contend for `m_lock` and for the lock of the
room; two lines are the fewest that put a response one behind; sessions that race,
two senders among them, are the `server` run's.  With a text of three colons behind
the server's two the receiver finds all the five it looks for.  Two clients are what it
takes for one to inherit the other's block or descriptor, and three descriptors
hold the listening socket and two connections; two addresses make one that
fails and one that is tried after it.  Lines of the lengths 3 to 7 against a buffer
of 4 end before, at and behind its end, and two of the messages do not fit below
MAXLINE, by one byte and by three.  A cache set of four slots is the smallest in
which the ages of the first, the second and the later fills follow different rules.
A file of four elements with threshold 0 makes four processes on three levels: a
fork inside a forked child and a fork inside a right half.  With an unsigned int of 12
values an int goes up to 5: the files of 5 and 6 elements are the last that can be
copied back and the first that cannot, 13 is one more than can be counted, and 26 has
two such halves, so that temparr is too small for the merge.  The proofs of section
4 remove the bounds of what they cover.

Bounds that the code does not have are guards of the specifications, named in
their CONSTANTS: `MaxCalls`, `MaxLines`, `MaxClients`, `MaxAddrs`, `MaxSends`,
`ExtraLines`, `MaxLen`, `MaxThreshold`.  The buffers of the sockets are unbounded in
`ChatSystem`: a client that never reads does not stop its worker.

Deadlock is not checked where the modelled programs stop: clients that send
nothing more, a connection that has closed, a server that has ended, a sort that
has ended.  What may not stop there is stated as a liveness property.

Fairness.  `MessageQueue`: a thread inside a call keeps running and a consumer
keeps calling `dequeue`, as `while (1)` in `chat_with_reciever` does.
`ChatServer`: a worker with something to do keeps running; clients are never
obliged to send.  `ChatSystem`: the same, and a client program goes on where it does
not wait for its user; nobody has to type, is killed or fails by fairness.
`ServerLifetime`: main goes on once accept has failed, and a worker leaves its
critical sections; accept never has to fail, nor a client to come.  `Connection`: a
`send` in progress goes on and `receive` is called in a loop; nobody has to send or
close.  Weak fairness is enough for the mutexes because the number of times
others take them is bounded.  `ParSort`: the kernel runs every process not blocked
in `waitpid`; nothing makes failures happen.

### Disagreements found

* `stale_room`: the comment at `server.cpp:275` promises "a pointer to the unique
  Room object"; once any session has ended the object is deleted and the map
  still names it (`server.cpp:184-186`).
* `left_room`: after `leave` the pointer `room` is kept (`server.cpp:75`), so the
  client's next text is broadcast to the room it has left.
* `worker_own`: a thread is started "for each connected client"
  (`server.cpp:239-240`) with "the object(s) needed to communicate with a client"
  (`server.cpp:153-154`); the accept loop deletes them at once (`server.cpp:267-268`),
  so a worker can read from and answer the client that connects next.
* `cache_write_through`: "a store writes to the cache as well as to memory"
  (`cache_funcs.h:8`), but a write-through store that evicts is not charged for
  the memory write (`main.cpp:90-92`).
* `parsort_uncounted`: "exit with a 0 exit code if sort was successful"
  (`parsort.c:187`); a file of 2^32 + 1 elements is left as it is, since
  `num_elements` is 1 (`parsort.c:60`), and the exit code is 0.  Other lengths from 2^31
  elements on end in undefined behaviour unless the threshold or the remainder keeps
  them from being merged: the index of the copy back, an `int`, overflows
  (`parsort.c:107`), and two halves of more than 2^32 elements together are merged
  into a `temparr` for the remainder (`parsort.c:88`).  The model sets `ub` there, and
  `CountedPartSorted` says what holds otherwise.

In two more places a comment says one thing and the code does another.  There the
property states what the code does, exactly, and so is weaker than the comment:

* "send a message to every (receiver) User in the room" (`room.cpp:46`), "send message
  to all users in chat room" (`message.h:60`): `broadcast_message` passes over every
  member that has the sender's name (`room.cpp:51`), and names need not be unique.
  A receiver started under its user's own name never shows what that user says.  `ExactDelivery` demands of each receiver exactly the messages of
  users of other names (`HeardBy`); in the `server` run two of the three sessions
  share a name.
* the result of a `receive` is one of "EOF or error", "message format was invalid"
  (`connection.h:14`, 37-40), and `m_last_result` is to be set accordingly.  The code
  never sets `INVALID_MSG` (`connection.cpp:60-71`): a line without a colon, such as
  the rest of a line longer than MAXLINE, is returned with SUCCESS, and so is a line
  that the end of the connection has cut short; `send` sets no result when it
  fails.  `MessagesIntact` says which messages result from which lines, those
  included.

Some other behaviours are surprising and part of the models; where a property speaks
of them it states them as they are:

* senders are members of their room, so their queues are filled and never drained
  (`room.cpp:51`);
* a line longer than MAXLINE is received in pieces (`connection.cpp:62`);
* the sender never reads the response to its login, so from then on it is one
  response behind (`sender.cpp:29`; `OneBehind`);
* the receiver looks for colons in the text as well, and a text that has some loses
  its beginning (`receiver.cpp:45-52`; `PrintedAsTyped`).

## 4. Proofs

All theorems follow from the named assumptions of their module alone and hold for
every value of the constants that satisfies them.

* `Recursion`: the models define a merge, a search for a victim and the text of a
  queue by recursive functions, and an induction theorem takes an operator as its
  parameter, which the provers here cannot instantiate.  `Least` (a set of numbers
  has a least element) takes its place: a recursion on a range that had no
  solution, or two, would have a least counterexample.  `RecursionExists` and
  `RecursionUnique` give such a function and its value at every point; what it
  computes is then shown by assuming the least point at which it does not.

* `MessageQueueProofs`: `TypeCorrect`, `MutualExclusion`, `PermitsCorrect`,
  `PopsAreSafe`, `OwnershipCorrect`, `QueueImplementsChannel`, from
  `QueueAssumption`.  The argument starts from
  mutual exclusion.  `PermitsMatch` then makes the length of the deque the number of
  permits plus the consumers that have claimed one plus the producer that has not
  posted yet, so a claimant implies a message: `NoEmptyPop`, which is not inductive
  on its own.  `Ownership` needs it because popping an empty deque would hand out
  an arbitrary pointer.  In the refinement a message enters the channel when its
  permit is posted, not when it is pushed: otherwise a `dequeue` that times out
  between the two would be a channel that returns nothing while it holds a message.
* `ChatServerProofs`: `TypeCorrect`, `RoomsAreUnique`, `SafeUntilEndCorrect`,
  `MembershipCorrect`, `DeliveryCorrect`, from `ServerAssumption`.  Four conjuncts
  make the invariant inductive: types, what a worker has at hand where it needs it (`Places`), that
  the map and the rooms ever created name each other (`Rooms`), and that whoever
  is about to create a room holds `m_lock` and finds its name free (`Creating`):
  without the last the look-up and the insertion could be torn apart.  `Safe` adds
  that nothing is freed before a session ends.  `Members` says of each session
  that it is a member of no room but its own, and of none while it moves; the
  lemma `BystanderSettled` disposes of the steps of all other sessions.
  `Delivery` makes `ExactDelivery` inductive.  A broadcast in progress (`Broadcasts`)
  holds its room's lock, its message is the last of the room's log, and everyone it
  still has to reach joined before it: so at most the last message is missing, and
  only from those it is still going to.  A member joined at a point of the log
  (`Joined`), a receiver that has not joined has been given nothing (`Role`), and one
  that has was given what was said since (`Gets`).  What a receiver should have heard
  is a fold over the log; `HeardMore` says what one more message adds to it.
* `ChatSystemProofs`: `ServerImplemented`, `SystemTypeCorrect`, `OneBehindCorrect`,
  `PrintedAsTypedCorrect`, `SystemServerCorrect`, from `ServerAssumption` and
  `SystemAssumption`.  Whatever the clients do, a worker takes a step of `ChatServer`
  or none, so the server's part of the system implements `ChatServer`; the last theorem
  carries its properties over, and its invariant is at hand in the rest.  `Links` says
  for each session what its client, the two directions of the connection and its worker
  have to do with each other.  `SenderSide` and `ReceiverSide`: a worker never is in code
  that is for the other program.  `Counting`: the responses read and those on their way
  are as many as the worker has sent, one to the login and one to each line, and each
  says which line it answers; the lines typed are those heard of and the one being
  waited for.  That is what makes `OneBehind` inductive, and it has to allow for a
  server that has ended, a client that was killed, and an unread response to quit.
  `Printing` (with `OnTheWay`): what was delivered is what was printed, followed by what
  is on its way, behind any responses.  A text that is queued or was delivered is that
  of a line already typed (`WasTyped`), so typing more does not change it.  Last, `ShownIs`
  follows the five colons through `room:name:text` (`Parts`, `FindFirst`): the first two
  are the server's when room and name have none, the others are in the text.
* `ServerLifetimeProofs`: `TypeCorrect`, `NothingIsKept`, `CloseSucceeds`,
  `RoomHeldCorrect`, from `LifetimeAssumption`.  `Opened` says, for
  every place main can be at, which descriptors are open and on what, `Allocated` which blocks live, and
  `NotStarted` that clients not accepted yet have no worker.  `CloseNeverFails` is
  not inductive: that the descriptor in the Connection main deletes is open has to
  be carried along from `accept`.  `RoomInv` makes `RoomHeldIsLive` inductive: the
  room's lock is held by who is in the room, and only as long as the room is there;
  every other step leaves the room alone or finds its lock free (`OutsideRoom`).
* `ConnectionProofs`: `TypeCorrect`, `BytesConservedCorrect`, `MessagesIntactCorrect`,
  from `ConnectionAssumption`.  The type invariant holds the sizes: the read buffer never
  holds more than RIO_BUFSIZE and a line never more than MAXLINE - 1 bytes.  For
  conservation every action moves bytes from one place to the next (`BytesMoved`), and
  the lemmas on concatenation say that moving them leaves the whole the same; a
  broken connection drops an end, so what is left is a beginning (`PrefixOfConcat`).
  For `MessagesIntact` the lines read are compared with the lines that the sent bytes
  are cut into (`Foreseen`): what is still on the way, cut by the receiver, gives the
  lines not read yet (`LinesAhead`), and each next line read is the next of them
  (`NextLine`).  A broken connection may end in the middle of a line, so the comparison
  is for all lines (`Whole`) or for all but the last (`Torn`).
* `ParSortProofs`: `TypeCorrect`, `FailuresAreReported`, `NobodyInterferes`,
  `HalvesCorrect`, `SortedCorrect`, from `ParSortAssumption`.  `Shape` ties the stack
  of a process to the halves it divides; `Children` says that when a forked child has
  exited with 0 so has every process in its half; `Interior` says that nobody runs
  inside the part a process looks after itself, which begins at `lo(p)`.
  `NoInterference` follows because the part a process accesses lies inside its own.
  The orphans of a failed parent are covered: an exit code other than 0 claims
  nothing about the half.  `Contents` adds what is in the array: a half that is done,
  by a call that returned or a child that exited with 0, is a sorted permutation of
  the input there, and so is what `merge` has put in `temparr`.  It is kept because
  a process writes only to the range it owns, which is where `NoInterference` is
  needed.  Underneath are lemmas on the algorithms: `qsort` and `merge` return sorted
  permutations (permutations as bijections of the positions, turned into equal
  counts of every value), `is_sorted` computes sortedness.  No bound is set
  on the length of a file: a call has sorted as much of its range as `num_elements`
  counts (`Result`), and whatever would build on a half that is sorted in part -- a merge
  of a range that `temparr` does not fit -- is undefined behaviour, after which nothing
  happens; a range that fits has halves that were counted whole.
* `CacheSimProofs`: `TypeCorrect`, `BlocksAreUnique`, `LoadAgesAreOrdered`,
  `CyclesCorrect`, `ReferenceImplemented`, from `CacheAssumption`.  Three facts are
  kept for each set: it is filled from the left, no tag is in two slots, and its
  filled slots are `Ranked`.  `LoadAgesOrdered` is silent about a set with a single
  block, because the first fill writes an age that the second has to find and
  correct: `Ranked` remembers that age, and that no two ages are equal, without
  which an eviction would not be seen to leave them in order.  The theorem is what
  makes `FifoVictim` find one oldest block in a set of any size.  `CyclesAccounted`
  is made inductive by `Balanced`, which adds that no block is dirty under
  write-through; each access is shown to change the number of dirty blocks by
  at most what it charges for.  For the refinement `AllAged` says that the blocks
  of a set can be listed by age, and that no timestamp has reached the clock.  A hit
  under LRU moves one block to the end of the list, FIFO leaves the list alone, and
  the victim is its first block: under LRU the scan of `evictionFunction`, unfolded
  slot by slot, ends at the least timestamp (`LruLeast`).  That the clock, cut to an
  int, is still the clock is where `CacheAssumption` bounds the length of the trace.

Only model-checked:

* all liveness, and `ENABLED`, which are out of the prover's reach: `MessageDelivered`,
  `EnqueueReturns`, `CommandAnswered`, `LineAnswered`, `QuitEndsSession`,
  `EverythingPrinted`, `ShutdownEnds`, `MessageArrives`, `EndNoticed`, `Terminates`.

## 5. Plan

Done: the core of the server, the queue and its refinement, the cache and its
refinement, the sort, the process life cycle, the connection, the clients and their
composition with the server; proofs of every safety property of every component.
What is left:

1. A bounded socket buffer in `ChatSystem`, so that a worker can block in `send`.

## 6. Not modelled

* The wrappers of `csapp.c` that no program here calls (a vendored teaching library).
* `client_util.cpp`: three trimming functions that no program calls.
* `gen_rand_data.c` writes random numbers; Makefiles, scripts, traces and the
  reference binaries (no source) have no behaviour of the programs to model.
* The printing of results and usage messages; trace lines that make `stol` throw in
  the cache simulator.
* In `ChatServer` the results of `send`, because no code looks at them.
