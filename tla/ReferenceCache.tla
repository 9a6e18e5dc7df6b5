--------------------------- MODULE ReferenceCache ---------------------------
(***************************************************************************)
(* What a set-associative cache promises, without slots or timestamps:     *)
(* each set is the sequence of the blocks it holds in the order in which   *)
(* they will be evicted, and an access hits when its block is there.       *)
(***************************************************************************)
EXTENDS Integers, Sequences

CONSTANTS Block,       \* block numbers
          Config       \* the configurations the program accepts

VARIABLES config,      \* [shape, allocate, write_through, lru]
          order,       \* the blocks of every set, next victim first
          hits,        \* loads and stores that hit
          misses       \* loads and stores that missed

refVars == <<config, order, hits, misses>>

Kind == {"load", "store"}

Init ==
    /\ config \in Config
    /\ order = [i \in 0..(config.shape.sets - 1) |-> <<>>]
    /\ hits = [k \in Kind |-> 0]
    /\ misses = [k \in Kind |-> 0]

Cached(b) == \E r \in DOMAIN order[b % config.shape.sets] : order[b % config.shape.sets][r] = b

\* The r-th of a set's blocks behind all others.
MoveLast(q, r) == Append(SubSeq(q, 1, r - 1) \o SubSeq(q, r + 1, Len(q)), q[r])

\* LRU moves the block behind all others; FIFO leaves it where it is.
Hit(kind, b) ==
    /\ hits' = [hits EXCEPT ![kind] = @ + 1]
    /\ UNCHANGED <<config, misses>>
    /\ Cached(b)
    /\ IF config.lru
       THEN \E r \in DOMAIN order[b % config.shape.sets] :
               /\ order[b % config.shape.sets][r] = b
               /\ order' = [order EXCEPT ![b % config.shape.sets] = MoveLast(@, r)]
       ELSE order' = order

\* The block is brought in, in place of the next victim if the set is full;
\* a store brings it in only under write-allocate.
Miss(kind, b) ==
    /\ misses' = [misses EXCEPT ![kind] = @ + 1]
    /\ UNCHANGED <<config, hits>>
    /\ ~Cached(b)
    /\ order' = IF kind = "store" /\ ~config.allocate
                THEN order
                ELSE [order EXCEPT ![b % config.shape.sets] =
                        Append(IF Len(@) = config.shape.slots THEN Tail(@) ELSE @, b)]

Next == \E kind \in Kind, b \in Block : Hit(kind, b) \/ Miss(kind, b)

Spec == Init /\ [][Next]_refVars
=============================================================================
