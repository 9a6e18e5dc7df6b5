------------------------------ MODULE CacheSim ------------------------------
(***************************************************************************)
(* hw3 (main.cpp, cache_funcs.cpp, Cache.h): the cache simulator.  One     *)
(* line of the trace is one step: the address is decoded, the set is       *)
(* searched, a slot is touched, filled or evicted, cycles and counters are *)
(* updated and the clock advances.  The command line is chosen in Init     *)
(* among those main accepts.                                               *)
(***************************************************************************)
EXTENDS Integers, Sequences, FiniteSets

CONSTANTS Shape,       \* argv[1..3] tried: [sets, slots, bytes]
          LoadAddress, \* addresses loaded by the trace
          StoreAddress,\* addresses stored to by the trace
          Word,        \* 2^32, the values of a uint32_t
          Long,        \* 2^64, the values of a long unsigned
          ExtraLines   \* bound: lines of the trace beyond those that fill a set

ASSUME CacheAssumption ==
    /\ Shape \subseteq [sets : Nat \ {0}, slots : Nat \ {0}, bytes : Nat \ {0}]
    /\ LoadAddress \subseteq Nat /\ StoreAddress \subseteq Nat
    /\ Word \in Nat /\ Word > 1 /\ Long \in Nat /\ Long >= Word
    /\ ExtraLines \in Nat
    /\ \A c \in Shape : 2 * (c.slots + ExtraLines + 1) < Word   \* no int overflows

VARIABLES config,          \* the command line
          sets,            \* Cache::sets
          total_cycles,    \* Cache::total_cycles
          cache_timestamp, \* lines read so far, plus one
          hits,            \* load_Hits and store_Hits
          misses           \* load_Misses and store_Misses

vars == <<config, sets, total_cycles, cache_timestamp, hits, misses>>

\* x & (x - 1) is 0 just when x has a single one among its binary digits.
is_a_power_of_two(x) == \E e \in 0..x : x = 2^e

\* The command lines main lets through.
Config ==
    {c \in [shape : Shape, allocate : BOOLEAN, write_through : BOOLEAN, lru : BOOLEAN] :
        /\ is_a_power_of_two(c.shape.sets) /\ is_a_power_of_two(c.shape.slots)
        /\ is_a_power_of_two(c.shape.bytes) /\ c.shape.bytes >= 4
        /\ c.allocate \/ c.write_through}

num_sets  == config.shape.sets
num_slots == config.shape.slots
slot_size == config.shape.bytes

SlotNr == 0..(num_slots - 1)

EmptySlot ==
    [tag |-> 0, access_ts |-> 0, load_ts |-> 0, dirty_bit |-> FALSE, valid |-> FALSE]

\* Cycles to move one block between cache and memory.
byte_size_calculation == 100 * (slot_size \div 4)

Init ==
    /\ config \in Config
    /\ sets = [i \in 0..(num_sets - 1) |-> [j \in SlotNr |-> EmptySlot]]
    /\ total_cycles = 0
    /\ cache_timestamp = 1
    /\ hits = [k \in {"load", "store"} |-> 0]
    /\ misses = [k \in {"load", "store"} |-> 0]

\* uint32_t tag; tag >>= log2(slot size); index = tag % sets; tag >>= log2(sets).
BlockOf(addr) == (addr % Word) \div slot_size
IndexOf(addr) == BlockOf(addr) % num_sets
TagOf(addr)   == BlockOf(addr) \div num_sets

\* int timestamp = cache_timestamp, and back to the long unsigned access_ts.
AsInt(t) ==
    IF t % Word < Word \div 2 THEN t % Word ELSE Long - Word + (t % Word)

-----------------------------------------------------------------------------
(* The slots of one set *)

FirstOf(js) == CHOOSE j \in js : \A k \in js : j <= k

\* Seeded fault: the search stops one slot early.
MatchingShort(set, tag) ==
    {j \in SlotNr : j < num_slots - 1 /\ set[j].valid /\ set[j].tag = tag}

Matching(set, tag) == {j \in SlotNr : set[j].valid /\ set[j].tag = tag}
Invalid(set)       == {j \in SlotNr : ~set[j].valid}
Filled(set)        == SlotNr \ Invalid(set)
isCacheFull(set)   == Invalid(set) = {}
isCacheEmpty(set)  == Invalid(set) = SlotNr

\* Seeded fault: the second fill is treated like any later one.
UpdateLoadTsPlain(set) ==
    [j \in SlotNr |-> [set[j] EXCEPT !.load_ts =
        IF isCacheEmpty(set) THEN num_slots - 1 - j
        ELSE IF j = FirstOf(Invalid(set)) THEN 0 ELSE @ + 1]]

\* Seeded fault: the first fill counts down from one too few.
UpdateLoadTsShort(set) ==
    [j \in SlotNr |-> [set[j] EXCEPT !.load_ts =
        IF isCacheEmpty(set) THEN num_slots - 2 - j
        ELSE IF j = FirstOf(Invalid(set)) THEN 0 ELSE @ + 1]]

\* Load ages, about to fill the first invalid slot: the largest is the oldest.
update_load_ts(set) ==
    LET index == FirstOf(Invalid(set))
        SecondFill == ~set[1].valid /\ set[0].valid
    IN  [j \in SlotNr |-> [set[j] EXCEPT !.load_ts =
            IF isCacheEmpty(set)  THEN num_slots - 1 - j
            ELSE IF j = index     THEN 0
            ELSE IF ~SecondFill   THEN @ + 1
            ELSE IF @ = num_slots - 1 THEN 1
            ELSE @ + 2]]

\* Fill the first invalid slot (write_through, whatever the policy).
write_through(set, tag, dirty) ==
    [set EXCEPT ![FirstOf(Invalid(set))] =
        [@ EXCEPT !.tag = tag, !.access_ts = AsInt(cache_timestamp),
                  !.valid = TRUE, !.dirty_bit = dirty]]

\* Seeded fault: the scan keeps the first slot.
LruVictimFirst(set) == 0

\* Scan for the least access_ts; min is a uint32_t, and >= prefers the last.
LruVictim(set) ==
    LET scan[j \in SlotNr] ==
          IF j = 0 THEN [min |-> set[0].access_ts % Word, index |-> 0]
          ELSE IF scan[j - 1].min >= set[j].access_ts
               THEN [min |-> set[j].access_ts % Word, index |-> j]
               ELSE scan[j - 1]
    IN  scan[num_slots - 1].index

FifoVictim(set) ==
    LET oldest == {j \in SlotNr : set[j].load_ts = num_slots - 1}
    IN  IF oldest = {} THEN 0 ELSE FirstOf(oldest)

Victim(set) == IF config.lru THEN LruVictim(set) ELSE FifoVictim(set)

\* Seeded fault: the new block inherits the dirty bit.
EvictStaysDirty(set, tag) ==
    LET v == Victim(set)
    IN  [j \in SlotNr |->
            IF j = v THEN [set[j] EXCEPT !.tag = tag, !.access_ts = AsInt(cache_timestamp),
                                         !.load_ts = IF config.lru THEN @ ELSE 0]
            ELSE IF config.lru THEN set[j]
            ELSE [set[j] EXCEPT !.load_ts = @ + 1]]

\* evictionFunction; the new block is never dirty.
Evict(set, tag) ==
    LET v == Victim(set)
    IN  [j \in SlotNr |->
            IF j = v THEN [tag |-> tag, access_ts |-> AsInt(cache_timestamp),
                           load_ts |-> IF config.lru THEN set[j].load_ts ELSE 0,
                           dirty_bit |-> FALSE, valid |-> TRUE]
            ELSE IF config.lru THEN set[j]
            ELSE [set[j] EXCEPT !.load_ts = @ + 1]]

\* Cycles evictionFunction adds: a dirty victim goes back to memory.
WriteBack(set) == IF set[Victim(set)].dirty_bit THEN byte_size_calculation ELSE 0

-----------------------------------------------------------------------------
(* One line of the trace *)

ReadLine ==
    /\ cache_timestamp <= num_slots + ExtraLines
    /\ cache_timestamp' = cache_timestamp + 1
    /\ UNCHANGED config

\* A hit.
Touch(set, tag, dirty) ==
    [set EXCEPT ![FirstOf(Matching(set, tag))] =
        [@ EXCEPT !.access_ts = cache_timestamp, !.dirty_bit = dirty]]

\* A miss: the block is brought in, dirty if asked and no block has to go.
Allocate(set, tag, dirty) ==
    IF isCacheFull(set) THEN Evict(set, tag)
    ELSE write_through(update_load_ts(set), tag, dirty)

AllocateCost(set) ==
    byte_size_calculation + (IF isCacheFull(set) THEN WriteBack(set) ELSE 0)

Outcome(kind, hit) ==
    IF hit THEN /\ hits' = [hits EXCEPT ![kind] = @ + 1] /\ UNCHANGED misses
    ELSE /\ misses' = [misses EXCEPT ![kind] = @ + 1] /\ UNCHANGED hits

\* Load_hitOrMiss
Load(addr) ==
    LET i == IndexOf(addr)
        tag == TagOf(addr)
        found == Matching(sets[i], tag)
    IN  /\ ReadLine
        /\ Outcome("load", found # {})
        /\ \/ /\ found # {}
              /\ sets' = [sets EXCEPT ![i] = Touch(@, tag, @[FirstOf(found)].dirty_bit)]
              /\ total_cycles' = total_cycles + 1
           \/ /\ found = {}
              /\ sets' = [sets EXCEPT ![i] = Allocate(@, tag, FALSE)]
              /\ total_cycles' = total_cycles + AllocateCost(sets[i])

\* Store_hitOrMiss, the write to memory (100 cycles) included; a miss that
\* evicts does not pay for it.
Store(addr) ==
    LET i == IndexOf(addr)
        tag == TagOf(addr)
        found == Matching(sets[i], tag)
        ToMemory == IF config.write_through THEN 100 ELSE 0
    IN  /\ ReadLine
        /\ Outcome("store", found # {})
        /\ \/ /\ found # {}
              /\ sets' = [sets EXCEPT ![i] = Touch(@, tag, ~config.write_through)]
              /\ total_cycles' = total_cycles + ToMemory + 1
           \/ /\ found = {} /\ config.allocate
              /\ sets' = [sets EXCEPT ![i] = Allocate(@, tag, ~config.write_through)]
              /\ total_cycles' = total_cycles + AllocateCost(sets[i])
                                   + (IF isCacheFull(sets[i]) THEN 0 ELSE ToMemory)
           \/ /\ found = {} /\ ~config.allocate
              /\ total_cycles' = total_cycles + 100
              /\ UNCHANGED sets

\* A line that is neither l nor s: only the clock moves.
Other == ReadLine /\ UNCHANGED <<sets, total_cycles, hits, misses>>

Next == \/ \E addr \in LoadAddress : Load(addr)
        \/ \E addr \in StoreAddress : Store(addr)
        \/ Other

Spec == Init /\ [][Next]_vars

-----------------------------------------------------------------------------
(* Properties *)

\* Every variable holds a value of its type; no load age or cost is negative.
TypeOK ==
    /\ config \in Config
    /\ sets \in [0..(num_sets - 1) -> [SlotNr ->
          [tag : Nat, access_ts : Nat, load_ts : Nat, dirty_bit : BOOLEAN, valid : BOOLEAN]]]
    /\ total_cycles \in Nat
    /\ cache_timestamp \in 1..(num_slots + ExtraLines + 1)
    /\ hits \in [{"load", "store"} -> Nat]
    /\ misses \in [{"load", "store"} -> Nat]

\* Slots are filled from the left, and no block is in two of them.
NoDuplicates ==
    \A i \in DOMAIN sets : \A j, k \in SlotNr :
        /\ sets[i][j].valid /\ k < j => sets[i][k].valid
        /\ sets[i][j].valid /\ sets[i][k].valid /\ sets[i][j].tag = sets[i][k].tag => j = k

\* From the second fill on, and in a full set, the load ages of the k filled
\* slots are 0 .. k-1: the shuffling in update_load_ts and the increments on
\* eviction never give two slots one age, so that just one is the oldest.
LoadAgesOrdered ==
    \A i \in DOMAIN sets :
        LET k == Cardinality(Filled(sets[i]))
        IN  k >= 2 \/ k = num_slots =>
                {sets[i][j].load_ts : j \in Filled(sets[i])} = 0..(k - 1)

\* What the cycles are made of, over any trace: one for a hit, the block for each
\* fetch, and then, under write-through, 100 for every store but at most those
\* that miss; under write-back the block for each time one is written back, and
\* what a store has written is never written back twice.  (It may be never: a
\* store that evicts leaves its block clean.)
CyclesAccounted ==
    LET stores  == hits["store"] + misses["store"]
        fetches == misses["load"] + (IF config.allocate THEN misses["store"] ELSE 0)
        rest    == total_cycles - hits["load"] - hits["store"] - fetches * byte_size_calculation
        dirty   == Cardinality({p \in (DOMAIN sets) \X SlotNr : sets[p[1]][p[2]].dirty_bit})
    IN  IF config.write_through
        THEN \E paid \in hits["store"]..stores : rest = 100 * paid
        ELSE \E writebacks \in 0..(stores - dirty) : rest = writebacks * byte_size_calculation

\* Refinement of ReferenceCache: the filled slots by age.
Before(set, j, k) == IF config.lru THEN set[j].access_ts < set[k].access_ts
                     ELSE set[j].load_ts > set[k].load_ts

InOrder(i) ==
    [r \in 1..Cardinality(Filled(sets[i])) |->
        LET j == CHOOSE k \in Filled(sets[i]) :
                    Cardinality({m \in Filled(sets[i]) : Before(sets[i], m, k)}) = r - 1
        IN  sets[i][j].tag * num_sets + i]

Reference == INSTANCE ReferenceCache
               WITH order <- [i \in DOMAIN sets |-> InOrder(i)],
                    Block <- {(addr % Word) \div shape.bytes :
                                addr \in LoadAddress \cup StoreAddress, shape \in Shape}

\* With its timestamps and load ages the simulator evicts, hits and misses
\* exactly as an LRU or FIFO cache does.
ImplementsReference == Reference!Spec

\* "a store writes to the cache as well as to memory" (cache_funcs.h:8): under
\* write-through every store pays for the write to memory, over the block it
\* fetches.
StorePaysMemory ==
    [][(config.write_through /\ hits["store"] + misses["store"]
                                 # hits'["store"] + misses'["store"])
         => total_cycles' - total_cycles >=
               100 + (IF misses' # misses /\ config.allocate
                      THEN byte_size_calculation ELSE 0)]_vars
=============================================================================
