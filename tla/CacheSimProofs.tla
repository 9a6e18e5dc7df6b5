---------------------------- MODULE CacheSimProofs ----------------------------
(***************************************************************************)
(* Machine-checked proofs about CacheSim, for caches of every shape main   *)
(* accepts, every policy and traces of any length the timestamps allow.    *)
(***************************************************************************)
EXTENDS CacheSim, FiniteSetTheorems, SequenceTheorems, Recursion, WellFoundedInduction, TLAPS

Slot == [tag : Nat, access_ts : Nat, load_ts : Nat, dirty_bit : BOOLEAN, valid : BOOLEAN]

Set == [SlotNr -> Slot]

\* Slots are filled from the left.
FilledFromLeft(set) == \A j, k \in SlotNr : set[j].valid /\ k < j => set[k].valid

\* No block is in two slots.
Distinct(set) ==
    \A j, k \in SlotNr : set[j].valid /\ set[k].valid /\ set[j].tag = set[k].tag => j = k

\* The first n slots have the load ages 0 .. n-1, each once.
OneOfEachAge(set, n) ==
    /\ \A j \in 0..(n - 1) : set[j].load_ts \in 0..(n - 1)
    /\ \A j, k \in 0..(n - 1) : set[j].load_ts = set[k].load_ts => j = k
    /\ \A a \in 0..(n - 1) : \E j \in 0..(n - 1) : set[j].load_ts = a

\* The first n slots are filled.  The only block of a larger set has the age
\* the second fill looks for; after that the ages are in order.
Ranked(set, n) ==
    /\ n \in 0..num_slots
    /\ \A j \in SlotNr : set[j].valid <=> j < n
    /\ n = 1 /\ num_slots > 1 => set[0].load_ts = num_slots - 1
    /\ n >= 2 \/ n = num_slots => OneOfEachAge(set, n)

Sound(set) == FilledFromLeft(set) /\ Distinct(set) /\ \E n \in Nat : Ranked(set, n)

-----------------------------------------------------------------------------
(* Numbers *)

LEMMA DivNat == ASSUME NEW x \in Nat, NEW y \in Nat \ {0} PROVE x \div y \in Nat
  OBVIOUS

LEMMA ModNat == ASSUME NEW x \in Nat, NEW y \in Nat \ {0} PROVE x % y \in 0..(y - 1)
  OBVIOUS

LEMMA ConfigFacts ==
    ASSUME config \in Config
    PROVE  /\ num_sets \in Nat \ {0} /\ num_slots \in Nat \ {0} /\ slot_size \in Nat \ {0}
           /\ config.lru \in BOOLEAN /\ config.write_through \in BOOLEAN
           /\ 0 \in SlotNr /\ byte_size_calculation \in Nat
  <1>1. config.shape \in Shape /\ config.lru \in BOOLEAN /\ config.write_through \in BOOLEAN
    BY DEF Config
  <1>2. config.shape \in [sets : Nat \ {0}, slots : Nat \ {0}, bytes : Nat \ {0}]
    BY <1>1, CacheAssumption
  <1>3. num_sets \in Nat \ {0} /\ num_slots \in Nat \ {0} /\ slot_size \in Nat \ {0}
    BY <1>2 DEF num_sets, num_slots, slot_size
  <1>4. byte_size_calculation \in Nat
    BY <1>3, DivNat DEF byte_size_calculation
  <1>5. QED
    BY <1>1, <1>3, <1>4 DEF SlotNr

LEMMA AddressFacts ==
    ASSUME config \in Config, NEW addr \in LoadAddress \cup StoreAddress
    PROVE  IndexOf(addr) \in 0..(num_sets - 1) /\ TagOf(addr) \in Nat
  <1>1. addr \in Nat /\ Word \in Nat \ {0}
    BY CacheAssumption
  <1>2. addr % Word \in Nat
    BY <1>1, ModNat
  <1>3. BlockOf(addr) \in Nat
    BY <1>2, ConfigFacts, DivNat DEF BlockOf
  <1>4. QED
    BY <1>3, ConfigFacts, DivNat, ModNat DEF IndexOf, TagOf

LEMMA AsIntNat == ASSUME NEW t \in Nat PROVE AsInt(t) \in Nat
  <1>1. Word \in Nat \ {0} /\ Long \in Nat /\ Long >= Word
    BY CacheAssumption
  <1>2. t % Word \in Nat
    BY <1>1, ModNat
  <1>3. QED
    BY <1>1, <1>2 DEF AsInt

\* A nonempty set of slots has a first one (the loops over slots that break).
LEMMA First ==
    ASSUME config \in Config, NEW js, js \subseteq SlotNr, js # {}
    PROVE  FirstOf(js) \in js /\ \A k \in js : FirstOf(js) <= k
  <1>1. js \subseteq Nat
    BY ConfigFacts DEF SlotNr
  <1>2. PICK j \in js : \A k \in js : ~(<<k, j>> \in OpToRel(<, Nat))
    BY <1>1, WFMin, NatLessThanWellFounded
  <1>3. ASSUME NEW k \in js PROVE j <= k
    <2>1. k \in Nat /\ j \in Nat
      BY <1>1
    <2>2. ~(<<k, j>> \in OpToRel(<, Nat))
      BY <1>2
    <2>3. ~(k < j)
      BY <2>1, <2>2 DEF OpToRel
    <2>4. QED
      BY <2>1, <2>3
  <1>4. QED
    BY <1>3 DEF FirstOf

-----------------------------------------------------------------------------
(* What the operations do to one set *)

\* How the ages move when the slot after n filled ones is filled: the second
\* fill corrects what the first has written into the free slots.
LEMMA AgesOnFill ==
    ASSUME config \in Config, NEW set \in Set, NEW n \in 0..(num_slots - 1), Ranked(set, n),
           FirstOf(Invalid(set)) = n, NEW after,
           \A j \in SlotNr : after[j].load_ts = update_load_ts(set)[j].load_ts,
           \A j \in SlotNr : after[j].valid <=> j = n \/ set[j].valid
    PROVE  Ranked(after, n + 1)
  <1>1. num_slots \in Nat \ {0} /\ n \in Nat /\ n < num_slots /\ 0 \in SlotNr
    BY ConfigFacts
  <1>2. \A j \in SlotNr : j \in Nat /\ j < num_slots /\ set[j] \in Slot
    BY <1>1 DEF Set, SlotNr
  <1>3. \A j \in SlotNr : set[j].load_ts \in Nat
    BY <1>2 DEF Slot
  <1>4. \A j \in SlotNr : after[j].valid <=> j < n + 1
    BY <1>1, <1>2 DEF Ranked
  <1>5. n + 1 \in 0..num_slots
    BY <1>1
  <1>6. CASE n = 0
    <2>1. isCacheEmpty(set)
      BY <1>2, <1>6 DEF isCacheEmpty, Invalid, Ranked
    <2>2. after[0].load_ts = num_slots - 1
      <3>1. update_load_ts(set)[0] = [set[0] EXCEPT !.load_ts = num_slots - 1 - 0]
        BY <1>1, <2>1 DEF update_load_ts
      <3>2. update_load_ts(set)[0].load_ts = num_slots - 1 - 0
        BY <1>1, <1>2, <3>1 DEF Slot
      <3>3. QED
        BY <1>1, <3>2
    <2>3. n + 1 = num_slots => OneOfEachAge(after, n + 1)
      BY <1>1, <1>6, <2>2 DEF OneOfEachAge
    <2>4. QED
      BY <1>1, <1>4, <1>5, <1>6, <2>2, <2>3 DEF Ranked
  <1>7. CASE n = 1
    <2>1. 1 \in SlotNr /\ set[0].valid /\ ~set[1].valid
      BY <1>1, <1>7 DEF Ranked, SlotNr
    <2>2. ~isCacheEmpty(set)
      BY <1>1, <2>1 DEF isCacheEmpty, Invalid
    <2>3. set[0].load_ts = num_slots - 1
      BY <1>1, <1>7 DEF Ranked
    <2>4. after[0].load_ts = 1
      <3>1. update_load_ts(set)[0] = [set[0] EXCEPT !.load_ts = 1]
        BY <1>1, <1>7, <2>1, <2>2, <2>3 DEF update_load_ts
      <3>2. QED
        BY <1>1, <1>2, <3>1 DEF Slot
    <2>5. after[1].load_ts = 0
      <3>1. update_load_ts(set)[1] = [set[1] EXCEPT !.load_ts = 0]
        BY <1>1, <1>7, <2>1, <2>2 DEF update_load_ts
      <3>2. QED
        BY <1>2, <2>1, <3>1 DEF Slot
    <2>6. OneOfEachAge(after, 2)
      <3>1. \A j \in 0..(2 - 1) : j = 0 \/ j = 1
        OBVIOUS
      <3>2. 0 \in 0..(2 - 1) /\ 1 \in 0..(2 - 1)
        OBVIOUS
      <3>3. QED
        BY <2>4, <2>5, <3>1, <3>2 DEF OneOfEachAge
    <2>7. QED
      BY <1>1, <1>4, <1>5, <1>7, <2>6 DEF Ranked
  <1>8. CASE n >= 2
    <2>1. 1 \in SlotNr /\ n \in SlotNr /\ set[0].valid /\ set[1].valid
      BY <1>1, <1>8 DEF Ranked, SlotNr
    <2>2. ~isCacheEmpty(set)
      BY <1>1, <2>1 DEF isCacheEmpty, Invalid
    <2>3. \A j \in SlotNr : after[j].load_ts = IF j = n THEN 0 ELSE set[j].load_ts + 1
      <3> SUFFICES ASSUME NEW j \in SlotNr
                   PROVE  after[j].load_ts = IF j = n THEN 0 ELSE set[j].load_ts + 1
        OBVIOUS
      <3>1. update_load_ts(set)[j] = [set[j] EXCEPT !.load_ts = IF j = n THEN 0 ELSE @ + 1]
        BY <2>1, <2>2 DEF update_load_ts
      <3>2. QED
        BY <1>2, <3>1 DEF Slot
    <2>4. OneOfEachAge(set, n)
      BY <1>8 DEF Ranked
    <2>5. OneOfEachAge(after, n + 1)
      <3>1. \A j \in 0..(n + 1 - 1) : j \in SlotNr /\ (j # n => j \in 0..(n - 1))
        BY <1>1, <2>1 DEF SlotNr
      <3>2. \A j \in 0..(n - 1) : j \in SlotNr /\ set[j].load_ts \in 0..(n - 1)
        BY <1>1, <2>4 DEF OneOfEachAge, SlotNr
      <3>3. \A j \in 0..(n + 1 - 1) : after[j].load_ts \in 0..(n + 1 - 1)
        BY <1>1, <2>3, <3>1, <3>2
      <3>4. \A j, k \in 0..(n + 1 - 1) : after[j].load_ts = after[k].load_ts => j = k
        <4> SUFFICES ASSUME NEW j \in 0..(n + 1 - 1), NEW k \in 0..(n + 1 - 1),
                            after[j].load_ts = after[k].load_ts
                     PROVE  j = k
          OBVIOUS
        <4>1. (j = n) <=> (k = n)
          BY <1>1, <2>3, <3>1, <3>2
        <4>2. CASE j # n /\ k # n
          <5>1. set[j].load_ts = set[k].load_ts
            <6>1. j \in SlotNr /\ k \in SlotNr
              BY <3>1
            <6>2. set[j].load_ts \in Nat /\ set[k].load_ts \in Nat
              BY <1>3, <6>1
            <6>3. set[j].load_ts + 1 = set[k].load_ts + 1
              BY <2>3, <4>2, <6>1
            <6>4. QED
              BY <6>2, <6>3
          <5>2. QED
            BY <2>4, <3>1, <4>2, <5>1 DEF OneOfEachAge
        <4>3. QED
          BY <4>1, <4>2
      <3>5. ASSUME NEW a \in 0..(n + 1 - 1)
            PROVE  \E j \in 0..(n + 1 - 1) : after[j].load_ts = a
        <4>1. CASE a = 0
          BY <1>1, <2>1, <2>3, <4>1
        <4>2. CASE a # 0
          <5>1. a - 1 \in 0..(n - 1)
            BY <1>1, <4>2
          <5>2. PICK j \in 0..(n - 1) : set[j].load_ts = a - 1
            BY <2>4, <5>1 DEF OneOfEachAge
          <5>3. j \in SlotNr /\ j # n /\ j \in 0..(n + 1 - 1)
            BY <1>1, <3>2
          <5>4. after[j].load_ts = a
            BY <1>1, <2>3, <5>2, <5>3
          <5>5. QED
            BY <5>3, <5>4
        <4>3. QED
          BY <4>1, <4>2
      <3>6. QED
        BY <3>3, <3>4, <3>5 DEF OneOfEachAge
    <2>6. QED
      BY <1>1, <1>4, <1>5, <1>8, <2>5 DEF Ranked
  <1>9. QED
    BY <1>1, <1>6, <1>7, <1>8

\* How they move when a full set loses its block of age num_slots - 1.
LEMMA AgesOnEviction ==
    ASSUME config \in Config, NEW set \in Set, OneOfEachAge(set, num_slots), NEW after,
           NEW v \in SlotNr, set[v].load_ts = num_slots - 1,
           \A j \in SlotNr : after[j].load_ts = IF j = v THEN 0 ELSE set[j].load_ts + 1
    PROVE  OneOfEachAge(after, num_slots)
  <1>1. num_slots \in Nat \ {0} /\ SlotNr = 0..(num_slots - 1)
    BY ConfigFacts DEF SlotNr
  <1>2. \A j \in SlotNr : set[j].load_ts \in 0..(num_slots - 1)
    BY <1>1 DEF OneOfEachAge
  <1>3. \A j, k \in SlotNr : set[j].load_ts = set[k].load_ts => j = k
    BY <1>1 DEF OneOfEachAge
  <1>4. \A j \in SlotNr : j # v => set[j].load_ts \in 0..(num_slots - 2)
    BY <1>1, <1>2, <1>3
  <1>5. \A j \in SlotNr : after[j].load_ts \in 0..(num_slots - 1)
    <2> SUFFICES ASSUME NEW j \in SlotNr
                 PROVE  after[j].load_ts \in 0..(num_slots - 1)
      OBVIOUS
    <2>1. CASE j = v
      BY <1>1, <2>1
    <2>2. CASE j # v
      <3>1. after[j].load_ts = set[j].load_ts + 1 /\ set[j].load_ts \in 0..(num_slots - 2)
        BY <1>4, <2>2
      <3>2. QED
        BY <1>1, <3>1
    <2>3. QED
      BY <2>1, <2>2
  <1>6. \A j, k \in SlotNr : after[j].load_ts = after[k].load_ts => j = k
    <2>1. \A j \in SlotNr : set[j].load_ts \in Nat
      BY <1>1, <1>2
    <2>2. QED
      BY <1>3, <2>1
  <1>7. ASSUME NEW a \in 0..(num_slots - 1)
        PROVE  \E j \in SlotNr : after[j].load_ts = a
    <2>1. CASE a = 0
      BY <2>1
    <2>2. CASE a # 0
      <3>1. a - 1 \in 0..(num_slots - 1)
        BY <1>1, <2>2
      <3>2. PICK j \in SlotNr : set[j].load_ts = a - 1
        BY <1>1, <3>1 DEF OneOfEachAge
      <3>3. j # v
        BY <1>1, <3>2
      <3>4. after[j].load_ts = a
        BY <1>1, <3>2, <3>3
      <3>5. QED
        BY <3>4
    <2>3. QED
      BY <2>1, <2>2
  <1>8. QED
    BY <1>1, <1>5, <1>6, <1>7 DEF OneOfEachAge

\* Filling the first free slot after a miss: the ages change first, and change
\* nothing else (update_load_ts, then write_through).
LEMMA FillKeeps ==
    ASSUME config \in Config, cache_timestamp \in Nat, NEW set \in Set, NEW tag \in Nat,
           NEW dirty \in BOOLEAN, Sound(set), Matching(set, tag) = {}, ~isCacheFull(set)
    PROVE  LET after == write_through(update_load_ts(set), tag, dirty)
           IN  after \in Set /\ Sound(after)
  <1> DEFINE f == FirstOf(Invalid(set))
             aged == update_load_ts(set)
             after == write_through(aged, tag, dirty)
  <1>1. f \in SlotNr /\ ~set[f].valid /\ \A k \in SlotNr : k < f => set[k].valid
    <2>1. f \in Invalid(set) /\ \A k \in Invalid(set) : f <= k
      BY First DEF Invalid, isCacheFull
    <2>2. f \in SlotNr /\ ~set[f].valid
      BY <2>1 DEF Invalid
    <2>3. ASSUME NEW k \in SlotNr, k < f PROVE set[k].valid
      <3> HIDE DEF f
      <3>1. f \in Int /\ k \in Int
        BY <2>2 DEF SlotNr
      <3>2. ~(f <= k)
        BY <2>3, <3>1
      <3>3. QED
        BY <2>1, <3>2 DEF Invalid
    <2>4. QED
      BY <2>2, <2>3
  <1>2. /\ aged \in Set
        /\ \A j \in SlotNr : aged[j].valid = set[j].valid /\ aged[j].tag = set[j].tag
    <2>1. \A j \in SlotNr : set[j] \in Slot /\ num_slots - 1 - j \in Nat
      BY ConfigFacts DEF Set, SlotNr
    <2>2. \A j \in SlotNr : \A n \in Nat : [set[j] EXCEPT !.load_ts = n] \in Slot
      BY <2>1 DEF Slot
    <2>3. \A j \in SlotNr : \E n \in Nat : aged[j] = [set[j] EXCEPT !.load_ts = n]
      <3> SUFFICES ASSUME NEW j \in SlotNr
                   PROVE  \E n \in Nat : aged[j] = [set[j] EXCEPT !.load_ts = n]
        OBVIOUS
      <3>1. set[j].load_ts \in Nat /\ set[j].load_ts + 1 \in Nat /\ set[j].load_ts + 2 \in Nat
        BY <2>1 DEF Slot
      <3>2. QED
        BY <2>1, <3>1 DEF update_load_ts
    <2>4. aged \in Set
      BY <2>2, <2>3 DEF update_load_ts, Set
    <2>5. QED
      BY <2>1, <2>3, <2>4 DEF Slot
  <1>3. Invalid(aged) = Invalid(set)
    BY <1>2 DEF Invalid
  <1>4. after = [aged EXCEPT ![f] = [@ EXCEPT !.tag = tag,
                                              !.access_ts = AsInt(cache_timestamp),
                                              !.valid = TRUE, !.dirty_bit = dirty]]
    BY <1>3 DEF write_through
  <1>5. after \in Set
    <2> HIDE DEF f, aged, after
    <2>1. aged \in [SlotNr -> Slot] /\ aged[f] \in Slot /\ AsInt(cache_timestamp) \in Nat
      BY <1>1, <1>2, AsIntNat DEF Set
    <2>2. [aged[f] EXCEPT !.tag = tag, !.access_ts = AsInt(cache_timestamp),
                          !.valid = TRUE, !.dirty_bit = dirty] \in Slot
      BY <2>1 DEF Slot
    <2>3. QED
      BY <1>1, <1>4, <2>1, <2>2 DEF Set
  <1>6. \A j \in SlotNr : IF j = f THEN after[j].valid /\ after[j].tag = tag
                          ELSE after[j].valid = set[j].valid /\ after[j].tag = set[j].tag
    BY <1>1, <1>2, <1>4 DEF Set, Slot
  <1>7. FilledFromLeft(after)
    BY <1>1, <1>6 DEF Sound, FilledFromLeft
  <1>8. Distinct(after)
    BY <1>6 DEF Sound, Distinct, Matching
  <1>9. \A j \in SlotNr : after[j].load_ts = aged[j].load_ts
    <2> HIDE DEF f, aged, after
    <2>1. \A j \in SlotNr : aged[j] \in Slot
      BY <1>2 DEF Set
    <2>2. QED
      BY <1>1, <1>2, <1>4, <2>1 DEF Set, Slot
  <1>10. \E n \in Nat : Ranked(after, n)
    <2>1. PICK n \in Nat : Ranked(set, n)
      BY DEF Sound
    <2>2. n \in 0..(num_slots - 1) /\ f = n
      <3>1. num_slots \in Nat /\ n \in 0..num_slots
        BY <2>1, ConfigFacts DEF Ranked
      <3>2. n # num_slots
        BY <2>1, <3>1 DEF Ranked, isCacheFull, Invalid, SlotNr
      <3>3. n \in SlotNr /\ ~set[n].valid
        BY <2>1, <3>1, <3>2 DEF Ranked, SlotNr
      <3>4. ~(f < n) /\ ~(n < f)
        BY <1>1, <2>1, <3>3 DEF Ranked
      <3>5. QED
        <4> HIDE DEF f
        <4>1. f \in Int /\ n \in Int
          BY <1>1 DEF SlotNr
        <4>2. QED
          BY <3>1, <3>2, <3>4, <4>1
    <2> HIDE DEF f, aged, after
    <2>3. Ranked(after, n + 1)
      BY <1>6, <1>9, <2>1, <2>2, AgesOnFill DEF aged, f
    <2>4. QED
      BY <2>3
  <1>11. QED
    BY <1>5, <1>7, <1>8, <1>10 DEF Sound

\* Evicting, whichever slot the policy takes (evictionFunction).
LEMMA EvictKeeps ==
    ASSUME config \in Config, cache_timestamp \in Nat, NEW set \in Set, NEW tag \in Nat,
           Sound(set), Matching(set, tag) = {}, isCacheFull(set)
    PROVE  Evict(set, tag) \in Set /\ Sound(Evict(set, tag))
  <1> DEFINE v == Victim(set)
             after == Evict(set, tag)
  <1>1. \A j \in SlotNr : set[j] \in Slot /\ set[j].valid
    BY DEF Set, isCacheFull, Invalid
  <1>2. \A j \in SlotNr :
           after[j] = IF j = v THEN [tag |-> tag, access_ts |-> AsInt(cache_timestamp),
                                     load_ts |-> IF config.lru THEN set[j].load_ts ELSE 0,
                                     dirty_bit |-> FALSE, valid |-> TRUE]
                      ELSE IF config.lru THEN set[j]
                      ELSE [set[j] EXCEPT !.load_ts = @ + 1]
    BY DEF Evict
  <1>3. \A j \in SlotNr : after[j] \in Slot
    <2> SUFFICES ASSUME NEW j \in SlotNr
                 PROVE  after[j] \in Slot
      OBVIOUS
    <2>1. set[j].load_ts \in Nat /\ AsInt(cache_timestamp) \in Nat
      BY <1>1, AsIntNat DEF Slot
    <2>2. [set[j] EXCEPT !.load_ts = @ + 1] \in Slot
      BY <1>1 DEF Slot
    <2>3. (IF config.lru THEN set[j].load_ts ELSE 0) \in Nat
      BY <2>1
    <2> DEFINE age == IF config.lru THEN set[j].load_ts ELSE 0
               new == [tag |-> tag, access_ts |-> AsInt(cache_timestamp),
                       load_ts |-> age, dirty_bit |-> FALSE, valid |-> TRUE]
    <2>4. CASE j = v
      <3>1. after[j] = new
        BY <1>2, <2>4
      <3>2. new \in Slot
        <4> HIDE DEF age
        <4>1. age \in Nat
          BY <2>3 DEF age
        <4>2. QED
          BY <2>1, <4>1 DEF Slot
      <3>3. QED
        BY <3>1, <3>2
    <2>5. CASE j # v
      BY <1>1, <1>2, <2>2, <2>5
    <2>6. QED
      BY <2>4, <2>5
  <1>4. after \in Set
    BY <1>3 DEF Evict, Set
  <1>5. \A j \in SlotNr : after[j].valid /\ after[j].tag = IF j = v THEN tag ELSE set[j].tag
    <2> SUFFICES ASSUME NEW j \in SlotNr
                 PROVE  after[j].valid /\ after[j].tag = IF j = v THEN tag ELSE set[j].tag
      OBVIOUS
    <2> HIDE DEF after, v
    <2>1. CASE j = v
      <3> DEFINE age == IF config.lru THEN set[j].load_ts ELSE 0
      <3>1. after[j] = [tag |-> tag, access_ts |-> AsInt(cache_timestamp),
                        load_ts |-> age, dirty_bit |-> FALSE, valid |-> TRUE]
        BY <1>2, <2>1
      <3> HIDE DEF age
      <3>2. QED
        BY <2>1, <3>1
    <2>2. CASE j # v /\ config.lru
      BY <1>1, <1>2, <2>2
    <2>3. CASE j # v /\ ~config.lru
      <3>1. after[j] = [set[j] EXCEPT !.load_ts = @ + 1]
        BY <1>2, <2>3
      <3>2. QED
        BY <1>1, <2>3, <3>1 DEF Slot
    <2>4. QED
      BY <2>1, <2>2, <2>3
  <1>6. FilledFromLeft(after) /\ Distinct(after)
    BY <1>1, <1>5 DEF Sound, FilledFromLeft, Distinct, Matching
  <1>7. Ranked(set, num_slots) /\ OneOfEachAge(set, num_slots) /\ num_slots \in Nat \ {0}
    <2>1. PICK n \in Nat : Ranked(set, n)
      BY DEF Sound
    <2>2. num_slots \in Nat \ {0} /\ num_slots - 1 \in SlotNr
      BY ConfigFacts DEF SlotNr
    <2>3. n = num_slots
      <3>1. num_slots - 1 < n /\ n \in 0..num_slots
        BY <1>1, <2>1, <2>2 DEF Ranked
      <3>2. QED
        BY <2>2, <3>1
    <2>4. QED
      BY <2>1, <2>2, <2>3 DEF Ranked
  <1>8. OneOfEachAge(after, num_slots)
    <2>1. CASE config.lru
      <3>1. \A j \in SlotNr : after[j].load_ts = set[j].load_ts
        <4> SUFFICES ASSUME NEW j \in SlotNr
                     PROVE  after[j].load_ts = set[j].load_ts
          OBVIOUS
        <4> HIDE DEF after, v
        <4>1. CASE j = v
          <5>1. after[j] = [tag |-> tag, access_ts |-> AsInt(cache_timestamp),
                            load_ts |-> set[j].load_ts, dirty_bit |-> FALSE, valid |-> TRUE]
            BY <1>2, <2>1, <4>1
          <5>2. QED
            BY <5>1
        <4>2. CASE j # v
          BY <1>2, <2>1, <4>2
        <4>3. QED
          BY <4>1, <4>2
      <3>2. QED
        BY <1>7, <3>1 DEF OneOfEachAge, SlotNr
    <2>2. CASE ~config.lru
      <3>1. v \in SlotNr /\ set[v].load_ts = num_slots - 1
        <4> DEFINE oldest == {j \in SlotNr : set[j].load_ts = num_slots - 1}
        <4>1. num_slots - 1 \in 0..(num_slots - 1)
          BY <1>7
        <4>2. oldest # {}
          BY <1>7, <4>1 DEF OneOfEachAge, SlotNr
        <4>3. v = FirstOf(oldest)
          BY <2>2, <4>2 DEF Victim, FifoVictim
        <4>4. QED
          BY <4>2, <4>3, First
      <3>2. ASSUME NEW j \in SlotNr
            PROVE  after[j].load_ts = IF j = v THEN 0 ELSE set[j].load_ts + 1
        <4> HIDE DEF after, v
        <4>1. CASE j = v
          <5>1. after[j] = [tag |-> tag, access_ts |-> AsInt(cache_timestamp), load_ts |-> 0,
                            dirty_bit |-> FALSE, valid |-> TRUE]
            BY <1>2, <2>2, <4>1
          <5>2. QED
            BY <4>1, <5>1
        <4>2. CASE j # v
          <5>1. after[j] = [set[j] EXCEPT !.load_ts = @ + 1]
            BY <1>2, <2>2, <4>2
          <5>2. QED
            BY <1>1, <4>2, <5>1 DEF Slot
        <4>3. QED
          BY <4>1, <4>2
      <3>3. QED
        <4> HIDE DEF after, v
        <4>1. QED
          BY <1>7, <3>1, <3>2, AgesOnEviction
    <2>3. QED
      BY <2>1, <2>2
  <1>9. Ranked(after, num_slots)
    <2>1. \A j \in SlotNr : after[j].valid <=> j < num_slots
      BY <1>5, <1>7 DEF SlotNr
    <2>2. num_slots \in 0..num_slots
      BY <1>7
    <2>3. QED
      BY <1>7, <1>8, <2>1, <2>2 DEF Ranked
  <1>10. QED
    BY <1>4, <1>6, <1>7, <1>9 DEF Sound

LEMMA AllocateKeeps ==
    ASSUME config \in Config, cache_timestamp \in Nat, NEW set \in Set, NEW tag \in Nat,
           NEW dirty \in BOOLEAN, Sound(set), Matching(set, tag) = {}
    PROVE  Allocate(set, tag, dirty) \in Set /\ Sound(Allocate(set, tag, dirty))
  BY FillKeeps, EvictKeeps DEF Allocate

\* A hit moves no block.
LEMMA TouchKeeps ==
    ASSUME config \in Config, cache_timestamp \in Nat, NEW set \in Set, NEW tag \in Nat,
           NEW dirty \in BOOLEAN, Sound(set), Matching(set, tag) # {}
    PROVE  Touch(set, tag, dirty) \in Set /\ Sound(Touch(set, tag, dirty))
  <1> DEFINE after == Touch(set, tag, dirty)
  <1>1. FirstOf(Matching(set, tag)) \in SlotNr
    BY First DEF Matching
  <1>2. after \in Set
    BY <1>1 DEF Touch, Set, Slot
  <1>3. \A j \in SlotNr : /\ after[j].valid = set[j].valid /\ after[j].tag = set[j].tag
                          /\ after[j].load_ts = set[j].load_ts
    BY <1>1 DEF Touch, Set, Slot
  <1>4. FilledFromLeft(after) /\ Distinct(after)
    BY <1>3 DEF Sound, FilledFromLeft, Distinct
  <1>5. PICK n \in Nat : Ranked(set, n)
    BY DEF Sound
  <1>6. num_slots \in Nat \ {0} /\ \A j \in 0..(n - 1) : j \in SlotNr
    BY <1>5, ConfigFacts DEF Ranked, SlotNr
  <1>7. Ranked(after, n)
    <2> HIDE DEF after
    <2>1. OneOfEachAge(set, n) => OneOfEachAge(after, n)
      BY <1>3, <1>6 DEF OneOfEachAge
    <2>2. 0 \in SlotNr
      BY ConfigFacts
    <2>3. QED
      BY <1>3, <1>5, <2>1, <2>2 DEF Ranked
  <1>8. QED
    BY <1>2, <1>4, <1>7 DEF Sound

LEMMA CostIsNat ==
    ASSUME config \in Config, NEW set
    PROVE  AllocateCost(set) \in Nat
  BY ConfigFacts DEF AllocateCost, WriteBack

-----------------------------------------------------------------------------
(* The invariant: types, and every set sound *)

AllSound == \A i \in 0..(num_sets - 1) : Sound(sets[i])

IInv == TypeOK /\ AllSound

LEMMA InvInit == Init => IInv
  <1> SUFFICES ASSUME Init
               PROVE  IInv
    OBVIOUS
  <1>1. EmptySlot \in Slot /\ ~EmptySlot.valid
    BY DEF EmptySlot, Slot
  <1>2. \A i \in 0..(num_sets - 1) : sets[i] = [j \in SlotNr |-> EmptySlot]
    BY DEF Init
  <1>3. AllSound
    <2> SUFFICES ASSUME NEW i \in 0..(num_sets - 1)
                 PROVE  Sound(sets[i])
      BY DEF AllSound
    <2>1. \A j \in SlotNr : j \in Nat /\ ~sets[i][j].valid
      <3>1. \A j \in SlotNr : sets[i][j] = EmptySlot
        BY <1>2
      <3>2. QED
        BY <1>1, <3>1, ConfigFacts DEF SlotNr, Init
    <2>2. num_slots \in Nat \ {0}
      BY ConfigFacts DEF Init
    <2>3. Ranked(sets[i], 0)
      BY <2>1, <2>2 DEF Ranked
    <2>4. QED
      BY <2>1, <2>3 DEF Sound, FilledFromLeft, Distinct
  <1>4. sets \in [0..(num_sets - 1) -> Set]
    BY <1>1, <1>2 DEF Init, Set
  <1>5. cache_timestamp \in 1..(num_slots + ExtraLines + 1)
    BY ConfigFacts, CacheAssumption DEF Init
  <1>6. QED
    BY <1>3, <1>4, <1>5 DEF IInv, TypeOK, Init, Set, Slot

\* What ReadLine and one changed set leave of the invariant to show.
LEMMA OneSet ==
    ASSUME IInv, ReadLine, NEW i \in 0..(num_sets - 1), NEW after \in Set, Sound(after),
           sets' = [sets EXCEPT ![i] = after] \/ sets' = sets,
           total_cycles' \in Nat, hits' \in [{"load", "store"} -> Nat],
           misses' \in [{"load", "store"} -> Nat]
    PROVE  IInv'
  <1>1. num_sets' = num_sets /\ num_slots' = num_slots /\ SlotNr' = SlotNr /\ config' \in Config
    BY DEF ReadLine, IInv, TypeOK, num_sets, num_slots, SlotNr
  <1>2. sets \in [0..(num_sets - 1) -> Set]
    BY DEF IInv, TypeOK, Set, Slot
  <1>3. sets' \in [0..(num_sets - 1) -> Set]
    BY <1>2
  <1>4. \A k \in 0..(num_sets - 1) : Sound(sets'[k])
    BY <1>2 DEF IInv, AllSound
  <1>5. AllSound'
    <2> SUFFICES ASSUME NEW k \in 0..(num_sets - 1)
                 PROVE  Sound(sets[k])'
      BY <1>1 DEF AllSound
    <2>1. Sound(sets'[k])
      BY <1>4
    <2>2. FilledFromLeft(sets[k])'
      BY <1>1, <2>1 DEF Sound, FilledFromLeft
    <2>3. Distinct(sets[k])'
      BY <1>1, <2>1 DEF Sound, Distinct
    <2>4. PICK n \in Nat : Ranked(sets'[k], n)
      BY <2>1 DEF Sound
    <2>5. Ranked(sets[k], n)'
      BY <1>1, <2>4 DEF Ranked, OneOfEachAge
    <2>6. QED
      BY <2>2, <2>3, <2>5 DEF Sound
  <1>6. cache_timestamp' \in 1..(num_slots + ExtraLines + 1)
    <2>1. num_slots \in Nat /\ cache_timestamp \in 1..(num_slots + ExtraLines + 1)
      BY ConfigFacts DEF IInv, TypeOK
    <2>2. ExtraLines \in Nat
      BY CacheAssumption
    <2>3. cache_timestamp <= num_slots + ExtraLines /\ cache_timestamp' = cache_timestamp + 1
      BY DEF ReadLine
    <2>4. QED
      BY <2>1, <2>2, <2>3
  <1>7. TypeOK'
    BY <1>1, <1>3, <1>6 DEF TypeOK, Set, Slot
  <1>8. QED
    BY <1>5, <1>7 DEF IInv

LEMMA CountersKeepType ==
    ASSUME TypeOK, NEW kind \in {"load", "store"}, NEW hit \in BOOLEAN, Outcome(kind, hit)
    PROVE  hits' \in [{"load", "store"} -> Nat] /\ misses' \in [{"load", "store"} -> Nat]
  BY DEF TypeOK, Outcome

\* What the invariant says of the set an address falls into.
LEMMA AddressedSet ==
    ASSUME IInv, NEW addr \in LoadAddress \cup StoreAddress
    PROVE  /\ config \in Config /\ cache_timestamp \in Nat /\ total_cycles \in Nat
           /\ IndexOf(addr) \in 0..(num_sets - 1) /\ TagOf(addr) \in Nat
           /\ sets[IndexOf(addr)] \in Set /\ Sound(sets[IndexOf(addr)])
           /\ sets \in [0..(num_sets - 1) -> Set]
  <1>1. config \in Config /\ cache_timestamp \in Nat /\ total_cycles \in Nat
    BY ConfigFacts, CacheAssumption DEF IInv, TypeOK
  <1>2. sets \in [0..(num_sets - 1) -> Set]
    BY DEF IInv, TypeOK, Set, Slot
  <1>3. QED
    BY <1>1, <1>2, AddressFacts DEF IInv, AllSound

LEMMA LoadStep == ASSUME IInv, NEW addr \in LoadAddress, Load(addr) PROVE IInv'
  <1> DEFINE i == IndexOf(addr)
             tag == TagOf(addr)
             set == sets[i]
             found == Matching(set, tag)
  <1>1. /\ config \in Config /\ cache_timestamp \in Nat /\ total_cycles \in Nat
        /\ i \in 0..(num_sets - 1) /\ tag \in Nat /\ set \in Set /\ Sound(set)
        /\ sets \in [0..(num_sets - 1) -> Set]
    BY AddressedSet
  <1>2. ReadLine /\ Outcome("load", found # {})
    BY DEF Load
  <1>3. hits' \in [{"load", "store"} -> Nat] /\ misses' \in [{"load", "store"} -> Nat]
    BY <1>2, CountersKeepType DEF IInv
  <1>4. CASE found # {} /\ total_cycles' = total_cycles + 1
             /\ sets' = [sets EXCEPT ![i] = Touch(set, tag, set[FirstOf(found)].dirty_bit)]
    <2>1. set[FirstOf(found)].dirty_bit \in BOOLEAN
      <3>1. FirstOf(found) \in SlotNr
        BY <1>1, <1>4, First DEF Matching
      <3>2. QED
        BY <1>1, <3>1 DEF Set, Slot
    <2> DEFINE after == Touch(set, tag, set[FirstOf(found)].dirty_bit)
    <2>2. after \in Set /\ Sound(after)
      BY <1>1, <1>4, <2>1, TouchKeeps
    <2>3. total_cycles' \in Nat
      BY <1>1, <1>4
    <2>4. sets' = [sets EXCEPT ![i] = after]
      BY <1>4
    <2>5. QED
      <3> HIDE DEF i, after
      <3>1. QED
        BY <1>1, <1>2, <1>3, <2>2, <2>3, <2>4, OneSet
  <1>5. CASE found = {} /\ total_cycles' = total_cycles + AllocateCost(set)
             /\ sets' = [sets EXCEPT ![i] = Allocate(set, tag, FALSE)]
    <2> DEFINE after == Allocate(set, tag, FALSE)
    <2>1. after \in Set /\ Sound(after)
      BY <1>1, <1>5, AllocateKeeps
    <2>2. total_cycles' \in Nat
      BY <1>1, <1>5, CostIsNat
    <2>3. sets' = [sets EXCEPT ![i] = after]
      BY <1>5
    <2>4. QED
      <3> HIDE DEF i, after
      <3>1. QED
        BY <1>1, <1>2, <1>3, <2>1, <2>2, <2>3, OneSet
  <1>6. QED
    BY <1>1, <1>4, <1>5 DEF Load

LEMMA StoreStep == ASSUME IInv, NEW addr \in StoreAddress, Store(addr) PROVE IInv'
  <1> DEFINE i == IndexOf(addr)
             tag == TagOf(addr)
             set == sets[i]
             found == Matching(set, tag)
             dirty == ~config.write_through
             ToMemory == IF config.write_through THEN 100 ELSE 0
  <1>1. /\ config \in Config /\ cache_timestamp \in Nat /\ total_cycles \in Nat
        /\ i \in 0..(num_sets - 1) /\ tag \in Nat /\ set \in Set /\ Sound(set)
        /\ sets \in [0..(num_sets - 1) -> Set]
    BY AddressedSet
  <1>2. ReadLine /\ Outcome("store", found # {})
    BY DEF Store
  <1>3. hits' \in [{"load", "store"} -> Nat] /\ misses' \in [{"load", "store"} -> Nat]
    BY <1>2, CountersKeepType DEF IInv
  <1>4. dirty \in BOOLEAN /\ ToMemory \in Nat
    OBVIOUS
  <1>5. CASE found # {} /\ total_cycles' = total_cycles + ToMemory + 1
             /\ sets' = [sets EXCEPT ![i] = Touch(set, tag, dirty)]
    <2> DEFINE after == Touch(set, tag, dirty)
    <2>1. after \in Set /\ Sound(after)
      BY <1>1, <1>4, <1>5, TouchKeeps
    <2>2. total_cycles' \in Nat
      BY <1>1, <1>4, <1>5
    <2>3. sets' = [sets EXCEPT ![i] = after]
      BY <1>5
    <2>4. QED
      <3> HIDE DEF i, after
      <3>1. QED
        BY <1>1, <1>2, <1>3, <2>1, <2>2, <2>3, OneSet
  <1>6. CASE found = {} /\ sets' = [sets EXCEPT ![i] = Allocate(set, tag, dirty)]
             /\ total_cycles' = total_cycles + AllocateCost(set)
                                  + (IF isCacheFull(set) THEN 0 ELSE ToMemory)
    <2>1. total_cycles' \in Nat
      BY <1>1, <1>4, <1>6, CostIsNat
    <2> DEFINE after == Allocate(set, tag, dirty)
    <2>2. after \in Set /\ Sound(after)
      BY <1>1, <1>4, <1>6, AllocateKeeps
    <2>3. sets' = [sets EXCEPT ![i] = after]
      BY <1>6
    <2>4. QED
      <3> HIDE DEF i, after
      <3>1. QED
        BY <1>1, <1>2, <1>3, <2>1, <2>2, <2>3, OneSet
  <1>7. CASE total_cycles' = total_cycles + 100 /\ sets' = sets
    BY <1>1, <1>2, <1>3, <1>7, OneSet
  <1>8. QED
    BY <1>1, <1>5, <1>6, <1>7 DEF Store

LEMMA OtherStep == ASSUME IInv, Other PROVE IInv'
  <1>1. 0 \in 0..(num_sets - 1)
    BY ConfigFacts DEF IInv, TypeOK
  <1>2. sets[0] \in Set /\ Sound(sets[0])
    BY <1>1 DEF IInv, TypeOK, Set, Slot, AllSound
  <1>3. QED
    BY <1>1, <1>2, OneSet DEF Other, IInv, TypeOK

LEMMA InvStep == IInv /\ [Next]_vars => IInv'
  <1> SUFFICES ASSUME IInv, [Next]_vars
               PROVE  IInv'
    OBVIOUS
  <1>1. CASE UNCHANGED vars
    BY <1>1 DEF vars, IInv, TypeOK, AllSound, Sound, FilledFromLeft, Distinct, num_sets,
                num_slots, SlotNr, Ranked, OneOfEachAge
  <1>2. CASE Next
    BY <1>2, LoadStep, StoreStep, OtherStep DEF Next
  <1>3. QED
    BY <1>1, <1>2

LEMMA InvCorrect == Spec => []IInv
  BY InvInit, InvStep, PTL DEF Spec

-----------------------------------------------------------------------------

\* Every counter, timestamp and load age keeps its type, whatever the trace: no
\* load age of update_load_ts and no cost of evictionFunction is ever negative.
THEOREM TypeCorrect == Spec => []TypeOK
  <1>1. IInv => TypeOK
    BY DEF IInv
  <1>2. QED
    BY <1>1, InvCorrect, PTL

\* The searches of Load_hitOrMiss, Store_hitOrMiss and write_through that stop at
\* the first slot miss nothing: no block is ever in two slots, and the free
\* slots are the last ones.
THEOREM BlocksAreUnique == Spec => []NoDuplicates
  <1>1. IInv => NoDuplicates
    BY DEF IInv, TypeOK, AllSound, Sound, FilledFromLeft, Distinct, NoDuplicates
  <1>2. QED
    BY <1>1, InvCorrect, PTL

\* The load ages, which every fill and every eviction rewrites in place
\* (cache_funcs.cpp:59-93 and 146-153), give the filled slots of a set of any size
\* the ages 0 .. k-1, each once: FIFO never finds two oldest blocks, or none.
THEOREM LoadAgesAreOrdered == Spec => []LoadAgesOrdered
  <1>1. IInv => LoadAgesOrdered
    <2> SUFFICES ASSUME IInv, NEW i \in DOMAIN sets,
                        LET k == Cardinality(Filled(sets[i])) IN k >= 2 \/ k = num_slots
                 PROVE  {sets[i][j].load_ts : j \in Filled(sets[i])}
                           = 0..(Cardinality(Filled(sets[i])) - 1)
      BY DEF LoadAgesOrdered
    <2>1. i \in 0..(num_sets - 1)
      BY DEF IInv, TypeOK
    <2>2. PICK n \in Nat : Ranked(sets[i], n)
      BY <2>1 DEF IInv, AllSound, Sound
    <2>3. num_slots \in Nat \ {0} /\ n \in 0..num_slots
      BY <2>2, ConfigFacts DEF Ranked, IInv, TypeOK
    <2>4. Filled(sets[i]) = 0..(n - 1)
      BY <2>2, <2>3 DEF Filled, Invalid, Ranked, SlotNr
    <2>5. Cardinality(Filled(sets[i])) = n
      <3>1. Cardinality(0..(n - 1)) = IF 0 > n - 1 THEN 0 ELSE n - 1 - 0 + 1
        BY <2>3, FS_Interval
      <3>2. QED
        BY <2>3, <2>4, <3>1
    <2>6. OneOfEachAge(sets[i], n)
      BY <2>2, <2>5 DEF Ranked
    <2>7. {sets[i][j].load_ts : j \in 0..(n - 1)} = 0..(n - 1)
      BY <2>6 DEF OneOfEachAge
    <2>8. QED
      BY <2>4, <2>5, <2>7
  <1>2. QED
    BY <1>1, InvCorrect, PTL

-----------------------------------------------------------------------------
(* The victim of an eviction *)

\* The scan of evictionFunction under LRU, step by step: what is kept after slot j.
LEMMA LruScan ==
    ASSUME config \in Config, NEW set \in Set
    PROVE  \E scan \in [SlotNr -> [min : Nat, index : SlotNr]] :
              /\ LruVictim(set) = scan[num_slots - 1].index
              /\ scan[0] = [min |-> set[0].access_ts % Word, index |-> 0]
              /\ \A j \in SlotNr \ {0} :
                    scan[j] = IF scan[j - 1].min >= set[j].access_ts
                              THEN [min |-> set[j].access_ts % Word, index |-> j]
                              ELSE scan[j - 1]
  <1> DEFINE V == [min : Nat, index : SlotNr]
             a == [min |-> set[0].access_ts % Word, index |-> 0]
             new(j) == [min |-> set[j].access_ts % Word, index |-> j]
             h == [j \in Nat |-> [r \in V |->
                     IF j \in SlotNr /\ r.min >= set[j].access_ts THEN new(j) ELSE r]]
             Kept(f) == [j \in SlotNr |->
                           IF j = 0 THEN a
                           ELSE IF f[j - 1].min >= set[j].access_ts THEN new(j)
                           ELSE f[j - 1]]
             scan == CHOOSE f : f = Kept(f)
  <1>1. /\ num_slots \in Nat \ {0} /\ 0 \in SlotNr /\ SlotNr = 0..(num_slots - 1)
        /\ num_slots - 1 \in Nat
    BY ConfigFacts DEF SlotNr
  <1>2. \A j \in SlotNr : set[j].access_ts % Word \in Nat
    <2>1. \A j \in SlotNr : set[j].access_ts \in Nat
      BY DEF Set, Slot
    <2>2. Word \in Nat \ {0}
      BY CacheAssumption
    <2>3. QED
      BY <2>1, <2>2, ModNat
  <1>3. a \in V /\ \A j \in SlotNr : new(j) \in V
    BY <1>1, <1>2
  <1>4. h \in [Nat -> [V -> V]]
    <2> HIDE DEF V, new
    <2> QED
      BY <1>3
  <1>5. PICK g \in [0..(num_slots - 1) -> V] : Unfolds(g, a, h, 0, num_slots - 1)
    <2>1. a \in V
      BY <1>3
    <2>2. 0 \in Nat /\ num_slots - 1 \in Nat /\ 0 <= num_slots - 1
      BY <1>1
    <2> HIDE DEF V, a, h
    <2>3. QED
      BY <1>4, <2>1, <2>2, RecursionExists
  <1>6. g[0] = a /\ \A j \in SlotNr \ {0} :
           g[j] = IF g[j - 1].min >= set[j].access_ts THEN new(j) ELSE g[j - 1]
    <2>1. g[0] = a
      BY <1>5 DEF Unfolds
    <2>2. ASSUME NEW j \in SlotNr \ {0}
          PROVE  g[j] = IF g[j - 1].min >= set[j].access_ts THEN new(j) ELSE g[j - 1]
      <3> HIDE DEF V, a, new
      <3>1. j \in (0 + 1)..(num_slots - 1) /\ j \in Nat /\ j - 1 \in 0..(num_slots - 1)
        BY <1>1
      <3>2. g[j] = h[j][g[j - 1]]
        <4> HIDE DEF h
        <4> QED
          BY <1>5, <3>1 DEF Unfolds
      <3>3. g[j - 1] \in V
        BY <1>5, <3>1
      <3>4. QED
        BY <3>1, <3>2, <3>3
    <2>3. QED
      BY <2>1, <2>2
  <1>7. g = Kept(g)
    <2> HIDE DEF V, a, new
    <2> QED
      BY <1>1, <1>5, <1>6
  <1>8. scan = Kept(scan)
    <2> HIDE DEF Kept
    <2> QED
      BY <1>7
  <1>9. /\ scan[0] = a
        /\ \A j \in SlotNr \ {0} :
              scan[j] = IF scan[j - 1].min >= set[j].access_ts THEN new(j) ELSE scan[j - 1]
    <2> HIDE DEF scan, a, new
    <2> QED
      BY <1>1, <1>8
  <1>10. \A j \in SlotNr : scan[j] = g[j]
    <2> HIDE DEF scan, a, new
    <2> DEFINE Differ == {j \in SlotNr : scan[j] # g[j]}
    <2>2. SUFFICES ASSUME Differ # {} PROVE FALSE
      OBVIOUS
    <2>3. PICK m \in Differ : \A k \in Differ : m <= k
      <3>1. Differ \subseteq Nat
        BY <1>1
      <3> HIDE DEF Differ
      <3>2. QED
        BY <2>2, <3>1, Least
    <2>4. m # 0
      BY <1>6, <1>9, <2>3
    <2>5. m - 1 \in SlotNr /\ m - 1 \notin Differ
      <3>1. m \in SlotNr /\ m \in Nat /\ m - 1 \in SlotNr
        BY <1>1, <2>3, <2>4
      <3>2. ~(m <= m - 1)
        BY <3>1
      <3>3. QED
        BY <2>3, <3>1, <3>2
    <2>6. scan[m - 1] = g[m - 1]
      BY <2>5
    <2>7. QED
      BY <1>6, <1>9, <2>3, <2>4, <2>6
  <1>11. scan \in [SlotNr -> V]
    <2> HIDE DEF scan, V
    <2>1. scan = [j \in SlotNr |-> g[j]]
      <3>1. scan = [j \in SlotNr |-> scan[j]]
        BY <1>8
      <3>2. QED
        BY <1>10, <3>1
    <2>2. QED
      BY <1>1, <1>5, <2>1
  <1>12. LruVictim(set) = scan[num_slots - 1].index
    BY DEF LruVictim
  <1>13. QED
    <2> HIDE DEF scan
    <2> QED
      BY <1>9, <1>11, <1>12

\* Timestamps that a uint32_t holds are compared as they are: the victim has
\* the least.
LEMMA LruLeast ==
    ASSUME config \in Config, NEW set \in Set
    PROVE  /\ LruVictim(set) \in SlotNr
           /\ (\A j \in SlotNr : set[j].access_ts < Word)
                => \A j \in SlotNr : set[LruVictim(set)].access_ts <= set[j].access_ts
  <1>1. PICK scan \in [SlotNr -> [min : Nat, index : SlotNr]] :
           /\ LruVictim(set) = scan[num_slots - 1].index
           /\ scan[0] = [min |-> set[0].access_ts % Word, index |-> 0]
           /\ \A j \in SlotNr \ {0} :
                 scan[j] = IF scan[j - 1].min >= set[j].access_ts
                           THEN [min |-> set[j].access_ts % Word, index |-> j]
                           ELSE scan[j - 1]
    BY LruScan
  <1>2. num_slots - 1 \in SlotNr /\ SlotNr = 0..(num_slots - 1) /\ num_slots \in Nat
    BY ConfigFacts DEF SlotNr
  <1>3. LruVictim(set) \in SlotNr
    BY <1>1, <1>2
  <1>4. ASSUME \A j \in SlotNr : set[j].access_ts < Word
        PROVE  \A j \in SlotNr : set[LruVictim(set)].access_ts <= set[j].access_ts
    <2>1. \A j \in SlotNr : set[j].access_ts \in Nat
      BY DEF Set, Slot
    <2>2. \A j \in SlotNr : set[j].access_ts % Word = set[j].access_ts
      <3>1. Word \in Nat \ {0}
        BY CacheAssumption
      <3>2. \A x \in Nat : x < Word => x % Word = x
        BY <3>1
      <3>3. QED
        BY <1>4, <2>1, <3>2
    <2> DEFINE Good(j) == /\ scan[j].min = set[scan[j].index].access_ts
                          /\ \A k \in 0..j : scan[j].min <= set[k].access_ts
               Fails == {j \in SlotNr : ~Good(j)}
    <2>3. Fails = {}
      <3>1. SUFFICES ASSUME Fails # {} PROVE FALSE
        OBVIOUS
      <3>2. PICK m \in Fails : \A k \in Fails : m <= k
        <4>1. Fails \subseteq Nat
          BY <1>2
        <4> HIDE DEF Fails
        <4>2. QED
          BY <3>1, <4>1, Least
      <3>3. m \in SlotNr /\ ~Good(m)
        BY <3>2
      <3>4. m # 0
        <4>1. Good(0)
          <5>1. scan[0].min = set[0].access_ts /\ scan[0].index = 0
            BY <1>1, <1>2, <2>2
          <5>2. \A k \in 0..0 : k = 0
            OBVIOUS
          <5>3. 0 \in SlotNr
            BY <1>2
          <5>4. QED
            BY <2>1, <5>1, <5>2, <5>3
        <4>2. QED
          BY <3>3, <4>1
      <3>5. m \in Nat /\ m - 1 \in SlotNr /\ m \in SlotNr \ {0}
        BY <1>2, <3>3, <3>4
      <3>6. Good(m - 1)
        <4>1. ~(m <= m - 1)
          BY <3>5
        <4>2. m - 1 \notin Fails
          BY <3>2, <4>1
        <4> HIDE DEF Good
        <4>3. QED
          BY <3>5, <4>2
      <3>7. \A k \in 0..m : k = m \/ k \in 0..(m - 1)
        BY <3>5
      <3>8. scan[m - 1].min \in Nat /\ set[m].access_ts \in Nat
        BY <1>1, <2>1, <3>5
      <3>9. CASE scan[m - 1].min >= set[m].access_ts
        <4>1. scan[m].min = set[m].access_ts /\ scan[m].index = m
          BY <1>1, <2>2, <3>5, <3>9
        <4>2. \A k \in 0..(m - 1) : k \in SlotNr
          BY <1>2, <3>5
        <4>3. \A k \in 0..(m - 1) : set[m].access_ts <= set[k].access_ts
          BY <2>1, <3>6, <3>8, <3>9, <4>2
        <4>4. QED
          BY <3>3, <3>7, <3>8, <4>1, <4>3
      <3>10. CASE ~(scan[m - 1].min >= set[m].access_ts)
        <4>1. scan[m] = scan[m - 1]
          BY <1>1, <3>5, <3>10
        <4>2. scan[m - 1].min <= set[m].access_ts
          BY <3>8, <3>10
        <4>3. QED
          BY <3>3, <3>6, <3>7, <4>1, <4>2
      <3>11. QED
        BY <3>9, <3>10
    <2>4. Good(num_slots - 1)
      <3> HIDE DEF Good
      <3> QED
        BY <1>2, <2>3
    <2>5. QED
      BY <1>1, <1>2, <2>4
  <1>5. QED
    BY <1>3, <1>4

LEMMA VictimIsSlot ==
    ASSUME config \in Config, NEW set \in Set
    PROVE  Victim(set) \in SlotNr
  <1> DEFINE oldest == {j \in SlotNr : set[j].load_ts = num_slots - 1}
  <1>1. oldest # {} => FirstOf(oldest) \in SlotNr
    BY First
  <1>2. FifoVictim(set) \in SlotNr
    BY <1>1, ConfigFacts DEF FifoVictim
  <1>3. QED
    BY <1>2, LruLeast DEF Victim

-----------------------------------------------------------------------------
(* Dirty blocks *)

\* The slots whose block has to go back to memory.
DirtyIn(s) == {p \in (DOMAIN s) \X SlotNr : s[p[1]][p[2]].dirty_bit}

\* Only slot v of a set may become or cease to be dirty.
Redirtied(set, after, v) ==
    /\ v \in SlotNr
    /\ \A j \in SlotNr : j # v => after[j].dirty_bit = set[j].dirty_bit

LEMMA DirtyFinite ==
    ASSUME config \in Config, NEW s \in [0..(num_sets - 1) -> Set]
    PROVE  IsFiniteSet(DirtyIn(s)) /\ Cardinality(DirtyIn(s)) \in Nat
  <1>1. num_sets - 1 \in Int /\ num_slots - 1 \in Int /\ 0 \in Int
    BY ConfigFacts
  <1>2. IsFiniteSet(0..(num_sets - 1)) /\ IsFiniteSet(SlotNr)
    BY <1>1, FS_Interval DEF SlotNr
  <1>3. IsFiniteSet((0..(num_sets - 1)) \X SlotNr)
    BY <1>2, FS_Product
  <1>4. DirtyIn(s) \in SUBSET ((0..(num_sets - 1)) \X SlotNr)
    BY DEF DirtyIn
  <1>5. QED
    BY <1>3, <1>4, FS_Subset, FS_CardinalityType

\* How many dirty blocks there are when one slot has changed.
LEMMA DirtyMoves ==
    ASSUME config \in Config, NEW s \in [0..(num_sets - 1) -> Set],
           NEW i \in 0..(num_sets - 1), NEW after \in Set, NEW v,
           Redirtied(s[i], after, v)
    PROVE  \E was, is \in 0..1 :
              /\ was = 1 <=> s[i][v].dirty_bit
              /\ is = 1 <=> after[v].dirty_bit
              /\ Cardinality(DirtyIn([s EXCEPT ![i] = after]))
                   = Cardinality(DirtyIn(s)) - was + is
  <1> DEFINE t == [s EXCEPT ![i] = after]
             others == DirtyIn(s) \ {<<i, v>>}
             was == IF s[i][v].dirty_bit THEN 1 ELSE 0
  <1>1. v \in SlotNr /\ s[i] \in Set
    BY DEF Redirtied
  <1>2. IsFiniteSet(DirtyIn(s)) /\ Cardinality(DirtyIn(s)) \in Nat
    BY DirtyFinite
  <1>3. (<<i, v>> \in DirtyIn(s)) <=> s[i][v].dirty_bit
    BY <1>1 DEF DirtyIn
  <1>4. was \in 0..1 /\ (was = 1 <=> s[i][v].dirty_bit)
    OBVIOUS
  <1>5. IsFiniteSet(others) /\ Cardinality(others) = Cardinality(DirtyIn(s)) - was
    BY <1>2, <1>3, FS_RemoveElement
  <1>6. /\ after[v].dirty_bit => DirtyIn(t) = others \cup {<<i, v>>}
        /\ ~after[v].dirty_bit => DirtyIn(t) = others
    <2>1. DOMAIN t = 0..(num_sets - 1) /\ DOMAIN s = 0..(num_sets - 1)
      OBVIOUS
    <2>2. t[i] = after /\ \A k \in 0..(num_sets - 1) : k # i => t[k] = s[k]
      OBVIOUS
    <2> HIDE DEF t
    <2>3. ASSUME NEW p \in (0..(num_sets - 1)) \X SlotNr, p # <<i, v>>
          PROVE  t[p[1]][p[2]].dirty_bit = s[p[1]][p[2]].dirty_bit
      <3>1. CASE p[1] = i
        <4>1. p[2] \in SlotNr /\ p[2] # v
          BY <2>3, <3>1
        <4>2. QED
          BY <2>2, <3>1, <4>1 DEF Redirtied
      <3>2. CASE p[1] # i
        BY <2>2, <3>2
      <3>3. QED
        BY <3>1, <3>2
    <2>4. <<i, v>> \in (0..(num_sets - 1)) \X SlotNr /\ t[i][v] = after[v]
      BY <1>1, <2>2
    <2>5. QED
      BY <2>1, <2>3, <2>4 DEF DirtyIn
  <1> HIDE DEF was
  <1>7. CASE after[v].dirty_bit
    <2>1. <<i, v>> \notin others
      OBVIOUS
    <2> HIDE DEF others, t
    <2>2. Cardinality(others \cup {<<i, v>>}) = Cardinality(others) + 1
      BY <1>5, <2>1, FS_AddElement
    <2>3. Cardinality(DirtyIn(t)) = Cardinality(DirtyIn(s)) - was + 1
      BY <1>5, <1>6, <1>7, <2>2
    <2>4. QED
      BY <1>4, <1>7, <2>3 DEF t
  <1>8. CASE ~after[v].dirty_bit
    <2> HIDE DEF others, t
    <2>1. Cardinality(DirtyIn(t)) = Cardinality(DirtyIn(s)) - was + 0
      BY <1>2, <1>4, <1>5, <1>6, <1>8
    <2>2. QED
      BY <1>4, <1>8, <2>1 DEF t
  <1>9. QED
    BY <1>7, <1>8

LEMMA FillDirties ==
    ASSUME config \in Config, cache_timestamp \in Nat, NEW set \in Set, NEW tag \in Nat,
           NEW dirty \in BOOLEAN, Sound(set), Matching(set, tag) = {}, ~isCacheFull(set)
    PROVE  \E v \in SlotNr :
              /\ Redirtied(set, Allocate(set, tag, dirty), v)
              /\ Allocate(set, tag, dirty)[v].dirty_bit = dirty
  <1> DEFINE f == FirstOf(Invalid(set))
             aged == update_load_ts(set)
             after == write_through(aged, tag, dirty)
  <1>1. f \in SlotNr
    BY First DEF Invalid, isCacheFull
  <1>2. \A j \in SlotNr : /\ aged[j].valid = set[j].valid
                          /\ aged[j].dirty_bit = set[j].dirty_bit
    BY DEF update_load_ts, Set, Slot
  <1>3. Invalid(aged) = Invalid(set)
    BY <1>2 DEF Invalid
  <1>4. after = [aged EXCEPT ![f] = [@ EXCEPT !.tag = tag,
                                              !.access_ts = AsInt(cache_timestamp),
                                              !.valid = TRUE, !.dirty_bit = dirty]]
    BY <1>3 DEF write_through
  <1>5. aged \in [SlotNr -> {aged[j] : j \in SlotNr}]
    BY DEF update_load_ts
  <1>6. \A j \in SlotNr : DOMAIN aged[j] = {"tag", "access_ts", "load_ts", "dirty_bit", "valid"}
    BY DEF update_load_ts, Set, Slot
  <1>7. \A j \in SlotNr : after[j].dirty_bit = IF j = f THEN dirty ELSE set[j].dirty_bit
    <2> HIDE DEF aged, f, after
    <2> QED
      BY <1>1, <1>2, <1>4, <1>5, <1>6
  <1>8. Redirtied(set, after, f) /\ after[f].dirty_bit = dirty
    <2> HIDE DEF after, f
    <2> QED
      BY <1>1, <1>7 DEF Redirtied
  <1>9. QED
    BY <1>1, <1>8 DEF Allocate

LEMMA EvictDirties ==
    ASSUME config \in Config, NEW set \in Set, NEW tag, NEW dirty, isCacheFull(set)
    PROVE  /\ Redirtied(set, Allocate(set, tag, dirty), Victim(set))
           /\ ~Allocate(set, tag, dirty)[Victim(set)].dirty_bit
  <1> DEFINE v == Victim(set)
             after == Evict(set, tag)
  <1>1. v \in SlotNr
    BY VictimIsSlot
  <1>2. ASSUME NEW j \in SlotNr
        PROVE  after[j].dirty_bit = IF j = v THEN FALSE ELSE set[j].dirty_bit
    <2>1. after[j] = IF j = v THEN [tag |-> tag, access_ts |-> AsInt(cache_timestamp),
                                    load_ts |-> IF config.lru THEN set[j].load_ts ELSE 0,
                                    dirty_bit |-> FALSE, valid |-> TRUE]
                     ELSE IF config.lru THEN set[j]
                     ELSE [set[j] EXCEPT !.load_ts = @ + 1]
      BY DEF Evict
    <2>2. [set[j] EXCEPT !.load_ts = @ + 1].dirty_bit = set[j].dirty_bit
      BY DEF Set, Slot
    <2> HIDE DEF after, v
    <2>3. CASE j = v
      <3> DEFINE age == IF config.lru THEN set[j].load_ts ELSE 0
      <3>1. after[j] = [tag |-> tag, access_ts |-> AsInt(cache_timestamp),
                        load_ts |-> age, dirty_bit |-> FALSE, valid |-> TRUE]
        BY <2>1, <2>3
      <3> HIDE DEF age
      <3>2. QED
        BY <2>3, <3>1
    <2>4. CASE j # v
      BY <2>1, <2>2, <2>4
    <2>5. QED
      BY <2>3, <2>4
  <1>3. QED
    BY <1>1, <1>2 DEF Redirtied, Allocate

LEMMA TouchDirties ==
    ASSUME config \in Config, NEW set \in Set, NEW tag, NEW dirty, Matching(set, tag) # {}
    PROVE  /\ Redirtied(set, Touch(set, tag, dirty), FirstOf(Matching(set, tag)))
           /\ Touch(set, tag, dirty)[FirstOf(Matching(set, tag))].dirty_bit = dirty
  <1>1. FirstOf(Matching(set, tag)) \in SlotNr
    BY First DEF Matching
  <1>2. QED
    BY <1>1 DEF Redirtied, Touch, Set, Slot

-----------------------------------------------------------------------------
(* The cycles *)

\* What is left of the cycles once hits and fetches are paid for, by policy: hs
\* of the st stores hit, d blocks are dirty, b cycles move a block.
Balance(through, rest, b, hs, st, d) ==
    IF through THEN d = 0 /\ \E paid \in hs..st : rest = 100 * paid
    ELSE \E writebacks \in 0..(st - d) : rest = writebacks * b

\* One line more: it hits with a store (hit), stores (stored), pays for the write
\* to memory (paid), writes a block back (back).
LEMMA BalanceKept ==
    ASSUME NEW through \in BOOLEAN, NEW rest \in Int, NEW b \in Nat,
           NEW hs \in Nat, NEW st \in Nat, NEW d \in Nat, NEW e \in Nat,
           Balance(through, rest, b, hs, st, d),
           NEW hit \in 0..1, NEW stored \in 0..1, NEW paid \in 0..1, NEW back \in 0..1,
           through => hit <= paid /\ paid <= stored /\ e <= d - back,
           ~through => paid = 0 /\ e <= d - back + stored
    PROVE  Balance(through, rest + 100 * paid + (IF back = 1 THEN b ELSE 0), b,
                   hs + hit, st + stored, e)
  <1>1. CASE through
    <2>1. d = 0 /\ e = 0 /\ back = 0
      BY <1>1 DEF Balance
    <2>2. PICK n \in hs..st : rest = 100 * n
      BY <1>1 DEF Balance
    <2>3. n + paid \in (hs + hit)..(st + stored)
      BY <1>1, <2>2
    <2>4. rest + 100 * paid = 100 * (n + paid)
      BY <2>2
    <2>5. QED
      BY <1>1, <2>1, <2>3, <2>4 DEF Balance
  <1>2. CASE ~through
    <2>1. PICK n \in 0..(st - d) : rest = n * b
      BY <1>2 DEF Balance
    <2>2. n + back \in 0..(st + stored - e)
      BY <1>2, <2>1
    <2>3. rest + (IF back = 1 THEN b ELSE 0) = (n + back) * b
      <3>1. (n + 1) * b = n * b + b /\ n * b \in Nat
        BY <2>1
      <3>2. CASE back = 1
        BY <2>1, <3>1, <3>2
      <3>3. CASE back = 0
        BY <2>1, <3>1, <3>3
      <3>4. QED
        BY <3>2, <3>3
    <2>4. rest + 100 * paid = rest
      BY <1>2
    <2>5. QED
      BY <1>2, <2>2, <2>3, <2>4 DEF Balance
  <1>3. QED
    BY <1>1, <1>2

Stores == hits["store"] + misses["store"]

Fetches == misses["load"] + (IF config.allocate THEN misses["store"] ELSE 0)

Rest == total_cycles - hits["load"] - hits["store"] - Fetches * byte_size_calculation

\* Under write-through no block is ever dirty, so that no eviction writes back.
Balanced ==
    Balance(config.write_through, Rest, byte_size_calculation, hits["store"], Stores,
            Cardinality(DirtyIn(sets)))

LEMMA RestInt == ASSUME IInv PROVE Rest \in Int
  <1> DEFINE b == byte_size_calculation
  <1>1. /\ config \in Config /\ total_cycles \in Nat
        /\ hits \in [{"load", "store"} -> Nat] /\ misses \in [{"load", "store"} -> Nat]
    BY DEF IInv, TypeOK
  <1>2. Fetches \in Nat /\ b \in Nat
    BY <1>1, ConfigFacts DEF Fetches
  <1> HIDE DEF b
  <1>3. Fetches * b \in Nat
    BY <1>2
  <1>4. QED
    BY <1>1, <1>3 DEF Rest, b

\* What the line did to the counters, and what it added to the cycles beyond hits
\* and fetches, tells whether the books still balance.
LEMMA BalanceStep ==
    ASSUME IInv, Balanced, UNCHANGED config,
           Stores' = Stores + 1 \/ Stores' = Stores, Stores' \in Nat,
           NEW hit \in 0..1, NEW paid \in 0..1, NEW back \in 0..1,
           hits'["store"] = hits["store"] + hit,
           Rest' = Rest + 100 * paid + (IF back = 1 THEN byte_size_calculation ELSE 0),
           Cardinality(DirtyIn(sets)') \in Nat,
           config.write_through =>
              /\ hit <= paid /\ paid <= Stores' - Stores
              /\ Cardinality(DirtyIn(sets)') <= Cardinality(DirtyIn(sets)) - back,
           ~config.write_through =>
              /\ paid = 0
              /\ Cardinality(DirtyIn(sets)')
                    <= Cardinality(DirtyIn(sets)) - back + (Stores' - Stores)
    PROVE  Balanced'
  <1> DEFINE d == Cardinality(DirtyIn(sets))
             e == Cardinality(DirtyIn(sets)')
             q == Stores' - Stores
             b == byte_size_calculation
  <1>1. /\ config \in Config /\ sets \in [0..(num_sets - 1) -> Set] /\ total_cycles \in Nat
        /\ hits["load"] \in Nat /\ hits["store"] \in Nat
        /\ misses["load"] \in Nat /\ misses["store"] \in Nat
    BY DEF IInv, TypeOK, Set, Slot
  <1>2. config.write_through \in BOOLEAN /\ b \in Nat /\ d \in Nat
    BY <1>1, ConfigFacts, DirtyFinite
  <1>4. Rest \in Int
    BY RestInt
  <1>5. Stores \in Nat /\ q \in 0..1 /\ Stores' = Stores + q
    <2>1. Stores \in Nat
      BY <1>1 DEF Stores
    <2>2. \A x, y \in Nat : y = x + 1 \/ y = x => y - x \in 0..1 /\ y = x + (y - x)
      OBVIOUS
    <2>3. QED
      BY <2>1, <2>2
  <1>6. byte_size_calculation' = b
    BY DEF byte_size_calculation, slot_size
  <1>7. Balance(config.write_through, Rest, b, hits["store"], Stores, d)
    BY DEF Balanced
  <1>8. Balance(config.write_through, Rest + 100 * paid + (IF back = 1 THEN b ELSE 0), b,
                hits["store"] + hit, Stores + q, e)
    <2> HIDE DEF b, d, e, q
    <2>1. config.write_through => hit <= paid /\ paid <= q /\ e <= d - back
      BY DEF d, e, q
    <2>2. ~config.write_through => paid = 0 /\ e <= d - back + q
      BY DEF d, e, q
    <2>3. e \in Nat /\ hits["store"] \in Nat
      BY <1>1 DEF e
    <2>4. config.write_through \in BOOLEAN /\ b \in Nat /\ d \in Nat /\ Rest \in Int
      BY <1>2, <1>4
    <2>5. Stores \in Nat /\ q \in 0..1
      BY <1>5
    <2>6. QED
      BY <1>7, <2>1, <2>2, <2>3, <2>4, <2>5, BalanceKept, ZenonT(90)
  <1>9. QED
    <2> HIDE DEF q
    <2> QED
      BY <1>5, <1>6, <1>8 DEF Balanced

\* What the invariant says of one set.
LEMMA Typed ==
    ASSUME IInv, NEW i \in 0..(num_sets - 1)
    PROVE  /\ config \in Config /\ cache_timestamp \in Nat
           /\ sets \in [0..(num_sets - 1) -> Set] /\ sets[i] \in Set /\ Sound(sets[i])
  <1>1. config \in Config /\ cache_timestamp \in 1..(num_slots + ExtraLines + 1)
    BY DEF IInv, TypeOK
  <1>2. cache_timestamp \in Nat
    BY <1>1, ConfigFacts, CacheAssumption
  <1>3. sets \in [0..(num_sets - 1) -> Set]
    BY DEF IInv, TypeOK, Set, Slot
  <1>4. QED
    BY <1>1, <1>2, <1>3 DEF IInv, AllSound

\* Bringing a block in: the block is paid for once, and once more just when a
\* dirty block has to leave.
LEMMA AllocateBalance ==
    ASSUME IInv, NEW i \in 0..(num_sets - 1), NEW tag \in Nat, NEW dirty \in BOOLEAN,
           Matching(sets[i], tag) = {}, ReadLine,
           sets' = [sets EXCEPT ![i] = Allocate(sets[i], tag, dirty)]
    PROVE  \E back \in 0..1 :
              /\ AllocateCost(sets[i])
                    = byte_size_calculation + (IF back = 1 THEN byte_size_calculation ELSE 0)
              /\ Cardinality(DirtyIn(sets)') \in Nat
              /\ Cardinality(DirtyIn(sets)')
                    <= Cardinality(DirtyIn(sets)) - back + (IF dirty THEN 1 ELSE 0)
  <1> DEFINE set == sets[i]
             after == Allocate(set, tag, dirty)
             b == byte_size_calculation
  <1>1. /\ config \in Config /\ cache_timestamp \in Nat
        /\ sets \in [0..(num_sets - 1) -> Set] /\ set \in Set /\ Sound(set)
    BY Typed
  <1>2. after \in Set
    BY <1>1, AllocateKeeps
  <1>3. b \in Nat /\ SlotNr' = SlotNr
    BY <1>1, ConfigFacts DEF ReadLine, SlotNr, num_slots
  <1>4. DirtyIn(sets)' = DirtyIn([sets EXCEPT ![i] = after])
    BY <1>3 DEF DirtyIn
  <1>5. Cardinality(DirtyIn(sets)) \in Nat /\ Cardinality(DirtyIn(sets)') \in Nat
    <2>1. [sets EXCEPT ![i] = after] \in [0..(num_sets - 1) -> Set]
      BY <1>1, <1>2
    <2> HIDE DEF after
    <2>2. Cardinality(DirtyIn([sets EXCEPT ![i] = after])) \in Nat
      BY <1>1, <2>1, DirtyFinite
    <2>3. QED
      BY <1>1, <1>4, <2>2, DirtyFinite
  <1>6. CASE isCacheFull(set)
    <2> DEFINE v == Victim(set)
    <2>1. Redirtied(set, after, v) /\ ~after[v].dirty_bit
      BY <1>1, <1>6, EvictDirties
    <2>2. PICK was, is \in 0..1 :
             /\ was = 1 <=> set[v].dirty_bit
             /\ is = 1 <=> after[v].dirty_bit
             /\ Cardinality(DirtyIn([sets EXCEPT ![i] = after]))
                  = Cardinality(DirtyIn(sets)) - was + is
      <3> HIDE DEF after, v
      <3> QED
        BY <1>1, <1>2, <2>1, DirtyMoves
    <2>3. AllocateCost(set) = b + (IF was = 1 THEN b ELSE 0)
      BY <1>6, <2>2 DEF AllocateCost, WriteBack
    <2>4. Cardinality(DirtyIn(sets)') <= Cardinality(DirtyIn(sets)) - was
                                           + (IF dirty THEN 1 ELSE 0)
      <3> HIDE DEF after
      <3>1. is = 0
        BY <2>1, <2>2
      <3>2. QED
        BY <1>4, <1>5, <2>2, <3>1
    <2>5. QED
      BY <1>5, <2>3, <2>4
  <1>7. CASE ~isCacheFull(set)
    <2>1. PICK v \in SlotNr : Redirtied(set, after, v) /\ after[v].dirty_bit = dirty
      BY <1>1, <1>7, FillDirties
    <2>2. PICK was, is \in 0..1 :
             /\ was = 1 <=> set[v].dirty_bit
             /\ is = 1 <=> after[v].dirty_bit
             /\ Cardinality(DirtyIn([sets EXCEPT ![i] = after]))
                  = Cardinality(DirtyIn(sets)) - was + is
      <3> HIDE DEF after
      <3> QED
        BY <1>1, <1>2, <2>1, DirtyMoves
    <2>3. AllocateCost(set) = b + (IF 0 = 1 THEN b ELSE 0)
      BY <1>3, <1>7 DEF AllocateCost
    <2>4. Cardinality(DirtyIn(sets)') <= Cardinality(DirtyIn(sets)) - 0
                                           + (IF dirty THEN 1 ELSE 0)
      <3> HIDE DEF after
      <3>1. is = IF dirty THEN 1 ELSE 0
        BY <2>1, <2>2
      <3>2. QED
        BY <1>4, <1>5, <2>2, <3>1
    <2>5. QED
      BY <1>5, <2>3, <2>4
  <1>8. QED
    BY <1>6, <1>7

\* A hit fetches nothing and writes nothing back.
LEMMA TouchBalance ==
    ASSUME IInv, NEW i \in 0..(num_sets - 1), NEW tag \in Nat, NEW dirty \in BOOLEAN,
           Matching(sets[i], tag) # {}, ReadLine,
           sets' = [sets EXCEPT ![i] = Touch(sets[i], tag, dirty)]
    PROVE  /\ Cardinality(DirtyIn(sets)') \in Nat
           /\ \E was, is \in 0..1 :
                 /\ was = 1 <=> sets[i][FirstOf(Matching(sets[i], tag))].dirty_bit
                 /\ is = 1 <=> dirty
                 /\ Cardinality(DirtyIn(sets)') = Cardinality(DirtyIn(sets)) - was + is
  <1> DEFINE set == sets[i]
             after == Touch(set, tag, dirty)
             v == FirstOf(Matching(set, tag))
  <1>1. /\ config \in Config /\ cache_timestamp \in Nat
        /\ sets \in [0..(num_sets - 1) -> Set] /\ set \in Set /\ Sound(set)
    BY Typed
  <1>2. after \in Set /\ Redirtied(set, after, v) /\ after[v].dirty_bit = dirty
    BY <1>1, TouchKeeps, TouchDirties
  <1>3. SlotNr' = SlotNr
    BY DEF ReadLine, SlotNr, num_slots
  <1>4. DirtyIn(sets)' = DirtyIn([sets EXCEPT ![i] = after])
    BY <1>3 DEF DirtyIn
  <1>5. [sets EXCEPT ![i] = after] \in [0..(num_sets - 1) -> Set]
    BY <1>1, <1>2
  <1>6. QED
    <2> HIDE DEF after, v
    <2>1. Cardinality(DirtyIn([sets EXCEPT ![i] = after])) \in Nat
      BY <1>1, <1>5, DirtyFinite
    <2>2. \E was, is \in 0..1 :
             /\ was = 1 <=> set[v].dirty_bit
             /\ is = 1 <=> after[v].dirty_bit
             /\ Cardinality(DirtyIn([sets EXCEPT ![i] = after]))
                  = Cardinality(DirtyIn(sets)) - was + is
      BY <1>1, <1>2, DirtyMoves
    <2>3. QED
      BY <1>2, <1>4, <2>1, <2>2 DEF v

\* What a line leaves once its hit (h) and its fetch (f) are paid for.
LEMMA RestMoves ==
    ASSUME IInv, UNCHANGED config, NEW f \in 0..1, NEW h \in 0..1, NEW cost \in Nat,
           Fetches' = Fetches + f, total_cycles' = total_cycles + cost,
           hits'["load"] \in Nat, hits'["store"] \in Nat,
           hits'["load"] + hits'["store"] = hits["load"] + hits["store"] + h
    PROVE  Rest' = Rest + cost - h - (IF f = 1 THEN byte_size_calculation ELSE 0)
  <1> DEFINE b == byte_size_calculation
             before == Fetches * b
             after == Fetches' * b
             fetch == IF f = 1 THEN b ELSE 0
  <1>1. /\ config \in Config /\ total_cycles \in Nat
        /\ hits \in [{"load", "store"} -> Nat] /\ misses \in [{"load", "store"} -> Nat]
    BY DEF IInv, TypeOK
  <1>2. b \in Nat /\ byte_size_calculation' = b
    BY <1>1, ConfigFacts DEF byte_size_calculation, slot_size
  <1>3. hits["load"] \in Nat /\ hits["store"] \in Nat
    BY <1>1
  <1>4. before \in Nat /\ fetch \in Nat /\ after = before + fetch
    <2>1. Fetches \in Nat
      BY <1>1 DEF Fetches
    <2>2. \A x, y \in Nat : x * y \in Nat /\ (x + 1) * y = x * y + y /\ (x + 0) * y = x * y + 0
      OBVIOUS
    <2> HIDE DEF b
    <2>3. CASE f = 1
      BY <1>2, <2>1, <2>2, <2>3
    <2>4. CASE f = 0
      BY <1>2, <2>1, <2>2, <2>4
    <2>5. QED
      BY <2>3, <2>4
  <1>5. /\ Rest' = total_cycles' - hits'["load"] - hits'["store"] - after
        /\ Rest = total_cycles - hits["load"] - hits["store"] - before
    BY <1>2 DEF Rest
  <1> HIDE DEF before, after, fetch
  <1>6. Rest' = Rest + cost - h - fetch
    BY <1>1, <1>3, <1>4, <1>5
  <1>7. QED
    BY <1>6 DEF fetch

LEMMA LoadBalance ==
    ASSUME IInv, Balanced, NEW addr \in LoadAddress, Load(addr) PROVE Balanced'
  <1> DEFINE i == IndexOf(addr)
             tag == TagOf(addr)
             set == sets[i]
             found == Matching(set, tag)
             b == byte_size_calculation
  <1>1. /\ config \in Config /\ total_cycles \in Nat
        /\ i \in 0..(num_sets - 1) /\ tag \in Nat /\ set \in Set
        /\ sets \in [0..(num_sets - 1) -> Set]
    BY AddressedSet
  <1>2. ReadLine /\ Outcome("load", found # {}) /\ UNCHANGED config
    BY DEF Load, ReadLine
  <1>3. /\ hits \in [{"load", "store"} -> Nat] /\ misses \in [{"load", "store"} -> Nat]
        /\ b \in Nat
    BY <1>1, ConfigFacts DEF IInv, TypeOK
  <1>4. Rest \in Int
    BY RestInt
  <1>6. Cardinality(DirtyIn(sets)) \in Nat
    BY <1>1, DirtyFinite
  <1>7. CASE found # {} /\ total_cycles' = total_cycles + 1
             /\ sets' = [sets EXCEPT ![i] = Touch(set, tag, set[FirstOf(found)].dirty_bit)]
    <2> DEFINE dirty == set[FirstOf(found)].dirty_bit
    <2>1. dirty \in BOOLEAN
      <3>1. FirstOf(found) \in SlotNr
        BY <1>1, <1>7, First DEF Matching
      <3>2. QED
        BY <1>1, <3>1 DEF Set, Slot
    <2>2. /\ Cardinality(DirtyIn(sets)') \in Nat
          /\ Cardinality(DirtyIn(sets)') = Cardinality(DirtyIn(sets))
      <3>1. sets' = [sets EXCEPT ![i] = Touch(sets[i], tag, dirty)]
        BY <1>7
      <3> HIDE DEF i, tag
      <3>2. /\ Cardinality(DirtyIn(sets)') \in Nat
            /\ \E was, is \in 0..1 :
                  /\ was = 1 <=> dirty
                  /\ is = 1 <=> dirty
                  /\ Cardinality(DirtyIn(sets)') = Cardinality(DirtyIn(sets)) - was + is
        BY <1>1, <1>2, <1>7, <2>1, <3>1, TouchBalance
      <3> HIDE DEF dirty
      <3>3. QED
        BY <1>6, <2>1, <3>2
    <2>3. hits' = [hits EXCEPT !["load"] = @ + 1] /\ misses' = misses
      BY <1>2, <1>7 DEF Outcome
    <2>4. Stores' = Stores /\ Stores' \in Nat /\ hits'["store"] = hits["store"] + 0
      BY <1>3, <2>3 DEF Stores
    <2>5. Fetches' = Fetches
      BY <1>2, <2>3 DEF Fetches
    <2>6. Rest' = Rest + 100 * 0 + (IF 0 = 1 THEN b ELSE 0)
      <3>1. Rest' = Rest + 1 - 1 - (IF 0 = 1 THEN b ELSE 0)
        <4>1. /\ hits'["load"] = hits["load"] + 1 /\ hits'["store"] = hits["store"]
              /\ hits["load"] \in Nat /\ hits["store"] \in Nat
          BY <1>3, <2>3
        <4>2. Fetches' = Fetches + 0
          BY <1>3, <2>5 DEF Fetches
        <4>3. QED
          BY <1>2, <1>7, <4>1, <4>2, RestMoves
      <3>2. QED
        BY <1>4, <3>1
    <2>7. Stores' - Stores = 0
      BY <2>4
    <2>8. QED
      BY <1>2, <1>6, <2>2, <2>4, <2>6, <2>7, BalanceStep
  <1>8. CASE found = {} /\ total_cycles' = total_cycles + AllocateCost(set)
             /\ sets' = [sets EXCEPT ![i] = Allocate(set, tag, FALSE)]
    <2>1. PICK back \in 0..1 :
              /\ AllocateCost(set) = b + (IF back = 1 THEN b ELSE 0)
              /\ Cardinality(DirtyIn(sets)') \in Nat
              /\ Cardinality(DirtyIn(sets)')
                    <= Cardinality(DirtyIn(sets)) - back + (IF FALSE THEN 1 ELSE 0)
      <3> HIDE DEF i, tag
      <3> QED
        BY <1>1, <1>2, <1>8, AllocateBalance
    <2>2. misses' = [misses EXCEPT !["load"] = @ + 1] /\ hits' = hits
      BY <1>2, <1>8 DEF Outcome
    <2>3. Stores' = Stores /\ Stores' \in Nat /\ hits'["store"] = hits["store"] + 0
      BY <1>3, <2>2 DEF Stores
    <2>4. Fetches' = Fetches + 1
      BY <1>2, <1>3, <2>2 DEF Fetches
    <2>5. Rest' = Rest + 100 * 0 + (IF back = 1 THEN b ELSE 0)
      <3> DEFINE extra == IF back = 1 THEN b ELSE 0
      <3>1. extra \in Nat /\ b + extra \in Nat /\ total_cycles' = total_cycles + (b + extra)
        BY <1>3, <1>8, <2>1
      <3>2. hits'["load"] + hits'["store"] = hits["load"] + hits["store"] + 0
        BY <1>3, <2>2
      <3> HIDE DEF b, extra
      <3>3. Rest' = Rest + (b + extra) - 0 - (IF 1 = 1 THEN b ELSE 0)
        BY <1>2, <1>3, <2>2, <2>4, <3>1, <3>2, RestMoves DEF b
      <3>4. Rest' = Rest + 100 * 0 + extra
        BY <1>3, <1>4, <3>1, <3>3
      <3>5. QED
        BY <3>4 DEF extra
    <2>6. Stores' - Stores = 0
      BY <2>3
    <2>7. Cardinality(DirtyIn(sets)') <= Cardinality(DirtyIn(sets)) - back
      BY <1>6, <2>1
    <2>8. QED
      BY <1>2, <1>6, <2>1, <2>3, <2>5, <2>6, <2>7, BalanceStep
  <1>9. QED
    BY <1>1, <1>7, <1>8 DEF Load

LEMMA StoreBalance ==
    ASSUME IInv, Balanced, NEW addr \in StoreAddress, Store(addr) PROVE Balanced'
  <1> DEFINE i == IndexOf(addr)
             tag == TagOf(addr)
             set == sets[i]
             found == Matching(set, tag)
             b == byte_size_calculation
             through == config.write_through
             ToMemory == IF through THEN 100 ELSE 0
  <1>1. /\ config \in Config /\ total_cycles \in Nat
        /\ i \in 0..(num_sets - 1) /\ tag \in Nat /\ set \in Set
        /\ sets \in [0..(num_sets - 1) -> Set]
    BY AddressedSet
  <1>2. ReadLine /\ Outcome("store", found # {}) /\ UNCHANGED config
    BY DEF Store, ReadLine
  <1>3. /\ hits \in [{"load", "store"} -> Nat] /\ misses \in [{"load", "store"} -> Nat]
        /\ b \in Nat /\ through \in BOOLEAN
    BY <1>1, ConfigFacts DEF IInv, TypeOK
  <1>4. Rest \in Int /\ Cardinality(DirtyIn(sets)) \in Nat
    BY <1>1, RestInt, DirtyFinite
  <1>5. Stores' = Stores + 1 /\ Stores' \in Nat /\ Stores' - Stores = 1
    <2>1. Stores \in Nat
      BY <1>3 DEF Stores
    <2>2. Stores' = Stores + 1
      BY <1>2, <1>3 DEF Stores, Outcome
    <2>3. QED
      BY <2>1, <2>2
  <1>6. hits["load"] \in Nat /\ hits["store"] \in Nat /\ (~through) \in BOOLEAN
    BY <1>3
  <1>7. CASE found # {} /\ total_cycles' = total_cycles + ToMemory + 1
             /\ sets' = [sets EXCEPT ![i] = Touch(set, tag, ~through)]
    <2> DEFINE paid == IF through THEN 1 ELSE 0
    <2>1. PICK was, is \in 0..1 :
             /\ was = 1 <=> set[FirstOf(found)].dirty_bit
             /\ is = 1 <=> ~through
             /\ Cardinality(DirtyIn(sets)') = Cardinality(DirtyIn(sets)) - was + is
      <3>1. sets' = [sets EXCEPT ![i] = Touch(sets[i], tag, ~through)]
        BY <1>7
      <3> HIDE DEF i, tag
      <3>2. QED
        BY <1>1, <1>2, <1>6, <1>7, <3>1, TouchBalance
    <2>2. Cardinality(DirtyIn(sets)') \in Nat
      <3>1. sets' = [sets EXCEPT ![i] = Touch(sets[i], tag, ~through)]
        BY <1>7
      <3> HIDE DEF i, tag
      <3>2. QED
        BY <1>1, <1>2, <1>6, <1>7, <3>1, TouchBalance
    <2>3. hits'["load"] = hits["load"] /\ hits'["store"] = hits["store"] + 1 /\ misses' = misses
      BY <1>2, <1>3, <1>7 DEF Outcome
    <2>4. Fetches' = Fetches + 0
      BY <1>2, <1>3, <2>3 DEF Fetches
    <2>5. paid \in 0..1 /\ ToMemory = 100 * paid
      BY <1>3
    <2>6. Rest' = Rest + 100 * paid + (IF 0 = 1 THEN b ELSE 0)
      <3> HIDE DEF ToMemory, paid
      <3>1. /\ ToMemory + 1 \in Nat /\ total_cycles' = total_cycles + (ToMemory + 1)
            /\ hits'["load"] + hits'["store"] = hits["load"] + hits["store"] + 1
        BY <1>1, <1>6, <1>7, <2>3, <2>5
      <3>2. Rest' = Rest + (ToMemory + 1) - 1 - (IF 0 = 1 THEN b ELSE 0)
        BY <1>2, <1>6, <2>3, <2>4, <3>1, RestMoves
      <3>3. QED
        BY <1>4, <2>5, <3>2
    <2>7. through => /\ 1 <= paid /\ paid <= Stores' - Stores
                     /\ Cardinality(DirtyIn(sets)') <= Cardinality(DirtyIn(sets)) - 0
      BY <1>4, <1>5, <2>1
    <2>8. ~through => /\ paid = 0
                      /\ Cardinality(DirtyIn(sets)')
                           <= Cardinality(DirtyIn(sets)) - 0 + (Stores' - Stores)
      BY <1>4, <1>5, <2>1
    <2>9. QED
      <3> HIDE DEF paid
      <3> QED
        BY <1>2, <1>5, <2>2, <2>3, <2>5, <2>6, <2>7, <2>8, BalanceStep
  <1>8. CASE found = {} /\ config.allocate
             /\ sets' = [sets EXCEPT ![i] = Allocate(set, tag, ~through)]
             /\ total_cycles' = total_cycles + AllocateCost(set)
                                  + (IF isCacheFull(set) THEN 0 ELSE ToMemory)
    <2> DEFINE paid == IF through /\ ~isCacheFull(set) THEN 1 ELSE 0
    <2>1. PICK back \in 0..1 :
              /\ AllocateCost(set) = b + (IF back = 1 THEN b ELSE 0)
              /\ Cardinality(DirtyIn(sets)') \in Nat
              /\ Cardinality(DirtyIn(sets)') <= Cardinality(DirtyIn(sets)) - back
                                                  + (IF ~through THEN 1 ELSE 0)
      <3>1. sets' = [sets EXCEPT ![i] = Allocate(sets[i], tag, ~through)]
        BY <1>8
      <3> HIDE DEF i, tag
      <3> QED
        BY <1>1, <1>2, <1>6, <1>8, <3>1, AllocateBalance
    <2>2. misses' = [misses EXCEPT !["store"] = @ + 1] /\ hits' = hits
      BY <1>2, <1>8 DEF Outcome
    <2>3. Fetches' = Fetches + 1
      BY <1>2, <1>3, <1>8, <2>2 DEF Fetches
    <2>4. paid \in 0..1 /\ (IF isCacheFull(set) THEN 0 ELSE ToMemory) = 100 * paid
      BY <1>3
    <2>5. Rest' = Rest + 100 * paid + (IF back = 1 THEN b ELSE 0)
      <3> DEFINE extra == IF back = 1 THEN b ELSE 0
                 cost == b + extra + 100 * paid
      <3>1. extra \in Nat /\ AllocateCost(set) = b + extra
        BY <1>3, <2>1
      <3>2. total_cycles' = total_cycles + AllocateCost(set) + 100 * paid
        BY <1>8, <2>4
      <3> HIDE DEF b, extra, paid
      <3>3. cost \in Nat /\ total_cycles' = total_cycles + cost
        BY <1>1, <1>3, <2>4, <3>1, <3>2
      <3>4. hits'["load"] + hits'["store"] = hits["load"] + hits["store"] + 0
        BY <1>6, <2>2
      <3>5. Rest' = Rest + cost - 0 - (IF 1 = 1 THEN b ELSE 0)
        <4> HIDE DEF cost
        <4> QED
          BY <1>2, <1>6, <2>2, <2>3, <3>3, <3>4, RestMoves DEF b
      <3>6. Rest' = Rest + 100 * paid + extra
        BY <1>3, <1>4, <2>4, <3>1, <3>5
      <3>7. QED
        BY <3>6 DEF extra
    <2>6. hits'["store"] = hits["store"] + 0
      BY <1>6, <2>2
    <2>7. through => /\ 0 <= paid /\ paid <= Stores' - Stores
                     /\ Cardinality(DirtyIn(sets)') <= Cardinality(DirtyIn(sets)) - back
      BY <1>4, <1>5, <2>1
    <2>8. ~through => /\ paid = 0
                      /\ Cardinality(DirtyIn(sets)')
                           <= Cardinality(DirtyIn(sets)) - back + (Stores' - Stores)
      BY <1>4, <1>5, <2>1
    <2>9. QED
      <3> HIDE DEF paid
      <3> QED
        BY <1>2, <1>5, <2>1, <2>4, <2>5, <2>6, <2>7, <2>8, BalanceStep
  <1>9. CASE found = {} /\ ~config.allocate /\ total_cycles' = total_cycles + 100
             /\ sets' = sets
    <2>1. misses' = [misses EXCEPT !["store"] = @ + 1] /\ hits' = hits
      BY <1>2, <1>9 DEF Outcome
    <2>2. through
      BY <1>1, <1>9 DEF Config
    <2>3. Fetches' = Fetches + 0
      BY <1>2, <1>3, <1>9, <2>1 DEF Fetches
    <2>4. DirtyIn(sets)' = DirtyIn(sets)
      BY <1>2, <1>9 DEF DirtyIn, SlotNr, num_slots
    <2>5. Rest' = Rest + 100 * 1 + (IF 0 = 1 THEN b ELSE 0)
      <3>1. hits'["load"] + hits'["store"] = hits["load"] + hits["store"] + 0
        BY <1>6, <2>1
      <3>2. Rest' = Rest + 100 - 0 - (IF 0 = 1 THEN b ELSE 0)
        BY <1>2, <1>6, <1>9, <2>1, <2>3, <3>1, RestMoves
      <3>3. QED
        BY <1>4, <3>2
    <2>6. hits'["store"] = hits["store"] + 0
      BY <1>6, <2>1
    <2>7. QED
      BY <1>2, <1>4, <1>5, <2>2, <2>4, <2>5, <2>6, BalanceStep
  <1>10. QED
    BY <1>1, <1>7, <1>8, <1>9 DEF Store

LEMMA OtherBalance == ASSUME Balanced, UNCHANGED <<config, sets, total_cycles, hits, misses>>
                      PROVE  Balanced'
  BY DEF Balanced, DirtyIn, Rest, Stores, Fetches, SlotNr, num_slots, byte_size_calculation,
         slot_size

LEMMA InitBalance == ASSUME Init PROVE Balanced
  <1> DEFINE b == byte_size_calculation
  <1>1. config \in Config /\ IInv
    BY InvInit DEF Init
  <1>2. b \in Nat
    BY <1>1, ConfigFacts
  <1>3. Stores = 0 /\ hits["store"] = 0 /\ hits["load"] = 0 /\ Fetches = 0
    BY DEF Init, Stores, Fetches
  <1>4. Rest = 0
    <2>1. 0 * b = 0
      BY <1>2
    <2> HIDE DEF b
    <2>2. QED
      BY <1>3, <2>1 DEF Rest, Init, b
  <1>5. DirtyIn(sets) = {}
    BY DEF Init, DirtyIn, EmptySlot
  <1>6. Cardinality(DirtyIn(sets)) = 0
    BY <1>5, FS_EmptySet
  <1>7. 0 * b = 0 /\ 0 = 100 * 0 /\ 0 \in 0..0 /\ 0 \in 0..(0 - 0)
    BY <1>2
  <1>8. Balance(config.write_through, 0, b, 0, 0, 0)
    <2> HIDE DEF b
    <2> QED
      BY <1>7 DEF Balance
  <1>9. QED
    BY <1>3, <1>4, <1>6, <1>8 DEF Balanced

\* Over a trace of any length, the cycles that Load_hitOrMiss, Store_hitOrMiss and
\* evictionFunction add up are those of the hits, of the fetched blocks, of the
\* writes to memory and of the blocks written back, and no block is written back
\* more often than stores have made it dirty.
THEOREM CyclesCorrect == Spec => []CyclesAccounted
  <1>1. Init => IInv /\ Balanced
    BY InvInit, InitBalance
  <1>2. (IInv /\ Balanced) /\ [Next]_vars => (IInv /\ Balanced)'
    <2> SUFFICES ASSUME IInv, Balanced, [Next]_vars
                 PROVE  Balanced'
      BY InvStep
    <2>1. CASE UNCHANGED vars
      BY <2>1, OtherBalance DEF vars
    <2>2. CASE Next
      <3>1. CASE Other
        BY <3>1, OtherBalance DEF Other, ReadLine
      <3>2. QED
        BY <2>2, <3>1, LoadBalance, StoreBalance DEF Next
    <2>3. QED
      BY <2>1, <2>2
  <1>3. IInv /\ Balanced => CyclesAccounted
    <2> SUFFICES ASSUME IInv, Balanced
                 PROVE  CyclesAccounted
      OBVIOUS
    <2>1. CASE config.write_through
      BY <2>1 DEF Balanced, Balance, CyclesAccounted, Rest, Stores, Fetches
    <2>2. CASE ~config.write_through
      BY <2>2 DEF Balanced, Balance, CyclesAccounted, Rest, Stores, Fetches, DirtyIn
    <2>3. QED
      BY <2>1, <2>2
  <1>4. QED
    BY <1>1, <1>2, <1>3, PTL DEF Spec

-----------------------------------------------------------------------------
(* The reference's queues, as functions *)

LEMMA FunctionIsSeq ==
    ASSUME NEW n \in Nat, NEW q \in [1..n -> Int]
    PROVE  q \in Seq(Int) /\ Len(q) = n /\ DOMAIN q = 1..n
  <1>1. q \in Seq(Int)
    BY SeqDef
  <1>2. QED
    BY <1>1, LenProperties

LEMMA AppendIs ==
    ASSUME NEW n \in Nat, NEW q \in [1..n -> Int], NEW b \in Int
    PROVE  Append(q, b) = [r \in 1..(n + 1) |-> IF r <= n THEN q[r] ELSE b]
  <1> DEFINE long == [r \in 1..(n + 1) |-> IF r <= n THEN q[r] ELSE b]
  <1>1. q \in Seq(Int) /\ Len(q) = n
    BY FunctionIsSeq
  <1>2. /\ Append(q, b) \in Seq(Int) /\ Len(Append(q, b)) = n + 1
        /\ \A r \in 1..(n + 1) : Append(q, b)[r] = long[r]
    BY <1>1, AppendProperties
  <1>3. n + 1 \in Nat /\ long \in [1..(n + 1) -> Int]
    OBVIOUS
  <1> HIDE DEF long
  <1>4. long \in Seq(Int) /\ Len(long) = n + 1
    BY <1>3, FunctionIsSeq
  <1>5. Append(q, b) = long
    BY <1>2, <1>4, SeqEqual
  <1>6. QED
    BY <1>5 DEF long

\* What is behind the r-th block moves up, a block is put behind the others.
Rotated(q, n, r, b) ==
    [k \in 1..n |-> IF k < r THEN q[k] ELSE IF k < n THEN q[k + 1] ELSE b]

LEMMA TailIs ==
    ASSUME NEW n \in Nat \ {0}, NEW q \in [1..n -> Int], NEW b \in Int
    PROVE  Append(Tail(q), b) = Rotated(q, n, 1, b)
  <1>1. q \in Seq(Int) /\ Len(q) = n
    BY FunctionIsSeq
  <1>2. /\ Tail(q) \in Seq(Int) /\ Len(Tail(q)) = n - 1
        /\ \A k \in 1..(n - 1) : Tail(q)[k] = q[k + 1]
    <2>1. q # << >>
      BY <1>1, EmptySeq
    <2>2. QED
      BY <1>1, <2>1, HeadTailProperties
  <1>3. n - 1 \in Nat /\ Tail(q) \in [1..(n - 1) -> Int]
    BY <1>2, LenProperties
  <1>4. Append(Tail(q), b) = [k \in 1..(n - 1 + 1) |-> IF k <= n - 1 THEN Tail(q)[k] ELSE b]
    <2> DEFINE m == n - 1
               t == Tail(q)
    <2>1. m \in Nat /\ t \in [1..m -> Int]
      BY <1>3
    <2> HIDE DEF m, t
    <2>2. Append(t, b) = [k \in 1..(m + 1) |-> IF k <= m THEN t[k] ELSE b]
      BY <2>1, AppendIs
    <2>3. QED
      BY <2>2 DEF m, t
  <1>5. QED
    BY <1>2, <1>4 DEF Rotated

LEMMA MoveLastIs ==
    ASSUME NEW n \in Nat, NEW q \in [1..n -> Int], NEW r \in 1..n
    PROVE  Reference!MoveLast(q, r) = Rotated(q, n, r, q[r])
  <1> DEFINE front == SubSeq(q, 1, r - 1)
             back == SubSeq(q, r + 1, Len(q))
             rest == front \o back
             all == Append(rest, q[r])
  <1>1. q \in Seq(Int) /\ Len(q) = n
    BY FunctionIsSeq
  <1>2. front \in Seq(Int) /\ Len(front) = r - 1 /\ \A k \in 1..(r - 1) : front[k] = q[k]
    BY <1>1, SubSeqProperties
  <1>3. back \in Seq(Int) /\ Len(back) = n - r /\ \A k \in 1..(n - r) : back[k] = q[k + r]
    BY <1>1, SubSeqProperties
  <1>4. /\ rest \in Seq(Int) /\ Len(rest) = Len(front) + Len(back)
        /\ \A k \in 1..(Len(front) + Len(back)) :
              rest[k] = IF k <= Len(front) THEN front[k] ELSE back[k - Len(front)]
    <2>1. front \in Seq(Int) /\ back \in Seq(Int)
      BY <1>2, <1>3
    <2> HIDE DEF front, back
    <2>2. QED
      BY <2>1, ConcatProperties
  <1>5. Len(rest) = n - 1 /\ \A k \in 1..(n - 1) : rest[k] = IF k < r THEN q[k] ELSE q[k + 1]
    <2> HIDE DEF front, back, rest
    <2>1. n \in Int /\ r \in 1..n /\ Len(front) + Len(back) = n - 1
      BY <1>2, <1>3
    <2>2. Len(rest) = n - 1
      BY <1>4, <2>1
    <2>3. ASSUME NEW k \in 1..(n - 1) PROVE rest[k] = IF k < r THEN q[k] ELSE q[k + 1]
      <3>1. rest[k] = IF k <= Len(front) THEN front[k] ELSE back[k - Len(front)]
        BY <1>4, <2>1
      <3>2. CASE k < r
        <4>1. k \in 1..(r - 1) /\ k <= Len(front)
          BY <1>2, <2>1, <3>2
        <4>2. QED
          BY <1>2, <3>1, <3>2, <4>1
      <3>3. CASE ~(k < r)
        <4>1. k - (r - 1) \in 1..(n - r) /\ ~(k <= Len(front)) /\ k - (r - 1) + r = k + 1
          BY <1>2, <2>1, <3>3
        <4>2. back[k - (r - 1)] = q[k + 1]
          BY <1>3, <4>1
        <4>3. QED
          BY <1>2, <3>1, <3>3, <4>1, <4>2
      <3>4. QED
        BY <3>2, <3>3
    <2>4. QED
      BY <2>2, <2>3
  <1>6. n - 1 \in Nat /\ rest \in [1..(n - 1) -> Int] /\ q[r] \in Int
    <2> HIDE DEF rest
    <2>1. rest \in [1..Len(rest) -> Int]
      BY <1>4, LenProperties
    <2>2. QED
      BY <1>5, <2>1
  <1>7. all = [k \in 1..(n - 1 + 1) |-> IF k <= n - 1 THEN rest[k] ELSE q[r]]
    <2> HIDE DEF rest
    <2> QED
      BY <1>6, AppendIs
  <1>8. all = Rotated(q, n, r, q[r])
    <2> HIDE DEF rest, all
    <2> QED
      BY <1>5, <1>7 DEF Rotated
  <1>9. QED
    BY <1>8 DEF Reference!MoveLast

-----------------------------------------------------------------------------
(* The order of the slots *)

BlockAt(tag, i) == tag * num_sets + i

\* The queue of a set, from its slots.
QueueOf(set, i) ==
    [r \in 1..Cardinality(Filled(set)) |->
        LET j == CHOOSE k \in Filled(set) :
                    Cardinality({m \in Filled(set) : Before(set, m, k)}) = r - 1
        IN  set[j].tag * num_sets + i]

\* p lists the n filled slots by age.
Lists(p, n, set) ==
    /\ \A j \in SlotNr : set[j].valid <=> \E r \in 1..n : p[r] = j
    /\ \A r, k \in 1..n : r < k => Before(set, p[r], p[k])

LEMMA BeforeIsOrder ==
    ASSUME config \in Config, NEW set \in Set, NEW j \in SlotNr, NEW k \in SlotNr,
           Before(set, j, k)
    PROVE  ~Before(set, k, j) /\ j # k
  <1>1. set[j] \in Slot /\ set[k] \in Slot
    BY DEF Set
  <1>2. /\ set[j].access_ts \in Nat /\ set[k].access_ts \in Nat
        /\ set[j].load_ts \in Nat /\ set[k].load_ts \in Nat
    BY <1>1 DEF Slot
  <1>3. QED
    BY <1>2 DEF Before

LEMMA ListIsOrder ==
    ASSUME config \in Config, NEW set \in Set, NEW n \in Nat, NEW p \in [1..n -> SlotNr],
           Lists(p, n, set)
    PROVE  /\ \A r, k \in 1..n : Before(set, p[r], p[k]) <=> r < k
           /\ \A r, k \in 1..n : p[r] = p[k] => r = k
  <1>1. \A r, k \in 1..n : Before(set, p[r], p[k]) <=> r < k
    <2> SUFFICES ASSUME NEW r \in 1..n, NEW k \in 1..n, Before(set, p[r], p[k]), ~(r < k)
                 PROVE  FALSE
      BY DEF Lists
    <2>1. p[r] \in SlotNr /\ p[k] \in SlotNr
      OBVIOUS
    <2>2. ~Before(set, p[k], p[r]) /\ p[r] # p[k]
      BY <2>1, BeforeIsOrder
    <2>3. ~(k < r)
      BY <2>2 DEF Lists
    <2>4. r = k
      BY <2>3
    <2>5. QED
      BY <2>2, <2>4
  <1>2. \A r, k \in 1..n : p[r] = p[k] => r = k
    <2> SUFFICES ASSUME NEW r \in 1..n, NEW k \in 1..n, p[r] = p[k], r # k
                 PROVE  FALSE
      OBVIOUS
    <2>1. p[r] \in SlotNr /\ p[k] \in SlotNr
      OBVIOUS
    <2>2. r < k \/ k < r
      OBVIOUS
    <2>3. Before(set, p[r], p[k]) \/ Before(set, p[k], p[r])
      BY <1>1, <2>2
    <2>4. QED
      BY <2>1, <2>3, BeforeIsOrder
  <1>3. QED
    BY <1>1, <1>2

\* Its numbering is the one CHOOSE finds by counting.
LEMMA QueueIs ==
    ASSUME config \in Config, NEW set \in Set, NEW n \in Nat, NEW p \in [1..n -> SlotNr],
           Lists(p, n, set), NEW i
    PROVE  /\ Cardinality(Filled(set)) = n
           /\ QueueOf(set, i) = [r \in 1..n |-> BlockAt(set[p[r]].tag, i)]
  <1> DEFINE Older(k) == {m \in Filled(set) : Before(set, m, k)}
             First_(r) == [s \in 1..(r - 1) |-> p[s]]
  <1>1. Filled(set) = {p[r] : r \in 1..n}
    BY DEF Filled, Invalid, Lists
  <1>2. \A r, k \in 1..n : Before(set, p[r], p[k]) <=> r < k
    BY ListIsOrder
  <1>3. \A r, k \in 1..n : p[r] = p[k] => r = k
    BY ListIsOrder
  <1>4. Cardinality(Filled(set)) = n
    <2>1. p \in Bijection(1..n, Filled(set))
      <3>1. p \in [1..n -> Filled(set)]
        BY <1>1
      <3>2. QED
        BY <1>1, <1>3, <3>1 DEF Bijection, Injection, IsInjective, Surjection
    <2>2. ExistsBijection(1..n, Filled(set))
      BY <2>1 DEF ExistsBijection
    <2>3. QED
      BY <2>2, FS_CountingElements
  <1>5. ASSUME NEW r \in 1..n
        PROVE  Cardinality(Older(p[r])) = r - 1
    <2> DEFINE f == First_(r)
    <2>1. Older(p[r]) = {p[s] : s \in 1..(r - 1)}
      BY <1>1, <1>2
    <2>2. f \in Bijection(1..(r - 1), Older(p[r]))
      <3>1. f \in [1..(r - 1) -> Older(p[r])]
        BY <2>1
      <3>2. \A s, k \in 1..(r - 1) : f[s] = f[k] => s = k
        BY <1>3
      <3>3. \A m \in Older(p[r]) : \E s \in 1..(r - 1) : f[s] = m
        BY <2>1
      <3> HIDE DEF f, Older
      <3>4. QED
        BY <3>1, <3>2, <3>3 DEF Bijection, Injection, IsInjective, Surjection
    <2> HIDE DEF Older, f
    <2>3. r - 1 \in Nat /\ ExistsBijection(1..(r - 1), Older(p[r]))
      BY <2>2 DEF ExistsBijection
    <2>4. QED
      BY <2>3, FS_CountingElements
  <1>6. ASSUME NEW r \in 1..n
        PROVE  (CHOOSE k \in Filled(set) : Cardinality(Older(k)) = r - 1) = p[r]
    <2> HIDE DEF Older
    <2>1. p[r] \in Filled(set) /\ Cardinality(Older(p[r])) = r - 1
      BY <1>1, <1>5
    <2>2. ASSUME NEW k \in Filled(set), Cardinality(Older(k)) = r - 1
          PROVE  k = p[r]
      <3>1. PICK s \in 1..n : k = p[s]
        BY <1>1
      <3>2. s - 1 = r - 1
        BY <1>5, <2>2, <3>1
      <3>3. QED
        BY <3>1, <3>2
    <2>3. QED
      BY <2>1, <2>2
  <1>7. QueueOf(set, i) = [r \in 1..n |-> set[p[r]].tag * num_sets + i]
    <2> DEFINE old(r) == CHOOSE k \in Filled(set) : Cardinality(Older(k)) = r - 1
    <2>1. QueueOf(set, i) = [r \in 1..n |-> set[old(r)].tag * num_sets + i]
      BY <1>4 DEF QueueOf
    <2> HIDE DEF old
    <2>2. \A r \in 1..n : old(r) = p[r]
      BY <1>6 DEF old
    <2>3. QED
      BY <2>1, <2>2
  <1>8. QED
    BY <1>4, <1>7 DEF BlockAt

LEMMA QueueIsTyped ==
    ASSUME config \in Config, NEW set \in Set, NEW n \in Nat, NEW p \in [1..n -> SlotNr],
           Lists(p, n, set), NEW i \in Nat
    PROVE  /\ QueueOf(set, i) \in [1..n -> Int]
           /\ \A tag \in Nat : BlockAt(tag, i) \in Int
  <1>1. \A tag \in Nat : BlockAt(tag, i) \in Int
    BY ConfigFacts DEF BlockAt
  <1>2. \A r \in 1..n : set[p[r]].tag \in Nat
    BY DEF Set, Slot
  <1>3. QueueOf(set, i) = [r \in 1..n |-> BlockAt(set[p[r]].tag, i)]
    BY QueueIs
  <1>4. QED
    BY <1>1, <1>2, <1>3

\* A filled slot becomes the youngest.
LEMMA Requeued ==
    ASSUME config \in Config, NEW set \in Set, NEW after \in Set, NEW n \in Nat,
           NEW p \in [1..n -> SlotNr], Lists(p, n, set), NEW r \in 1..n, NEW i \in Nat,
           \A j \in SlotNr : after[j].valid = set[j].valid,
           \A j \in SlotNr : j # p[r] => after[j].tag = set[j].tag,
           \A j, k \in SlotNr : j # p[r] /\ k # p[r] /\ Before(set, j, k) => Before(after, j, k),
           \A j \in SlotNr : j # p[r] /\ set[j].valid => Before(after, j, p[r])
    PROVE  /\ Rotated(p, n, r, p[r]) \in [1..n -> SlotNr]
           /\ Lists(Rotated(p, n, r, p[r]), n, after)
           /\ QueueOf(after, i)
                = Rotated(QueueOf(set, i), n, r, BlockAt(after[p[r]].tag, i))
  <1> DEFINE new == Rotated(p, n, r, p[r])
             source(k) == IF k < r THEN k ELSE IF k < n THEN k + 1 ELSE r
  <1>1. \A k \in 1..n : source(k) \in 1..n /\ new[k] = p[source(k)]
    BY DEF Rotated
  <1>2. new \in [1..n -> SlotNr]
    BY DEF Rotated
  <1>3. \A k \in 1..n : \E m \in 1..n : source(m) = k
    <2> SUFFICES ASSUME NEW k \in 1..n
                 PROVE  \E m \in 1..n : source(m) = k
      OBVIOUS
    <2>1. CASE k < r
      <3>1. source(k) = k
        BY <2>1
      <3>2. QED
        BY <3>1
    <2>2. CASE k = r
      <3>1. n \in 1..n /\ source(n) = r
        OBVIOUS
      <3>2. QED
        BY <2>2, <3>1
    <2>3. CASE k > r
      <3>1. k - 1 \in 1..n /\ source(k - 1) = k
        BY <2>3
      <3>2. QED
        BY <3>1
    <2>4. QED
      BY <2>1, <2>2, <2>3
  <1>4. \A k, m \in 1..n : k < m => source(k) # r /\ (source(m) = r \/ source(k) < source(m))
    OBVIOUS
  <1> HIDE DEF new, source
  <1>5. \A j \in SlotNr : after[j].valid <=> \E k \in 1..n : new[k] = j
    <2>1. ASSUME NEW k \in 1..n PROVE \E m \in 1..n : new[m] = p[k]
      <3>1. PICK m \in 1..n : source(m) = k
        BY <1>3
      <3>2. new[m] = p[k]
        BY <1>1, <3>1
      <3>3. QED
        BY <3>2
    <2>2. ASSUME NEW m \in 1..n PROVE \E k \in 1..n : new[m] = p[k]
      BY <1>1
    <2>3. ASSUME NEW j \in SlotNr
          PROVE  (\E k \in 1..n : p[k] = j) <=> (\E m \in 1..n : new[m] = j)
      <3>1. ASSUME NEW k \in 1..n, p[k] = j PROVE \E m \in 1..n : new[m] = j
        BY <2>1, <3>1
      <3>2. ASSUME NEW m \in 1..n, new[m] = j PROVE \E k \in 1..n : p[k] = j
        <4>1. PICK k \in 1..n : new[m] = p[k]
          BY <2>2
        <4>2. QED
          BY <3>2, <4>1
      <3>3. QED
        BY <3>1, <3>2
    <2>4. \A j \in SlotNr : set[j].valid <=> \E k \in 1..n : p[k] = j
      BY DEF Lists
    <2>5. QED
      BY <2>3, <2>4
  <1>6. ASSUME NEW k \in 1..n, NEW m \in 1..n, k < m
        PROVE  Before(after, new[k], new[m])
    <2>1. p[source(k)] \in SlotNr /\ p[source(m)] \in SlotNr /\ source(k) # r
      BY <1>1, <1>4, <1>6
    <2> DEFINE sk == source(k)
               sm == source(m)
    <2>0. /\ sk \in 1..n /\ sm \in 1..n
          /\ \A x, y \in 1..n : p[x] = p[y] => x = y
      <3>1. \A x, y \in 1..n : p[x] = p[y] => x = y
        BY ListIsOrder
      <3>2. QED
        BY <1>1, <3>1
    <2>2. p[source(k)] # p[r]
      <3> HIDE DEF sk
      <3>1. p[sk] # p[r]
        BY <2>0, <2>1 DEF sk
      <3>2. QED
        BY <3>1 DEF sk
    <2>3. set[p[source(k)]].valid
      BY <1>1, <2>1 DEF Lists
    <2>4. CASE source(m) = r
      BY <1>1, <2>1, <2>2, <2>3, <2>4
    <2>5. CASE source(m) # r
      <3>1. p[source(m)] # p[r]
        <4> HIDE DEF sm
        <4>1. p[sm] # p[r]
          BY <2>0, <2>5 DEF sm
        <4>2. QED
          BY <4>1 DEF sm
      <3>2. Before(set, p[source(k)], p[source(m)])
        BY <1>1, <1>4, <1>6, <2>5 DEF Lists
      <3>3. QED
        BY <1>1, <2>1, <2>2, <3>1, <3>2
    <2>6. QED
      BY <2>4, <2>5
  <1>7. Lists(new, n, after)
    BY <1>5, <1>6 DEF Lists
  <1>8. QueueOf(after, i) = Rotated(QueueOf(set, i), n, r, BlockAt(after[p[r]].tag, i))
    <2>1. QueueOf(after, i) = [k \in 1..n |-> BlockAt(after[new[k]].tag, i)]
      BY <1>2, <1>7, QueueIs
    <2>2. QueueOf(set, i) = [k \in 1..n |-> BlockAt(set[p[k]].tag, i)]
      BY QueueIs
    <2>3. \A k \in 1..n : k # r => after[p[k]].tag = set[p[k]].tag
      BY ListIsOrder
    <2>4. ASSUME NEW k \in 1..n
          PROVE  BlockAt(after[new[k]].tag, i)
                   = Rotated(QueueOf(set, i), n, r, BlockAt(after[p[r]].tag, i))[k]
      <3>1. CASE k < r
        <4>1. new[k] = p[k] /\ k # r
          BY <3>1 DEF new, Rotated
        <4>2. QED
          BY <2>2, <2>3, <3>1, <4>1 DEF Rotated
      <3>2. CASE ~(k < r) /\ k < n
        <4>1. new[k] = p[k + 1] /\ k + 1 \in 1..n /\ k + 1 # r
          BY <3>2 DEF new, Rotated
        <4>2. QED
          BY <2>2, <2>3, <3>2, <4>1 DEF Rotated
      <3>3. CASE ~(k < r) /\ ~(k < n)
        BY <3>3 DEF new, Rotated
      <3>4. QED
        BY <3>1, <3>2, <3>3
    <2>5. QED
      BY <2>1, <2>4 DEF Rotated
  <1>9. QED
    BY <1>2, <1>7, <1>8 DEF new

\* A free slot is filled and becomes the youngest.
LEMMA Enqueued ==
    ASSUME config \in Config, NEW set \in Set, NEW after \in Set, NEW n \in Nat,
           NEW p \in [1..n -> SlotNr], Lists(p, n, set), NEW f \in SlotNr, NEW i \in Nat,
           ~set[f].valid,
           \A j \in SlotNr : after[j].valid <=> j = f \/ set[j].valid,
           \A j \in SlotNr : j # f => after[j].tag = set[j].tag,
           \A j, k \in SlotNr :
              set[j].valid /\ set[k].valid /\ Before(set, j, k) => Before(after, j, k),
           \A j \in SlotNr : set[j].valid => Before(after, j, f)
    PROVE  /\ \E q \in [1..(n + 1) -> SlotNr] : Lists(q, n + 1, after)
           /\ QueueOf(after, i) = Append(QueueOf(set, i), BlockAt(after[f].tag, i))
  <1> DEFINE new == [k \in 1..(n + 1) |-> IF k <= n THEN p[k] ELSE f]
  <1>1. new \in [1..(n + 1) -> SlotNr]
    OBVIOUS
  <1>2. \A k \in 1..n : set[p[k]].valid /\ p[k] # f /\ p[k] \in SlotNr
    BY DEF Lists
  <1>3. \A k \in 1..(n + 1) : k \in 1..n \/ k = n + 1
    OBVIOUS
  <1>4. (\A k \in 1..n : new[k] = p[k]) /\ new[n + 1] = f /\ n + 1 \in 1..(n + 1)
    OBVIOUS
  <1> HIDE DEF new
  <1>5. \A j \in SlotNr : after[j].valid <=> \E k \in 1..(n + 1) : new[k] = j
    <2>1. \A k \in 1..n : k \in 1..(n + 1)
      OBVIOUS
    <2>2. QED
      BY <1>3, <1>4, <2>1 DEF Lists
  <1>6. ASSUME NEW k \in 1..(n + 1), NEW m \in 1..(n + 1), k < m
        PROVE  Before(after, new[k], new[m])
    <2>1. k \in 1..n
      BY <1>6
    <2>2. CASE m = n + 1
      BY <1>2, <1>4, <2>1, <2>2
    <2>3. CASE m \in 1..n
      <3>1. Before(set, p[k], p[m])
        BY <1>6, <2>1, <2>3 DEF Lists
      <3>2. QED
        BY <1>2, <1>4, <2>1, <2>3, <3>1
    <2>4. QED
      BY <1>3, <2>2, <2>3
  <1>7. Lists(new, n + 1, after)
    BY <1>5, <1>6 DEF Lists
  <1>8. QueueOf(after, i) = Append(QueueOf(set, i), BlockAt(after[f].tag, i))
    <2> DEFINE b == BlockAt(after[f].tag, i)
               q == QueueOf(set, i)
    <2>1. n + 1 \in Nat
      OBVIOUS
    <2>2. QueueOf(after, i) = [k \in 1..(n + 1) |-> BlockAt(after[new[k]].tag, i)]
      BY <1>1, <1>7, <2>1, QueueIs
    <2>3. q = [k \in 1..n |-> BlockAt(set[p[k]].tag, i)]
      BY QueueIs
    <2>4. q \in [1..n -> Int] /\ b \in Int
      <3>1. after[f].tag \in Nat
        BY DEF Set, Slot
      <3>2. QED
        BY <3>1, QueueIsTyped
    <2>5. Append(q, b) = [k \in 1..(n + 1) |-> IF k <= n THEN q[k] ELSE b]
      <3> HIDE DEF q, b
      <3> QED
        BY <2>4, AppendIs
    <2>6. \A k \in 1..(n + 1) :
             BlockAt(after[new[k]].tag, i) = IF k <= n THEN q[k] ELSE b
      <3>1. \A k \in 1..n : q[k] = BlockAt(after[new[k]].tag, i)
        BY <1>2, <1>4, <2>3
      <3>2. b = BlockAt(after[new[n + 1]].tag, i)
        BY <1>4
      <3> HIDE DEF q, b
      <3>3. QED
        BY <1>3, <3>1, <3>2
    <2> HIDE DEF q, b
    <2>7. QED
      BY <2>2, <2>5, <2>6 DEF q, b
  <1>9. QED
    BY <1>1, <1>7, <1>8

-----------------------------------------------------------------------------
(* What the operations do to the order *)

\* The filled slots of a set can be listed by age, and under LRU none is as young
\* as the clock.
Aged(set, t) ==
    /\ \E n \in Nat : \E p \in [1..n -> SlotNr] : Lists(p, n, set)
    /\ config.lru => \A j \in SlotNr : set[j].valid => set[j].access_ts < t

LEMMA ClockFits ==
    ASSUME TypeOK, ReadLine
    PROVE  /\ cache_timestamp \in Nat /\ cache_timestamp < Word
           /\ AsInt(cache_timestamp) = cache_timestamp
  <1> DEFINE t == cache_timestamp
  <1>1. config \in Config /\ config.shape \in Shape
    BY DEF TypeOK, Config
  <1>2. num_slots \in Nat \ {0} /\ ExtraLines \in Nat /\ Word \in Nat /\ Long \in Nat
    BY <1>1, ConfigFacts, CacheAssumption
  <1>3. 2 * (num_slots + ExtraLines + 1) < Word
    BY <1>1, CacheAssumption DEF num_slots
  <1>4. t \in Nat /\ t <= num_slots + ExtraLines
    <2>1. t \in 1..(num_slots + ExtraLines + 1)
      BY DEF TypeOK
    <2>2. QED
      BY <1>2, <2>1 DEF ReadLine
  <1>5. 2 * (t + 1) < Word /\ t < Word
    BY <1>2, <1>3, <1>4
  <1>6. t % Word = t
    BY <1>2, <1>4, <1>5
  <1>7. t < Word \div 2
    BY <1>2, <1>4, <1>5
  <1>8. QED
    BY <1>4, <1>5, <1>6, <1>7 DEF AsInt

LEMMA MatchingIs ==
    ASSUME config \in Config, NEW set \in Set, NEW tag \in Nat, Matching(set, tag) # {}
    PROVE  LET j == FirstOf(Matching(set, tag))
           IN  j \in SlotNr /\ set[j].valid /\ set[j].tag = tag
  <1>1. FirstOf(Matching(set, tag)) \in Matching(set, tag)
    BY First DEF Matching
  <1>2. QED
    BY <1>1 DEF Matching

\* A hit: under LRU the block moves behind all others, under FIFO none moves.
LEMMA TouchQueue ==
    ASSUME config \in Config, cache_timestamp \in Nat, NEW set \in Set, NEW tag \in Nat,
           NEW dirty \in BOOLEAN, Sound(set), Matching(set, tag) # {}, NEW i \in Nat,
           Aged(set, cache_timestamp)
    PROVE  LET after == Touch(set, tag, dirty)
               q == QueueOf(set, i)
           IN  /\ Aged(after, cache_timestamp + 1)
               /\ config.lru =>
                     \E r \in DOMAIN q :
                        q[r] = BlockAt(tag, i) /\ QueueOf(after, i) = Reference!MoveLast(q, r)
               /\ ~config.lru => QueueOf(after, i) = q
  <1> DEFINE after == Touch(set, tag, dirty)
             q == QueueOf(set, i)
             j0 == FirstOf(Matching(set, tag))
             t == cache_timestamp
  <1>1. j0 \in SlotNr /\ set[j0].valid /\ set[j0].tag = tag
    BY MatchingIs
  <1>2. after \in Set
    BY TouchKeeps
  <1>3. \A j \in SlotNr : /\ after[j].valid = set[j].valid /\ after[j].tag = set[j].tag
                          /\ after[j].load_ts = set[j].load_ts
                          /\ j # j0 => after[j].access_ts = set[j].access_ts
    BY <1>1 DEF Touch, Set, Slot
  <1>4. after[j0].access_ts = t
    BY <1>1 DEF Touch, Set, Slot
  <1>5. \A j \in SlotNr : set[j].access_ts \in Nat
    BY DEF Set, Slot
  <1>6. PICK n \in Nat : \E p \in [1..n -> SlotNr] : Lists(p, n, set)
    BY DEF Aged
  <1>7. PICK p \in [1..n -> SlotNr] : Lists(p, n, set)
    BY <1>6
  <1>8. PICK r \in 1..n : p[r] = j0
    <2> HIDE DEF j0
    <2> QED
      BY <1>1, <1>7 DEF Lists
  <1>9. config.lru => \A j \in SlotNr : after[j].valid => after[j].access_ts < t + 1
    <2> HIDE DEF after, j0
    <2> SUFFICES ASSUME config.lru, NEW j \in SlotNr, after[j].valid
                 PROVE  after[j].access_ts < t + 1
      OBVIOUS
    <2>1. j # j0 => set[j].access_ts < t
      BY <1>3 DEF Aged
    <2>2. QED
      BY <1>3, <1>4, <1>5, <2>1
  <1>10. CASE config.lru
    <2> HIDE DEF after, j0
    <2>1. \A j, k \in SlotNr :
             j # p[r] /\ k # p[r] /\ Before(set, j, k) => Before(after, j, k)
      BY <1>3, <1>8, <1>10 DEF Before
    <2>2. \A j \in SlotNr : j # p[r] /\ set[j].valid => Before(after, j, p[r])
      BY <1>1, <1>3, <1>4, <1>8, <1>10 DEF Before, Aged
    <2>3. /\ Rotated(p, n, r, p[r]) \in [1..n -> SlotNr]
          /\ Lists(Rotated(p, n, r, p[r]), n, after)
          /\ QueueOf(after, i) = Rotated(q, n, r, BlockAt(after[p[r]].tag, i))
      BY <1>2, <1>3, <1>7, <2>1, <2>2, Requeued
    <2>4. q \in [1..n -> Int] /\ q[r] = BlockAt(tag, i)
      <3>1. q[r] = BlockAt(set[p[r]].tag, i)
        BY <1>7, QueueIs
      <3>2. QED
        BY <1>1, <1>7, <1>8, <3>1, QueueIsTyped
    <2>5. BlockAt(after[p[r]].tag, i) = q[r]
      BY <1>1, <1>3, <1>8, <2>4
    <2>6. QueueOf(after, i) = Reference!MoveLast(q, r)
      <3> HIDE DEF q
      <3> QED
        BY <2>3, <2>4, <2>5, MoveLastIs
    <2>7. r \in DOMAIN q
      BY <2>4
    <2>8. Aged(after, t + 1)
      BY <1>9, <2>3 DEF Aged
    <2> HIDE DEF q
    <2>9. QED
      BY <1>10, <2>4, <2>6, <2>7, <2>8 DEF after, q
  <1>11. CASE ~config.lru
    <2> HIDE DEF after, j0
    <2>1. Lists(p, n, after)
      BY <1>3, <1>7, <1>11 DEF Lists, Before
    <2>2. QueueOf(after, i) = q
      <3>1. QueueOf(after, i) = [k \in 1..n |-> BlockAt(after[p[k]].tag, i)]
        BY <1>2, <2>1, QueueIs
      <3>2. q = [k \in 1..n |-> BlockAt(set[p[k]].tag, i)]
        BY <1>7, QueueIs
      <3>3. QED
        BY <1>3, <3>1, <3>2
    <2>3. Aged(after, t + 1)
      BY <1>9, <2>1 DEF Aged
    <2>4. QED
      BY <1>11, <2>2, <2>3 DEF after
  <1>12. QED
    BY <1>10, <1>11

\* The block evicted is the first of the queue.
LEMMA VictimIsFirst ==
    ASSUME config \in Config, NEW t \in Nat, t <= Word, NEW set \in Set, Sound(set),
           isCacheFull(set), Aged(set, t),
           NEW n \in Nat, NEW p \in [1..n -> SlotNr], Lists(p, n, set)
    PROVE  n = num_slots /\ n \in Nat \ {0} /\ Victim(set) = p[1]
  <1> DEFINE v == Victim(set)
  <1>1. num_slots \in Nat \ {0} /\ SlotNr = 0..(num_slots - 1) /\ num_slots - 1 \in Int
    BY ConfigFacts DEF SlotNr
  <1>2. \A j \in SlotNr : set[j].valid
    BY DEF isCacheFull, Invalid
  <1>3. n = num_slots
    <2>1. Filled(set) = 0..(num_slots - 1)
      BY <1>1 DEF Filled, isCacheFull
    <2>2. Cardinality(0..(num_slots - 1)) = num_slots
      <3>1. Cardinality(0..(num_slots - 1))
              = IF 0 > num_slots - 1 THEN 0 ELSE num_slots - 1 - 0 + 1
        BY <1>1, FS_Interval
      <3>2. QED
        BY <1>1, <3>1
    <2>3. Cardinality(Filled(set)) = n
      BY QueueIs
    <2>4. QED
      BY <2>1, <2>2, <2>3
  <1>4. v \in SlotNr
    BY VictimIsSlot
  <1>5. PICK r \in 1..n : p[r] = v
    <2> HIDE DEF v
    <2> QED
      BY <1>2, <1>4 DEF Lists
  <1>6. 1 \in 1..n /\ p[1] \in SlotNr
    BY <1>1, <1>3
  <1>7. ~Before(set, p[1], v)
    <2>1. CASE config.lru
      <3>1. \A j \in SlotNr : set[j].access_ts \in Nat
        BY DEF Set, Slot
      <3>2. \A j \in SlotNr : set[j].access_ts < Word
        <4>1. Word \in Nat
          BY CacheAssumption
        <4>2. \A j \in SlotNr : set[j].access_ts < t
          BY <1>2, <2>1 DEF Aged
        <4>3. QED
          BY <3>1, <4>1, <4>2
      <3>3. v = LruVictim(set)
        BY <2>1 DEF Victim
      <3>4. set[v].access_ts <= set[p[1]].access_ts
        BY <1>6, <3>2, <3>3, LruLeast
      <3> HIDE DEF v
      <3>5. QED
        BY <1>4, <1>6, <2>1, <3>1, <3>4 DEF Before
    <2>2. CASE ~config.lru
      <3> DEFINE oldest == {j \in SlotNr : set[j].load_ts = num_slots - 1}
      <3>1. OneOfEachAge(set, num_slots)
        <4>1. PICK m \in Nat : Ranked(set, m)
          BY DEF Sound
        <4>2. m = num_slots
          <5>1. num_slots - 1 \in SlotNr /\ m \in 0..num_slots
            BY <1>1, <4>1 DEF Ranked
          <5>2. num_slots - 1 < m
            BY <1>2, <4>1, <5>1 DEF Ranked
          <5>3. QED
            BY <1>1, <5>1, <5>2
        <4>3. QED
          BY <4>1, <4>2 DEF Ranked
      <3>2. num_slots - 1 \in 0..(num_slots - 1)
        BY <1>1
      <3>3. oldest # {}
        BY <1>1, <3>1, <3>2 DEF OneOfEachAge
      <3>4. v = FirstOf(oldest)
        BY <2>2, <3>3 DEF Victim, FifoVictim
      <3>5. v \in oldest
        BY <3>3, <3>4, First
      <3>6. set[v].load_ts = num_slots - 1 /\ set[p[1]].load_ts \in 0..(num_slots - 1)
        BY <1>1, <1>6, <3>1, <3>5 DEF OneOfEachAge
      <3> HIDE DEF v
      <3>7. QED
        BY <1>1, <2>2, <3>6 DEF Before
    <2>3. QED
      BY <2>1, <2>2
  <1>8. r = 1
    <2> HIDE DEF v
    <2>1. ~(1 < r)
      BY <1>5, <1>6, <1>7 DEF Lists
    <2>2. QED
      BY <2>1
  <1>9. QED
    BY <1>1, <1>3, <1>5, <1>8

\* What evictionFunction leaves in the slots.
LEMMA Evicted ==
    ASSUME config \in Config, cache_timestamp \in Nat, NEW set \in Set, NEW tag \in Nat,
           isCacheFull(set)
    PROVE  LET after == Evict(set, tag)
               v == Victim(set)
           IN  /\ \A j \in SlotNr : after[j].valid = set[j].valid
               /\ after[v].tag = tag
               /\ after[v].access_ts = AsInt(cache_timestamp)
               /\ ~config.lru => after[v].load_ts = 0
               /\ \A j \in SlotNr : j # v =>
                     /\ after[j].tag = set[j].tag
                     /\ after[j].access_ts = set[j].access_ts
                     /\ ~config.lru => after[j].load_ts = set[j].load_ts + 1
  <1> DEFINE after == Evict(set, tag)
             v == Victim(set)
             age == IF config.lru THEN set[v].load_ts ELSE 0
  <1>1. v \in SlotNr
    BY VictimIsSlot
  <1>2. \A j \in SlotNr : set[j] \in Slot /\ set[j].valid = TRUE
    BY DEF Set, Slot, isCacheFull, Invalid
  <1>3. after[v] = [tag |-> tag, access_ts |-> AsInt(cache_timestamp), load_ts |-> age,
                    dirty_bit |-> FALSE, valid |-> TRUE]
    BY <1>1 DEF Evict
  <1>4. \A j \in SlotNr : j # v =>
           after[j] = IF config.lru THEN set[j] ELSE [set[j] EXCEPT !.load_ts = @ + 1]
    BY DEF Evict
  <1> HIDE DEF after, v, age
  <1>5. /\ after[v].tag = tag /\ after[v].access_ts = AsInt(cache_timestamp)
        /\ after[v].load_ts = age /\ after[v].valid = TRUE
    BY <1>3
  <1>6. ~config.lru => age = 0
    BY DEF age
  <1>7. ASSUME NEW j \in SlotNr, j # v
        PROVE  /\ after[j].tag = set[j].tag /\ after[j].access_ts = set[j].access_ts
               /\ after[j].valid = set[j].valid
               /\ ~config.lru => after[j].load_ts = set[j].load_ts + 1
    <2>1. CASE config.lru
      BY <1>2, <1>4, <1>7, <2>1
    <2>2. CASE ~config.lru
      <3>1. after[j] = [set[j] EXCEPT !.load_ts = @ + 1]
        BY <1>4, <1>7, <2>2
      <3>2. QED
        BY <1>2, <3>1 DEF Slot
    <2>3. QED
      BY <2>1, <2>2
  <1>8. \A j \in SlotNr : after[j].valid = set[j].valid
    BY <1>2, <1>5, <1>7
  <1>9. QED
    BY <1>5, <1>6, <1>7, <1>8 DEF after, v

\* A miss in a full set: the first of the queue goes, the new block is the last.
LEMMA EvictQueue ==
    ASSUME config \in Config, cache_timestamp \in Nat, cache_timestamp < Word,
           AsInt(cache_timestamp) = cache_timestamp, NEW set \in Set, NEW tag \in Nat,
           Sound(set), Matching(set, tag) = {}, isCacheFull(set), NEW i \in Nat,
           Aged(set, cache_timestamp)
    PROVE  LET after == Evict(set, tag)
               q == QueueOf(set, i)
           IN  /\ Aged(after, cache_timestamp + 1)
               /\ Len(q) = num_slots
               /\ QueueOf(after, i) = Append(Tail(q), BlockAt(tag, i))
  <1> DEFINE after == Evict(set, tag)
             q == QueueOf(set, i)
             v == Victim(set)
             t == cache_timestamp
             b == BlockAt(tag, i)
  <1>1. PICK n \in Nat : \E p \in [1..n -> SlotNr] : Lists(p, n, set)
    BY DEF Aged
  <1>2. PICK p \in [1..n -> SlotNr] : Lists(p, n, set)
    BY <1>1
  <1>3. n = num_slots /\ n \in Nat \ {0} /\ v = p[1]
    <2>1. t <= Word
      BY CacheAssumption
    <2>2. QED
      BY <1>2, <2>1, VictimIsFirst
  <1>4. after \in Set
    BY EvictKeeps
  <1>5. /\ \A j \in SlotNr : after[j].valid = set[j].valid
        /\ after[v].tag = tag
        /\ after[v].access_ts = t
        /\ ~config.lru => after[v].load_ts = 0
        /\ \A j \in SlotNr : j # v =>
              /\ after[j].tag = set[j].tag
              /\ after[j].access_ts = set[j].access_ts
              /\ ~config.lru => after[j].load_ts = set[j].load_ts + 1
    BY Evicted
  <1>6. \A j \in SlotNr : set[j].access_ts \in Nat /\ set[j].load_ts \in Nat
    BY DEF Set, Slot
  <1>7. v \in SlotNr /\ 1 \in 1..n
    BY <1>3, VictimIsSlot
  <1> HIDE DEF after, v
  <1>8. \A j, k \in SlotNr :
             j # p[1] /\ k # p[1] /\ Before(set, j, k) => Before(after, j, k)
    BY <1>3, <1>5, <1>6 DEF Before
  <1>9. \A j \in SlotNr : j # p[1] /\ set[j].valid => Before(after, j, p[1])
    <2>1. CASE config.lru
      BY <1>3, <1>5, <2>1 DEF Before, Aged
    <2>2. CASE ~config.lru
      BY <1>3, <1>5, <1>6, <2>2 DEF Before
    <2>3. QED
      BY <2>1, <2>2
  <1>10. /\ Rotated(p, n, 1, p[1]) \in [1..n -> SlotNr]
         /\ Lists(Rotated(p, n, 1, p[1]), n, after)
         /\ QueueOf(after, i) = Rotated(q, n, 1, BlockAt(after[p[1]].tag, i))
    <2>1. \A j \in SlotNr : j # p[1] => after[j].tag = set[j].tag
      BY <1>3, <1>5
    <2>2. \A j \in SlotNr : after[j].valid = set[j].valid
      BY <1>5
    <2>3. QED
      BY <1>2, <1>4, <1>7, <1>8, <1>9, <2>1, <2>2, Requeued
  <1>11. q \in [1..n -> Int] /\ b \in Int
    BY <1>2, QueueIsTyped
  <1>12. Len(q) = num_slots
    <2> HIDE DEF q
    <2> QED
      BY <1>3, <1>11, FunctionIsSeq
  <1>13. QueueOf(after, i) = Append(Tail(q), b)
    <2>1. QueueOf(after, i) = Rotated(q, n, 1, b)
      BY <1>3, <1>5, <1>10
    <2> HIDE DEF q, b
    <2>2. QED
      BY <1>3, <1>11, <2>1, TailIs
  <1>14. Aged(after, t + 1)
    <2>1. config.lru => \A j \in SlotNr : after[j].valid => after[j].access_ts < t + 1
      <3> SUFFICES ASSUME config.lru, NEW j \in SlotNr, after[j].valid
                   PROVE  after[j].access_ts < t + 1
        OBVIOUS
      <3>1. set[j].access_ts < t
        BY <1>5 DEF Aged
      <3>2. QED
        BY <1>5, <1>6, <3>1
    <2>2. QED
      BY <1>10, <2>1 DEF Aged
  <1>15. QED
    BY <1>12, <1>13, <1>14 DEF after

\* What update_load_ts and write_through leave in the slots: of more than one
\* filled slot every one ages by one, of a single one the age becomes 1.
LEMMA Filling ==
    ASSUME config \in Config, cache_timestamp \in Nat, NEW set \in Set, NEW tag \in Nat,
           NEW dirty \in BOOLEAN, Sound(set), ~isCacheFull(set)
    PROVE  LET after == write_through(update_load_ts(set), tag, dirty)
               f == FirstOf(Invalid(set))
           IN  /\ f \in SlotNr /\ ~set[f].valid
               /\ \A j \in SlotNr : after[j].valid <=> j = f \/ set[j].valid
               /\ after[f].tag = tag
               /\ after[f].access_ts = AsInt(cache_timestamp)
               /\ \A j \in SlotNr : j # f => /\ after[j].tag = set[j].tag
                                            /\ after[j].access_ts = set[j].access_ts
               /\ \A j \in SlotNr : set[j].valid =>
                     after[f].load_ts = 0 /\ after[j].load_ts > 0
               /\ \A j, k \in SlotNr :
                     set[j].valid /\ set[k].valid /\ set[j].load_ts > set[k].load_ts =>
                        after[j].load_ts > after[k].load_ts
  <1> DEFINE f == FirstOf(Invalid(set))
             aged == update_load_ts(set)
             after == write_through(aged, tag, dirty)
             Paired == set[1].valid = TRUE
  <1>1. f \in SlotNr /\ ~set[f].valid
    <2>1. f \in Invalid(set)
      BY First DEF Invalid, isCacheFull
    <2>2. QED
      BY <2>1 DEF Invalid
  <1>2. \A j \in SlotNr : set[j] \in Slot /\ set[j].load_ts \in Nat
    BY DEF Set, Slot
  <1>3. \A j \in SlotNr : \E x : aged[j] = [set[j] EXCEPT !.load_ts = x]
    BY DEF update_load_ts
  <1>4. \A j \in SlotNr : /\ aged[j].valid = set[j].valid /\ aged[j].tag = set[j].tag
                          /\ aged[j].access_ts = set[j].access_ts
                          /\ DOMAIN aged[j] = {"tag", "access_ts", "load_ts", "dirty_bit", "valid"}
    BY <1>2, <1>3 DEF Slot
  <1>5. Invalid(aged) = Invalid(set) /\ DOMAIN aged = SlotNr
    BY <1>4 DEF Invalid, update_load_ts
  <1>6. after = [aged EXCEPT ![f] = [@ EXCEPT !.tag = tag,
                                              !.access_ts = AsInt(cache_timestamp),
                                              !.valid = TRUE, !.dirty_bit = dirty]]
    BY <1>5 DEF write_through
  <1>7. /\ after[f].tag = tag /\ after[f].access_ts = AsInt(cache_timestamp)
        /\ after[f].valid /\ after[f].load_ts = aged[f].load_ts
        /\ \A j \in SlotNr : j # f => after[j] = aged[j]
    <2> HIDE DEF aged, f, after
    <2> QED
      BY <1>1, <1>4, <1>5, <1>6
  <1>8. \A j \in SlotNr : after[j].load_ts = aged[j].load_ts
    <2> HIDE DEF aged, f, after
    <2> QED
      BY <1>7
  <1>9. PICK n \in Nat : Ranked(set, n)
    BY DEF Sound
  <1>10. ASSUME NEW j0 \in SlotNr, set[j0].valid
         PROVE  aged[f].load_ts = 0
    <2>1. ~isCacheEmpty(set)
      BY <1>10 DEF isCacheEmpty, Invalid
    <2>2. aged[f] = [set[f] EXCEPT !.load_ts = 0]
      BY <1>1, <2>1 DEF update_load_ts
    <2> HIDE DEF aged, f
    <2>3. QED
      BY <1>1, <1>2, <2>2 DEF Slot
  <1>11. ASSUME NEW j \in SlotNr, set[j].valid
         PROVE  /\ aged[j].load_ts > 0
                /\ Paired => aged[j].load_ts = set[j].load_ts + 1
    <2>1. ~isCacheEmpty(set) /\ j # f
      BY <1>1, <1>11 DEF isCacheEmpty, Invalid
    <2>2. \E x \in Nat : /\ x > 0 /\ aged[j] = [set[j] EXCEPT !.load_ts = x]
                         /\ Paired => x = set[j].load_ts + 1
      <3>1. CASE set[1].valid
        <4>1. aged[j] = [set[j] EXCEPT !.load_ts = set[j].load_ts + 1]
          BY <2>1, <3>1 DEF update_load_ts
        <4>2. set[j].load_ts + 1 \in Nat /\ set[j].load_ts + 1 > 0
          BY <1>2
        <4>3. QED
          BY <4>1, <4>2
      <3>2. CASE ~set[1].valid
        <4> DEFINE x == IF ~set[0].valid THEN set[j].load_ts + 1
                        ELSE IF set[j].load_ts = num_slots - 1 THEN 1
                        ELSE set[j].load_ts + 2
        <4>1. aged[j] = [set[j] EXCEPT !.load_ts = x]
          BY <2>1, <3>2 DEF update_load_ts
        <4>2. x \in Nat /\ x > 0
          BY <1>2
        <4> HIDE DEF x
        <4>3. QED
          BY <3>2, <4>1, <4>2
      <3>3. QED
        BY <3>1, <3>2
    <2> HIDE DEF aged, f
    <2>3. PICK x \in Nat : /\ x > 0 /\ aged[j] = [set[j] EXCEPT !.load_ts = x]
                           /\ Paired => x = set[j].load_ts + 1
      BY <2>2
    <2>4. [set[j] EXCEPT !.load_ts = x].load_ts = x
      BY <1>2 DEF Slot
    <2>5. aged[j].load_ts = x
      BY <2>3, <2>4
    <2> HIDE DEF Paired
    <2>6. QED
      BY <2>3, <2>5
  <1>12. ASSUME NEW j \in SlotNr, NEW k \in SlotNr, set[j].valid, set[k].valid,
                set[j].load_ts > set[k].load_ts
         PROVE  aged[j].load_ts > aged[k].load_ts
    <2>1. j # k
      BY <1>2, <1>12
    <2>2. Paired
      <3>1. num_slots \in Nat \ {0} /\ SlotNr = 0..(num_slots - 1)
        BY ConfigFacts DEF SlotNr
      <3>2. j < n /\ k < n
        BY <1>9, <1>12 DEF Ranked
      <3>3. 1 < n /\ n <= num_slots /\ 1 \in SlotNr
        BY <1>9, <2>1, <3>1, <3>2 DEF Ranked
      <3>4. QED
        BY <1>2, <1>9, <3>3 DEF Ranked, Slot
    <2>3. aged[j].load_ts = set[j].load_ts + 1 /\ aged[k].load_ts = set[k].load_ts + 1
      BY <1>11, <1>12, <2>2
    <2> HIDE DEF aged
    <2>4. QED
      BY <1>2, <1>12, <2>3
  <1> HIDE DEF aged, f, after
  <1>13. \A j \in SlotNr : after[j].valid <=> j = f \/ set[j].valid
    BY <1>4, <1>7
  <1>14. \A j \in SlotNr : j # f => /\ after[j].tag = set[j].tag
                                   /\ after[j].access_ts = set[j].access_ts
    BY <1>4, <1>7
  <1>15. \A j \in SlotNr : set[j].valid => after[f].load_ts = 0 /\ after[j].load_ts > 0
    BY <1>1, <1>8, <1>10, <1>11
  <1>16. \A j, k \in SlotNr :
            set[j].valid /\ set[k].valid /\ set[j].load_ts > set[k].load_ts =>
               after[j].load_ts > after[k].load_ts
    BY <1>8, <1>12
  <1>17. QED
    BY <1>1, <1>7, <1>13, <1>14, <1>15, <1>16 DEF after, aged, f

\* A miss with room: the new block is the last of the queue.
LEMMA FillQueue ==
    ASSUME config \in Config, cache_timestamp \in Nat,
           AsInt(cache_timestamp) = cache_timestamp, NEW set \in Set, NEW tag \in Nat,
           NEW dirty \in BOOLEAN, Sound(set), Matching(set, tag) = {}, ~isCacheFull(set),
           NEW i \in Nat, Aged(set, cache_timestamp)
    PROVE  LET after == write_through(update_load_ts(set), tag, dirty)
               q == QueueOf(set, i)
           IN  /\ Aged(after, cache_timestamp + 1)
               /\ Len(q) # num_slots
               /\ QueueOf(after, i) = Append(q, BlockAt(tag, i))
  <1> DEFINE after == write_through(update_load_ts(set), tag, dirty)
             q == QueueOf(set, i)
             f == FirstOf(Invalid(set))
             t == cache_timestamp
  <1>1. PICK n \in Nat : \E p \in [1..n -> SlotNr] : Lists(p, n, set)
    BY DEF Aged
  <1>2. PICK p \in [1..n -> SlotNr] : Lists(p, n, set)
    BY <1>1
  <1>3. after \in Set
    BY FillKeeps
  <1>4. /\ f \in SlotNr /\ ~set[f].valid
        /\ \A j \in SlotNr : after[j].valid <=> j = f \/ set[j].valid
        /\ after[f].tag = tag
        /\ after[f].access_ts = t
        /\ \A j \in SlotNr : j # f => /\ after[j].tag = set[j].tag
                                     /\ after[j].access_ts = set[j].access_ts
        /\ \A j \in SlotNr : set[j].valid => after[f].load_ts = 0 /\ after[j].load_ts > 0
        /\ \A j, k \in SlotNr :
              set[j].valid /\ set[k].valid /\ set[j].load_ts > set[k].load_ts =>
                 after[j].load_ts > after[k].load_ts
    BY Filling
  <1> HIDE DEF after, f
  <1>5. \A j, k \in SlotNr :
           set[j].valid /\ set[k].valid /\ Before(set, j, k) => Before(after, j, k)
    BY <1>4 DEF Before
  <1>6. \A j \in SlotNr : set[j].valid => Before(after, j, f)
    BY <1>4 DEF Before, Aged
  <1>7. /\ \E z \in [1..(n + 1) -> SlotNr] : Lists(z, n + 1, after)
        /\ QueueOf(after, i) = Append(q, BlockAt(after[f].tag, i))
    BY <1>2, <1>3, <1>4, <1>5, <1>6, Enqueued
  <1>8. Aged(after, t + 1)
    <2>1. config.lru => \A j \in SlotNr : after[j].valid => after[j].access_ts < t + 1
      <3> SUFFICES ASSUME config.lru, NEW j \in SlotNr, after[j].valid
                   PROVE  after[j].access_ts < t + 1
        OBVIOUS
      <3>1. set[j].access_ts \in Nat /\ (j # f => set[j].access_ts < t)
        BY <1>4 DEF Aged, Set, Slot
      <3>2. QED
        BY <1>4, <3>1
    <2>2. n + 1 \in Nat
      OBVIOUS
    <2>3. QED
      BY <1>7, <2>1, <2>2 DEF Aged
  <1>9. Len(q) # num_slots
    <2>1. Cardinality(Filled(set)) = n /\ q \in [1..n -> Int]
      BY <1>2, QueueIs, QueueIsTyped
    <2>2. Len(q) = n
      <3> HIDE DEF q
      <3> QED
        BY <2>1, FunctionIsSeq
    <2>3. Filled(set) \subseteq SlotNr \ {f}
      BY <1>4 DEF Filled, Invalid
    <2>4. num_slots \in Nat \ {0} /\ num_slots - 1 \in Int /\ 0 \in Int
      BY ConfigFacts
    <2>5. IsFiniteSet(SlotNr) /\ Cardinality(SlotNr) = num_slots
      <3>1. /\ IsFiniteSet(0..(num_slots - 1))
            /\ Cardinality(0..(num_slots - 1))
                 = IF 0 > num_slots - 1 THEN 0 ELSE num_slots - 1 - 0 + 1
        BY <2>4, FS_Interval
      <3>2. QED
        BY <2>4, <3>1 DEF SlotNr
    <2>6. IsFiniteSet(SlotNr \ {f}) /\ Cardinality(SlotNr \ {f}) = num_slots - 1
      BY <1>4, <2>5, FS_RemoveElement
    <2>7. Cardinality(Filled(set)) <= num_slots - 1
      BY <2>3, <2>6, FS_Subset
    <2>8. QED
      BY <2>1, <2>2, <2>4, <2>7
  <1>10. QED
    BY <1>4, <1>7, <1>8, <1>9 DEF after

-----------------------------------------------------------------------------
(* The refinement *)

AllAged == \A i \in 0..(num_sets - 1) : Aged(sets[i], cache_timestamp)

\* The reference's view of the sets.
Order == [i \in DOMAIN sets |-> InOrder(i)]

LEMMA OrderIs == Order = [i \in DOMAIN sets |-> QueueOf(sets[i], i)]
  BY DEF Order, InOrder, QueueOf

Blocks ==
    {(addr % Word) \div shape.bytes : addr \in LoadAddress \cup StoreAddress, shape \in Shape}

LEMMA BlockFacts ==
    ASSUME config \in Config, NEW addr \in LoadAddress \cup StoreAddress
    PROVE  /\ BlockOf(addr) \in Blocks
           /\ BlockOf(addr) % config.shape.sets = IndexOf(addr)
           /\ BlockAt(TagOf(addr), IndexOf(addr)) = BlockOf(addr)
  <1>1. config.shape \in Shape
    BY DEF Config
  <1>2. BlockOf(addr) \in Blocks
    BY <1>1 DEF Blocks, BlockOf, slot_size
  <1>3. BlockOf(addr) % config.shape.sets = IndexOf(addr)
    BY DEF IndexOf, num_sets
  <1>4. BlockOf(addr) \in Nat /\ num_sets \in Nat \ {0}
    <2>1. addr \in Nat /\ Word \in Nat \ {0}
      BY CacheAssumption
    <2>2. addr % Word \in Nat
      BY <2>1, ModNat
    <2>3. QED
      BY <2>2, ConfigFacts, DivNat DEF BlockOf
  <1>5. \A x \in Nat, y \in Nat \ {0} : (x \div y) * y + (x % y) = x
    OBVIOUS
  <1>6. QED
    BY <1>2, <1>3, <1>4, <1>5 DEF BlockAt, TagOf, IndexOf

LEMMA BlockInjective ==
    ASSUME config \in Config, NEW i \in Nat, NEW x \in Nat, NEW y \in Nat,
           BlockAt(x, i) = BlockAt(y, i)
    PROVE  x = y
  <1>1. num_sets \in Nat \ {0}
    BY ConfigFacts
  <1>2. \A a, b, n \in Nat : n # 0 /\ a * n = b * n => a = b
    OBVIOUS
  <1>3. x * num_sets = y * num_sets
    <2> DEFINE u == x * num_sets
               v == y * num_sets
    <2>1. u \in Nat /\ v \in Nat
      BY <1>1
    <2>2. u + i = v + i
      BY DEF BlockAt
    <2> HIDE DEF u, v
    <2>3. u = v
      BY <2>1, <2>2
    <2>4. QED
      BY <2>3 DEF u, v
  <1>4. QED
    BY <1>1, <1>2, <1>3

\* The program hits just when the reference does.
LEMMA CachedIs ==
    ASSUME IInv, AllAged, NEW addr \in LoadAddress \cup StoreAddress
    PROVE  Reference!Cached(BlockOf(addr))
             <=> Matching(sets[IndexOf(addr)], TagOf(addr)) # {}
  <1> DEFINE i == IndexOf(addr)
             tag == TagOf(addr)
             set == sets[i]
             q == QueueOf(set, i)
             b == BlockOf(addr)
  <1>1. /\ config \in Config /\ i \in 0..(num_sets - 1) /\ tag \in Nat /\ set \in Set
        /\ sets \in [0..(num_sets - 1) -> Set]
    BY AddressedSet
  <1>2. b % config.shape.sets = i /\ BlockAt(tag, i) = b /\ i \in Nat
    BY <1>1, BlockFacts
  <1>3. PICK n \in Nat : \E p \in [1..n -> SlotNr] : Lists(p, n, set)
    BY <1>1 DEF AllAged, Aged
  <1>4. PICK p \in [1..n -> SlotNr] : Lists(p, n, set)
    BY <1>3
  <1>5. q = [r \in 1..n |-> BlockAt(set[p[r]].tag, i)]
    BY <1>1, <1>2, <1>4, QueueIs
  <1>6. Order[i] = q
    BY <1>1, OrderIs
  <1>7. Reference!Cached(b) <=> \E r \in DOMAIN q : q[r] = b
    <2>1. Reference!Cached(b) <=> \E r \in DOMAIN Order[b % config.shape.sets] :
                                    Order[b % config.shape.sets][r] = b
      BY DEF Reference!Cached, Order
    <2> HIDE DEF i, q, b
    <2>2. QED
      BY <1>2, <1>6, <2>1
  <1>8. \A r \in 1..n : set[p[r]].tag \in Nat
    BY <1>1 DEF Set, Slot
  <1>9. \A r \in 1..n : q[r] = b <=> set[p[r]].tag = tag
    <2> SUFFICES ASSUME NEW r \in 1..n
                 PROVE  q[r] = b <=> set[p[r]].tag = tag
      OBVIOUS
    <2>1. q[r] = BlockAt(set[p[r]].tag, i)
      BY <1>5
    <2>2. CASE q[r] = b
      <3>1. BlockAt(set[p[r]].tag, i) = BlockAt(tag, i)
        BY <1>2, <2>1, <2>2
      <3>2. set[p[r]].tag = tag
        <4> HIDE DEF i, tag, set
        <4>1. QED
          BY <1>1, <1>2, <1>8, <3>1, BlockInjective
      <3>3. QED
        BY <2>2, <3>2
    <2>3. CASE set[p[r]].tag = tag
      BY <1>2, <2>1, <2>3
    <2>4. QED
      BY <2>2, <2>3
  <1>10. (\E r \in 1..n : set[p[r]].tag = tag) <=> Matching(set, tag) # {}
    <2>1. \A r \in 1..n : p[r] \in SlotNr /\ set[p[r]].valid
      BY <1>4 DEF Lists
    <2>2. \A j \in SlotNr : set[j].valid => \E r \in 1..n : p[r] = j
      BY <1>4 DEF Lists
    <2> HIDE DEF set, tag
    <2>3. QED
      BY <2>1, <2>2 DEF Matching
  <1>11. QED
    <2> HIDE DEF q, b, set, tag, i
    <2>1. DOMAIN q = 1..n
      BY <1>5
    <2>2. Reference!Cached(b) <=> Matching(set, tag) # {}
      BY <1>7, <1>9, <1>10, <2>1
    <2>3. QED
      BY <2>2 DEF b, set, tag, i

\* What a line that changes one set does to the reference's view.
LEMMA OrderStep ==
    ASSUME IInv, AllAged, ReadLine, NEW i \in 0..(num_sets - 1), NEW after \in Set,
           Aged(after, cache_timestamp + 1), sets' = [sets EXCEPT ![i] = after]
    PROVE  /\ AllAged'
           /\ Order' = [Order EXCEPT ![i] = QueueOf(after, i)]
  <1> DEFINE t == cache_timestamp
  <1>1. config' = config /\ cache_timestamp' = t + 1
    BY DEF ReadLine
  <1>2. /\ num_slots' = num_slots /\ SlotNr' = SlotNr /\ num_sets' = num_sets
    BY <1>1 DEF num_slots, SlotNr, num_sets
  <1>3. t \in Nat /\ sets \in [0..(num_sets - 1) -> Set]
    BY Typed
  <1>4. \A k \in 0..(num_sets - 1) : Aged(sets'[k], t + 1)
    <2> SUFFICES ASSUME NEW k \in 0..(num_sets - 1)
                 PROVE  Aged(sets'[k], t + 1)
      OBVIOUS
    <2>1. CASE k = i
      BY <1>3, <2>1
    <2>2. CASE k # i
      <3>1. sets'[k] = sets[k] /\ sets[k] \in Set /\ Aged(sets[k], t)
        BY <1>3, <2>2 DEF AllAged
      <3>2. \A j \in SlotNr : sets[k][j].access_ts \in Nat
        BY <3>1 DEF Set, Slot
      <3>3. Aged(sets[k], t + 1)
        BY <1>3, <3>1, <3>2 DEF Aged
      <3>4. QED
        BY <3>1, <3>3
    <2>3. QED
      BY <2>1, <2>2
  <1>5. AllAged'
    <2> SUFFICES ASSUME NEW k \in 0..(num_sets - 1)
                 PROVE  Aged(sets[k], cache_timestamp)'
      BY <1>2 DEF AllAged
    <2>1. Aged(sets'[k], t + 1)
      BY <1>4
    <2>2. PICK n \in Nat : \E p \in [1..n -> SlotNr] : Lists(p, n, sets'[k])
      BY <2>1 DEF Aged
    <2>3. PICK p \in [1..n -> SlotNr] : Lists(p, n, sets'[k])
      BY <2>2
    <2>4. Lists(p, n, sets[k])'
      BY <1>1, <1>2, <2>3 DEF Lists, Before
    <2>5. \E m \in Nat : \E z \in [1..m -> SlotNr'] : Lists(z, m, sets[k])'
      BY <1>2, <2>4
    <2>6. config.lru => \A j \in SlotNr : sets'[k][j].valid => sets'[k][j].access_ts < t + 1
      BY <2>1 DEF Aged
    <2>7. QED
      BY <1>1, <1>2, <2>5, <2>6 DEF Aged
  <1>6. ASSUME NEW k \in 0..(num_sets - 1)
        PROVE  InOrder(k)' = QueueOf(sets'[k], k)
    BY <1>1, <1>2 DEF InOrder, QueueOf, Filled, Invalid, Before
  <1>7. Order' = [k \in 0..(num_sets - 1) |-> QueueOf(sets'[k], k)]
    BY <1>2, <1>3, <1>6 DEF Order
  <1>8. Order = [k \in 0..(num_sets - 1) |-> QueueOf(sets[k], k)]
    BY <1>3, OrderIs
  <1>9. \A k \in 0..(num_sets - 1) : sets'[k] = IF k = i THEN after ELSE sets[k]
    BY <1>3
  <1>10. Order' = [k \in 0..(num_sets - 1) |->
                     IF k = i THEN QueueOf(after, i) ELSE QueueOf(sets[k], k)]
    BY <1>7, <1>9
  <1>11. QED
    BY <1>5, <1>8, <1>10

\* Reading a line that changes no set.
LEMMA OrderStays ==
    ASSUME IInv, AllAged, ReadLine, sets' = sets
    PROVE  AllAged' /\ Order' = Order
  <1> DEFINE t == cache_timestamp
  <1>1. 0 \in 0..(num_sets - 1)
    BY ConfigFacts DEF IInv, TypeOK
  <1>2. t \in Nat /\ sets \in [0..(num_sets - 1) -> Set] /\ sets[0] \in Set
    BY <1>1, Typed
  <1>3. Aged(sets[0], t + 1)
    <2>1. \A j \in SlotNr : sets[0][j].access_ts \in Nat
      BY <1>2 DEF Set, Slot
    <2>2. Aged(sets[0], t)
      BY <1>1 DEF AllAged
    <2>3. QED
      BY <1>2, <2>1, <2>2 DEF Aged
  <1>4. sets' = [sets EXCEPT ![0] = sets[0]]
    BY <1>2
  <1>5. AllAged' /\ Order' = [Order EXCEPT ![0] = QueueOf(sets[0], 0)]
    BY <1>1, <1>2, <1>3, <1>4, OrderStep
  <1>6. [Order EXCEPT ![0] = QueueOf(sets[0], 0)] = Order
    BY <1>1, <1>2, OrderIs
  <1>7. QED
    BY <1>5, <1>6

LEMMA OrderStutters ==
    ASSUME AllAged, UNCHANGED vars
    PROVE  AllAged' /\ Order' = Order
  <1>1. config' = config /\ cache_timestamp' = cache_timestamp /\ sets' = sets
    BY DEF vars
  <1>2. num_slots' = num_slots /\ SlotNr' = SlotNr /\ num_sets' = num_sets
    BY <1>1 DEF num_slots, SlotNr, num_sets
  <1>3. AllAged'
    <2> SUFFICES ASSUME NEW k \in 0..(num_sets - 1)
                 PROVE  Aged(sets[k], cache_timestamp)'
      BY <1>2 DEF AllAged
    <2>1. Aged(sets[k], cache_timestamp)
      BY DEF AllAged
    <2>2. PICK n \in Nat : \E p \in [1..n -> SlotNr] : Lists(p, n, sets[k])
      BY <2>1 DEF Aged
    <2>3. PICK p \in [1..n -> SlotNr] : Lists(p, n, sets[k])
      BY <2>2
    <2>4. Lists(p, n, sets[k])'
      BY <1>1, <1>2, <2>3 DEF Lists, Before
    <2>5. \E m \in Nat : \E z \in [1..m -> SlotNr'] : Lists(z, m, sets[k])'
      BY <1>2, <2>4
    <2>6. QED
      BY <1>1, <1>2, <2>1, <2>5 DEF Aged
  <1>4. ASSUME NEW k \in DOMAIN sets
        PROVE  InOrder(k)' = InOrder(k)
    BY <1>1, <1>2 DEF InOrder, Filled, Invalid, Before
  <1>5. QED
    BY <1>1, <1>3, <1>4 DEF Order

\* A hit of the program is a hit of the reference.
LEMMA RefHit ==
    ASSUME IInv, AllAged, ReadLine, NEW kind \in {"load", "store"},
           NEW addr \in LoadAddress \cup StoreAddress, NEW dirty \in BOOLEAN,
           Matching(sets[IndexOf(addr)], TagOf(addr)) # {}, Outcome(kind, TRUE),
           sets' = [sets EXCEPT ![IndexOf(addr)] =
                      Touch(sets[IndexOf(addr)], TagOf(addr), dirty)]
    PROVE  AllAged' /\ Reference!Hit(kind, BlockOf(addr))
  <1> DEFINE i == IndexOf(addr)
             tag == TagOf(addr)
             set == sets[i]
             q == QueueOf(set, i)
             b == BlockOf(addr)
             after == Touch(set, tag, dirty)
  <1>1. /\ config \in Config /\ cache_timestamp \in Nat /\ i \in 0..(num_sets - 1)
        /\ tag \in Nat /\ set \in Set /\ Sound(set) /\ sets \in [0..(num_sets - 1) -> Set]
        /\ i \in Nat
    BY AddressedSet
  <1>2. b % config.shape.sets = i /\ BlockAt(tag, i) = b
    BY <1>1, BlockFacts
  <1>3. Aged(set, cache_timestamp)
    BY <1>1 DEF AllAged
  <1>4. /\ Aged(after, cache_timestamp + 1)
        /\ config.lru => \E r \in DOMAIN q :
                            q[r] = BlockAt(tag, i) /\ QueueOf(after, i) = Reference!MoveLast(q, r)
        /\ ~config.lru => QueueOf(after, i) = q
    <2> HIDE DEF i, tag
    <2> QED
      BY <1>1, <1>3, TouchQueue DEF i, tag
  <1>5. after \in Set
    <2> HIDE DEF i, tag
    <2> QED
      BY <1>1, TouchKeeps DEF i, tag
  <1>6. AllAged' /\ Order' = [Order EXCEPT ![i] = QueueOf(after, i)]
    <2> HIDE DEF i, tag, after
    <2>1. sets' = [sets EXCEPT ![i] = after]
      BY DEF i, tag, after
    <2>2. QED
      BY <1>1, <1>4, <1>5, <2>1, OrderStep
  <1>7. Order[i] = q /\ Order = [Order EXCEPT ![i] = q]
    <2>1. Order = [k \in 0..(num_sets - 1) |-> QueueOf(sets[k], k)]
      BY <1>1, OrderIs
    <2>2. Order[i] = q
      BY <1>1, <2>1
    <2> HIDE DEF i, q
    <2>3. QED
      BY <2>1, <2>2
  <1>8. Reference!Cached(b)
    BY CachedIs
  <1>9. hits' = [hits EXCEPT ![kind] = @ + 1] /\ UNCHANGED <<config, misses>>
    BY DEF Outcome, ReadLine
  <1>10. IF config.lru
         THEN \E r \in DOMAIN Order[b % config.shape.sets] :
                 /\ Order[b % config.shape.sets][r] = b
                 /\ Order' = [Order EXCEPT ![b % config.shape.sets] = Reference!MoveLast(@, r)]
         ELSE Order' = Order
    <2> HIDE DEF i, q, b, tag, set, after
    <2>1. CASE config.lru
      <3>1. PICK r \in DOMAIN q : q[r] = b /\ QueueOf(after, i) = Reference!MoveLast(q, r)
        BY <1>2, <1>4, <2>1
      <3>2. QED
        BY <1>2, <1>6, <1>7, <2>1, <3>1
    <2>2. CASE ~config.lru
      BY <1>4, <1>6, <1>7, <2>2
    <2>3. QED
      BY <2>1, <2>2
  <1>11. Reference!Hit(kind, b)
    <2> HIDE DEF b
    <2> QED
      BY <1>8, <1>9, <1>10 DEF Reference!Hit, Order
  <1>12. QED
    BY <1>6, <1>11

\* A miss of the program that brings the block in is one of the reference: the
\* set is full for both or for neither, and the same block leaves.
LEMMA RefMiss ==
    ASSUME IInv, AllAged, ReadLine, NEW kind \in {"load", "store"},
           kind = "load" \/ config.allocate,
           NEW addr \in LoadAddress \cup StoreAddress, NEW dirty \in BOOLEAN,
           Matching(sets[IndexOf(addr)], TagOf(addr)) = {}, Outcome(kind, FALSE),
           sets' = [sets EXCEPT ![IndexOf(addr)] =
                      Allocate(sets[IndexOf(addr)], TagOf(addr), dirty)]
    PROVE  AllAged' /\ Reference!Miss(kind, BlockOf(addr))
  <1> DEFINE i == IndexOf(addr)
             tag == TagOf(addr)
             set == sets[i]
             q == QueueOf(set, i)
             b == BlockOf(addr)
             after == Allocate(set, tag, dirty)
  <1>1. /\ config \in Config /\ cache_timestamp \in Nat /\ i \in 0..(num_sets - 1)
        /\ tag \in Nat /\ set \in Set /\ Sound(set) /\ sets \in [0..(num_sets - 1) -> Set]
        /\ i \in Nat
    BY AddressedSet
  <1>2. b % config.shape.sets = i /\ BlockAt(tag, i) = b
    BY <1>1, BlockFacts
  <1>3. Aged(set, cache_timestamp)
    BY <1>1 DEF AllAged
  <1>4. cache_timestamp < Word /\ AsInt(cache_timestamp) = cache_timestamp
    BY ClockFits DEF IInv
  <1>5. /\ Aged(after, cache_timestamp + 1)
        /\ QueueOf(after, i) = Append(IF Len(q) = config.shape.slots THEN Tail(q) ELSE q, b)
    <2> HIDE DEF i, tag, q, b
    <2>1. CASE isCacheFull(set)
      <3>1. after = Evict(set, tag)
        BY <2>1 DEF Allocate
      <3>2. /\ Aged(Evict(set, tag), cache_timestamp + 1)
            /\ Len(QueueOf(set, i)) = num_slots
            /\ QueueOf(Evict(set, tag), i) = Append(Tail(QueueOf(set, i)), BlockAt(tag, i))
        BY <1>1, <1>3, <1>4, <2>1, EvictQueue DEF i, tag
      <3>3. QED
        BY <1>2, <3>1, <3>2 DEF q, num_slots
    <2>2. CASE ~isCacheFull(set)
      <3> DEFINE new == write_through(update_load_ts(set), tag, dirty)
      <3>1. after = new
        BY <2>2 DEF Allocate
      <3>2. /\ Aged(new, cache_timestamp + 1)
            /\ Len(QueueOf(set, i)) # num_slots
            /\ QueueOf(new, i) = Append(QueueOf(set, i), BlockAt(tag, i))
        BY <1>1, <1>3, <1>4, <2>2, FillQueue DEF i, tag
      <3> HIDE DEF new
      <3>3. QED
        BY <1>2, <3>1, <3>2 DEF q, num_slots
    <2>3. QED
      BY <2>1, <2>2
  <1>6. after \in Set
    <2> HIDE DEF i, tag
    <2> QED
      BY <1>1, AllocateKeeps DEF i, tag
  <1>7. AllAged' /\ Order' = [Order EXCEPT ![i] = QueueOf(after, i)]
    <2> HIDE DEF i, tag, after
    <2>1. sets' = [sets EXCEPT ![i] = after]
      BY DEF i, tag, after
    <2>2. QED
      BY <1>1, <1>5, <1>6, <2>1, OrderStep
  <1>8. Order[i] = q /\ i \in DOMAIN Order
    BY <1>1, OrderIs
  <1>9. ~Reference!Cached(b)
    BY CachedIs
  <1>10. misses' = [misses EXCEPT ![kind] = @ + 1] /\ UNCHANGED <<config, hits>>
    BY DEF Outcome, ReadLine
  <1>11. Order' = IF kind = "store" /\ ~config.allocate THEN Order
                  ELSE [Order EXCEPT ![b % config.shape.sets] =
                          Append(IF Len(@) = config.shape.slots THEN Tail(@) ELSE @, b)]
    <2> HIDE DEF i, q, b, tag, set, after
    <2>1. QED
      BY <1>2, <1>5, <1>7, <1>8
  <1>12. Reference!Miss(kind, b)
    <2> HIDE DEF b
    <2> QED
      BY <1>9, <1>10, <1>11 DEF Reference!Miss, Order
  <1>13. QED
    BY <1>7, <1>12

\* A store that misses without write-allocate leaves both as they are.
LEMMA RefBypass ==
    ASSUME IInv, AllAged, ReadLine, NEW addr \in StoreAddress, ~config.allocate,
           Matching(sets[IndexOf(addr)], TagOf(addr)) = {}, Outcome("store", FALSE), sets' = sets
    PROVE  AllAged' /\ Reference!Miss("store", BlockOf(addr))
  <1> DEFINE b == BlockOf(addr)
  <1>1. AllAged' /\ Order' = Order
    BY OrderStays
  <1>2. ~Reference!Cached(b)
    BY CachedIs
  <1>3. misses' = [misses EXCEPT !["store"] = @ + 1] /\ UNCHANGED <<config, hits>>
    BY DEF Outcome, ReadLine
  <1>4. QED
    BY <1>1, <1>2, <1>3 DEF Reference!Miss, Order

\* The reference serves an access to b.
RefAccess(b) == \E kind \in Reference!Kind : Reference!Hit(kind, b) \/ Reference!Miss(kind, b)

LEMMA RefLoad ==
    ASSUME IInv, AllAged, NEW addr \in LoadAddress, Load(addr)
    PROVE  AllAged' /\ RefAccess(BlockOf(addr))
  <1> DEFINE i == IndexOf(addr)
             tag == TagOf(addr)
             found == Matching(sets[i], tag)
  <1>1. config \in Config /\ sets[i] \in Set
    BY AddressedSet
  <1>2. ReadLine /\ Outcome("load", found # {})
    BY DEF Load
  <1>3. CASE found # {} /\ sets' = [sets EXCEPT ![i] =
                                     Touch(sets[i], tag, sets[i][FirstOf(found)].dirty_bit)]
    <2>1. sets[i][FirstOf(found)].dirty_bit \in BOOLEAN
      <3>1. FirstOf(found) \in SlotNr
        BY <1>1, <1>3, First DEF Matching
      <3>2. QED
        BY <1>1, <3>1 DEF Set, Slot
    <2>2. Outcome("load", TRUE)
      BY <1>2, <1>3 DEF Outcome
    <2>3. QED
      BY <1>2, <1>3, <2>1, <2>2, RefHit DEF RefAccess, Reference!Kind
  <1>4. CASE found = {} /\ sets' = [sets EXCEPT ![i] = Allocate(sets[i], tag, FALSE)]
    <2>1. Outcome("load", FALSE)
      BY <1>2, <1>4 DEF Outcome
    <2>2. QED
      BY <1>2, <1>4, <2>1, RefMiss DEF RefAccess, Reference!Kind
  <1>5. QED
    BY <1>3, <1>4 DEF Load

LEMMA RefStore ==
    ASSUME IInv, AllAged, NEW addr \in StoreAddress, Store(addr)
    PROVE  AllAged' /\ RefAccess(BlockOf(addr))
  <1> DEFINE i == IndexOf(addr)
             tag == TagOf(addr)
             found == Matching(sets[i], tag)
             dirty == ~config.write_through
  <1>1. ReadLine /\ Outcome("store", found # {}) /\ dirty \in BOOLEAN
    BY DEF Store
  <1>2. CASE found # {} /\ sets' = [sets EXCEPT ![i] = Touch(sets[i], tag, dirty)]
    <2>1. Outcome("store", TRUE)
      BY <1>1, <1>2 DEF Outcome
    <2>2. QED
      BY <1>1, <1>2, <2>1, RefHit DEF RefAccess, Reference!Kind
  <1>3. CASE found = {} /\ config.allocate
             /\ sets' = [sets EXCEPT ![i] = Allocate(sets[i], tag, dirty)]
    <2>1. Outcome("store", FALSE)
      BY <1>1, <1>3 DEF Outcome
    <2>2. QED
      BY <1>1, <1>3, <2>1, RefMiss DEF RefAccess, Reference!Kind
  <1>4. CASE found = {} /\ ~config.allocate /\ sets' = sets
    <2>1. Outcome("store", FALSE)
      BY <1>1, <1>4 DEF Outcome
    <2>2. QED
      BY <1>1, <1>4, <2>1, RefBypass DEF RefAccess, Reference!Kind
  <1>5. QED
    BY <1>2, <1>3, <1>4 DEF Store

LEMMA RefInit == ASSUME Init PROVE AllAged /\ Reference!Init
  <1>1. config \in Config /\ IInv
    BY InvInit DEF Init
  <1>2. \A i \in 0..(num_sets - 1) : sets[i] = [j \in SlotNr |-> EmptySlot]
    BY DEF Init
  <1>3. ASSUME NEW i \in 0..(num_sets - 1)
        PROVE  Aged(sets[i], cache_timestamp) /\ QueueOf(sets[i], i) = << >>
    <2> DEFINE p == [r \in 1..0 |-> 0]
    <2>1. \A j \in SlotNr : ~sets[i][j].valid
      BY <1>2 DEF EmptySlot
    <2>2. p \in [1..0 -> SlotNr] /\ Lists(p, 0, sets[i]) /\ 0 \in Nat
      BY <2>1 DEF Lists
    <2>3. Aged(sets[i], cache_timestamp)
      BY <2>1, <2>2 DEF Aged
    <2>4. Filled(sets[i]) = {}
      BY <2>1 DEF Filled, Invalid
    <2>5. Cardinality(Filled(sets[i])) = 0
      BY <2>4, FS_EmptySet
    <2>6. QED
      BY <2>3, <2>5 DEF QueueOf
  <1>4. Order = [i \in 0..(config.shape.sets - 1) |-> << >>]
    <2>1. DOMAIN sets = 0..(num_sets - 1)
      BY DEF Init
    <2>2. QED
      BY <1>3, <2>1, OrderIs DEF num_sets
  <1>5. Reference!Init
    BY <1>1, <1>4 DEF Init, Reference!Init, Reference!Kind, Order
  <1>6. QED
    BY <1>3, <1>5 DEF AllAged

\* For every policy, shape and trace: judged by what hits, what misses and what
\* leaves, the timestamps and load ages of cache_funcs.cpp make every set an LRU
\* or FIFO queue of blocks.
THEOREM ReferenceImplemented == Spec => ImplementsReference
  <1>1. Init => (IInv /\ AllAged) /\ Reference!Init
    BY InvInit, RefInit
  <1>2. ASSUME IInv, AllAged, [Next]_vars
        PROVE  AllAged' /\ [Reference!Next]_(Reference!refVars)
    <2>1. CASE UNCHANGED vars
      <3>1. AllAged' /\ Order' = Order
        BY <2>1, OrderStutters, <1>2
      <3>2. QED
        BY <2>1, <3>1 DEF vars, Order, Reference!refVars
    <2>2. config \in Config
      BY <1>2 DEF IInv, TypeOK
    <2>3. CASE \E addr \in LoadAddress : Load(addr)
      <3>1. PICK addr \in LoadAddress : Load(addr)
        BY <2>3
      <3>2. BlockOf(addr) \in Blocks
        BY <2>2, BlockFacts
      <3>3. AllAged' /\ RefAccess(BlockOf(addr))
        BY <1>2, <3>1, RefLoad
      <3>4. QED
        BY <3>2, <3>3 DEF Reference!Next, RefAccess, Blocks
    <2>4. CASE \E addr \in StoreAddress : Store(addr)
      <3>1. PICK addr \in StoreAddress : Store(addr)
        BY <2>4
      <3>2. BlockOf(addr) \in Blocks
        BY <2>2, BlockFacts
      <3>3. AllAged' /\ RefAccess(BlockOf(addr))
        BY <1>2, <3>1, RefStore
      <3>4. QED
        BY <3>2, <3>3 DEF Reference!Next, RefAccess, Blocks
    <2>5. CASE Other
      <3>1. ReadLine /\ UNCHANGED <<hits, misses, sets>>
        BY <2>5 DEF Other
      <3>2. AllAged' /\ Order' = Order
        BY <1>2, <3>1, OrderStays
      <3>3. config' = config
        BY <3>1 DEF ReadLine
      <3>4. QED
        BY <3>1, <3>2, <3>3 DEF Order, Reference!refVars
    <2>6. QED
      BY <1>2, <2>1, <2>3, <2>4, <2>5 DEF Next
  <1>3. IInv /\ [Next]_vars => IInv'
    BY InvStep
  <1>4. QED
    BY <1>1, <1>2, <1>3, PTL DEF Spec, ImplementsReference, Reference!Spec
=============================================================================
