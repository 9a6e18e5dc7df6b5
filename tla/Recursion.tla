------------------------------ MODULE Recursion ------------------------------
(***************************************************************************)
(* What a recursive function over a range of numbers is: facts that the    *)
(* proofs about the recursively defined operators of the models rest on.   *)
(* Each is proved from the least number that is a counterexample.          *)
(***************************************************************************)
EXTENDS Integers, WellFoundedInduction, TLAPS

\* A nonempty set of natural numbers has a least element.
LEMMA Least ==
    ASSUME NEW T, T \subseteq Nat, T # {}
    PROVE  \E n \in T : \A k \in T : n <= k
  <1>1. PICK n \in T : \A k \in T : <<k, n>> \notin OpToRel(<, Nat)
    <2> HIDE DEF OpToRel
    <2> QED
      BY NatLessThanWellFounded, WFMin
  <1>2. ASSUME NEW k \in T PROVE n <= k
    <2>1. k \in Nat /\ n \in Nat
      OBVIOUS
    <2>2. <<k, n>> \notin OpToRel(<, Nat)
      BY <1>1
    <2>3. ~(k < n)
      BY <2>1, <2>2 DEF OpToRel
    <2>4. QED
      BY <2>1, <2>3
  <1>3. QED
    BY <1>2

\* g starts with a at j, and each later value comes from the one before it.
Unfolds(g, a, h, j, n) ==
    /\ g[j] = a
    /\ \A i \in (j + 1)..n : g[i] = h[i][g[i - 1]]

\* There is such a function on every range ...
LEMMA RecursionExists ==
    ASSUME NEW V, NEW a \in V, NEW h \in [Nat -> [V -> V]],
           NEW j \in Nat, NEW n \in Nat, j <= n
    PROVE  \E g \in [j..n -> V] : Unfolds(g, a, h, j, n)
  <1> DEFINE Fails == {k \in Nat : /\ j <= k
                                   /\ ~ \E g \in [j..k -> V] : Unfolds(g, a, h, j, k)}
  <1>1. SUFFICES ASSUME Fails # {} PROVE FALSE
    OBVIOUS
  <1>2. PICK m \in Fails : \A k \in Fails : m <= k
    BY <1>1, Least
  <1>3. CASE m = j
    <2>1. [i \in j..m |-> a] \in [j..m -> V]
      OBVIOUS
    <2>2. Unfolds([i \in j..m |-> a], a, h, j, m)
      BY <1>3 DEF Unfolds
    <2>3. QED
      BY <2>1, <2>2
  <1>4. CASE m # j
    <2>1. m - 1 \in Nat /\ j <= m - 1 /\ m - 1 \notin Fails
      BY <1>2, <1>4
    <2>2. PICK f \in [j..(m - 1) -> V] : Unfolds(f, a, h, j, m - 1)
      BY <2>1
    <2> DEFINE g == [i \in j..m |-> IF i = m THEN h[m][f[m - 1]] ELSE f[i]]
    <2>3. h[m][f[m - 1]] \in V
      BY <2>1, <1>2
    <2>4. g \in [j..m -> V]
      BY <2>1, <2>3
    <2>5. g[j] = a
      BY <2>1, <2>2, <1>4 DEF Unfolds
    <2>6. ASSUME NEW i \in (j + 1)..m PROVE g[i] = h[i][g[i - 1]]
      <3>1. g[i - 1] = f[i - 1]
        BY <2>1
      <3>2. CASE i = m
        BY <3>1, <3>2, <2>1
      <3>3. CASE i # m
        BY <3>1, <3>3, <2>1, <2>2 DEF Unfolds
      <3>4. QED
        BY <3>2, <3>3
    <2>7. Unfolds(g, a, h, j, m)
      BY <2>5, <2>6 DEF Unfolds
    <2>8. QED
      BY <2>4, <2>7
  <1>5. QED
    BY <1>3, <1>4

\* ... and two of them agree where both are defined.
LEMMA RecursionUnique ==
    ASSUME NEW a, NEW h, NEW f, NEW g, NEW j \in Nat, NEW n \in Nat, NEW k \in j..n,
           Unfolds(f, a, h, j, n), Unfolds(g, a, h, j, n)
    PROVE  f[k] = g[k]
  <1> DEFINE Differ == {i \in j..n : f[i] # g[i]}
  <1>1. SUFFICES ASSUME Differ # {} PROVE FALSE
    OBVIOUS
  <1>2. PICK m \in Differ : \A i \in Differ : m <= i
    <2>1. Differ \subseteq Nat
      OBVIOUS
    <2> HIDE DEF Differ
    <2>2. QED
      BY <1>1, <2>1, Least
  <1>3. m # j
    BY DEF Unfolds
  <1>4. m \in (j + 1)..n /\ m - 1 \in j..n /\ m - 1 \notin Differ
    BY <1>2, <1>3
  <1>5. f[m - 1] = g[m - 1]
    BY <1>4
  <1>6. f[m] = g[m]
    BY <1>4, <1>5 DEF Unfolds
  <1>7. QED
    BY <1>6
=============================================================================
