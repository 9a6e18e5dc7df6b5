----------------------------- MODULE MCCacheSim -----------------------------
(* Instances of CacheSim for TLC. *)
EXTENDS CacheSim

Sized(m, n, b) == [sets |-> m, slots |-> n, bytes |-> b]

\* A single slot, a set-associative cache, a fully associative one, and three
\* shapes that main refuses.
MCShape == {Sized(1, 1, 4), Sized(2, 2, 4), Sized(1, 4, 4),
            Sized(3, 1, 4), Sized(1, 3, 4), Sized(1, 1, 2)}

\* Five blocks of four bytes: one more than the largest set holds.
MCLoads == {0, 4, 8, 12, 16}
MCStores == {0}

\* One full set, of blocks of eight bytes, is enough to see what a store costs.
MCSmall == {Sized(1, 2, 8)}
=============================================================================
