----------------------------- MODULE MCParSort -----------------------------
(* Instances of ParSort for TLC. *)
EXTENDS ParSort

\* Values of both signs, and files with duplicates.
MCValue == {-1, 0, 1}

\* Large values first.
Descending(n) == [i \in 0..n-1 |-> IF 2 * i < n THEN 1 ELSE -1]

\* Every file of up to three elements, and of four with two values.  With an unsigned
\* int of twelve values: one that an int can just index and one that it cannot, one
\* with an element more than can be counted, and one whose halves are such.
MCFile == UNION {[0..n-1 -> MCValue] : n \in 0..3} \cup [0..3 -> {-1, 1}]
            \cup {Descending(5), Descending(6), Descending(13), Descending(26)}
=============================================================================
