---------------------------- MODULE MCConnection ----------------------------
(* Instances of Connection for TLC. *)
EXTENDS Connection

\* Without data, with a colon in the data, and, with a line of 5 bytes, too long
\* by one byte and by three.
MCMessage == {[tag |-> <<"a">>, data |-> <<>>],
              [tag |-> <<"a">>, data |-> <<"b", Colon>>],
              [tag |-> <<"a">>, data |-> <<"b", "b", "b">>],
              [tag |-> <<"a">>, data |-> <<"b", "b", "b", Colon, "b">>]}
=============================================================================
