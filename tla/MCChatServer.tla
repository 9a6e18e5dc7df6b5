---------------------------- MODULE MCChatServer ----------------------------
(* Instances of ChatServer for TLC. *)
EXTENDS ChatServer, TLC

CONSTANTS s1, s2, s3, alice, bob

\* Three sessions; the last two log in under the same name.
MCNames == (s1 :> alice) @@ (s2 :> bob) @@ (s3 :> bob)

\* Two sessions of different names.
MCTwoNames == (s1 :> alice) @@ (s2 :> bob)

\* Sessions of one name are interchangeable, and so are room names and
\* addresses.  Used only in runs without liveness properties.
Symmetry == Permutations({s2, s3}) \cup Permutations(RoomName) \cup Permutations(RoomAddr)
=============================================================================
