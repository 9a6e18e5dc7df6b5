-------------------------- MODULE MCServerLifetime --------------------------
(* Instances of ServerLifetime for TLC. *)
EXTENDS ServerLifetime

MCFd == 3..5
=============================================================================
