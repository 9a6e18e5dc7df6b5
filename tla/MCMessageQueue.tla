--------------------------- MODULE MCMessageQueue ---------------------------
(* Instances of MessageQueue for TLC: the constants are model values, given  *)
(* in the configuration; no symmetry, because liveness is checked.           *)
EXTENDS MessageQueue
=============================================================================
