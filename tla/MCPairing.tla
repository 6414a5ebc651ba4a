----------------------------- MODULE MCPairing -----------------------------
(* Instances of Pairing for TLC. *)
EXTENDS Pairing

CONSTANTS u1, u2, p1, p2, s1, s2
=============================================================================
