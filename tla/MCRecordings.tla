---------------------------- MODULE MCRecordings ----------------------------
(* Instances of Recordings for TLC. *)
EXTENDS Recordings

CONSTANTS r1, r2
=============================================================================
