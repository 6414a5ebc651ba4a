------------------------------ MODULE MCRounds ------------------------------
(* Instances of Rounds for TLC: all its constants are numbers. *)
EXTENDS Rounds
=============================================================================
