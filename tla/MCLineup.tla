------------------------------ MODULE MCLineup ------------------------------
(* Instances of Lineup for TLC: three television channels, one radio channel, *)
(* in two groups; the backend moves the first, or takes it out.               *)
EXTENDS Lineup

CONSTANTS c1, c2, c3, r1, ga, gb

MCChannels == {c1, c2, c3, r1}
MCGroupOf == [c \in MCChannels |-> IF c \in {c1, c2} THEN ga ELSE gb]
MCOrders == {<<c1, c2, r1, c3>>, <<c2, r1, c1, c3>>, <<c2, r1, c3>>}
=============================================================================
