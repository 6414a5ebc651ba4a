---------------------------- MODULE MirrorProofs ----------------------------
(* What follows from the specification of a mirrored list alone.           *)
EXTENDS Mirror, TLAPS

\* Kodi never keeps an outdated list without having been told: each publication
\* of another list is announced, and what Kodi is shown is the published one.
THEOREM NeverStaleUntold == Spec => []ShownOrAnnounced
<1>1. Init => ShownOrAnnounced
  BY DEF Init, ShownOrAnnounced
<1>2. ShownOrAnnounced /\ [Next]_vars => ShownOrAnnounced'
  BY DEF ShownOrAnnounced, Next, Change, Request, Begin, Take, Fail, Publish, Show, vars
<1> QED
  BY <1>1, <1>2, PTL DEF Spec
=============================================================================
