------------------------------- MODULE Mirror -------------------------------
(***************************************************************************)
(* What sledovanitvcz::Data promises of a list it mirrors from the backend *)
(* to Kodi: the channels, the recordings, the timers.                      *)
(*                                                                         *)
(* The list changes at the backend whenever it likes.  A load asks for it, *)
(* takes it as it is at one moment and publishes what it took, or fails;   *)
(* whatever Kodi does in the meantime, the published list is replaced by   *)
(* nothing but such a list, and never without an announcement unless it is *)
(* the same.  Kodi asks after an announcement and is shown the published   *)
(* list.  A request of a load is spent when a load begins, before it asks  *)
(* the backend, and never in the course of one.                            *)
(*                                                                         *)
(* Playlist and Recordings implement this specification.                   *)
(***************************************************************************)
CONSTANTS
    Lists,       \* what the list may be
    Empty        \* what it is before the first load

VARIABLES
    source,      \* the list at the backend
    requested,   \* whether a load is requested
    loading,     \* how far a load has come
    taken,       \* the list it took
    published,   \* the list of the add-on
    announced,   \* whether Kodi has been told and has not got the list since
    shown        \* the list Kodi got last

vars == <<source, requested, loading, taken, published, announced, shown>>

Init ==
    /\ source \in Lists
    /\ requested = TRUE
    /\ loading = "no"
    /\ taken = Empty
    /\ published = Empty
    /\ announced = FALSE
    /\ shown = Empty

-----------------------------------------------------------------------------
Change ==
    /\ source' \in Lists
    /\ UNCHANGED <<requested, loading, taken, published, announced, shown>>

Request ==
    /\ requested' = TRUE
    /\ UNCHANGED <<source, loading, taken, published, announced, shown>>

\* A load may also begin by itself: the request then stands.
Begin ==
    /\ loading = "no"
    /\ loading' = "asked"
    /\ requested' \in {FALSE, requested}
    /\ UNCHANGED <<source, taken, published, announced, shown>>

Take ==
    /\ loading = "asked"
    /\ loading' = "answered"
    /\ taken' = source
    /\ UNCHANGED <<source, requested, published, announced, shown>>

Fail ==
    /\ loading = "asked"
    /\ loading' = "no"
    /\ UNCHANGED <<source, requested, taken, published, announced, shown>>

Publish ==
    /\ loading = "answered"
    /\ loading' = "no"
    /\ taken' = Empty
    /\ published' = taken
    /\ announced' \in BOOLEAN
    /\ announced \/ published' # published => announced'
    /\ UNCHANGED <<source, requested, shown>>

\* Another announcement may have come since Kodi began to ask.
Show ==
    /\ announced
    /\ announced' \in BOOLEAN
    /\ shown' = published
    /\ UNCHANGED <<source, requested, loading, taken, published>>

Next == Change \/ Request \/ Begin \/ Take \/ Fail \/ Publish \/ Show

Spec == Init /\ [][Next]_vars

-----------------------------------------------------------------------------
\* Kodi shows the published list or has been told to get it.
ShownOrAnnounced == announced \/ shown = published
=============================================================================
