------------------------------- MODULE MCEpg -------------------------------
(* Instances of Epg for TLC. *)
EXTENDS Epg

CONSTANTS c1, h1   \* a channel and a handler

MCPlaylists   == {{}, {c1}}    \* with and without a channel behind a PIN
MCOnePlaylist == {{c1}}
MCRequests    == {<<7, 16>>}
MCNoRequests  == {}
=============================================================================
