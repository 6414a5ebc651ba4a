----------------------------- MODULE MCPlaylist -----------------------------
(* Instances of Playlist for TLC: the threads of Kodi are model values. *)
EXTENDS Playlist

CONSTANTS h1, h2
=============================================================================
