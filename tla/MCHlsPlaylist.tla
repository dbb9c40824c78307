---------------------------- MODULE MCHlsPlaylist ----------------------------
(* HlsPlaylist for TLC. *)
EXTENDS HlsPlaylist
=============================================================================
