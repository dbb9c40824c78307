---------------------------- MODULE MCGopCache ----------------------------
(* GopCache for TLC. *)
EXTENDS GopCache
=============================================================================
