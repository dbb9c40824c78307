---------------------------- MODULE MCRtmpServer ----------------------------
(* RtmpServer for TLC. *)
EXTENDS RtmpServer
=============================================================================
