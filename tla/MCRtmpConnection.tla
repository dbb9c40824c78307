--------------------------- MODULE MCRtmpConnection ---------------------------
(* RtmpConnection for TLC. *)
EXTENDS RtmpConnection
=============================================================================
