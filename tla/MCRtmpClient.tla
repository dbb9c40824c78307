----------------------------- MODULE MCRtmpClient -----------------------------
(* RtmpClient for TLC. *)
EXTENDS RtmpClient

CONSTANTS r1, r2
=============================================================================
