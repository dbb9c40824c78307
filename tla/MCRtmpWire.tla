----------------------------- MODULE MCRtmpWire -----------------------------
(* The time stamps reach the extended ones, come back, repeat and advance by *)
(* equal steps; lengths make one, two and three chunks.                      *)
EXTENDS RtmpWire

MCMedia == ({"video"} \X {2, 4} \X {1, 4}) \cup {<<"script", 2, 1>>}
=============================================================================
