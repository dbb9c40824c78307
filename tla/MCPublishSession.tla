--------------------------- MODULE MCPublishSession ---------------------------
(* PublishSession for TLC. *)
EXTENDS PublishSession

SmallDts == {0, 2}
=============================================================================
