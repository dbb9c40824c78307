--------------------------- MODULE MCFrameDelivery ---------------------------
(* FrameDelivery for TLC, which also evaluates the assumption of GopRecursion. *)
EXTENDS FrameDelivery, GopRecursion, TLC

CONSTANT v1
=============================================================================
