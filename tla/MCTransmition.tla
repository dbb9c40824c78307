---------------------------- MODULE MCTransmition ----------------------------
(* Instances of Transmition for TLC. *)
EXTENDS Transmition, TLC

CONSTANTS p1, p2, h1, h2, u1, u2, s1, s2

HlsPlayer == p1 :> h1 @@ p2 :> h2
HlsPlayerOfOne == p1 :> h1

\* The viewers differ in nothing but their name.
UserSymmetry == Permutations(Users)
=============================================================================
