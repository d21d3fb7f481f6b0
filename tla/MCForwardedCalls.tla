--------------------------- MODULE MCForwardedCalls ---------------------------
(* Instances of ForwardedCalls for TLC. *)
EXTENDS ForwardedCalls

CONSTANTS s1, s2, m1, y1
=============================================================================
