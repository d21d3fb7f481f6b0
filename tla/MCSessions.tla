----------------------------- MODULE MCSessions -----------------------------
(* Instances of Sessions for TLC. *)
EXTENDS Sessions, TLC

CONSTANTS n1, n2, n3, t1, t2, t3, k1, k2

ConsumerSymmetry == Permutations(Consumers)
=============================================================================
