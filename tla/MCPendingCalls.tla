---------------------------- MODULE MCPendingCalls ----------------------------
(* Instances of PendingCalls for TLC. *)
EXTENDS PendingCalls

CONSTANTS m1, m2, c1, c2

OneOwner == [m \in {m1} |-> c1]
SameOwner == [m \in {m1, m2} |-> c1]
=============================================================================
