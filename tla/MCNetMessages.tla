--------------------------- MODULE MCNetMessages ---------------------------
(***************************************************************************)
(* NetMessages, instantiated for TLC: four nodes.  a, with two workers,    *)
(* tells two of its three peers, c and then b; c is downstream of a and    *)
(* can only poll: no push reaches either of its addresses.  b tells d,     *)
(* which a leaves out until it sends the message again.                    *)
(***************************************************************************)
EXTENDS NetMessages, TLC

CONSTANTS a, b, c, d, wa, va, wb, pc, wd

Neighbours == a :> {b, c, d} @@ b :> {a, d} @@ c :> {a} @@ d :> {a, b}
InTurn == c :> 1 @@ b :> 2 @@ d :> 3 @@ a :> 3
TwoAtOrigin == [n \in Nodes |-> IF n = a THEN 2 ELSE 6]
Down == [n \in Nodes |-> IF n = a THEN {c} ELSE {}]
Up == [n \in Nodes |-> IF n = c THEN {a} ELSE {}]
HomeOf == wa :> a @@ va :> a @@ wb :> b @@ pc :> c @@ wd :> d
TwoForC == [n \in Nodes |-> IF n = c THEN 2 ELSE 1]
=============================================================================
