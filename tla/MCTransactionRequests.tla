----------------------- MODULE MCTransactionRequests -----------------------
(***************************************************************************)
(* TransactionRequests, instantiated for TLC: charger c1 comes and goes,   *)
(* c2 has gone, but requests to it are still in the tables.                *)
(***************************************************************************)
EXTENDS TransactionRequests, TLC

CONSTANTS c1, c2, n1, r1, r2

ChargerOf == n1 :> c1
Symmetric == Permutations({r1, r2})
=============================================================================
