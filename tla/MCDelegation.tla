----------------------------- MODULE MCDelegation ------------------------------
(* Delegation with two task ids as model values.                           *)
EXTENDS Delegation

CONSTANTS t1, t2

(* Symmetry is unsound for a liveness property.  The two tasks are alike   *)
(* all the same: it is enough to look at the behaviours that submit t1     *)
(* before t2, as every other differs from one of them in names only.       *)
FirstIsT1 == Exists(t2) => Exists(t1)
=============================================================================
