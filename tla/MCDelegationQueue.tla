-------------------------- MODULE MCDelegationQueue --------------------------
(* DelegationQueue with its constants as model values.                     *)
EXTENDS DelegationQueue, TLC

Symmetry == Permutations(Calls) \union Permutations(Keys)
=============================================================================
