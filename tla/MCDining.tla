------------------------------ MODULE MCDining ------------------------------
(***************************************************************************)
(* Model-checking module for Dining: the symmetry of its instances.        *)
(***************************************************************************)
EXTENDS Dining, TLC

SessionSymmetry == Permutations(Sessions)
Symmetry == SessionSymmetry \union Permutations(Orders)
=============================================================================
