----------------------------- MODULE MCSessions -----------------------------
(***************************************************************************)
(* Model-checking module for Sessions: the symmetry of the instances.      *)
(***************************************************************************)
EXTENDS Sessions, TLC

TableSymmetry == Permutations(Tables) \union Permutations(Sessions)
=============================================================================
