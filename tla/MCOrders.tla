------------------------------ MODULE MCOrders ------------------------------
(***************************************************************************)
(* Model-checking module for Orders: the symmetry of the instances.        *)
(***************************************************************************)
EXTENDS Orders, TLC

PlacementSymmetry == Permutations(Orders) \union Permutations(Placements)
StaffSymmetry == Permutations(Staff)
=============================================================================
