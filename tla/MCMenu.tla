------------------------------- MODULE MCMenu --------------------------------
(* What TLC needs to check Menu on small instances.                            *)
EXTENDS Menu, TLC

Symmetry == Permutations(Staff) \union Permutations(Items) \union Permutations(Prices)
=============================================================================
