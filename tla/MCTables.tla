------------------------------ MODULE MCTables -------------------------------
(* What TLC needs to check Tables on small instances.                          *)
EXTENDS Tables, TLC

Symmetry ==
    UNION {Permutations(S) : S \in {Tables, Codes, Tokens, Staff}}
=============================================================================
