----------------------------- MODULE MCAccounts ------------------------------
(* What TLC needs to check Accounts on small instances.                        *)
EXTENDS Accounts, TLC

Symmetry ==
    UNION {Permutations(S) : S \in {Emails, Restaurants, Bases, Appointments, Workers}}
=============================================================================
