-------------------------------- MODULE Words --------------------------------
(* The arithmetic of machine integers.                                         *)
EXTENDS Integers

\* The value of an integer kept in a word of numbers from -limit to limit - 1, in
\* two's complement.
Wrap(n, limit) ==
    LET m == n % (2 * limit) IN IF m < limit THEN m ELSE m - 2 * limit
=============================================================================
