--------------------------- MODULE MCBBS0Journal ---------------------------
(* Instances of BBS0Journal for TLC. *)
EXTENDS BBS0Journal, TLC

CONSTANTS p1, p2, p3

Symm == Permutations(Posts)
===============================================================================
