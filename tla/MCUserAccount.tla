---------------------------- MODULE MCUserAccount ----------------------------
(* A small instance of UserAccount for TLC. *)
EXTENDS UserAccount, TLC

CONSTANTS c1, c2

CallSymmetry == Permutations({c1, c2})
=============================================================================
