--------------------------- MODULE MCMessageMarks ---------------------------
(* Small instances of MessageMarks for TLC. *)
EXTENDS MessageMarks, TLC

CONSTANTS c1, c2, alice, bob

CallSymmetry == Permutations({c1, c2})
=============================================================================
