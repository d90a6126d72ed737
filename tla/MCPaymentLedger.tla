--------------------------- MODULE MCPaymentLedger ---------------------------
(* A small instance of PaymentLedger for TLC. *)
EXTENDS PaymentLedger, TLC

CONSTANTS c1, c2

CallSymmetry == Permutations(Calls)
=============================================================================
