--------------------------- MODULE MCQueueWorkers ---------------------------
(* A small instance of QueueWorkers for TLC. *)
EXTENDS QueueWorkers

CONSTANTS j1, w1, w2, d1, d2
=============================================================================
