--------------------------- MODULE MCMediaPipeline ---------------------------
(* A small instance of MediaPipeline for TLC. *)
EXTENDS MediaPipeline, TLC

CONSTANTS m1, m2, w1, w2, c1

WorkerSymmetry == Permutations({w1, w2})
=============================================================================
