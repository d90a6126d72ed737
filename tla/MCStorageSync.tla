---------------------------- MODULE MCStorageSync ----------------------------
(* A small instance of StorageSync for TLC. *)
EXTENDS StorageSync

CONSTANTS b1, b2, c1, c2, s1, s2
=============================================================================
