--------------------------- MODULE MCAuditWorker ---------------------------
(* A small instance of AuditWorker for TLC. *)
EXTENDS AuditWorker

CONSTANTS e1, e2, e3
=============================================================================
