--------------------------- MODULE MCOutboxPoller ---------------------------
(* Small instances of OutboxPoller for TLC. *)
EXTENDS OutboxPoller

CONSTANTS i1, i2

\* Two replicas with a poll() each.
TwoPolls == [t \in {1, 2} |-> IF t = 2 THEN i2 ELSE i1]
=============================================================================
