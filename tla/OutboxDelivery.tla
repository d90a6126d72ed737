--------------------------- MODULE OutboxDelivery ---------------------------
(***************************************************************************)
(* What the transactional outbox promises about one row after another,     *)
(* without saying who polls, where or how: a row is recorded, copies of it *)
(* are sent while it is pending, and it ends, once and for all, either     *)
(* published, which needs a copy sent, or failed, which needs MaxRetries   *)
(* failed attempts.                                                        *)
(***************************************************************************)
EXTENDS Integers

CONSTANTS Events, MaxRetries

VARIABLES
    status,    \* outbox.status of each row
    attempts,  \* failed attempts counted for the row
    sent       \* copies of the row handed to the broker's channel

vars == <<status, attempts, sent>>

Init ==
    /\ status = [e \in Events |-> "absent"]
    /\ attempts = [e \in Events |-> 0]
    /\ sent = [e \in Events |-> 0]

Record(e) ==
    /\ status[e] = "absent"
    /\ status' = [status EXCEPT ![e] = "PENDING"]
    /\ UNCHANGED <<attempts, sent>>

Send(e) ==
    /\ status[e] = "PENDING"
    /\ sent' = [sent EXCEPT ![e] = @ + 1]
    /\ UNCHANGED <<status, attempts>>

Settle(e) ==
    /\ status[e] = "PENDING"
    /\ sent[e] > 0
    /\ status' = [status EXCEPT ![e] = "PUBLISHED"]
    /\ UNCHANGED <<attempts, sent>>

CountFailure(e) ==
    /\ status[e] = "PENDING"
    /\ attempts' = [attempts EXCEPT ![e] = @ + 1]
    /\ status' = [status EXCEPT ![e] = IF attempts'[e] = MaxRetries THEN "FAILED" ELSE @]
    /\ UNCHANGED sent

Next == \E e \in Events : Record(e) \/ Send(e) \/ Settle(e) \/ CountFailure(e)

Spec == Init /\ [][Next]_vars
=============================================================================
