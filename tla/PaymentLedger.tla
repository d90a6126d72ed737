---------------------------- MODULE PaymentLedger ----------------------------
(***************************************************************************)
(* One payment and the milestone it pays for, as the payments service and  *)
(* the webhook worker's Razorpay handlers change them.                     *)
(*                                                                         *)
(* Customers and admins are checked against the read replica; the webhook  *)
(* handlers read the primary.  Between a check and the write it allows,    *)
(* and around the call to Razorpay, other calls commit.  A call that its   *)
(* check rejects changes nothing and is not modelled.                      *)
(***************************************************************************)
EXTENDS Integers, Sequences

CONSTANTS
    Calls,       \* calls that can be in progress at once
    Operations,  \* the operations of this instance
    Amount,      \* payment.amount
    MaxLag,      \* commits the replica may be behind; 0: no replica configured
    MaxCommits,  \* bound on writes of the payment row
    MaxReturned  \* bound on the total that Razorpay refunds

AllOperations == {"intent", "manual", "cancel", "release", "refund",
                  "captured", "failed", "dispute"}

ASSUME ConstantsAssumption ==
    /\ Operations \subseteq AllOperations
    /\ Amount \in Nat \ {0}
    /\ MaxLag \in Nat
    /\ MaxCommits \in Nat
    /\ MaxReturned \in Nat

Statuses == {"none", "CREATED", "PENDING", "PROCESSING", "COMPLETED", "FAILED", "REFUNDED",
             "DISPUTED", "CANCELLED"}

\* external: the row has the externalId that refunds and webhooks need.
Rows == [status : Statuses, external : BOOLEAN, refunded : Int]

VARIABLES
    db,        \* the payment on the primary; status "none": there is no row
    replica,   \* the payment on the read replica
    lag,       \* committed versions the replica has not applied yet, oldest first
    call,      \* per call: what it does, how far it is, and what it took from its snapshot
    milestone, \* is milestone.status COMPLETED?
    outbox,    \* types of the outbox rows written
    commits,   \* writes of the payment row (bounded)
    razorpay,  \* total that Razorpay has refunded
    booked,    \* total of the refund rows
    unbooked,  \* total of the refunds whose call died before booking them (history)
    blind,     \* did a refund go out that had not seen an earlier one? (history)
    stale,     \* did a cancellation or release hit a row no longer PENDING? (history)
    settled    \* was this payment completed by releasing its milestone? (history)

payment == <<db, replica, lag, commits>>
books == <<razorpay, booked, unbooked, blind>>
rest == <<milestone, outbox, stale, settled>>
vars == <<payment, call, books, rest>>

Events == {"MANUAL_PAYMENT_CREATED", "MILESTONE_PAYMENT_RELEASED"}
Points == {"write", "order", "razorpay", "book", "milestone", "event"}

Idle == [op |-> "idle", at |-> "write", amount |-> 0, seen |-> 0]

NoPayment == [status |-> "none", external |-> FALSE, refunded |-> 0]
PaidPayment == [status |-> "COMPLETED", external |-> TRUE, refunded |-> 0]

\* Nothing yet, or a payment that was captured (the seeded projects have them).
Init ==
    /\ db \in {NoPayment, PaidPayment}
    /\ replica = db /\ lag = <<>> /\ commits = 0
    /\ call = [c \in Calls |-> Idle]
    /\ milestone = FALSE
    /\ outbox = {}
    /\ razorpay = 0 /\ booked = 0 /\ unbooked = 0 /\ blind = FALSE
    /\ stale = FALSE /\ settled = FALSE

-----------------------------------------------------------------------------
(* The checks *)

\* Mutant: any payment can be cancelled.
CanCancelAny(v) == v.status # "none"

CanCancel(v) == v.status = "PENDING"

\* releaseMilestonePayment completes the PENDING payment it finds, if any.
FindsPending(v) == v.status = "PENDING"

\* Mutant: earlier refunds are not counted.
CanRefundAgain(v, a) == v.status = "COMPLETED" /\ v.external /\ a <= Amount

CanRefund(v, a) == v.status = "COMPLETED" /\ v.external /\ v.refunded + a <= Amount

\* PaymentCapturedHandler skips a payment that is COMPLETED already.
CanCapture(v) == v.external /\ v.status # "COMPLETED"

\* The other handlers only look the payment up by its externalId.
CanHandle(v) == v.external

-----------------------------------------------------------------------------
(* Steps of a call *)

Start(c, op, at, a, seen) ==
    /\ op \in Operations
    /\ call[c] = Idle
    /\ call' = [call EXCEPT ![c] = [op |-> op, at |-> at, amount |-> a, seen |-> seen]]

AtPoint(c, op, at) == call[c].op = op /\ call[c].at = at
Goto(c, at) == call' = [call EXCEPT ![c].at = at]
End(c) == call' = [call EXCEPT ![c] = Idle]

\* The primary takes the new row; the replica will hear of it.
Write(new) ==
    /\ commits < MaxCommits
    /\ commits' = commits + 1
    /\ db' = new
    /\ IF MaxLag = 0
       THEN replica' = new /\ UNCHANGED lag
       ELSE Len(lag) < MaxLag /\ lag' = Append(lag, new) /\ UNCHANGED replica

SetStatus(s) == Write([db EXCEPT !.status = s])

Emit(e) == outbox' = outbox \union {e}

BeginCancel(c) ==
    /\ CanCancel(replica)
    /\ Start(c, "cancel", "write", 0, 0)
    /\ UNCHANGED <<payment, books, rest>>

Cancel(c) ==
    /\ AtPoint(c, "cancel", "write")
    /\ SetStatus("CANCELLED")
    /\ stale' = (stale \/ ~CanCancel(db))
    /\ End(c)
    /\ UNCHANGED <<books, milestone, outbox, settled>>

\* createIntent inserts the row, then asks Razorpay for an order.
BeginIntent(c) ==
    /\ db.status = "none"
    /\ Start(c, "intent", "order", 0, 0)
    /\ SetStatus("CREATED")
    /\ UNCHANGED <<books, rest>>

\* An answer without an order id marks the payment FAILED, an order makes it PENDING.
Order(c) ==
    /\ AtPoint(c, "intent", "order")
    /\ SetStatus("PENDING") \/ SetStatus("FAILED")
    /\ End(c)
    /\ UNCHANGED <<books, rest>>

\* createManualPayment inserts a COMPLETED row, then writes its event.
BeginManual(c) ==
    /\ db.status = "none"
    /\ Start(c, "manual", "event", 0, 0)
    /\ SetStatus("COMPLETED")
    /\ UNCHANGED <<books, rest>>

ManualEvent(c) ==
    /\ AtPoint(c, "manual", "event")
    /\ Emit("MANUAL_PAYMENT_CREATED")
    /\ End(c)
    /\ UNCHANGED <<payment, books, milestone, stale, settled>>

\* releaseMilestonePayment writes payment, milestone and event in three statements;
\* the first is left out when no PENDING payment was found.
BeginRelease(c) ==
    /\ Start(c, "release", IF FindsPending(replica) THEN "write" ELSE "milestone", 0, 0)
    /\ UNCHANGED <<payment, books, rest>>

ReleasePayment(c) ==
    /\ AtPoint(c, "release", "write")
    /\ SetStatus("COMPLETED")
    /\ stale' = (stale \/ ~FindsPending(db))
    /\ settled' = TRUE
    /\ Goto(c, "milestone")
    /\ UNCHANGED <<books, milestone, outbox>>

ReleaseMilestone(c) ==
    /\ AtPoint(c, "release", "milestone")
    /\ milestone' = TRUE
    /\ Goto(c, "event")
    /\ UNCHANGED <<payment, books, outbox, stale, settled>>

ReleaseEvent(c) ==
    /\ AtPoint(c, "release", "event")
    /\ Emit("MILESTONE_PAYMENT_RELEASED")
    /\ End(c)
    /\ UNCHANGED <<payment, books, milestone, stale, settled>>

BeginRefund(c) ==
    /\ \E a \in 1..Amount :
        /\ CanRefund(replica, a)
        /\ Start(c, "refund", "razorpay", a, replica.refunded)
    /\ UNCHANGED <<payment, books, rest>>

\* Mutant: an error of Razorpay is swallowed, and the refund booked all the same.
RefundSwallowsError(c) ==
    /\ AtPoint(c, "refund", "razorpay")
    /\ razorpay + call[c].amount <= MaxReturned
    /\ razorpay' \in {razorpay, razorpay + call[c].amount}
    /\ blind' = (blind \/ call[c].seen # razorpay)
    /\ Goto(c, "book")
    /\ UNCHANGED <<payment, booked, unbooked, rest>>

\* Razorpay refunds the amount.  (If it refuses, the call throws: Abort.)
Refund(c) ==
    /\ AtPoint(c, "refund", "razorpay")
    /\ razorpay + call[c].amount <= MaxReturned
    /\ razorpay' = razorpay + call[c].amount
    /\ blind' = (blind \/ call[c].seen # razorpay)
    /\ Goto(c, "book")
    /\ UNCHANGED <<payment, booked, unbooked, rest>>

\* The total that processRefund writes: the snapshot's, plus its own amount.
NewRefunded(c) == call[c].seen + call[c].amount

\* Mutant: the refund only reaches the refund table.
BookRowOnly(c) ==
    /\ AtPoint(c, "refund", "book")
    /\ Write([db EXCEPT !.status = IF NewRefunded(c) >= Amount THEN "REFUNDED" ELSE "COMPLETED"])
    /\ booked' = booked + call[c].amount
    /\ End(c)
    /\ UNCHANGED <<razorpay, unbooked, blind, rest>>

\* The transaction: a refund row and the payment's new total and status.
Book(c) ==
    /\ AtPoint(c, "refund", "book")
    /\ Write([db EXCEPT !.refunded = NewRefunded(c),
                        !.status = IF NewRefunded(c) >= Amount THEN "REFUNDED" ELSE "COMPLETED"])
    /\ booked' = booked + call[c].amount
    /\ End(c)
    /\ UNCHANGED <<razorpay, unbooked, blind, rest>>

\* The webhook handlers: a lookup and a write, nothing that ties them together.
BeginWebhook(c) ==
    /\ \/ CanCapture(db) /\ Start(c, "captured", "write", 0, 0)
       \/ CanHandle(db) /\ (Start(c, "failed", "write", 0, 0) \/ Start(c, "dispute", "write", 0, 0))
    /\ UNCHANGED <<payment, books, rest>>

Webhook(c) ==
    /\ \/ AtPoint(c, "captured", "write") /\ SetStatus("COMPLETED")
       \/ AtPoint(c, "failed", "write") /\ SetStatus("FAILED")
       \/ AtPoint(c, "dispute", "write") /\ SetStatus("DISPUTED")
    /\ End(c)
    /\ UNCHANGED <<books, rest>>

\* A statement or Razorpay throws, or the process dies: the call does no more.
Abort(c) ==
    /\ call[c] # Idle
    /\ unbooked' = IF call[c].at = "book" THEN unbooked + call[c].amount ELSE unbooked
    /\ End(c)
    /\ UNCHANGED <<payment, razorpay, booked, blind, rest>>

\* The replica applies the oldest commit it lacks.
Replicate ==
    /\ lag # <<>>
    /\ replica' = Head(lag) /\ lag' = Tail(lag)
    /\ UNCHANGED <<db, commits, call, books, rest>>

Step(c) ==
    \/ BeginCancel(c) \/ Cancel(c)
    \/ BeginIntent(c) \/ Order(c)
    \/ BeginManual(c) \/ ManualEvent(c)
    \/ BeginRelease(c) \/ ReleasePayment(c) \/ ReleaseMilestone(c) \/ ReleaseEvent(c)
    \/ BeginRefund(c) \/ Refund(c) \/ Book(c)
    \/ BeginWebhook(c) \/ Webhook(c)

Next == Replicate \/ \E c \in Calls : Step(c) \/ Abort(c)

Spec == Init /\ [][Next]_vars

-----------------------------------------------------------------------------
(* Properties *)

\* Types.
TypeOK ==
    /\ db \in Rows /\ replica \in Rows /\ lag \in Seq(Rows) /\ commits \in Nat
    /\ call \in [Calls -> [op : AllOperations \union {"idle"}, at : Points,
                           amount : 0..Amount, seen : Int]]
    /\ milestone \in BOOLEAN /\ settled \in BOOLEAN /\ blind \in BOOLEAN
    /\ outbox \subseteq Events
    /\ razorpay \in Nat /\ booked \in Nat /\ unbooked \in Nat /\ stale \in BOOLEAN

\* However refunds overlap and however far the replica is behind, the total kept
\* with the payment never exceeds its amount, and a payment reads REFUNDED only
\* when that total is all of it.
RowWithinAmount ==
    /\ db.refunded <= Amount
    /\ db.status = "REFUNDED" => db.refunded = Amount

\* As long as every refund was sent with all earlier ones in sight, Razorpay never
\* returns more than was paid, and the payment's total is that of its refund rows.
SightedRefundsAreExact == ~blind => razorpay <= Amount /\ db.refunded = booked

\* A payment that was completed by releasing its milestone is not pending or
\* cancelled later, unless a release or a cancellation ran on a stale snapshot.
ReleasedStaysPaid == settled /\ ~stale => db.status \notin {"PENDING", "CANCELLED"}

\* Money Razorpay returned is in the refund table once nothing is in progress,
\* except for refunds whose call died on the way.
RefundsAreBooked ==
    (\A c \in Calls : call[c].at # "book") => razorpay = booked + unbooked
=============================================================================
