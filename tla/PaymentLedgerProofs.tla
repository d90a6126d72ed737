------------------------- MODULE PaymentLedgerProofs -------------------------
(***************************************************************************)
(* For every amount, every number of calls and every lag of the replica:   *)
(* the payment's row stays well typed, its total never exceeds its amount, *)
(* what Razorpay returned is booked, being booked or its call died, and as *)
(* long as no refund was sent in ignorance of an earlier one both are      *)
(* exact; a payment that a release completed stays paid. One call at a     *)
(* time meets no exception except by dying before the refund is booked.    *)
(***************************************************************************)
EXTENDS PaymentLedger, FiniteSetTheorems, TLAPS

-----------------------------------------------------------------------------
(* The inductive invariants *)

\* A version never holds more than the amount, all of it when it reads REFUNDED.
Within(v) == v.refunded <= Amount /\ (v.status = "REFUNDED" => v.refunded = Amount)

\* A refund in progress fits on top of the total in its snapshot.
CallFits(c) == call[c].op = "refund" => call[c].seen + call[c].amount <= Amount

AmountInv ==
    /\ Within(db) /\ Within(replica) /\ \A i \in 1..Len(lag) : Within(lag[i])
    /\ \A c \in Calls : CallFits(c)

\* As long as no refund was blind: the snapshots lag behind the books, the books
\* behind Razorpay, and a refund on its way to the books is the only one and is
\* exactly what the two differ by.
SightInv ==
    ~blind =>
        /\ razorpay <= Amount /\ db.refunded = booked /\ booked <= razorpay
        /\ replica.refunded <= booked
        /\ \A i \in 1..Len(lag) : lag[i].refunded <= booked
        /\ \A c \in Calls : call[c].op = "refund" => call[c].seen <= booked /\ call[c].amount > 0
        /\ \A c \in Calls : AtPoint(c, "refund", "book") =>
               call[c].seen = booked /\ call[c].seen + call[c].amount = razorpay
        /\ \A c, d \in Calls : AtPoint(c, "refund", "book") /\ AtPoint(d, "refund", "book") => c = d

-----------------------------------------------------------------------------
(* Type correctness *)

CallRecords == [op : AllOperations \union {"idle"}, at : Points, amount : 0..Amount, seen : Int]

LEMMA WriteTypes ==
    ASSUME TypeOK, NEW new \in Rows, Write(new)
    PROVE  db' \in Rows /\ replica' \in Rows /\ lag' \in Seq(Rows) /\ commits' \in Nat
BY DEF Write, TypeOK

LEMMA SetStatusTypes ==
    ASSUME TypeOK, NEW s \in Statuses, SetStatus(s)
    PROVE  db' \in Rows /\ replica' \in Rows /\ lag' \in Seq(Rows) /\ commits' \in Nat
<1>1. [db EXCEPT !.status = s] \in Rows BY DEF TypeOK, Rows
<1>. QED BY <1>1, WriteTypes DEF SetStatus

LEMMA StartTypes ==
    ASSUME TypeOK, NEW c \in Calls, NEW op \in AllOperations, NEW at \in Points,
           NEW a \in 0..Amount, NEW seen \in Int, Start(c, op, at, a, seen)
    PROVE  call' \in [Calls -> CallRecords]
BY DEF Start, TypeOK, CallRecords

LEMMA EndTypes ==
    ASSUME TypeOK, NEW c \in Calls, End(c)
    PROVE  call' \in [Calls -> CallRecords]
<1>1. Idle \in CallRecords
  BY ConstantsAssumption DEF Idle, CallRecords, Points
<1>. QED BY <1>1 DEF End, TypeOK, CallRecords

LEMMA GotoTypes ==
    ASSUME TypeOK, NEW c \in Calls, NEW at \in Points, Goto(c, at)
    PROVE  call' \in [Calls -> CallRecords]
BY DEF Goto, TypeOK, CallRecords

\* The operations, points and statuses that occur are in their sets.
LEMMA Names ==
    /\ AllOperations = {"intent", "manual", "cancel", "release", "refund",
                        "captured", "failed", "dispute"}
    /\ \A s \in {"CREATED", "PENDING", "COMPLETED", "FAILED", "REFUNDED", "DISPUTED",
                 "CANCELLED"} : s \in Statuses
    /\ \A p \in {"write", "order", "razorpay", "book", "milestone", "event"} : p \in Points
    /\ 0 \in 0..Amount /\ 0 \in Int
BY ConstantsAssumption DEF AllOperations, Statuses, Points

LEMMA StepTypes ==
    ASSUME TypeOK, NEW c \in Calls, Step(c)
    PROVE  TypeOK'
<1>. USE DEF payment, books, rest
<1>1. CASE BeginCancel(c)
  <2>1. call' \in [Calls -> CallRecords] BY <1>1, StartTypes, Names DEF BeginCancel
  <2>. QED BY <1>1, <2>1 DEF BeginCancel, TypeOK, CallRecords
<1>2. CASE Cancel(c)
  <2>1. call' \in [Calls -> CallRecords] BY <1>2, EndTypes DEF Cancel
  <2>. QED BY <1>2, <2>1, SetStatusTypes, Names DEF Cancel, TypeOK, CallRecords
<1>3. CASE BeginIntent(c)
  <2>1. call' \in [Calls -> CallRecords] BY <1>3, StartTypes, Names DEF BeginIntent
  <2>. QED BY <1>3, <2>1, SetStatusTypes, Names DEF BeginIntent, TypeOK, CallRecords
<1>4. CASE Order(c)
  <2>1. call' \in [Calls -> CallRecords] BY <1>4, EndTypes DEF Order
  <2>. QED BY <1>4, <2>1, SetStatusTypes, Names DEF Order, TypeOK, CallRecords
<1>5. CASE BeginManual(c)
  <2>1. call' \in [Calls -> CallRecords] BY <1>5, StartTypes, Names DEF BeginManual
  <2>. QED BY <1>5, <2>1, SetStatusTypes, Names DEF BeginManual, TypeOK, CallRecords
<1>6. CASE ManualEvent(c)
  <2>1. call' \in [Calls -> CallRecords] BY <1>6, EndTypes DEF ManualEvent
  <2>. QED BY <1>6, <2>1 DEF ManualEvent, Emit, Events, TypeOK, CallRecords
<1>7. CASE BeginRelease(c)
  <2>1. call' \in [Calls -> CallRecords] BY <1>7, StartTypes, Names DEF BeginRelease
  <2>. QED BY <1>7, <2>1 DEF BeginRelease, TypeOK, CallRecords
<1>8. CASE ReleasePayment(c)
  <2>1. call' \in [Calls -> CallRecords] BY <1>8, GotoTypes, Names DEF ReleasePayment
  <2>. QED BY <1>8, <2>1, SetStatusTypes, Names DEF ReleasePayment, TypeOK, CallRecords
<1>9. CASE ReleaseMilestone(c)
  <2>1. call' \in [Calls -> CallRecords] BY <1>9, GotoTypes, Names DEF ReleaseMilestone
  <2>. QED BY <1>9, <2>1 DEF ReleaseMilestone, TypeOK, CallRecords
<1>10. CASE ReleaseEvent(c)
  <2>1. call' \in [Calls -> CallRecords] BY <1>10, EndTypes DEF ReleaseEvent
  <2>. QED BY <1>10, <2>1 DEF ReleaseEvent, Emit, Events, TypeOK, CallRecords
<1>11. CASE BeginRefund(c)
  <2>1. PICK a \in 1..Amount : Start(c, "refund", "razorpay", a, replica.refunded)
    BY <1>11 DEF BeginRefund
  <2>2. replica.refunded \in Int /\ a \in 0..Amount BY DEF TypeOK, Rows
  <2>3. call' \in [Calls -> CallRecords] BY <2>1, <2>2, StartTypes, Names
  <2>. QED BY <1>11, <2>3 DEF BeginRefund, TypeOK, CallRecords
<1>12. CASE Refund(c)
  <2>1. call' \in [Calls -> CallRecords] BY <1>12, GotoTypes, Names DEF Refund
  <2>2. call[c].amount \in 0..Amount BY DEF TypeOK
  <2>3. razorpay' \in Nat BY <1>12, <2>2 DEF Refund, TypeOK
  <2>. QED BY <1>12, <2>1, <2>3 DEF Refund, TypeOK, CallRecords
<1>13. CASE Book(c)
  <2>1. call' \in [Calls -> CallRecords] BY <1>13, EndTypes DEF Book
  <2>2. call[c].amount \in 0..Amount /\ call[c].seen \in Int BY DEF TypeOK
  <2>3. NewRefunded(c) \in Int BY <2>2 DEF NewRefunded
  <2>4. [db EXCEPT !.refunded = NewRefunded(c),
                   !.status = IF NewRefunded(c) >= Amount THEN "REFUNDED" ELSE "COMPLETED"] \in Rows
    BY <2>3, Names DEF TypeOK, Rows
  <2>5. booked' \in Nat BY <1>13, <2>2 DEF Book, TypeOK
  <2>. QED BY <1>13, <2>1, <2>4, <2>5, WriteTypes DEF Book, TypeOK, CallRecords
<1>14. CASE BeginWebhook(c)
  <2>1. call' \in [Calls -> CallRecords] BY <1>14, StartTypes, Names DEF BeginWebhook
  <2>. QED BY <1>14, <2>1 DEF BeginWebhook, TypeOK, CallRecords
<1>15. CASE Webhook(c)
  <2>1. call' \in [Calls -> CallRecords] BY <1>15, EndTypes DEF Webhook
  <2>. QED BY <1>15, <2>1, SetStatusTypes, Names DEF Webhook, TypeOK, CallRecords
<1>. QED BY <1>1, <1>2, <1>3, <1>4, <1>5, <1>6, <1>7, <1>8, <1>9, <1>10, <1>11, <1>12,
            <1>13, <1>14, <1>15 DEF Step

LEMMA AbortTypes ==
    ASSUME TypeOK, NEW c \in Calls, Abort(c)
    PROVE  TypeOK'
<1>1. call' \in [Calls -> CallRecords] BY EndTypes DEF Abort
<1>2. call[c].amount \in 0..Amount BY DEF TypeOK
<1>3. unbooked' \in Nat BY <1>2 DEF Abort, TypeOK
<1>. QED BY <1>1, <1>3 DEF Abort, TypeOK, CallRecords, payment, rest

\* The payment row, its replica and the calls only ever hold values of their types,
\* for every amount, any number of calls and any lag.
THEOREM TypeCorrect == Spec => []TypeOK
<1>1. Init => TypeOK
  <2>. SUFFICES ASSUME Init PROVE TypeOK OBVIOUS
  <2>1. NoPayment \in Rows /\ PaidPayment \in Rows
    BY DEF NoPayment, PaidPayment, Rows, Statuses
  <2>2. Idle \in CallRecords BY ConstantsAssumption DEF Idle, CallRecords, Points
  <2>3. call \in [Calls -> CallRecords] BY <2>2 DEF Init
  <2>4. db \in Rows /\ replica \in Rows /\ lag \in Seq(Rows) BY <2>1 DEF Init
  <2>. QED BY <2>3, <2>4 DEF Init, TypeOK, CallRecords
<1>2. TypeOK /\ [Next]_vars => TypeOK'
  <2>. SUFFICES ASSUME TypeOK, [Next]_vars PROVE TypeOK' OBVIOUS
  <2>1. CASE Replicate
    BY <2>1 DEF Replicate, TypeOK, books, rest
  <2>2. CASE \E c \in Calls : Step(c) \/ Abort(c)
    BY <2>2, StepTypes, AbortTypes
  <2>3. CASE UNCHANGED vars
    BY <2>3 DEF vars, payment, books, rest, TypeOK
  <2>. QED BY <2>1, <2>2, <2>3 DEF Next
<1>. QED BY <1>1, <1>2, PTL DEF Spec

-----------------------------------------------------------------------------
(* Which rows and calls a step leaves *)

\* A write adds the new version; every other version was there before.
LEMMA WriteVersions ==
    ASSUME TypeOK, NEW new \in Rows, Write(new)
    PROVE  /\ db' = new /\ replica' \in {new, replica}
           /\ \A i \in 1..Len(lag') :
                  lag'[i] = new \/ (i \in 1..Len(lag) /\ lag'[i] = lag[i])
<1>1. CASE MaxLag = 0 BY <1>1 DEF Write
<1>2. CASE MaxLag # 0
  <2>1. lag \in Seq(Rows) /\ lag' = Append(lag, new) /\ replica' = replica /\ db' = new
    BY <1>2 DEF Write, TypeOK
  <2>. QED BY <2>1
<1>. QED BY <1>1, <1>2

LEMMA ReplicateVersions ==
    ASSUME TypeOK, Replicate
    PROVE  /\ db' = db
           /\ 1 \in 1..Len(lag) /\ replica' = lag[1]
           /\ \A i \in 1..Len(lag') : i + 1 \in 1..Len(lag) /\ lag'[i] = lag[i + 1]
<1>1. lag \in Seq(Rows) /\ lag # <<>> /\ lag' = Tail(lag) /\ replica' = Head(lag) /\ db' = db
  BY DEF Replicate, TypeOK
<1>. QED BY <1>1

\* A step that neither starts nor advances a refund, and at most sets a status.
PlainStatuses == {"CREATED", "PENDING", "COMPLETED", "FAILED", "DISPUTED", "CANCELLED"}

Quiet ==
    /\ \A d \in Calls : call'[d].op = "refund" => call'[d] = call[d]
    /\ UNCHANGED <<razorpay, booked, blind>>
    /\ UNCHANGED payment \/ \E s \in PlainStatuses : SetStatus(s)

\* Another operation's start, advance or end leaves the refunds alone.
LEMMA QuietCalls ==
    ASSUME TypeOK, NEW c \in Calls
    PROVE  /\ \A op, at, a, seen : op # "refund" /\ Start(c, op, at, a, seen) =>
                  \A d \in Calls : call'[d].op = "refund" => call'[d] = call[d]
           /\ \A at : call[c].op # "refund" /\ Goto(c, at) =>
                  \A d \in Calls : call'[d].op = "refund" => call'[d] = call[d]
           /\ End(c) => \A d \in Calls : call'[d].op = "refund" => call'[d] = call[d]
<1>1. call \in [Calls -> CallRecords] BY DEF TypeOK, CallRecords
<1>2. ASSUME NEW op, NEW at, NEW a, NEW seen, op # "refund", Start(c, op, at, a, seen)
      PROVE  \A d \in Calls : call'[d].op = "refund" => call'[d] = call[d]
  BY <1>1, <1>2 DEF Start
<1>3. ASSUME NEW at, call[c].op # "refund", Goto(c, at)
      PROVE  \A d \in Calls : call'[d].op = "refund" => call'[d] = call[d]
  BY <1>1, <1>3 DEF Goto, CallRecords
<1>4. ASSUME End(c)
      PROVE  \A d \in Calls : call'[d].op = "refund" => call'[d] = call[d]
  BY <1>1, <1>4 DEF End, Idle
<1>. QED BY <1>2, <1>3, <1>4

LEMMA QuietSteps ==
    ASSUME TypeOK, NEW c \in Calls, Step(c) \/ Abort(c),
           ~BeginRefund(c), ~Refund(c), ~Book(c)
    PROVE  Quiet
<1>. USE DEF books, rest, Quiet
<1>0. \A s \in {"CREATED", "PENDING", "COMPLETED", "FAILED", "DISPUTED", "CANCELLED"} :
          s \in PlainStatuses
  BY DEF PlainStatuses
<1>1. CASE BeginCancel(c) BY <1>1, QuietCalls DEF BeginCancel
<1>2. CASE Cancel(c) BY <1>0, <1>2, QuietCalls DEF Cancel
<1>3. CASE BeginIntent(c) BY <1>0, <1>3, QuietCalls DEF BeginIntent
<1>4. CASE Order(c) BY <1>0, <1>4, QuietCalls DEF Order
<1>5. CASE BeginManual(c) BY <1>0, <1>5, QuietCalls DEF BeginManual
<1>6. CASE ManualEvent(c) BY <1>6, QuietCalls DEF ManualEvent
<1>7. CASE BeginRelease(c) BY <1>7, QuietCalls DEF BeginRelease
<1>8. CASE ReleasePayment(c) BY <1>0, <1>8, QuietCalls DEF ReleasePayment, AtPoint
<1>9. CASE ReleaseMilestone(c) BY <1>9, QuietCalls DEF ReleaseMilestone, AtPoint
<1>10. CASE ReleaseEvent(c) BY <1>10, QuietCalls DEF ReleaseEvent
<1>11. CASE BeginWebhook(c) BY <1>11, QuietCalls DEF BeginWebhook
<1>12. CASE Webhook(c) BY <1>0, <1>12, QuietCalls DEF Webhook
<1>13. CASE Abort(c) BY <1>13, QuietCalls DEF Abort
<1>. QED BY <1>1, <1>2, <1>3, <1>4, <1>5, <1>6, <1>7, <1>8, <1>9, <1>10, <1>11, <1>12,
            <1>13 DEF Step

\* Every version after a quiet step carries the total of a version before it, and
\* reads REFUNDED only if that one did.
LEMMA QuietVersions ==
    ASSUME TypeOK, Quiet
    PROVE  /\ db'.refunded = db.refunded
           /\ db'.status = "REFUNDED" => db.status = "REFUNDED"
           /\ replica' \in {db', replica}
           /\ \A i \in 1..Len(lag') : lag'[i] = db' \/ (i \in 1..Len(lag) /\ lag'[i] = lag[i])
<1>1. CASE UNCHANGED payment BY <1>1 DEF payment
<1>2. ASSUME NEW s \in PlainStatuses, SetStatus(s)
      PROVE  /\ db'.refunded = db.refunded
             /\ db'.status = "REFUNDED" => db.status = "REFUNDED"
             /\ replica' \in {db', replica}
             /\ \A i \in 1..Len(lag') : lag'[i] = db' \/ (i \in 1..Len(lag) /\ lag'[i] = lag[i])
  <2>1. db \in Rows /\ s \in Statuses /\ s # "REFUNDED"
    BY DEF TypeOK, PlainStatuses, Statuses
  <2>2. [db EXCEPT !.status = s] \in Rows BY <2>1 DEF Rows
  <2>3. Write([db EXCEPT !.status = s]) BY <1>2 DEF SetStatus
  <2>4. db' = [db EXCEPT !.status = s] BY <2>2, <2>3, WriteVersions
  <2>5. db'.refunded = db.refunded /\ db'.status = s BY <2>1, <2>4 DEF Rows
  <2>. QED BY <2>1, <2>2, <2>3, <2>4, <2>5, WriteVersions
<1>. QED BY <1>1, <1>2 DEF Quiet

-----------------------------------------------------------------------------
(* What a refund does *)

LEMMA BeginRefundFacts ==
    ASSUME TypeOK, NEW c \in Calls, BeginRefund(c)
    PROVE  /\ call'[c].seen = replica.refunded /\ call'[c].amount > 0
           /\ replica.refunded + call'[c].amount <= Amount
           /\ call'[c].op = "refund" /\ call'[c].at = "razorpay"
           /\ \A d \in Calls \ {c} : call'[d] = call[d]
           /\ UNCHANGED <<payment, books>>
<1>1. PICK a \in 1..Amount :
          CanRefund(replica, a) /\ Start(c, "refund", "razorpay", a, replica.refunded)
  BY DEF BeginRefund
<1>2. call \in [Calls -> CallRecords] BY DEF TypeOK, CallRecords
<1>3. call'[c] = [op |-> "refund", at |-> "razorpay", amount |-> a, seen |-> replica.refunded]
  BY <1>1, <1>2 DEF Start
<1>4. \A d \in Calls \ {c} : call'[d] = call[d] BY <1>1, <1>2 DEF Start
<1>5. a > 0 /\ replica.refunded + a <= Amount BY <1>1, ConstantsAssumption DEF CanRefund
<1>. QED BY <1>3, <1>4, <1>5 DEF BeginRefund

LEMMA RefundFacts ==
    ASSUME TypeOK, NEW c \in Calls, Refund(c)
    PROVE  /\ call[c].op = "refund"
           /\ call'[c].op = "refund" /\ call'[c].at = "book"
           /\ call'[c].seen = call[c].seen /\ call'[c].amount = call[c].amount
           /\ \A d \in Calls \ {c} : call'[d] = call[d]
           /\ razorpay' = razorpay + call[c].amount
           /\ ~blind' => ~blind /\ call[c].seen = razorpay
           /\ UNCHANGED <<payment, booked>>
<1>1. call \in [Calls -> CallRecords] BY DEF TypeOK, CallRecords
<1>2. call' = [call EXCEPT ![c].at = "book"] BY DEF Refund, Goto
<1>3. call'[c] = [call[c] EXCEPT !.at = "book"] BY <1>1, <1>2
<1>4. call[c] \in CallRecords BY <1>1
<1>5. call'[c].at = "book" /\ call'[c].op = call[c].op
      /\ call'[c].seen = call[c].seen /\ call'[c].amount = call[c].amount
  BY <1>3, <1>4 DEF CallRecords
<1>6. \A d \in Calls \ {c} : call'[d] = call[d] BY <1>1, <1>2
<1>. QED BY <1>5, <1>6 DEF Refund, AtPoint

LEMMA BookFacts ==
    ASSUME TypeOK, NEW c \in Calls, Book(c)
    PROVE  /\ AtPoint(c, "refund", "book")
           /\ call[c].amount \in Int /\ call[c].seen \in Int
           /\ db'.refunded = call[c].seen + call[c].amount
           /\ db'.status = "REFUNDED" => call[c].seen + call[c].amount >= Amount
           /\ replica' \in {db', replica}
           /\ \A i \in 1..Len(lag') : lag'[i] = db' \/ (i \in 1..Len(lag) /\ lag'[i] = lag[i])
           /\ booked' = booked + call[c].amount
           /\ call'[c].op = "idle"
           /\ \A d \in Calls \ {c} : call'[d] = call[d]
           /\ UNCHANGED <<razorpay, blind>>
<1>. DEFINE new == [db EXCEPT !.refunded = NewRefunded(c),
                        !.status = IF NewRefunded(c) >= Amount THEN "REFUNDED" ELSE "COMPLETED"]
<1>1. call \in [Calls -> CallRecords] /\ call[c] \in CallRecords BY DEF TypeOK, CallRecords
<1>2. NewRefunded(c) \in Int BY <1>1 DEF NewRefunded, CallRecords
<1>3. new \in Rows BY <1>2, Names DEF TypeOK, Rows
<1>4. Write(new) /\ End(c) BY DEF Book
<1>5. db' = new BY <1>3, <1>4, WriteVersions
<1>6. db \in Rows BY DEF TypeOK
<1>7. new.refunded = NewRefunded(c) BY <1>6 DEF Rows
<1>8. new.status = IF NewRefunded(c) >= Amount THEN "REFUNDED" ELSE "COMPLETED"
  BY <1>6 DEF Rows
<1>9. replica' \in {new, replica}
      /\ \A i \in 1..Len(lag') : lag'[i] = new \/ (i \in 1..Len(lag) /\ lag'[i] = lag[i])
  BY <1>3, <1>4, WriteVersions
<1>10. call'[c] = Idle /\ \A d \in Calls \ {c} : call'[d] = call[d]
  BY <1>1, <1>4 DEF End
<1>11. call[c].amount \in Int /\ call[c].seen \in Int BY <1>1 DEF CallRecords
<1>12. db'.status = "REFUNDED" => NewRefunded(c) >= Amount BY <1>5, <1>8
<1>. QED BY <1>5, <1>7, <1>9, <1>10, <1>11, <1>12 DEF Book, NewRefunded, Idle

\* The types the arithmetic below needs.
LEMMA Numbers ==
    ASSUME TypeOK
    PROVE  /\ Amount \in Int /\ razorpay \in Int /\ booked \in Int
           /\ db.refunded \in Int /\ replica.refunded \in Int
           /\ \A i \in 1..Len(lag) : lag[i].refunded \in Int
           /\ \A c \in Calls : call[c].seen \in Int /\ call[c].amount \in Int
<1>1. \A i \in 1..Len(lag) : lag[i] \in Rows BY DEF TypeOK
<1>2. \A c \in Calls : call[c].seen \in Int /\ call[c].amount \in Int BY DEF TypeOK
<1>. QED BY <1>1, <1>2, ConstantsAssumption DEF TypeOK, Rows

-----------------------------------------------------------------------------
(* The total stays within the amount *)

LEMMA AmountInvInductive ==
    ASSUME TypeOK, AmountInv, [Next]_vars
    PROVE  AmountInv'
<1>. USE Numbers DEF AmountInv, CallFits, Within
<1>1. CASE Quiet
  <2>1. Within(db)' /\ Within(replica)' /\ \A i \in 1..Len(lag') : Within(lag'[i])
    BY <1>1, QuietVersions
  <2>2. \A c \in Calls : CallFits(c)' BY <1>1 DEF Quiet
  <2>. QED BY <2>1, <2>2
<1>2. CASE Replicate
  <2>1. Within(db)' /\ Within(replica)' /\ \A i \in 1..Len(lag') : Within(lag'[i])
    BY <1>2, ReplicateVersions
  <2>. QED BY <1>2, <2>1 DEF Replicate
<1>3. ASSUME NEW c \in Calls, BeginRefund(c)
      PROVE  AmountInv'
  <2>1. \A d \in Calls : CallFits(d)' BY <1>3, BeginRefundFacts
  <2>. QED BY <1>3, <2>1, BeginRefundFacts DEF payment
<1>4. ASSUME NEW c \in Calls, Refund(c)
      PROVE  AmountInv'
  <2>1. \A d \in Calls : CallFits(d)' BY <1>4, RefundFacts
  <2>. QED BY <1>4, <2>1, RefundFacts DEF payment
<1>5. ASSUME NEW c \in Calls, Book(c)
      PROVE  AmountInv'
  <2>1. call[c].seen + call[c].amount <= Amount BY <1>5, BookFacts DEF AtPoint
  <2>2. Within(db)'
    <3>1. db'.refunded = call[c].seen + call[c].amount BY <1>5, BookFacts
    <3>2. db'.status = "REFUNDED" => call[c].seen + call[c].amount >= Amount
      BY <1>5, BookFacts
    <3>3. call[c].seen \in Int /\ call[c].amount \in Int /\ Amount \in Int
      BY Numbers
    <3>. QED BY <2>1, <3>1, <3>2, <3>3
  <2>3. Within(replica)' /\ \A i \in 1..Len(lag') : Within(lag'[i])
    BY <1>5, <2>2, BookFacts
  <2>4. \A d \in Calls : CallFits(d)'
    <3>1. CallFits(c)' BY <1>5, BookFacts
    <3>2. ASSUME NEW d \in Calls \ {c} PROVE CallFits(d)'
      <4>1. call'[d] = call[d] /\ CallFits(d) BY <1>5, BookFacts
      <4>. QED BY <4>1
    <3>. QED BY <3>1, <3>2
  <2>. QED BY <2>2, <2>3, <2>4
<1>6. CASE UNCHANGED vars BY <1>6 DEF vars, payment
<1>. QED BY <1>1, <1>2, <1>3, <1>4, <1>5, <1>6, QuietSteps DEF Next, Step

\* However calls overlap and however far the replica is behind, the payment's
\* total never exceeds its amount and REFUNDED means all of it.
THEOREM TotalWithinAmount == Spec => []RowWithinAmount
<1>1. Init => AmountInv
  BY ConstantsAssumption DEF Init, AmountInv, Within, CallFits, NoPayment, PaidPayment, Idle
<1>2. AmountInv => RowWithinAmount BY DEF AmountInv, Within, RowWithinAmount
<1>. QED BY <1>1, <1>2, AmountInvInductive, TypeCorrect, PTL DEF Spec

-----------------------------------------------------------------------------
(* Sighted refunds are exact *)

LEMMA SightInvInductive ==
    ASSUME TypeOK, AmountInv, SightInv, [Next]_vars
    PROVE  SightInv'
<1>. USE Numbers
<1>1. CASE Quiet
  <2>. SUFFICES ASSUME ~blind' PROVE SightInv' BY DEF SightInv
  <2>1. ~blind /\ UNCHANGED <<razorpay, booked>> BY <1>1 DEF Quiet
  <2>2. \A d \in Calls : call'[d].op = "refund" => call'[d] = call[d] BY <1>1 DEF Quiet
  <2>3. /\ db'.refunded = booked /\ replica'.refunded <= booked
        /\ \A i \in 1..Len(lag') : lag'[i].refunded <= booked
    BY <1>1, <2>1, QuietVersions DEF SightInv
  <2>. QED BY <2>1, <2>2, <2>3 DEF SightInv, AtPoint
<1>2. CASE Replicate
  <2>1. UNCHANGED <<call, razorpay, booked, blind>> BY <1>2 DEF Replicate, books
  <2>. QED BY <1>2, <2>1, ReplicateVersions DEF SightInv, AtPoint
<1>3. ASSUME NEW c \in Calls, BeginRefund(c)
      PROVE  SightInv'
  <2>. SUFFICES ASSUME ~blind' PROVE SightInv' BY DEF SightInv
  <2>1. ~blind BY <1>3, BeginRefundFacts DEF books
  <2>2. \A d \in Calls : call'[d].op = "refund" => call'[d].seen <= booked /\ call'[d].amount > 0
    BY <1>3, <2>1, BeginRefundFacts DEF SightInv
  <2>3. \A d \in Calls : AtPoint(d, "refund", "book")' => AtPoint(d, "refund", "book")
                                                          /\ call'[d] = call[d]
    BY <1>3, BeginRefundFacts DEF AtPoint
  <2>. QED BY <1>3, <2>1, <2>2, <2>3, BeginRefundFacts DEF SightInv, payment, books
<1>4. ASSUME NEW c \in Calls, Refund(c)
      PROVE  SightInv'
  <2>. SUFFICES ASSUME ~blind' PROVE SightInv' BY DEF SightInv
  <2>1. ~blind /\ call[c].seen = razorpay BY <1>4, RefundFacts
  <2>2. call[c].seen = booked /\ booked = razorpay /\ call[c].amount > 0
    BY <1>4, <2>1, RefundFacts DEF SightInv
  <2>3. \A d \in Calls : ~AtPoint(d, "refund", "book")
    BY <2>1, <2>2 DEF SightInv, AtPoint
  <2>4. razorpay' = razorpay + call[c].amount /\ razorpay' <= Amount
    BY <1>4, <2>1, RefundFacts DEF AmountInv, CallFits
  <2>5. \A d \in Calls : AtPoint(d, "refund", "book")' => d = c
    BY <1>4, <2>3, RefundFacts DEF AtPoint
  <2>6. \A d \in Calls : call'[d].op = "refund" => call'[d].seen <= booked /\ call'[d].amount > 0
    BY <1>4, <2>1, RefundFacts DEF SightInv
  <2>7. call'[c].seen = booked /\ call'[c].seen + call'[c].amount = razorpay'
    BY <1>4, <2>2, <2>4, RefundFacts
  <2>. QED BY <1>4, <2>1, <2>2, <2>4, <2>5, <2>6, <2>7, RefundFacts DEF SightInv, payment
<1>5. ASSUME NEW c \in Calls, Book(c)
      PROVE  SightInv'
  <2>. SUFFICES ASSUME ~blind' PROVE SightInv' BY DEF SightInv
  <2>1. ~blind /\ razorpay' = razorpay BY <1>5, BookFacts
  <2>2. call[c].seen = booked /\ call[c].seen + call[c].amount = razorpay /\ call[c].amount > 0
    BY <1>5, <2>1, BookFacts DEF SightInv, AtPoint
  <2>3. booked' = razorpay /\ db'.refunded = booked' /\ booked < booked'
    BY <1>5, <2>2, BookFacts
  <2>4. replica'.refunded <= booked' /\ \A i \in 1..Len(lag') : lag'[i].refunded <= booked'
    BY <1>5, <2>1, <2>3, BookFacts DEF SightInv
  <2>5. \A d \in Calls : call'[d].op = "refund" => call'[d].seen <= booked' /\ call'[d].amount > 0
    BY <1>5, <2>1, <2>3, BookFacts DEF SightInv
  <2>6. \A d \in Calls : ~AtPoint(d, "refund", "book")'
    BY <1>5, <2>1, BookFacts DEF SightInv, AtPoint
  <2>. QED BY <2>1, <2>3, <2>4, <2>5, <2>6 DEF SightInv
<1>6. CASE UNCHANGED vars BY <1>6 DEF vars, payment, books, SightInv, AtPoint
<1>. QED BY <1>1, <1>2, <1>3, <1>4, <1>5, <1>6, QuietSteps DEF Next, Step

\* While every refund was sent with all earlier ones in sight, Razorpay returns no
\* more than was paid and the payment's total is that of the refund rows.
THEOREM SightedRefunds == Spec => []SightedRefundsAreExact
<1>1. Init => SightInv
  <2>. SUFFICES ASSUME Init PROVE SightInv OBVIOUS
  <2>1. \A c \in Calls : call[c].op = "idle" BY DEF Init, Idle
  <2>2. db.refunded = 0 /\ replica.refunded = 0 /\ Len(lag) = 0
    BY DEF Init, NoPayment, PaidPayment
  <2>. QED BY <2>1, <2>2, ConstantsAssumption DEF Init, SightInv, AtPoint
<1>2. Init => AmountInv
  BY ConstantsAssumption DEF Init, AmountInv, Within, CallFits, NoPayment, PaidPayment, Idle
<1>3. SightInv => SightedRefundsAreExact BY DEF SightInv, SightedRefundsAreExact
<1>. QED BY <1>1, <1>2, <1>3, AmountInvInductive, SightInvInductive, TypeCorrect, PTL DEF Spec
-----------------------------------------------------------------------------
(* Refunds are booked *)

\* The money that Razorpay has returned and that a call is about to book, as a
\* set of coins: one per call and unit of its amount.
CoinsOf(c) == {c} \X (1..call[c].amount)
Coins == UNION {CoinsOf(c) : c \in {d \in Calls : call[d].at = "book"}}

BookInv == IsFiniteSet(Coins) /\ razorpay = booked + unbooked + Cardinality(Coins)

LEMMA CoinsOfCall ==
    ASSUME TypeOK, NEW c \in Calls
    PROVE  IsFiniteSet(CoinsOf(c)) /\ Cardinality(CoinsOf(c)) = call[c].amount
<1>1. call[c].amount \in Nat BY ConstantsAssumption DEF TypeOK
<1>2. IsFiniteSet({c}) /\ Cardinality({c}) = 1 BY FS_Singleton
<1>3. IsFiniteSet(1..call[c].amount) /\ Cardinality(1..call[c].amount) = call[c].amount
  <2>1. \A n \in Nat : IsFiniteSet(1..n) /\ Cardinality(1..n) = IF 1 > n THEN 0 ELSE n - 1 + 1
    BY FS_Interval
  <2>2. \A n \in Nat : (IF 1 > n THEN 0 ELSE n - 1 + 1) = n
    OBVIOUS
  <2>. QED BY <1>1, <2>1, <2>2
<1>4. IsFiniteSet(CoinsOf(c)) /\ Cardinality(CoinsOf(c)) = 1 * call[c].amount
  BY <1>2, <1>3, FS_Product DEF CoinsOf
<1>. QED BY <1>1, <1>4

\* The calls that a step of c neither puts on the way to the books nor takes from there.
BooksSame(c) ==
    /\ \A d \in Calls \ {c} : call'[d] = call[d]
    /\ call[c].at # "book" /\ call'[c].at # "book"

LEMMA SameCoins ==
    ASSUME NEW c \in Calls, BooksSame(c)
    PROVE  Coins' = Coins
<1>1. \A d \in Calls : call[d].at = "book" <=> call'[d].at = "book"
  BY DEF BooksSame
<1>2. \A d \in Calls : call[d].at = "book" => CoinsOf(d)' = CoinsOf(d)
  BY DEF BooksSame, CoinsOf
<1>3. \A x : x \in Coins <=> \E d \in Calls : call[d].at = "book" /\ x \in CoinsOf(d)
  BY DEF Coins
<1>4. \A x : x \in Coins' <=> \E d \in Calls : call'[d].at = "book" /\ x \in CoinsOf(d)'
  BY DEF Coins
<1>. QED BY <1>1, <1>2, <1>3, <1>4

\* A call that has its money joins the others.
LEMMA CoinsJoin ==
    ASSUME TypeOK, BookInv, NEW c \in Calls,
           call[c].at # "book", call'[c].at = "book", call'[c].amount = call[c].amount,
           \A d \in Calls \ {c} : call'[d] = call[d]
    PROVE  IsFiniteSet(Coins') /\ Cardinality(Coins') = Cardinality(Coins) + call[c].amount
<1>1. Coins' = Coins \cup CoinsOf(c) /\ Coins \cap CoinsOf(c) = {}
  BY DEF Coins, CoinsOf
<1>2. IsFiniteSet(CoinsOf(c)) /\ Cardinality(CoinsOf(c)) = call[c].amount
  BY CoinsOfCall
<1>3. IsFiniteSet(Coins) /\ Cardinality(Coins) \in Nat
  BY FS_CardinalityType DEF BookInv
<1>4. Cardinality(Coins \cap CoinsOf(c)) = 0
  BY <1>1, FS_EmptySet
<1>5. /\ IsFiniteSet(Coins \cup CoinsOf(c))
      /\ Cardinality(Coins \cup CoinsOf(c)) =
             Cardinality(Coins) + Cardinality(CoinsOf(c)) - Cardinality(Coins \cap CoinsOf(c))
  BY <1>2, <1>3, FS_Union
<1>6. call[c].amount \in Nat BY ConstantsAssumption DEF TypeOK
<1>. QED BY <1>1, <1>2, <1>3, <1>4, <1>5, <1>6

\* A call that books its money, or dies with it, leaves.
LEMMA CoinsLeave ==
    ASSUME TypeOK, BookInv, NEW c \in Calls, call[c].at = "book", call'[c].at # "book",
           \A d \in Calls \ {c} : call'[d] = call[d]
    PROVE  IsFiniteSet(Coins') /\ Cardinality(Coins') = Cardinality(Coins) - call[c].amount
<1>1. Coins' = Coins \ CoinsOf(c) /\ Coins \cap CoinsOf(c) = CoinsOf(c)
  BY DEF Coins, CoinsOf
<1>2. Cardinality(CoinsOf(c)) = call[c].amount
  BY CoinsOfCall
<1>3. IsFiniteSet(Coins) BY DEF BookInv
<1>4. /\ IsFiniteSet(Coins \ CoinsOf(c))
      /\ Cardinality(Coins \ CoinsOf(c)) = Cardinality(Coins) - Cardinality(Coins \cap CoinsOf(c))
  BY <1>3, FS_Difference
<1>. QED BY <1>1, <1>2, <1>4

\* A step at another point, or one that begins, ends or advances another operation.
LEMMA OtherSteps ==
    ASSUME TypeOK, NEW c \in Calls, Step(c) \/ (Abort(c) /\ call[c].at # "book"),
           ~Refund(c), ~Book(c)
    PROVE  BooksSame(c) /\ UNCHANGED <<razorpay, booked, unbooked>>
<1>. USE DEF books, rest, BooksSame
<1>1. call \in [Calls -> CallRecords] BY DEF TypeOK, CallRecords
<1>2. ASSUME NEW op, NEW at, NEW a, NEW seen, at # "book", Start(c, op, at, a, seen)
      PROVE  BooksSame(c)
  BY <1>1, <1>2 DEF Start, Idle
<1>3. ASSUME NEW at, at # "book", call[c].at # "book", Goto(c, at)
      PROVE  BooksSame(c)
  BY <1>1, <1>3 DEF Goto, CallRecords
<1>4. ASSUME call[c].at # "book", End(c)
      PROVE  BooksSame(c)
  BY <1>1, <1>4 DEF End, Idle
<1>. HIDE DEF BooksSame
<1>5. CASE BeginCancel(c) BY <1>5, <1>2 DEF BeginCancel
<1>6. CASE Cancel(c) BY <1>6, <1>4 DEF Cancel, AtPoint
<1>7. CASE BeginIntent(c) BY <1>7, <1>2 DEF BeginIntent
<1>8. CASE Order(c) BY <1>8, <1>4 DEF Order, AtPoint
<1>9. CASE BeginManual(c) BY <1>9, <1>2 DEF BeginManual
<1>10. CASE ManualEvent(c) BY <1>10, <1>4 DEF ManualEvent, AtPoint
<1>11. CASE BeginRelease(c) BY <1>11, <1>2 DEF BeginRelease
<1>12. CASE ReleasePayment(c) BY <1>12, <1>3 DEF ReleasePayment, AtPoint
<1>13. CASE ReleaseMilestone(c) BY <1>13, <1>3 DEF ReleaseMilestone, AtPoint
<1>14. CASE ReleaseEvent(c) BY <1>14, <1>4 DEF ReleaseEvent, AtPoint
<1>15. CASE BeginRefund(c) BY <1>15, <1>2 DEF BeginRefund
<1>16. CASE BeginWebhook(c) BY <1>16, <1>2 DEF BeginWebhook
<1>17. CASE Webhook(c) BY <1>17, <1>4 DEF Webhook, AtPoint
<1>18. CASE Abort(c) /\ call[c].at # "book" BY <1>18, <1>4 DEF Abort
<1>. QED BY <1>5, <1>6, <1>7, <1>8, <1>9, <1>10, <1>11, <1>12, <1>13, <1>14, <1>15, <1>16,
            <1>17, <1>18 DEF Step

LEMMA BookInvInductive ==
    ASSUME TypeOK, BookInv, [Next]_vars
    PROVE  BookInv'
<1>0. /\ razorpay \in Int /\ booked \in Int /\ unbooked \in Int
      /\ Cardinality(Coins) \in Nat
      /\ \A c \in Calls : call[c].amount \in Int
  BY Numbers, FS_CardinalityType DEF BookInv, TypeOK
<1>1. ASSUME NEW c \in Calls, BooksSame(c), UNCHANGED <<razorpay, booked, unbooked>>
      PROVE  BookInv'
  BY <1>1, SameCoins DEF BookInv
<1>2. ASSUME NEW c \in Calls, Refund(c)
      PROVE  BookInv'
  <2>1. call[c].at # "book" BY <1>2 DEF Refund, AtPoint
  <2>2. IsFiniteSet(Coins') /\ Cardinality(Coins') = Cardinality(Coins) + call[c].amount
    BY <1>2, <2>1, RefundFacts, CoinsJoin
  <2>3. razorpay' = razorpay + call[c].amount /\ UNCHANGED <<booked, unbooked>>
    BY <1>2 DEF Refund
  <2>. QED BY <1>0, <2>2, <2>3 DEF BookInv
<1>3. ASSUME NEW c \in Calls, Book(c)
      PROVE  BookInv'
  <2>1. call[c].at = "book" /\ call'[c] = Idle /\ \A d \in Calls \ {c} : call'[d] = call[d]
    BY <1>3 DEF Book, AtPoint, End, TypeOK
  <2>2. IsFiniteSet(Coins') /\ Cardinality(Coins') = Cardinality(Coins) - call[c].amount
    BY <2>1, CoinsLeave DEF Idle
  <2>3. booked' = booked + call[c].amount /\ UNCHANGED <<razorpay, unbooked>>
    BY <1>3 DEF Book
  <2>. QED BY <1>0, <2>2, <2>3 DEF BookInv
<1>4. ASSUME NEW c \in Calls, Abort(c), call[c].at = "book"
      PROVE  BookInv'
  <2>1. call'[c] = Idle /\ \A d \in Calls \ {c} : call'[d] = call[d]
    BY <1>4 DEF Abort, End, TypeOK
  <2>2. IsFiniteSet(Coins') /\ Cardinality(Coins') = Cardinality(Coins) - call[c].amount
    BY <1>4, <2>1, CoinsLeave DEF Idle
  <2>3. unbooked' = unbooked + call[c].amount /\ UNCHANGED <<razorpay, booked>>
    BY <1>4 DEF Abort
  <2>. QED BY <1>0, <2>2, <2>3 DEF BookInv
<1>5. CASE Replicate \/ UNCHANGED vars
  <2>1. UNCHANGED <<call, razorpay, booked, unbooked>>
    BY <1>5 DEF Replicate, vars, books
  <2>2. Coins' = Coins BY <2>1 DEF Coins, CoinsOf
  <2>. QED BY <2>1, <2>2 DEF BookInv
<1>. QED BY <1>1, <1>2, <1>3, <1>4, <1>5, OtherSteps DEF Next

\* What Razorpay returned is in the refund table (RefundService.processRefund) once
\* no call is between the two, except for refunds whose call died there.
THEOREM EveryRefundIsBooked == Spec => []RefundsAreBooked
<1>1. Init => BookInv
  <2>. SUFFICES ASSUME Init PROVE BookInv OBVIOUS
  <2>1. Coins = {} BY DEF Init, Coins, Idle
  <2>. QED BY <2>1, FS_EmptySet DEF Init, BookInv
<1>2. TypeOK /\ BookInv => RefundsAreBooked
  <2>. SUFFICES ASSUME TypeOK, BookInv, \A c \in Calls : call[c].at # "book"
                PROVE  razorpay = booked + unbooked
    BY DEF RefundsAreBooked
  <2>1. Coins = {} BY DEF Coins
  <2>. QED BY <2>1, FS_EmptySet DEF BookInv, TypeOK
<1>. QED BY <1>1, <1>2, BookInvInductive, TypeCorrect, PTL DEF Spec
-----------------------------------------------------------------------------
(* A released payment stays paid *)

\* No row yet, or an intent that Razorpay has not answered.
Fresh(v) == v.status \in {"none", "CREATED"} /\ ~v.external

\* A call that is not on its way to writing an existing payment.
Harmless(k) ==
    /\ k.op \notin {"cancel", "captured", "failed", "dispute", "refund"}
    /\ ~(k.op = "release" /\ k.at = "write")

Untouched ==
    /\ Fresh(db) /\ Fresh(replica) /\ \A i \in 1..Len(lag) : Fresh(lag[i])
    /\ \A c \in Calls : Harmless(call[c])

AtOrder(k) == k.op = "intent" /\ k.at = "order"

\* Before Razorpay has answered the intent nobody has seen a payment to change, so
\* the answer never overwrites what another call wrote.
OrderInv ==
    /\ db.status = "none" => Untouched /\ \A c \in Calls : ~AtOrder(call[c])
    /\ \A c \in Calls : AtOrder(call[c]) => Untouched /\ db.status = "CREATED"
    /\ \A c, d \in Calls : AtOrder(call[c]) /\ AtOrder(call[d]) => c = d

SettledInv ==
    settled /\ ~stale => db.status \notin {"none", "CREATED", "PENDING", "CANCELLED"}

\* What the three helpers make of a call.
LEMMA CallSteps ==
    ASSUME TypeOK, NEW c \in Calls
    PROVE  /\ \A op, at, a, seen : Start(c, op, at, a, seen) =>
                  /\ call'[c].op = op /\ call'[c].at = at
                  /\ \A d \in Calls \ {c} : call'[d] = call[d]
           /\ \A at : Goto(c, at) =>
                  /\ call'[c].op = call[c].op /\ call'[c].at = at
                  /\ \A d \in Calls \ {c} : call'[d] = call[d]
           /\ End(c) => /\ call'[c] = Idle
                        /\ \A d \in Calls \ {c} : call'[d] = call[d]
<1>1. call \in [Calls -> CallRecords] BY DEF TypeOK, CallRecords
<1>2. ASSUME NEW op, NEW at, NEW a, NEW seen, Start(c, op, at, a, seen)
      PROVE  /\ call'[c].op = op /\ call'[c].at = at
             /\ \A d \in Calls \ {c} : call'[d] = call[d]
  <2>1. call'[c] = [op |-> op, at |-> at, amount |-> a, seen |-> seen]
    BY <1>1, <1>2 DEF Start
  <2>2. \A d \in Calls \ {c} : call'[d] = call[d] BY <1>1, <1>2 DEF Start
  <2>. QED BY <2>1, <2>2
<1>3. ASSUME NEW at, Goto(c, at)
      PROVE  /\ call'[c].op = call[c].op /\ call'[c].at = at
             /\ \A d \in Calls \ {c} : call'[d] = call[d]
  BY <1>1, <1>3 DEF Goto, CallRecords
<1>4. ASSUME End(c)
      PROVE  call'[c] = Idle /\ \A d \in Calls \ {c} : call'[d] = call[d]
  BY <1>1, <1>4 DEF End
<1>. QED BY <1>2, <1>3, <1>4

\* A status is written into the row and nothing else changes in it.
LEMMA StatusWritten ==
    ASSUME TypeOK, NEW s \in Statuses, SetStatus(s)
    PROVE  /\ db'.status = s /\ db'.external = db.external
           /\ replica' \in {db', replica}
           /\ \A i \in 1..Len(lag') : lag'[i] = db' \/ (i \in 1..Len(lag) /\ lag'[i] = lag[i])
<1>1. [db EXCEPT !.status = s] \in Rows BY DEF TypeOK, Rows
<1>2. db' = [db EXCEPT !.status = s]
      /\ replica' \in {db', replica}
      /\ \A i \in 1..Len(lag') : lag'[i] = db' \/ (i \in 1..Len(lag) /\ lag'[i] = lag[i])
  BY <1>1, WriteVersions DEF SetStatus
<1>. QED BY <1>2 DEF TypeOK, Rows

LEMMA BookedStatus ==
    ASSUME TypeOK, NEW c \in Calls, Book(c)
    PROVE  db'.status \in {"REFUNDED", "COMPLETED"}
<1>. DEFINE new == [db EXCEPT !.refunded = NewRefunded(c),
                        !.status = IF NewRefunded(c) >= Amount THEN "REFUNDED" ELSE "COMPLETED"]
<1>1. db' = new BY DEF Book, Write
<1>2. db \in Rows BY DEF TypeOK
<1>. QED BY <1>1, <1>2 DEF Rows

\* While the payment is untouched, calls come and go without writing it, except
\* those that create it and the answer to the intent.
LEMMA UntouchedSteps ==
    ASSUME TypeOK, Untouched, NEW c \in Calls, Step(c) \/ Abort(c),
           ~BeginIntent(c), ~BeginManual(c), ~Order(c)
    PROVE  /\ Harmless(call'[c]) /\ ~AtOrder(call'[c])
           /\ \A d \in Calls \ {c} : call'[d] = call[d]
           /\ UNCHANGED <<db, replica, lag>>
<1>. USE DEF Harmless, AtOrder, AtPoint, payment
<1>0. Harmless(call[c]) BY DEF Untouched
<1>1. CASE BeginCancel(c) BY <1>1 DEF BeginCancel, CanCancel, Untouched, Fresh
<1>2. CASE Cancel(c) BY <1>0, <1>2 DEF Cancel
<1>3. CASE ManualEvent(c) BY <1>3, CallSteps DEF ManualEvent, Idle
<1>4. CASE BeginRelease(c)
  <2>1. ~FindsPending(replica) BY DEF FindsPending, Untouched, Fresh
  <2>2. Start(c, "release", "milestone", 0, 0) /\ UNCHANGED payment
    BY <1>4, <2>1 DEF BeginRelease
  <2>3. /\ call'[c].op = "release" /\ call'[c].at = "milestone"
        /\ \A d \in Calls \ {c} : call'[d] = call[d]
    BY <2>2, CallSteps
  <2>. QED BY <2>2, <2>3
<1>5. CASE ReleasePayment(c) BY <1>0, <1>5 DEF ReleasePayment
<1>6. CASE ReleaseMilestone(c) BY <1>6, CallSteps DEF ReleaseMilestone
<1>7. CASE ReleaseEvent(c) BY <1>7, CallSteps DEF ReleaseEvent, Idle
<1>8. CASE BeginRefund(c) BY <1>8 DEF BeginRefund, CanRefund, Untouched, Fresh
<1>9. CASE Refund(c) BY <1>0, <1>9 DEF Refund
<1>10. CASE Book(c) BY <1>0, <1>10 DEF Book
<1>11. CASE BeginWebhook(c)
  BY <1>11 DEF BeginWebhook, CanCapture, CanHandle, Untouched, Fresh
<1>12. CASE Webhook(c) BY <1>0, <1>12 DEF Webhook
<1>13. CASE Abort(c) BY <1>13, CallSteps DEF Abort, Idle
<1>. QED BY <1>1, <1>2, <1>3, <1>4, <1>5, <1>6, <1>7, <1>8, <1>9, <1>10, <1>11, <1>12,
            <1>13 DEF Step

\* Only an intent that begins comes to wait for an order, and no row disappears.
LEMMA RowStays ==
    ASSUME TypeOK, NEW c \in Calls, Step(c) \/ Abort(c), ~BeginIntent(c)
    PROVE  /\ \A d \in Calls : AtOrder(call'[d]) => AtOrder(call[d]) /\ d # c
           /\ db.status # "none" => db'.status # "none"
<1>1. ASSUME NEW at, NEW op, NEW a, NEW seen, Start(c, op, at, a, seen), op # "intent" \/ at # "order"
      PROVE  \A d \in Calls : AtOrder(call'[d]) => AtOrder(call[d]) /\ d # c
  <2>1. ~AtOrder(call'[c]) BY <1>1, CallSteps DEF AtOrder
  <2>. QED BY <1>1, <2>1, CallSteps
<1>2. ASSUME NEW at, Goto(c, at), at # "order"
      PROVE  \A d \in Calls : AtOrder(call'[d]) => AtOrder(call[d]) /\ d # c
  <2>1. ~AtOrder(call'[c]) BY <1>2, CallSteps DEF AtOrder
  <2>. QED BY <1>2, <2>1, CallSteps
<1>3. ASSUME End(c)
      PROVE  \A d \in Calls : AtOrder(call'[d]) => AtOrder(call[d]) /\ d # c
  <2>1. ~AtOrder(call'[c]) BY <1>3, CallSteps DEF AtOrder, Idle
  <2>. QED BY <1>3, <2>1, CallSteps
<1>4. \A s \in PlainStatuses : SetStatus(s) => db'.status # "none"
  BY StatusWritten, Names DEF PlainStatuses
<1>5. \A s \in {"CREATED", "PENDING", "COMPLETED", "FAILED", "DISPUTED", "CANCELLED"} :
          s \in PlainStatuses
  BY DEF PlainStatuses
<1>. USE DEF payment
<1>6. CASE BeginCancel(c) BY <1>6, <1>1 DEF BeginCancel
<1>7. CASE Cancel(c) BY <1>7, <1>3, <1>4, <1>5 DEF Cancel
<1>8. CASE Order(c) BY <1>8, <1>3, <1>4, <1>5 DEF Order
<1>9. CASE BeginManual(c) BY <1>9, <1>1, <1>4, <1>5 DEF BeginManual
<1>10. CASE ManualEvent(c) BY <1>10, <1>3 DEF ManualEvent
<1>11. CASE BeginRelease(c)
  <2>1. PICK at : Start(c, "release", at, 0, 0) BY <1>11 DEF BeginRelease
  <2>. QED BY <1>11, <2>1, <1>1 DEF BeginRelease
<1>12. CASE ReleasePayment(c) BY <1>12, <1>2, <1>4, <1>5 DEF ReleasePayment
<1>13. CASE ReleaseMilestone(c) BY <1>13, <1>2 DEF ReleaseMilestone
<1>14. CASE ReleaseEvent(c) BY <1>14, <1>3 DEF ReleaseEvent
<1>15. CASE BeginRefund(c) BY <1>15, <1>1 DEF BeginRefund
<1>16. CASE Refund(c) BY <1>16, <1>2 DEF Refund
<1>17. CASE Book(c)
  <2>1. db'.status # "none" BY <1>17, BookedStatus
  <2>2. End(c) BY <1>17 DEF Book
  <2>. QED BY <2>1, <2>2, <1>3
<1>18. CASE BeginWebhook(c) BY <1>18, <1>1 DEF BeginWebhook
<1>19. CASE Webhook(c) BY <1>19, <1>3, <1>4, <1>5 DEF Webhook
<1>20. CASE Abort(c) BY <1>20, <1>3 DEF Abort
<1>. QED BY <1>6, <1>7, <1>8, <1>9, <1>10, <1>11, <1>12, <1>13, <1>14, <1>15, <1>16, <1>17,
            <1>18, <1>19, <1>20 DEF Step

LEMMA StepKeepsOrderInv ==
    ASSUME TypeOK, OrderInv, NEW c \in Calls, Step(c) \/ Abort(c)
    PROVE  OrderInv'
<1>1. CASE BeginIntent(c)
  <2>1. db.status = "none" /\ SetStatus("CREATED") /\ Start(c, "intent", "order", 0, 0)
    BY <1>1 DEF BeginIntent
  <2>2. Untouched /\ \A d \in Calls : ~AtOrder(call[d]) BY <2>1 DEF OrderInv
  <2>3. /\ db'.status = "CREATED" /\ db'.external = db.external
        /\ replica' \in {db', replica}
        /\ \A i \in 1..Len(lag') : lag'[i] = db' \/ (i \in 1..Len(lag) /\ lag'[i] = lag[i])
    BY <2>1, StatusWritten, Names
  <2>4. Fresh(db)' /\ Fresh(replica)' /\ \A i \in 1..Len(lag') : Fresh(lag'[i])
    BY <2>2, <2>3 DEF Untouched, Fresh
  <2>5. /\ call'[c].op = "intent" /\ call'[c].at = "order"
        /\ \A d \in Calls \ {c} : call'[d] = call[d]
    BY <2>1, CallSteps
  <2>6. Harmless(call'[c]) BY <2>5 DEF Harmless
  <2>7. \A d \in Calls : Harmless(call'[d]) BY <2>2, <2>5, <2>6 DEF Untouched
  <2>8. \A d \in Calls : AtOrder(call'[d]) => d = c BY <2>2, <2>5
  <2>. QED BY <2>3, <2>4, <2>7, <2>8 DEF OrderInv, Untouched
<1>2. CASE ~BeginIntent(c) /\ db'.status # "none" /\ \A d \in Calls : ~AtOrder(call'[d])
  BY <1>2 DEF OrderInv
<1>3. CASE /\ ~BeginIntent(c) /\ Untouched
           /\ ~Order(c) /\ ~BeginManual(c)
  <2>1. /\ Harmless(call'[c]) /\ ~AtOrder(call'[c])
        /\ \A d \in Calls \ {c} : call'[d] = call[d]
        /\ UNCHANGED <<db, replica, lag>>
    BY <1>3, UntouchedSteps
  <2>2. \A d \in Calls : Harmless(call'[d]) BY <1>3, <2>1 DEF Untouched
  <2>3. Untouched' BY <1>3, <2>1, <2>2 DEF Untouched
  <2>4. \A d \in Calls : AtOrder(call'[d]) => AtOrder(call[d]) BY <2>1
  <2>. QED BY <2>1, <2>3, <2>4 DEF OrderInv
<1>4. CASE Order(c) \/ BeginManual(c)
  <2>1. db'.status # "none"
    BY <1>4, StatusWritten, Names DEF Order, BeginManual
  <2>2. ~BeginIntent(c)
    <3>1. Order(c) => call[c].op = "intent" BY DEF Order, AtPoint
    <3>2. BeginManual(c) => call'[c].op = "manual" BY CallSteps DEF BeginManual
    <3>3. BeginIntent(c) => call[c].op = "idle" BY DEF BeginIntent, Start, Idle
    <3>4. BeginIntent(c) => call'[c].op = "intent" BY CallSteps DEF BeginIntent
    <3>. QED BY <1>4, <3>1, <3>2, <3>3, <3>4
  <2>3. \A d \in Calls : AtOrder(call'[d]) => AtOrder(call[d]) /\ d # c
    BY <2>2, RowStays
  <2>4. \A d \in Calls : AtOrder(call[d]) => d = c
    BY <1>4 DEF OrderInv, Order, BeginManual, AtPoint, AtOrder
  <2>. QED BY <2>1, <2>2, <2>3, <2>4, <1>2
<1>5. CASE ~BeginIntent(c) /\ ~Untouched
  <2>1. db.status # "none" /\ \A d \in Calls : ~AtOrder(call[d]) BY <1>5 DEF OrderInv
  <2>. QED BY <1>2, <1>5, <2>1, RowStays
<1>. QED BY <1>1, <1>3, <1>4, <1>5

LEMMA StepKeepsSettledInv ==
    ASSUME TypeOK, OrderInv, SettledInv, NEW c \in Calls, Step(c) \/ Abort(c)
    PROVE  SettledInv'
<1>. USE StatusWritten, Names DEF SettledInv
<1>1. CASE Cancel(c)
  BY <1>1 DEF Cancel, CanCancel, TypeOK
<1>2. CASE BeginIntent(c) \/ BeginManual(c)
  BY <1>2 DEF BeginIntent, BeginManual, rest
<1>3. CASE Order(c)
  <2>1. db.status = "CREATED" BY <1>3 DEF OrderInv, Order, AtPoint, AtOrder
  <2>. QED BY <1>3, <2>1 DEF Order, rest
<1>4. CASE ReleasePayment(c)
  BY <1>4 DEF ReleasePayment
<1>5. CASE Book(c)
  BY <1>5, BookedStatus DEF Book
<1>6. CASE Webhook(c)
  BY <1>6 DEF Webhook
<1>7. CASE /\ ~Cancel(c) /\ ~BeginIntent(c) /\ ~BeginManual(c) /\ ~Order(c)
           /\ ~ReleasePayment(c) /\ ~Book(c) /\ ~Webhook(c)
  <2>1. UNCHANGED <<db, settled, stale>>
    BY <1>7 DEF Step, BeginCancel, ManualEvent, BeginRelease, ReleaseMilestone, ReleaseEvent,
                BeginRefund, Refund, BeginWebhook, Abort, payment, rest
  <2>. QED BY <2>1
<1>. QED BY <1>1, <1>2, <1>3, <1>4, <1>5, <1>6, <1>7

\* A payment that releaseMilestonePayment completed is not pending or cancelled
\* later, unless a cancellation or a release ran on a stale snapshot.
THEOREM ReleasedPaymentsStayPaid == Spec => []ReleasedStaysPaid
<1>1. Init => OrderInv /\ SettledInv
  <2>. SUFFICES ASSUME Init PROVE OrderInv /\ SettledInv OBVIOUS
  <2>1. \A c \in Calls : call[c] = Idle BY DEF Init
  <2>2. db.status = "none" => Untouched
    BY <2>1 DEF Init, Untouched, Fresh, Harmless, NoPayment, PaidPayment, Idle
  <2>. QED BY <2>1, <2>2 DEF Init, OrderInv, SettledInv, AtOrder, Idle
<1>2. TypeOK /\ OrderInv /\ SettledInv /\ [Next]_vars => OrderInv' /\ SettledInv'
  <2>. SUFFICES ASSUME TypeOK, OrderInv, SettledInv, [Next]_vars
                PROVE  OrderInv' /\ SettledInv'
    OBVIOUS
  <2>1. CASE \E c \in Calls : Step(c) \/ Abort(c)
    BY <2>1, StepKeepsOrderInv, StepKeepsSettledInv
  <2>2. CASE Replicate
    <3>1. UNCHANGED <<db, call, settled, stale>> BY <2>2 DEF Replicate, rest
    <3>2. Untouched => Untouched' BY <2>2, <3>1, ReplicateVersions DEF Untouched
    <3>. QED BY <3>1, <3>2 DEF OrderInv, SettledInv
  <2>3. CASE UNCHANGED vars
    BY <2>3 DEF vars, payment, rest, OrderInv, SettledInv, Untouched
  <2>. QED BY <2>1, <2>2, <2>3 DEF Next
<1>3. SettledInv => ReleasedStaysPaid BY DEF SettledInv, ReleasedStaysPaid
<1>. QED BY <1>1, <1>2, <1>3, TypeCorrect, PTL DEF Spec
-----------------------------------------------------------------------------
(* One call at a time, on the primary *)

\* No replica is configured and calls do not overlap.
OneAtATime == MaxLag = 0 /\ \A c, d \in Calls : c = d

\* Then what a call was checked on is what it writes over, and a refund goes out blind
\* only after one whose call died before booking it.
SerialInv ==
    /\ lag = <<>> /\ replica = db
    /\ ~stale
    /\ \A c \in Calls :
           /\ AtPoint(c, "cancel", "write") => CanCancel(db)
           /\ AtPoint(c, "release", "write") => FindsPending(db)
           /\ AtPoint(c, "refund", "razorpay") => call[c].seen = db.refunded
    /\ unbooked = 0 => ~blind

\* A step of the only call, after which it is at none of the points that remember
\* what the call was checked on.
LEMMA OtherPoints ==
    ASSUME OneAtATime, SerialInv, NEW c \in Calls,
           UNCHANGED payment \/ \E new : Write(new),
           UNCHANGED <<unbooked, blind>>, ~stale',
           \/ call'[c].op \notin {"cancel", "release", "refund"}
           \/ call'[c].at \notin {"write", "razorpay"}
    PROVE  SerialInv'
<1>1. lag' = <<>> /\ replica' = db' BY DEF OneAtATime, SerialInv, payment, Write
<1>2. \A d \in Calls : d = c BY DEF OneAtATime
<1>3. QED BY <1>1, <1>2 DEF SerialInv, AtPoint

LEMMA SerialStep ==
    ASSUME OneAtATime, TypeOK, SightedRefundsAreExact, RefundsAreBooked, SerialInv, [Next]_vars
    PROVE  SerialInv'
<1>. USE DEF rest, books
<1>0. /\ call \in [Calls -> CallRecords] /\ razorpay \in Nat /\ booked \in Nat /\ unbooked \in Nat
      /\ ~stale /\ replica = db
  BY DEF TypeOK, CallRecords, SerialInv
<1>1. ASSUME NEW c \in Calls, Cancel(c) \/ ReleasePayment(c) PROVE SerialInv'
  <2>1. ~stale' /\ UNCHANGED <<unbooked, blind>>
    BY <1>0, <1>1 DEF Cancel, ReleasePayment, SerialInv
  <2>2. call'[c].at = "milestone" \/ call'[c].op = "idle"
    BY <1>0, <1>1 DEF Cancel, ReleasePayment, End, Goto, Idle, CallRecords
  <2>3. \E new : Write(new) BY <1>1 DEF Cancel, ReleasePayment, SetStatus
  <2>4. QED BY <2>1, <2>2, <2>3, OtherPoints
<1>2. ASSUME NEW c \in Calls,
             \/ BeginIntent(c) \/ Order(c) \/ BeginManual(c) \/ ManualEvent(c)
             \/ ReleaseMilestone(c) \/ ReleaseEvent(c) \/ BeginWebhook(c) \/ Webhook(c)
      PROVE  SerialInv'
  <2>1. UNCHANGED <<unbooked, blind, stale>>
    BY <1>2
    DEF BeginIntent, Order, BeginManual, ManualEvent, ReleaseMilestone, ReleaseEvent,
        BeginWebhook, Webhook
  <2>2. \/ call'[c].op \notin {"cancel", "release", "refund"}
        \/ call'[c].at \notin {"write", "razorpay"}
    BY <1>0, <1>2
    DEF BeginIntent, Order, BeginManual, ManualEvent, ReleaseMilestone, ReleaseEvent,
        BeginWebhook, Webhook, Start, End, Goto, Idle, CallRecords
  <2>3. UNCHANGED payment \/ \E new : Write(new)
    BY <1>2
    DEF BeginIntent, Order, BeginManual, ManualEvent, ReleaseMilestone, ReleaseEvent,
        BeginWebhook, Webhook, SetStatus
  <2>4. QED BY <1>0, <2>1, <2>2, <2>3, OtherPoints
<1>3. ASSUME NEW c \in Calls, BeginCancel(c) \/ BeginRelease(c) \/ BeginRefund(c)
      PROVE  SerialInv'
  <2>1. \A d \in Calls : d = c BY DEF OneAtATime
  <2>2. UNCHANGED <<db, replica, lag, unbooked, blind, stale>>
    BY <1>3 DEF BeginCancel, BeginRelease, BeginRefund, payment
  <2>3. /\ AtPoint(c, "cancel", "write")' => CanCancel(db)
        /\ AtPoint(c, "release", "write")' => FindsPending(db)
        /\ AtPoint(c, "refund", "razorpay")' => call'[c].seen = db.refunded
    BY <1>0, <1>3 DEF BeginCancel, BeginRelease, BeginRefund, Start, AtPoint, CallRecords
  <2>4. QED BY <2>1, <2>2, <2>3 DEF SerialInv, AtPoint, CanCancel, FindsPending
<1>4. ASSUME NEW c \in Calls, Refund(c) PROVE SerialInv'
  <2>1. \A d \in Calls : d = c BY DEF OneAtATime
  <2>2. call[c].at = "razorpay" /\ call[c].seen = db.refunded
    BY <1>4 DEF Refund, AtPoint, SerialInv
  <2>3. razorpay = booked + unbooked BY <2>1, <2>2 DEF RefundsAreBooked
  <2>4. unbooked = 0 => ~blind /\ db.refunded = razorpay
    BY <1>0, <2>3 DEF SerialInv, SightedRefundsAreExact
  <2>5. /\ UNCHANGED <<db, replica, lag, unbooked, stale>>
        /\ blind' = (blind \/ call[c].seen # razorpay)
    BY <1>4 DEF Refund, payment
  <2>6. unbooked' = 0 => ~blind' BY <2>2, <2>4, <2>5
  <2>7. call'[c].at = "book" BY <1>0, <1>4 DEF Refund, Goto, CallRecords
  <2>8. QED BY <2>1, <2>5, <2>6, <2>7 DEF SerialInv, AtPoint
<1>5. ASSUME NEW c \in Calls, Book(c) PROVE SerialInv'
  <2>1. UNCHANGED <<unbooked, blind, stale>> /\ \E new : Write(new) BY <1>5 DEF Book
  <2>2. call'[c].op = "idle" BY <1>0, <1>5 DEF Book, End, Idle, CallRecords
  <2>3. QED BY <1>0, <2>1, <2>2, OtherPoints
<1>6. ASSUME NEW c \in Calls, Abort(c) PROVE SerialInv'
  <2>1. \A d \in Calls : d = c BY DEF OneAtATime
  <2>2. UNCHANGED <<db, replica, lag, blind, stale>> BY <1>6 DEF Abort, payment
  <2>3. unbooked' = 0 => unbooked = 0
    <3>1. call[c].amount \in Nat BY <1>0, ConstantsAssumption DEF CallRecords
    <3>2. QED BY <1>0, <1>6, <3>1 DEF Abort
  <2>4. call'[c].op = "idle" BY <1>0, <1>6 DEF Abort, End, Idle, CallRecords
  <2>5. QED BY <2>1, <2>2, <2>3, <2>4 DEF SerialInv, AtPoint
<1>7. CASE Replicate \/ UNCHANGED vars
  BY <1>7 DEF Replicate, vars, payment, SerialInv, AtPoint
<1>8. QED BY <1>1, <1>2, <1>3, <1>4, <1>5, <1>6, <1>7 DEF Next, Step

\* The exceptions take a replica that is behind, a second call in progress, or a call
\* that died between Razorpay and the books: without, Razorpay returns no more than was
\* paid, the payment's total is what it returned once no refund is on its way to the
\* books, and a payment that a release completed stays paid (RefundService,
\* PaymentsAdminController.releaseMilestonePayment).
THEOREM OneCallKeepsTheBooks ==
    ASSUME OneAtATime
    PROVE  Spec =>
               []/\ unbooked = 0 =>
                       /\ razorpay <= Amount
                       /\ (\A c \in Calls : call[c].at # "book") => razorpay = db.refunded
                 /\ settled => db.status \notin {"PENDING", "CANCELLED"}
<1> DEFINE Exact == /\ unbooked = 0 =>
                          /\ razorpay <= Amount
                          /\ (\A c \in Calls : call[c].at # "book") => razorpay = db.refunded
                    /\ settled => db.status \notin {"PENDING", "CANCELLED"}
<1>1. Init => SerialInv
  BY DEF Init, SerialInv, AtPoint, Idle
<1>2. TypeOK /\ SightedRefundsAreExact /\ RefundsAreBooked /\ SerialInv /\ [Next]_vars
          => SerialInv'
  BY SerialStep
<1>3. TypeOK /\ SerialInv /\ SightedRefundsAreExact /\ RefundsAreBooked /\ ReleasedStaysPaid
          => Exact
  BY DEF TypeOK, SerialInv, SightedRefundsAreExact, RefundsAreBooked, ReleasedStaysPaid
<1>4. QED
  BY <1>1, <1>2, <1>3, TypeCorrect, SightedRefunds, EveryRefundIsBooked,
     ReleasedPaymentsStayPaid, PTL
  DEF Spec
=============================================================================
